---------------------------- MODULE PayloadTiming ----------------------------
(***************************************************************************)
(* The host's estimate of how long a payload executes, compared with the   *)
(* cycles the executor measures.                                           *)
(***************************************************************************)
EXTENDS PayloadExecutor, FiniteSetsExt

\* The values at the addresses in S, added up in a loop over the memory.
Sums(value, S) ==
    LET sum[k \in 0 .. Depth] ==
            IF k = 0
            THEN 0
            ELSE sum[k - 1] + (IF k - 1 \in S THEN value[k - 1] ELSE 0)
    IN  sum
Sum(value, S) == Sums(value, S)[Depth]

Stops(m) == {a \in Address : IsStop(m[a])}
Body(m, a) == (a - m[a].jump) .. (a - 1)

Slices(m, S) == Sum([a \in Address |-> m[a].timeslice], S)

\* What a word adds: LOOP its body COUNT times, the others what is left of
\* their time slice after the cycle that every word up to STOP counts.
Cycles(m) ==
    [a \in Address |->
        CASE IsStop(m[a]) -> 1
          [] IsLoop(m[a]) -> 1 + m[a].count * Slices(m, Body(m, a))
          [] ~IsStop(m[a]) /\ ~IsLoop(m[a]) -> 1 + (m[a].timeslice - 1)]

ExpectedCycles(m) == Sum(Cycles(m), 0 .. Min(Stops(m)))

\* "there should be no STOP or LOOP instructions inside loop body", and only
\* NOOP may have a time slice of 0.
Estimable(m) ==
    /\ Stops(m) # {}
    /\ \A a \in 0 .. Min(Stops(m)) :
          /\ ~IsLoop(m[a]) /\ ~IsStop(m[a]) => m[a].timeslice > 0
          /\ IsLoop(m[a]) =>
                \A b \in Body(m, a) : ~IsLoop(m[b]) /\ ~IsStop(m[b])

\* The cycles the estimate leaves out: filling the pipeline once, and for
\* every jump the LOOP word and a bubble.
Jumps(m) == [a \in Address |-> IF IsLoop(m[a]) THEN m[a].count ELSE 0]
Overhead(m) ==
    PIPELINE_DELAY + (1 + PIPELINE_DELAY) * Sum(Jumps(m), 0 .. Min(Stops(m)))

\* When an execution ends, the executor has measured the host's estimate and
\* the pipeline overhead, to the cycle, in a counter that may wrap.
ExecutionTime ==
    fsm = "RUN" /\ Finished /\ Estimable(mem) =>
        (exec_cycles + 1) % CycleMod
            = (ExpectedCycles(mem) + Overhead(mem)) % CycleMod
=============================================================================
