----------------------------- MODULE MCPayload -----------------------------
(* Small payload memories and payloads for PayloadExecutor. *)
EXTENDS PayloadTiming

Words == {I("NOOP", 0), I("NOOP", 2), I("ACT", 1), I("READ", 3), I("REF", 0),
          Loop(1, 0), Loop(1, 1), Loop(2, 2)}

InPlace(p) == \A k \in 1 .. Len(p) : IsLoop(p[k]) => p[k].jump < k

\* Every payload of up to three words; the fourth word of memory stays STOP.
ShortPrograms ==
    {p \in UNION {[1 .. n -> Words] : n \in 1 .. 3} : InPlace(p)}

\* Payloads that fill the memory, without a LOOP in the last word.
FullPrograms ==
    {p \in [1 .. 4 -> Words \ {I("NOOP", 0), I("READ", 3)}] :
        InPlace(p) /\ ~IsLoop(p[4])}

AllPrograms == ShortPrograms \cup FullPrograms

\* Transferred over what is resident: the words behind it stay.
Overwrites == {<<I("ACT", 1), Loop(2, 0)>>, <<I("NOOP", 2)>>}

\* Payloads with refreshes and without, for the handover of the bus.
HandoverPrograms ==
    {<<I("REF", 1), I("ACT", 2), Loop(1, 1), I("NOOP", 0)>>, <<I("NOOP", 0)>>}

============================================================================
