----------------------------- MODULE PayloadISA -----------------------------
(***************************************************************************)
(* What the payload executor promises to the author of a payload, as the   *)
(* documentation in Decoder states it: instructions run one after another, *)
(* each takes TIMESLICE cycles, LOOP jumps COUNT times and so its body     *)
(* runs COUNT + 1 times, and STOP ends the payload.  There is no pipeline  *)
(* here, no prefetched word and no bus handover.  A clock cycle is a step. *)
(***************************************************************************)
EXTENDS PayloadCode

CONSTANTS
    JumpCycles   \* cycles lost on entry and after every jump taken

VARIABLES
    mem,    \* payload memory
    on,     \* the payload is executing
    at,     \* the word to execute next
    iter,   \* jumps already taken by the loop in progress
    left,   \* cycles before the next word is executed
    out     \* the command on the DFI bus in this cycle

vars == <<mem, on, at, iter, left, out>>

Init ==
    /\ mem \in InitialMemory
    /\ on = FALSE
    /\ at = 0
    /\ iter = 0
    /\ left = 0
    /\ out = "NONE"

\* The host transfers a payload between executions.
Load(p) ==
    /\ ~on
    /\ mem' = Transfer(mem, p)
    /\ UNCHANGED <<on, at, iter, left, out>>

Begin ==
    /\ ~on
    /\ on' = TRUE
    /\ at' = 0
    /\ iter' = 0
    /\ left' = JumpCycles
    /\ out' = "NONE"
    /\ UNCHANGED mem

Wait ==
    /\ on
    /\ left > 0
    /\ left' = left - 1
    /\ out' = "NONE"
    /\ UNCHANGED <<mem, on, at, iter>>

\* Mutant: the loop ends after one jump more, which COUNT's width may not hold.
Exhausted_Past(i) == IsLoop(i) => iter > i.count

\* The loop in progress has jumped as often as its COUNT says.
Exhausted(i) == IsLoop(i) => iter = i.count

\* Execution ends at STOP and at the last word, which is never sent.
Halt ==
    /\ on
    /\ left = 0
    /\ IsStop(mem[at]) \/ at = Depth - 1
    /\ Exhausted(mem[at])
    /\ on' = FALSE
    /\ at' = 0
    /\ iter' = 0
    /\ out' = "NONE"
    /\ UNCHANGED <<mem, left>>

Jump ==
    /\ on
    /\ left = 0
    /\ IsLoop(mem[at])
    /\ ~Exhausted(mem[at])
    /\ at' = at - mem[at].jump
    /\ iter' = (iter + 1) % LoopMod
    /\ left' = JumpCycles
    /\ out' = "NONE"
    /\ UNCHANGED <<mem, on>>

FallThrough ==
    /\ on
    /\ left = 0
    /\ at # Depth - 1
    /\ IsLoop(mem[at])
    /\ Exhausted(mem[at])
    /\ at' = at + 1
    /\ iter' = 0
    /\ out' = "NONE"
    /\ UNCHANGED <<mem, on, left>>

Send ==
    /\ on
    /\ left = 0
    /\ at # Depth - 1
    /\ ~IsLoop(mem[at])
    /\ ~IsStop(mem[at])
    /\ at' = at + 1
    /\ left' = IF mem[at].timeslice = 0 THEN 0 ELSE mem[at].timeslice - 1
    /\ out' = Command(mem[at])
    /\ UNCHANGED <<mem, on, iter>>

Next ==
    \/ \E p \in Programs : Load(p)
    \/ Begin
    \/ Wait
    \/ Halt
    \/ Jump
    \/ FallThrough
    \/ Send

Spec == Init /\ [][Next]_vars
=============================================================================
