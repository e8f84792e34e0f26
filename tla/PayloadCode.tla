---------------------------- MODULE PayloadCode ----------------------------
(***************************************************************************)
(* The instruction set of DRAM payloads: op codes, the fields the Decoder  *)
(* takes out of a 32-bit word, and the payload memory they are stored in.  *)
(* Bit positions and DRAM addresses are left out: no property looks at     *)
(* them.  The fields keep their meaning, and the widths that can overflow  *)
(* are constants.                                                          *)
(***************************************************************************)
EXTENDS Integers, Sequences

CONSTANTS
    Depth,      \* words of payload memory; the address counter has no spare code
    LoopMod,    \* 2^LOOP_COUNT, the size of the loop counter
    Programs,   \* the payloads the host may transfer, sequences of Instructions
    Resident    \* payloads transferred before the first step

OpCode == {"NOOP", "LOOP", "ACT", "PRE", "REF", "ZQC", "READ"}

\* What the Decoder drives: TIMESLICE for every op code but LOOP, COUNT and
\* JUMP for LOOP.  The fields an op code does not have are 0.
Instruction ==
    [op : OpCode, timeslice : Nat, count : 0 .. LoopMod - 1, jump : Nat]

\* DFI-mappable instruction
I(o, t) == [op |-> o, timeslice |-> t, count |-> 0, jump |-> 0]
Loop(c, j) == [op |-> "LOOP", timeslice |-> 0, count |-> c, jump |-> j]

\* NOOP with a TIMESLICE of 0
IsStop(i) == i.op = "NOOP" /\ i.timeslice = 0
IsLoop(i) == i.op = "LOOP"

\* What the memory sees of an instruction: the bus is deselected for NOOP.
Command(i) == IF i.op = "NOOP" THEN "NONE" ELSE i.op

Address == 0 .. Depth - 1
Memory == [Address -> Instruction]

\* Every LOOP jumps back to a word of the payload it is part of.
InBounds(m) == \A a \in Address : IsLoop(m[a]) => m[a].jump <= a

\* memwrite: the payload is written from word 0 on, and what an earlier and
\* longer payload left behind it stays.
Transfer(m, p) == [a \in Address |-> IF a < Len(p) THEN p[a + 1] ELSE m[a]]

InitialMemory == {Transfer([a \in Address |-> I("NOOP", 0)], p) : p \in Resident}

ASSUME DepthAssumption == Depth \in Nat /\ Depth >= 4
ASSUME LoopModAssumption == LoopMod \in Nat \ {0}
ASSUME ProgramsAssumption ==
    \A p \in Programs \cup Resident :
        /\ p \in Seq(Instruction)
        /\ Len(p) <= Depth
        /\ \A k \in 1 .. Len(p) : IsLoop(p[k]) => p[k].jump < k
=============================================================================
