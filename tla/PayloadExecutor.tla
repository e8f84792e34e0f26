-------------------------- MODULE PayloadExecutor --------------------------
(***************************************************************************)
(* The payload executor of the gateware with its Fetcher, the registered   *)
(* DFIExecutor outputs, the DFISwitch that takes the DFI bus away from the *)
(* memory controller (MC), and the RefreshCounter that watches the bus.    *)
(* A clock cycle is one step of all registers together: one action per     *)
(* state of the executor's FSM (RUN has one per outcome), conjoined with   *)
(* what the other registers do in that cycle.  Variables are registers,    *)
(* the other definitions are combinational signals.  Host writes to the    *)
(* CSRs and to the payload memory happen between clock edges.              *)
(***************************************************************************)
EXTENDS PayloadCode

CONSTANTS
    RefreshMod,  \* 2^64 in the gateware, the size of the refresh counter
    AtRefreshes, \* values the host writes to the at_refresh CSR
    CycleMod     \* 2^64 in the gateware, the size of the cycle counters

ASSUME RefreshAssumption ==
    /\ RefreshMod \in Nat \ {0}
    /\ AtRefreshes \subseteq 0 .. RefreshMod - 1
ASSUME CycleModAssumption == CycleMod \in Nat \ {0}

VARIABLES
    mem,            \* payload memory
    fsm,            \* state of the executor
    wants_dfi,      \* request to the switch
    loop_counter,
    idle_counter,
    instruction,    \* the word being executed
    mem_data,       \* output register of the synchronous memory port
    program_counter,
    program_counter_old,
    dfi,            \* command driven by the DFIExecutor's registers
    switch,         \* state of DFISwitch: who owns the bus
    refresh_counter,
    refresh_count,  \* the CSR the counter is latched into
    mc_ongoing_d,   \* the switch was at the MC one cycle ago
    at_refresh,     \* CSR
    with_refresh,   \* CSR: the MC sends refreshes
    exec_cycles     \* exec_stop - exec_start

executorVars ==
    <<fsm, wants_dfi, loop_counter, idle_counter, instruction, mem_data,
      program_counter, program_counter_old, dfi, exec_cycles>>
switchVars == <<switch, refresh_counter, refresh_count, mc_ongoing_d>>
hostVars == <<mem, at_refresh, with_refresh>>
vars == <<executorVars, switchVars, hostVars>>

PIPELINE_DELAY == 2

States == {"READY", "WAIT-DFI", "BUBBLE", "RUN", "IDLE"}
Executing == {"BUBBLE", "RUN", "IDLE"}

Init ==
    /\ mem \in InitialMemory
    /\ fsm = "READY"
    /\ wants_dfi = FALSE
    /\ loop_counter = 0
    /\ idle_counter = 0
    /\ instruction = I("NOOP", 0)
    /\ mem_data = I("NOOP", 0)
    /\ program_counter = 0
    /\ program_counter_old = 0
    /\ dfi = "NONE"
    /\ switch = "MC"
    /\ refresh_counter = 0
    /\ refresh_count = 0
    /\ mc_ongoing_d = FALSE
    /\ at_refresh = 0
    /\ with_refresh = TRUE
    /\ exec_cycles = 0

-----------------------------------------------------------------------------
(* Fetcher *)

stall == fsm \in {"READY", "WAIT-DFI", "IDLE"}

\* Mutant: the address changes in the cycle in which the pipeline stalls.
mem_addr_Direct == program_counter

mem_addr == IF stall THEN program_counter_old ELSE program_counter

\* Mutants: the address register is too wide; the jump forgets a prefetched word.
next_addr_Wide(jump) ==
    IF jump
    THEN (program_counter - instruction.jump - PIPELINE_DELAY) % Depth
    ELSE program_counter + 1
next_addr_Short(jump) ==
    IF jump
    THEN (program_counter - instruction.jump - 1) % Depth
    ELSE (program_counter + 1) % Depth

\* A jump makes up for the two words that were already fetched.
next_addr(jump) ==
    IF jump
    THEN (program_counter - instruction.jump - PIPELINE_DELAY) % Depth
    ELSE (program_counter + 1) % Depth

\* reset_pc is asserted in READY.
Fetch(jump) ==
    /\ mem_data' = mem[mem_addr]
    /\ instruction' = IF stall THEN instruction ELSE mem_data
    /\ program_counter' =
          CASE ~stall         -> next_addr(jump)
            [] fsm = "READY"  -> 0
            [] fsm \in {"WAIT-DFI", "IDLE"} -> program_counter
    /\ program_counter_old' =
          CASE ~stall         -> program_counter
            [] fsm = "READY"  -> 0
            [] fsm \in {"WAIT-DFI", "IDLE"} -> program_counter_old

-----------------------------------------------------------------------------
(* DFISwitch and RefreshCounter.  mc_refresh: the MC drives REF on phase 0 *)
(* in this cycle.  It reaches the memory only while the switch is at MC.   *)

refresh(mc_refresh) ==
    IF switch = "PE" THEN dfi = "REF" ELSE mc_refresh

\* Mutant: the comparison uses the count before the refresh.
refresh_matches_Late == at_refresh = 0 \/ at_refresh = refresh_counter

\* The comparison is done before the counter counts the refresh it waits for.
refresh_matches == at_refresh = 0 \/ at_refresh = refresh_counter + 1

\* Mutant: waits for a refresh although refreshing is disabled.
Grant_Always(mc_refresh) ==
    wants_dfi /\ refresh(mc_refresh) /\ refresh_matches

Grant(mc_refresh) ==
    /\ wants_dfi
    /\ with_refresh => refresh(mc_refresh) /\ refresh_matches

\* Mutant: the bus is given back in step with at_refresh, too.
Release_Synced == ~wants_dfi /\ refresh_matches

Release == ~wants_dfi

\* Mutant: the executor takes its request for a grant.
dfi_ready_Requested == wants_dfi

dfi_ready == switch = "PE"

Switch(mc_refresh, refresh_update) ==
    /\ switch' = IF switch = "MC"
                 THEN IF Grant(mc_refresh) THEN "PE" ELSE "MC"
                 ELSE IF Release THEN "MC" ELSE "PE"
    /\ refresh_counter' = IF refresh(mc_refresh)
                          THEN (refresh_counter + 1) % RefreshMod
                          ELSE refresh_counter
    /\ mc_ongoing_d' = (switch = "MC")
    /\ refresh_count' = IF (mc_ongoing_d /\ switch = "PE") \/ refresh_update
                        THEN refresh_counter
                        ELSE refresh_count

-----------------------------------------------------------------------------
(* Executor.  exec_start and exec_stop are read as a difference only.  The *)
(* host writes start after it has seen ready.                              *)

CountCycle == exec_cycles' = (exec_cycles + 1) % CycleMod

Ready ==
    /\ fsm = "READY"
    /\ \E start \in BOOLEAN :
          /\ fsm' = IF start THEN "WAIT-DFI" ELSE "READY"
          /\ wants_dfi' = (wants_dfi \/ start)
          /\ exec_cycles' = IF start THEN 0 ELSE exec_cycles
    /\ Fetch(FALSE)
    /\ dfi' = "NONE"
    /\ UNCHANGED <<loop_counter, idle_counter>>

WaitDfi ==
    /\ fsm = "WAIT-DFI"
    /\ IF dfi_ready
       THEN fsm' = "BUBBLE" /\ idle_counter' = PIPELINE_DELAY - 1
       ELSE UNCHANGED <<fsm, idle_counter>>
    /\ Fetch(FALSE)
    /\ dfi' = "NONE"
    /\ UNCHANGED <<wants_dfi, loop_counter, exec_cycles>>

\* The address has run over the end of the memory, or STOP; not before the
\* loop in progress is exhausted.
Finished ==
    /\ mem_addr = PIPELINE_DELAY - 1 \/ IsStop(instruction)
    /\ IsLoop(instruction) => loop_counter = instruction.count

RunFinish ==
    /\ fsm = "RUN"
    /\ Finished
    /\ wants_dfi' = FALSE
    /\ fsm' = "READY"
    /\ Fetch(FALSE)
    /\ dfi' = "NONE"
    /\ CountCycle
    /\ UNCHANGED <<loop_counter, idle_counter>>

RunJump ==
    /\ fsm = "RUN"
    /\ ~Finished
    /\ IsLoop(instruction)
    /\ loop_counter # instruction.count
    /\ loop_counter' = (loop_counter + 1) % LoopMod
    /\ fsm' = "BUBBLE"
    /\ idle_counter' = PIPELINE_DELAY - 1
    /\ Fetch(TRUE)
    /\ dfi' = "NONE"
    /\ CountCycle
    /\ UNCHANGED wants_dfi

RunLoopEnd ==
    /\ fsm = "RUN"
    /\ ~Finished
    /\ IsLoop(instruction)
    /\ loop_counter = instruction.count
    /\ loop_counter' = 0
    /\ Fetch(FALSE)
    /\ dfi' = "NONE"
    /\ CountCycle
    /\ UNCHANGED <<fsm, wants_dfi, idle_counter>>

\* Mutant: a time slice is one cycle too long.
IdleCycles_Long(i) == i.timeslice - 1

\* RUN and the last cycle in IDLE are part of the time slice.
IdleCycles(i) == i.timeslice - 2

RunCommand ==
    /\ fsm = "RUN"
    /\ ~Finished
    /\ ~IsLoop(instruction)
    /\ IF instruction.timeslice \in {0, 1}
       THEN UNCHANGED <<fsm, idle_counter>>
       ELSE /\ fsm' = "IDLE"
            /\ idle_counter' = IdleCycles(instruction)
    /\ Fetch(FALSE)
    /\ dfi' = Command(instruction)
    /\ CountCycle
    /\ UNCHANGED <<wants_dfi, loop_counter>>

\* IDLE waits for the time slice, BUBBLE for the pipeline to fill.
IdleOrBubble(state) ==
    /\ fsm = state
    /\ IF idle_counter = 0
       THEN fsm' = "RUN" /\ UNCHANGED idle_counter
       ELSE idle_counter' = idle_counter - 1 /\ UNCHANGED fsm
    /\ Fetch(FALSE)
    /\ dfi' = "NONE"
    /\ CountCycle
    /\ UNCHANGED <<wants_dfi, loop_counter>>

Idle == IdleOrBubble("IDLE")
Bubble == IdleOrBubble("BUBBLE")

Executor ==
    \/ Ready
    \/ WaitDfi
    \/ RunFinish
    \/ RunJump
    \/ RunLoopEnd
    \/ RunCommand
    \/ Idle
    \/ Bubble

\* One edge of the system clock.
Cycle(mc_refresh, refresh_update) ==
    /\ Executor
    /\ Switch(mc_refresh, refresh_update)
    /\ UNCHANGED hostVars

-----------------------------------------------------------------------------
(* Host *)

\* execute_payload waits for ready before it returns, so that the script writes
\* memory and CSRs between executions only.  refresh_update is the exception.
Load(p) ==
    /\ fsm = "READY"
    /\ mem' = Transfer(mem, p)
    /\ UNCHANGED <<executorVars, switchVars, at_refresh, with_refresh>>

WriteAtRefresh ==
    /\ fsm = "READY"
    /\ at_refresh' \in AtRefreshes
    /\ UNCHANGED <<executorVars, switchVars, mem, with_refresh>>

WriteRefresh ==
    /\ fsm = "READY"
    /\ with_refresh' = ~with_refresh
    /\ UNCHANGED <<executorVars, switchVars, mem, at_refresh>>

Next ==
    \/ \E mc_refresh, refresh_update \in BOOLEAN :
          Cycle(mc_refresh, refresh_update)
    \/ \E p \in Programs : Load(p)
    \/ WriteAtRefresh
    \/ WriteRefresh

Spec == Init /\ [][Next]_vars

\* The clock does not stop, whether or not the MC refreshes, and while the MC owns the bus with refreshing
\* enabled its Refresher sends another refresh every tREFI.
RefreshCycle ==
    /\ switch = "MC"
    /\ with_refresh
    /\ \E refresh_update \in BOOLEAN : Cycle(TRUE, refresh_update)

FairSpec ==
    /\ Spec
    /\ WF_vars(\E refresh_update \in BOOLEAN : Cycle(FALSE, refresh_update))
    /\ WF_vars(RefreshCycle)

-----------------------------------------------------------------------------
(* Properties *)

\* The registers hold values of their width, and the bus a command.
TypeOK ==
    /\ mem \in Memory
    /\ fsm \in States
    /\ wants_dfi \in BOOLEAN
    /\ loop_counter \in 0 .. LoopMod - 1
    /\ idle_counter \in Nat
    /\ instruction \in Instruction
    /\ mem_data \in Instruction
    /\ program_counter \in Address
    /\ program_counter_old \in Address
    /\ dfi \in (OpCode \ {"NOOP", "LOOP"}) \cup {"NONE"}
    /\ switch \in {"MC", "PE"}
    /\ refresh_counter \in 0 .. RefreshMod - 1
    /\ refresh_count \in 0 .. RefreshMod - 1
    /\ mc_ongoing_d \in BOOLEAN
    /\ at_refresh \in 0 .. RefreshMod - 1
    /\ with_refresh \in BOOLEAN
    /\ exec_cycles \in 0 .. CycleMod - 1

\* The neighbours of an address, around the end of the memory.
Succ(a) == IF a = Depth - 1 THEN 0 ELSE a + 1
Pred(a) == IF a = 0 THEN Depth - 1 ELSE a - 1

\* The word at which the payload's author would say the executor is.
position ==
    CASE fsm \in {"RUN", "IDLE"}              -> Pred(program_counter_old)
      [] fsm = "BUBBLE" /\ idle_counter = 0   -> program_counter_old
      [] fsm = "BUBBLE" /\ idle_counter # 0   -> program_counter
      [] fsm \in {"READY", "WAIT-DFI"}        -> 0

\* The pipeline never executes a word it should not: through stalls, jumps
\* and bubbles, the word to execute is the one at the position, and the one
\* prefetched behind it is its successor.
FetchCoherent ==
    /\ fsm \in {"RUN", "IDLE"} => instruction = mem[position]
    /\ fsm \in {"RUN", "IDLE"} \/ (fsm = "BUBBLE" /\ idle_counter = 0) =>
          /\ mem_data = mem[program_counter_old]
          /\ program_counter = Succ(program_counter_old)

\* No command of a payload is on the bus while the MC owns it, and the
\* executor does not advance before the switch has handed the bus over or
\* after it has given it back.
BusOwned ==
    /\ dfi # "NONE" => switch = "PE"
    /\ fsm \in Executing => switch = "PE" /\ wants_dfi

\* A payload restarted in the very cycle in which the previous one released
\* the bus waits for a new grant: a waiting executor only ever sees the first
\* cycle of one.
GrantFresh ==
    fsm = "WAIT-DFI" /\ switch = "PE" => mc_ongoing_d

\* A grant made under refreshing counts the refresh it was synchronised to,
\* and that is the refresh the host asked for; the count latched for the host
\* in the next cycle is exact, as no command can be on the bus yet.
GrantAtRefresh ==
    [][/\ (switch = "MC" /\ switch' = "PE" /\ with_refresh /\ at_refresh # 0) =>
              refresh_counter' = at_refresh
       /\ (switch = "PE" /\ mc_ongoing_d /\ mc_ongoing_d' = FALSE) =>
              refresh_count' = refresh_counter']_vars

\* What the three properties above rest on: request and state go together,
\* and the switch, the prefetch and the bubble follow.
Handshake ==
    /\ wants_dfi <=> fsm # "READY"
    /\ fsm \in Executing => switch = "PE"
    /\ dfi # "NONE" => fsm \in {"RUN", "IDLE"}
    /\ switch = "PE" /\ mc_ongoing_d => fsm = "WAIT-DFI"
    /\ fsm = "BUBBLE" => idle_counter \in {0, 1}
    /\ fsm = "WAIT-DFI" => program_counter = 0 /\ program_counter_old = 0

IndInv ==
    /\ TypeOK
    /\ InBounds(mem)
    /\ Handshake
    /\ GrantFresh
    /\ FetchCoherent

executing == fsm \in Executing
iteration == IF executing THEN loop_counter ELSE 0
remaining ==
    CASE fsm \in {"BUBBLE", "IDLE"}             -> idle_counter + 1
      [] fsm \in {"RUN", "READY", "WAIT-DFI"}   -> 0

ISA == INSTANCE PayloadISA WITH
    JumpCycles <- PIPELINE_DELAY,
    on   <- executing,
    at   <- position,
    iter <- iteration,
    left <- remaining,
    out  <- dfi

\* The pipelined executor behaves, cycle by cycle, as the instruction set
\* documented in Decoder: every word once and in order, TIMESLICE cycles each,
\* COUNT jumps per LOOP.
ImplementsISA == ISA!Spec

\* A payload that was started is eventually finished, if the refresh it is
\* to be synchronised to, if any, is still to come.
Completes ==
    fsm = "WAIT-DFI" /\ (at_refresh = 0 \/ at_refresh > refresh_counter)
        ~> fsm = "READY"
=============================================================================
