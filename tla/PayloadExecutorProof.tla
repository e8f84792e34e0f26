------------------------ MODULE PayloadExecutorProof ------------------------
(***************************************************************************)
(* Proofs about PayloadExecutor for every memory depth, every counter      *)
(* width and every set of payloads whose loops jump back inside them: the  *)
(* invariants, the refinement of PayloadISA and the execution time.        *)
(***************************************************************************)
EXTENDS PayloadTiming, WellFoundedInduction, TLAPS

-----------------------------------------------------------------------------
(* Arithmetic of addresses *)

\* A remainder by a positive divisor is smaller than the divisor.
LEMMA ModRange ==
    ASSUME NEW x \in Int, NEW n \in Nat \ {0}
    PROVE  x % n \in 0 .. n - 1
  OBVIOUS

\* So address arithmetic stays in the memory.
LEMMA AddressMod ==
    ASSUME NEW x \in Int
    PROVE  x % Depth \in Address
  BY DepthAssumption DEF Address

\* Numbers below the divisor are their own remainder.
LEMMA ModSmall ==
    ASSUME NEW n \in Nat \ {0}, NEW x \in 0 .. n - 1
    PROVE  x % n = x
  OBVIOUS

\* One divisor below them, too.
LEMMA ModBelow ==
    ASSUME NEW n \in Nat \ {0}, NEW x \in 0 .. n - 1
    PROVE  (x - n) % n = x
  OBVIOUS

\* The Fetcher's increment wraps around the end of the memory.
LEMMA NextIsSucc ==
    ASSUME NEW a \in Address
    PROVE  (a + 1) % Depth = Succ(a)
<1>1. CASE a = Depth - 1
  <2>1. (a + 1) % Depth = Depth % Depth
    BY <1>1, DepthAssumption
  <2>2. Depth % Depth = 0
    BY DepthAssumption
  <2> QED BY <1>1, <2>1, <2>2 DEF Succ
<1>2. CASE a # Depth - 1
  <2>1. a + 1 \in 0 .. Depth - 1
    BY <1>2, DepthAssumption DEF Address
  <2> QED BY <1>2, <2>1, ModSmall, DepthAssumption DEF Succ
<1> QED BY <1>1, <1>2

\* What the jump subtracts leads from the prefetch address back to the word
\* that is JUMP words before the LOOP.
LEMMA JumpTarget ==
    ASSUME NEW a \in Address, NEW j \in Nat, j <= Pred(a)
    PROVE  (Succ(a) - j - 2) % Depth = Pred(a) - j
<1>1. CASE a = 0
  <2>1. Pred(a) = Depth - 1 /\ Succ(a) = 1
    BY <1>1, DepthAssumption DEF Pred, Succ
  <2>2. Depth - 1 - j \in 0 .. Depth - 1
    BY <2>1, DepthAssumption
  <2>3. Succ(a) - j - 2 = (Depth - 1 - j) - Depth
    BY <2>1, DepthAssumption
  <2> QED BY <2>1, <2>2, <2>3, ModBelow, DepthAssumption
<1>2. CASE a = Depth - 1
  <2>1. Pred(a) = Depth - 2 /\ Succ(a) = 0
    BY <1>2, DepthAssumption DEF Pred, Succ
  <2>2. Depth - 2 - j \in 0 .. Depth - 1
    BY <2>1, DepthAssumption
  <2>3. Succ(a) - j - 2 = (Depth - 2 - j) - Depth
    BY <2>1, DepthAssumption
  <2> QED BY <2>1, <2>2, <2>3, ModBelow, DepthAssumption
<1>3. CASE a # 0 /\ a # Depth - 1
  <2>1. Pred(a) = a - 1 /\ Succ(a) = a + 1
    BY <1>3, DepthAssumption DEF Pred, Succ
  <2>2. a - 1 - j \in 0 .. Depth - 1
    BY <2>1, DepthAssumption DEF Address
  <2>3. Succ(a) - j - 2 = a - 1 - j
    BY <2>1 DEF Address
  <2> QED BY <2>1, <2>2, <2>3, ModSmall, DepthAssumption
<1> QED BY <1>1, <1>2, <1>3

\* Transferring a payload leaves words in the memory, and loops in bounds.
LEMMA TransferKeeps ==
    ASSUME NEW m \in Memory, InBounds(m), NEW p \in Programs \cup Resident
    PROVE  Transfer(m, p) \in Memory /\ InBounds(Transfer(m, p))
<1>1. /\ p \in Seq(Instruction)
      /\ Len(p) \in Nat
      /\ \A k \in 1 .. Len(p) : IsLoop(p[k]) => p[k].jump < k
  BY ProgramsAssumption
<1>2. \A a \in Address : a < Len(p) => a + 1 \in 1 .. Len(p)
  BY <1>1 DEF Address
<1>3. \A a \in Address : a < Len(p) => p[a + 1] \in Instruction
  BY <1>1, <1>2
<1>4. Transfer(m, p) \in Memory
  BY <1>3 DEF Transfer, Memory
<1>5. ASSUME NEW a \in Address, IsLoop(Transfer(m, p)[a])
      PROVE  Transfer(m, p)[a].jump <= a
  <2>1. CASE a < Len(p)
    <3>1. Transfer(m, p)[a] = p[a + 1]
      BY <2>1 DEF Transfer
    <3>2. p[a + 1].jump < a + 1
      BY <1>1, <1>2, <1>5, <2>1, <3>1
    <3>3. p[a + 1].jump \in Nat
      BY <1>3, <2>1 DEF Instruction
    <3> QED BY <3>1, <3>2, <3>3 DEF Address
  <2>2. CASE ~(a < Len(p))
    <3>1. Transfer(m, p)[a] = m[a]
      BY <2>2 DEF Transfer
    <3> QED BY <3>1, <1>5 DEF InBounds
  <2> QED BY <2>1, <2>2
<1> QED BY <1>4, <1>5 DEF InBounds

-----------------------------------------------------------------------------
(* Types *)

\* The Fetcher's registers stay words and addresses.
LEMMA FetchType ==
    ASSUME TypeOK, NEW j \in BOOLEAN, Fetch(j)
    PROVE  /\ mem_data' \in Instruction
           /\ instruction' \in Instruction
           /\ program_counter' \in Address
           /\ program_counter_old' \in Address
<1>1. mem_addr \in Address
  BY DEF TypeOK, mem_addr
<1>2. mem_data' \in Instruction /\ instruction' \in Instruction
  BY <1>1 DEF Fetch, TypeOK, Memory
<1>3. next_addr(j) \in Address
  <2>1. program_counter - instruction.jump - PIPELINE_DELAY \in Int
    BY DEF TypeOK, Address, Instruction, PIPELINE_DELAY
  <2>2. program_counter + 1 \in Int
    BY DEF TypeOK, Address
  <2>3. (program_counter - instruction.jump - PIPELINE_DELAY) % Depth \in Address
    BY <2>1, AddressMod
  <2>4. (program_counter + 1) % Depth \in Address
    BY <2>2, AddressMod
  <2> QED BY <2>3, <2>4 DEF next_addr
<1>4. 0 \in Address
  BY DepthAssumption DEF Address
<1> QED BY <1>2, <1>3, <1>4 DEF Fetch, TypeOK, States, stall

\* So do the registers of the switch and of the refresh counter.
LEMMA SwitchType ==
    ASSUME TypeOK, NEW r \in BOOLEAN, NEW u \in BOOLEAN, Switch(r, u)
    PROVE  /\ switch' \in {"MC", "PE"}
           /\ refresh_counter' \in 0 .. RefreshMod - 1
           /\ refresh_count' \in 0 .. RefreshMod - 1
           /\ mc_ongoing_d' \in BOOLEAN
<1>1. (refresh_counter + 1) % RefreshMod \in 0 .. RefreshMod - 1
  BY ModRange, RefreshAssumption DEF TypeOK
<1> QED BY <1>1 DEF Switch, TypeOK

\* In every state the Fetcher takes a step.
LEMMA ExecutorFetches ==
    ASSUME Executor
    PROVE  \E j \in BOOLEAN : Fetch(j)
  BY Zenon DEF Executor, Ready, WaitDfi, RunFinish, RunJump, RunLoopEnd,
     RunCommand, Idle, Bubble, IdleOrBubble

\* The executor's own registers keep their types in every state of its FSM.
LEMMA ExecutorType ==
    ASSUME TypeOK, Executor
    PROVE  /\ fsm' \in States
           /\ wants_dfi' \in BOOLEAN
           /\ loop_counter' \in 0 .. LoopMod - 1
           /\ idle_counter' \in Nat
           /\ dfi' \in (OpCode \ {"NOOP", "LOOP"}) \cup {"NONE"}
           /\ exec_cycles' \in 0 .. CycleMod - 1
<1>1. (loop_counter + 1) % LoopMod \in 0 .. LoopMod - 1
  BY ModRange, LoopModAssumption DEF TypeOK
<1>2. (exec_cycles + 1) % CycleMod \in 0 .. CycleMod - 1
  BY ModRange, CycleModAssumption DEF TypeOK
<1>3. 0 \in 0 .. LoopMod - 1 /\ 0 \in 0 .. CycleMod - 1
  BY LoopModAssumption, CycleModAssumption
<1> USE DEF TypeOK, States, PIPELINE_DELAY
<1>4. CASE Ready
  BY <1>3, <1>4 DEF Ready
<1>5. CASE WaitDfi
  BY <1>5 DEF WaitDfi, dfi_ready
<1>6. CASE RunFinish
  BY <1>2, <1>6 DEF RunFinish, CountCycle
<1>7. CASE RunJump
  BY <1>1, <1>2, <1>7 DEF RunJump, CountCycle
<1>8. CASE RunLoopEnd
  BY <1>2, <1>3, <1>8 DEF RunLoopEnd, CountCycle
<1>9. CASE RunCommand
  <2>1. instruction.timeslice \in Nat /\ instruction.op \in OpCode
    BY DEF Instruction
  <2>2. Command(instruction) \in (OpCode \ {"NOOP", "LOOP"}) \cup {"NONE"}
    BY <1>9, <2>1 DEF RunCommand, Command, IsLoop
  <2>3. idle_counter' \in Nat
    BY <1>9, <2>1 DEF RunCommand, IdleCycles
  <2> QED BY <1>2, <1>9, <2>2, <2>3 DEF RunCommand, CountCycle
<1>10. ASSUME NEW s \in {"IDLE", "BUBBLE"}, IdleOrBubble(s)
       PROVE  /\ fsm' \in States
              /\ idle_counter' \in Nat
              /\ dfi' = "NONE"
              /\ UNCHANGED <<wants_dfi, loop_counter>>
              /\ CountCycle
  BY <1>10 DEF IdleOrBubble
<1>11. CASE Idle
  BY <1>2, <1>10, <1>11 DEF Idle, CountCycle
<1>12. CASE Bubble
  BY <1>2, <1>10, <1>12 DEF Bubble, CountCycle
<1> QED BY <1>4, <1>5, <1>6, <1>7, <1>8, <1>9, <1>11, <1>12 DEF Executor

\* A clock cycle and a host write keep all types.
LEMMA TypeStep ==
    ASSUME TypeOK, InBounds(mem), [Next]_vars
    PROVE  TypeOK' /\ InBounds(mem)'
<1>1. ASSUME NEW r \in BOOLEAN, NEW u \in BOOLEAN, Cycle(r, u)
      PROVE  TypeOK' /\ InBounds(mem)'
  <2>1. Executor /\ Switch(r, u) /\ UNCHANGED hostVars
    BY <1>1 DEF Cycle
  <2>2. PICK j \in BOOLEAN : Fetch(j)
    BY <2>1, ExecutorFetches
  <2>3. mem' = mem /\ at_refresh' = at_refresh /\ with_refresh' = with_refresh
    BY <2>1 DEF hostVars
  <2>4. InBounds(mem)'
    BY <2>3 DEF InBounds
  <2>5. TypeOK'
    BY <2>1, <2>2, <2>3, FetchType, SwitchType, ExecutorType DEF TypeOK
  <2> QED BY <2>4, <2>5
<1>2. ASSUME NEW p \in Programs, Load(p)
      PROVE  TypeOK' /\ InBounds(mem)'
  <2>1. mem' \in Memory /\ InBounds(mem')
    BY <1>2, TransferKeeps DEF Load, TypeOK
  <2>2. InBounds(mem)'
    BY <2>1 DEF InBounds
  <2>3. UNCHANGED <<executorVars, switchVars, at_refresh, with_refresh>>
    BY <1>2 DEF Load
  <2> QED BY <2>1, <2>2, <2>3 DEF TypeOK, executorVars, switchVars
<1>3. CASE WriteAtRefresh
  BY <1>3, RefreshAssumption
     DEF WriteAtRefresh, TypeOK, InBounds, executorVars, switchVars
<1>4. CASE WriteRefresh
  BY <1>4 DEF WriteRefresh, TypeOK, InBounds, executorVars, switchVars
<1>5. CASE UNCHANGED vars
  BY <1>5 DEF TypeOK, InBounds, vars, executorVars, switchVars, hostVars
<1> QED BY <1>1, <1>2, <1>3, <1>4, <1>5 DEF Next

-----------------------------------------------------------------------------
(* The inductive invariant *)

\* The registers' reset values satisfy the inductive invariant.
LEMMA InitInv == Init => IndInv
<1> SUFFICES ASSUME Init PROVE IndInv
  OBVIOUS
<1> DEFINE zero == [a \in Address |-> I("NOOP", 0)]
<1>1. I("NOOP", 0) \in Instruction /\ ~IsLoop(I("NOOP", 0))
  BY LoopModAssumption DEF I, Instruction, OpCode, IsLoop
<1>2. zero \in Memory /\ InBounds(zero)
  BY <1>1 DEF Memory, InBounds
<1>3. PICK p \in Resident : mem = Transfer(zero, p)
  BY DEF Init, InitialMemory
<1>4. mem \in Memory /\ InBounds(mem)
  BY <1>2, <1>3, TransferKeeps
<1>5. TypeOK
  <2>1. /\ 0 \in Address
        /\ 0 \in 0 .. LoopMod - 1
        /\ 0 \in 0 .. RefreshMod - 1
        /\ 0 \in 0 .. CycleMod - 1
    BY DepthAssumption, LoopModAssumption, RefreshAssumption,
       CycleModAssumption DEF Address
  <2> QED BY <1>1, <1>4, <2>1 DEF Init, TypeOK, States
<1>6. Handshake /\ GrantFresh /\ FetchCoherent
  BY DEF Init, Handshake, GrantFresh, FetchCoherent, Executing
<1> QED BY <1>4, <1>5, <1>6 DEF IndInv

\* While the pipeline moves, each word goes one register further.
LEMMA Advance ==
    ASSUME TypeOK, fsm \in {"RUN", "BUBBLE"}, Fetch(FALSE)
    PROVE  /\ mem_data' = mem[program_counter_old']
           /\ instruction' = mem_data
           /\ program_counter_old' = program_counter
           /\ program_counter' = Succ(program_counter_old')
           /\ program_counter = Succ(program_counter_old) =>
                 Pred(program_counter_old') = program_counter_old
<1>1. ~stall
  BY DEF stall
<1>2. program_counter_old' = program_counter /\ instruction' = mem_data
  BY <1>1 DEF Fetch
<1>3. mem_data' = mem[program_counter]
  BY <1>1 DEF Fetch, mem_addr
<1>4. program_counter' = Succ(program_counter)
  BY <1>1, NextIsSucc DEF Fetch, next_addr, TypeOK
<1>5. program_counter = Succ(program_counter_old) =>
         Pred(program_counter) = program_counter_old
  BY DepthAssumption DEF Succ, Pred, TypeOK, Address
<1> QED BY <1>2, <1>3, <1>4, <1>5

\* In IDLE the pipeline stands still, and the port rereads the same word.
LEMMA Hold ==
    ASSUME fsm = "IDLE", Fetch(FALSE)
    PROVE  /\ mem_data' = mem[program_counter_old]
           /\ UNCHANGED <<instruction, program_counter, program_counter_old>>
  BY DEF Fetch, stall, mem_addr

\* Request, grant and bus in a clock cycle.
LEMMA HandshakeStep ==
    ASSUME IndInv, NEW r \in BOOLEAN, NEW u \in BOOLEAN, Cycle(r, u)
    PROVE  Handshake' /\ GrantFresh'
<1> USE DEF IndInv, TypeOK, Handshake, GrantFresh, Executing, States
<1>1. Executor /\ Switch(r, u)
  BY DEF Cycle
<1>2. /\ mc_ongoing_d' = (switch = "MC")
      /\ switch = "PE" /\ wants_dfi => switch' = "PE"
      /\ switch = "PE" /\ ~wants_dfi => switch' = "MC"
      /\ switch = "MC" /\ ~wants_dfi => switch' = "MC"
      /\ switch' \in {"MC", "PE"}
  BY <1>1 DEF Switch, Grant, Release
<1>3. CASE Ready
  <2>1. fsm' \in {"READY", "WAIT-DFI"} /\ dfi' = "NONE" /\ switch' = "MC"
    BY <1>2, <1>3 DEF Ready
  <2>2. wants_dfi' <=> fsm' # "READY"
    BY <1>3 DEF Ready
  <2>3. program_counter' = 0 /\ program_counter_old' = 0
    BY <1>3 DEF Ready, Fetch, stall
  <2> QED BY <2>1, <2>2, <2>3
<1>4. CASE WaitDfi
  <2>1. program_counter' = program_counter
        /\ program_counter_old' = program_counter_old
    BY <1>4 DEF WaitDfi, dfi_ready, Fetch, stall
  <2>2. wants_dfi' = wants_dfi /\ dfi' = "NONE" /\ fsm = "WAIT-DFI"
    BY <1>4 DEF WaitDfi, dfi_ready
  <2>3. CASE switch = "PE"
    <3>1. fsm' = "BUBBLE" /\ idle_counter' = 1
      BY <1>4, <2>3 DEF WaitDfi, dfi_ready, PIPELINE_DELAY
    <3> QED BY <1>2, <2>2, <2>3, <3>1
  <2>4. CASE switch = "MC"
    <3>1. fsm' = "WAIT-DFI"
      BY <1>4, <2>4 DEF WaitDfi, dfi_ready
    <3> QED BY <1>2, <2>1, <2>2, <2>4, <3>1
  <2> QED BY <2>3, <2>4
<1>5. CASE RunFinish
  BY <1>2, <1>5 DEF RunFinish
<1>6. CASE RunJump
  BY <1>2, <1>6 DEF RunJump, PIPELINE_DELAY
<1>7. CASE RunLoopEnd
  BY <1>2, <1>7 DEF RunLoopEnd
<1>8. CASE RunCommand
  BY <1>2, <1>8 DEF RunCommand
<1>9. CASE Idle
  BY <1>2, <1>9 DEF Idle, IdleOrBubble
<1>10. CASE Bubble
  BY <1>2, <1>10 DEF Bubble, IdleOrBubble
<1> QED BY <1>1, <1>3, <1>4, <1>5, <1>6, <1>7, <1>8, <1>9, <1>10 DEF Executor

\* The prefetch in a clock cycle.
LEMMA FetchStep ==
    ASSUME IndInv, NEW r \in BOOLEAN, NEW u \in BOOLEAN, Cycle(r, u)
    PROVE  FetchCoherent'
<1>1. Executor /\ mem' = mem /\ TypeOK
  BY DEF Cycle, hostVars, IndInv
<1>2. ASSUME fsm \in {"RUN", "BUBBLE"}, Fetch(FALSE),
             fsm = "BUBBLE" => idle_counter = 0, fsm' \in {"RUN", "IDLE"}
      PROVE  FetchCoherent'
  <2>1. /\ mem_data = mem[program_counter_old]
        /\ program_counter = Succ(program_counter_old)
    BY <1>2 DEF IndInv, FetchCoherent
  <2>2. instruction' = mem[Pred(program_counter_old')]
    BY <1>1, <1>2, <2>1, Advance
  <2>3. position' = Pred(program_counter_old')
    BY <1>2 DEF position
  <2> QED BY <1>1, <1>2, <2>2, <2>3, Advance DEF FetchCoherent
<1>3. CASE Ready
  BY <1>3 DEF Ready, FetchCoherent
<1>4. CASE WaitDfi
  BY <1>4 DEF WaitDfi, dfi_ready, FetchCoherent, PIPELINE_DELAY
<1>5. CASE RunFinish
  BY <1>5 DEF RunFinish, FetchCoherent
<1>6. CASE RunJump
  BY <1>6 DEF RunJump, FetchCoherent, PIPELINE_DELAY
<1>7. CASE RunLoopEnd
  BY <1>2, <1>7 DEF RunLoopEnd
<1>8. CASE RunCommand
  BY <1>2, <1>8 DEF RunCommand
<1>9. CASE Idle
  <2>1. fsm = "IDLE" /\ fsm' \in {"RUN", "IDLE"} /\ Fetch(FALSE)
    BY <1>9 DEF Idle, IdleOrBubble
  <2>2. position' = Pred(program_counter_old') /\ position = Pred(program_counter_old)
    BY <2>1 DEF position
  <2> QED BY <1>1, <2>1, <2>2, Hold DEF IndInv, FetchCoherent
<1>10. CASE Bubble
  <2>1. fsm = "BUBBLE" /\ Fetch(FALSE)
    BY <1>10 DEF Bubble, IdleOrBubble
  <2>2. CASE idle_counter = 0
    <3>1. fsm' = "RUN"
      BY <1>10, <2>2 DEF Bubble, IdleOrBubble
    <3> QED BY <1>2, <2>1, <2>2, <3>1
  <2>3. CASE idle_counter # 0
    <3>1. fsm' = "BUBBLE"
      BY <1>10, <2>1, <2>3 DEF Bubble, IdleOrBubble
    <3> QED BY <1>1, <2>1, <3>1, Advance DEF FetchCoherent
  <2> QED BY <2>2, <2>3
<1> QED BY <1>1, <1>3, <1>4, <1>5, <1>6, <1>7, <1>8, <1>9, <1>10 DEF Executor

\* Every clock cycle and every host write preserves it.
LEMMA NextInv == IndInv /\ [Next]_vars => IndInv'
<1> SUFFICES ASSUME IndInv, [Next]_vars PROVE IndInv'
  OBVIOUS
<1>1. TypeOK' /\ InBounds(mem)'
  BY TypeStep DEF IndInv
<1>2. Handshake' /\ GrantFresh' /\ FetchCoherent'
  <2>1. ASSUME NEW r \in BOOLEAN, NEW u \in BOOLEAN, Cycle(r, u)
        PROVE  Handshake' /\ GrantFresh' /\ FetchCoherent'
    BY <2>1, HandshakeStep, FetchStep
  <2>2. ASSUME fsm = "READY", UNCHANGED <<executorVars, switchVars>>
        PROVE  Handshake' /\ GrantFresh' /\ FetchCoherent'
    BY <2>2 DEF IndInv, Handshake, GrantFresh, FetchCoherent, Executing,
       executorVars, switchVars
  <2>3. ASSUME NEW p \in Programs, Load(p)
        PROVE  Handshake' /\ GrantFresh' /\ FetchCoherent'
    BY <2>2, <2>3 DEF Load
  <2>4. CASE WriteAtRefresh \/ WriteRefresh
    BY <2>2, <2>4 DEF WriteAtRefresh, WriteRefresh
  <2>5. CASE UNCHANGED vars
    BY <2>5 DEF IndInv, Handshake, GrantFresh, FetchCoherent, Executing,
       position, vars, executorVars, switchVars, hostVars
  <2> QED BY <2>1, <2>3, <2>4, <2>5 DEF Next
<1> QED BY <1>1, <1>2 DEF IndInv

\* The inductive invariant holds throughout: types, loops in bounds, the
\* request/grant handshake of the executor and the switch, the prefetch.
THEOREM Invariance == Spec => []IndInv
  BY InitInv, NextInv, PTL DEF Spec

\* No register of the executor, the Fetcher or the switch ever leaves its
\* width, whatever the payload and the host do.
THEOREM TypeCorrect == Spec => []TypeOK
<1>1. IndInv => TypeOK
  BY DEF IndInv
<1> QED BY <1>1, Invariance, PTL

\* For every payload and memory depth, the word the executor is about to
\* execute is the one at its position, through stalls, jumps and bubbles.
THEOREM PipelineCorrect == Spec => []FetchCoherent
<1>1. IndInv => FetchCoherent
  BY DEF IndInv
<1> QED BY <1>1, Invariance, PTL

\* A payload's commands only reach the memory while the switch is at the
\* payload executor.
THEOREM BusSafety == Spec => []BusOwned
<1>1. IndInv => BusOwned
  BY DEF IndInv, BusOwned, Handshake, Executing
<1> QED BY <1>1, Invariance, PTL

\* No grant that the switch has given for one payload is ever taken by the
\* next: the counters, the refresh settings and the timing of the requests may
\* be any.
THEOREM GrantsFresh == Spec => []GrantFresh
<1>1. IndInv => GrantFresh
  BY DEF IndInv
<1> QED BY <1>1, Invariance, PTL

\* The bus is handed over at exactly the refresh in at_refresh, and the
\* refresh_count latched for the host includes it.
THEOREM RefreshSynchronised == Spec => GrantAtRefresh
<1> DEFINE A == /\ (switch = "MC" /\ switch' = "PE" /\ with_refresh /\ at_refresh # 0) =>
                      refresh_counter' = at_refresh
                /\ (switch = "PE" /\ mc_ongoing_d /\ mc_ongoing_d' = FALSE) =>
                      refresh_count' = refresh_counter'
<1>1. ASSUME IndInv, [Next]_vars PROVE [A]_vars
  <2>1. ASSUME NEW r \in BOOLEAN, NEW u \in BOOLEAN, Cycle(r, u)
        PROVE  A
    <3>1. Switch(r, u)
      BY <2>1 DEF Cycle
    <3>2. ASSUME switch = "MC", switch' = "PE", with_refresh, at_refresh # 0
          PROVE  refresh_counter' = at_refresh
      <4>1. refresh(r) /\ at_refresh = refresh_counter + 1
        BY <3>1, <3>2 DEF Switch, Grant, refresh_matches
      <4>2. refresh_counter + 1 \in 0 .. RefreshMod - 1
        BY <1>1, <4>1 DEF IndInv, TypeOK
      <4>3. (refresh_counter + 1) % RefreshMod = refresh_counter + 1
        BY <4>2, ModSmall, RefreshAssumption
      <4> QED BY <3>1, <4>1, <4>3 DEF Switch
    <3>3. ASSUME switch = "PE", mc_ongoing_d
          PROVE  refresh_count' = refresh_counter'
      <4>1. dfi = "NONE"
        BY <1>1, <3>3 DEF IndInv, Handshake
      <4>2. ~refresh(r)
        BY <3>3, <4>1 DEF refresh
      <4> QED BY <3>1, <3>3, <4>2 DEF Switch
    <3> QED BY <3>2, <3>3
  <2>2. ASSUME UNCHANGED switchVars
        PROVE  A
    BY <2>2 DEF switchVars
  <2>3. ASSUME NEW p \in Programs, Load(p)
        PROVE  A
    BY <2>2, <2>3 DEF Load
  <2>4. CASE WriteAtRefresh \/ WriteRefresh
    BY <2>2, <2>4 DEF WriteAtRefresh, WriteRefresh
  <2> QED BY <1>1, <2>1, <2>3, <2>4 DEF Next
<1> QED BY <1>1, Invariance, PTL DEF Spec, GrantAtRefresh

-----------------------------------------------------------------------------
(* The pipelined executor implements the documented instruction set, for   *)
(* every set of payloads in which no LOOP is stored in the last word of    *)
(* memory.  (With one there, it does not: loop_counter is not cleared.)    *)

NoLoopAtEnd ==
    \A p \in Programs \cup Resident : Len(p) = Depth => ~IsLoop(p[Depth])

\* A word that was jumped over from behind has been executed before, so it is
\* not STOP: an execution can only end once its loops are exhausted, and the
\* loop counter is 0 again.
LoopInv ==
    /\ ~IsLoop(mem[Depth - 1])
    /\ ~executing => loop_counter = 0
    /\ executing => \A b \in Address : b < position => ~IsStop(mem[b])
    /\ executing /\ loop_counter # 0 =>
          \E l \in Address :
             /\ position <= l
             /\ IsLoop(mem[l])
             /\ \A b \in Address : b <= l => ~IsStop(mem[b])

\* What the three signals mean at the word in RUN.
LEMMA RunFacts ==
    ASSUME IndInv, fsm = "RUN"
    PROVE  /\ position \in Address
           /\ instruction = mem[position]
           /\ instruction \in Instruction
           /\ mem_addr = 1 <=> position = Depth - 1
           /\ program_counter = Succ(program_counter_old)
           /\ position = Pred(program_counter_old)
           /\ position # Depth - 1 => program_counter_old = position + 1
<1>1. TypeOK /\ FetchCoherent
  BY DEF IndInv
<1>2. position = Pred(program_counter_old)
  BY DEF position
<1>3. program_counter_old \in Address /\ program_counter = Succ(program_counter_old)
  BY <1>1 DEF TypeOK, FetchCoherent
<1>4. /\ position \in Address
      /\ Succ(program_counter_old) = 1 <=> position = Depth - 1
      /\ position # Depth - 1 => program_counter_old = position + 1
  BY <1>2, <1>3, DepthAssumption DEF Pred, Succ, Address
<1>5. mem_addr = program_counter
  BY DEF mem_addr, stall
<1>6. instruction = mem[position] /\ instruction \in Instruction
  BY <1>1 DEF FetchCoherent, TypeOK
<1> QED BY <1>2, <1>3, <1>4, <1>5, <1>6

\* Where a clock cycle in RUN leads.
LEMMA RunPosition ==
    ASSUME IndInv, fsm = "RUN", mem' = mem
    PROVE  /\ RunJump => position' = position - instruction.jump
           /\ RunLoopEnd \/ RunCommand =>
                 position # Depth - 1 /\ position' = position + 1
<1>1. ASSUME RunJump
      PROVE  position' = position - instruction.jump
  <2>1. fsm' = "BUBBLE" /\ Fetch(TRUE) /\ IsLoop(instruction)
    BY <1>1 DEF RunJump
  <2>2. position' = program_counter'
    BY <1>1 DEF RunJump, PIPELINE_DELAY, position
  <2>3. program_counter' =
           (Succ(program_counter_old) - instruction.jump - 2) % Depth
    BY <2>1, RunFacts DEF Fetch, stall, next_addr, PIPELINE_DELAY
  <2>4. instruction.jump \in Nat /\ instruction.jump <= Pred(program_counter_old)
    BY <2>1, RunFacts DEF IndInv, InBounds, Instruction
  <2>5. program_counter_old \in Address
    BY DEF IndInv, TypeOK
  <2> QED BY <2>2, <2>3, <2>4, <2>5, JumpTarget, RunFacts
<1>2. ASSUME RunLoopEnd \/ RunCommand
      PROVE  position # Depth - 1 /\ position' = position + 1
  <2>1. ~Finished /\ Fetch(FALSE) /\ fsm' \in {"RUN", "IDLE"}
    BY <1>2 DEF RunLoopEnd, RunCommand
  <2>2. IsLoop(instruction) => loop_counter = instruction.count
    BY <1>2 DEF RunLoopEnd, RunCommand
  <2>3. position # Depth - 1
    BY <2>1, <2>2, RunFacts DEF Finished, PIPELINE_DELAY
  <2>4. position' = Pred(program_counter_old')
    BY <2>1 DEF position
  <2>5. position' = program_counter_old
    BY <2>1, <2>4, RunFacts, Advance DEF IndInv
  <2> QED BY <2>3, <2>5, RunFacts
<1> QED BY <1>1, <1>2

\* While the pipeline waits, the position stays.
LEMMA WaitPosition ==
    ASSUME IndInv, Idle \/ Bubble, mem' = mem
    PROVE  /\ position' = position
           /\ remaining \in Nat \ {0}
           /\ remaining' = remaining - 1
           /\ executing /\ executing'
           /\ dfi' = "NONE" /\ loop_counter' = loop_counter
<1>1. TypeOK /\ Handshake /\ FetchCoherent
  BY DEF IndInv
<1>2. /\ fsm \in {"IDLE", "BUBBLE"}
      /\ IF idle_counter = 0
         THEN fsm' = "RUN"
         ELSE fsm' = fsm /\ idle_counter' = idle_counter - 1
      /\ Fetch(FALSE) /\ dfi' = "NONE" /\ loop_counter' = loop_counter
  BY DEF Idle, Bubble, IdleOrBubble
<1>3. idle_counter \in Nat
  BY <1>1 DEF TypeOK
<1>4. executing /\ executing'
  BY <1>2 DEF executing, Executing
<1>5. remaining = idle_counter + 1
  BY <1>2 DEF remaining
<1>6. remaining' = idle_counter
  BY <1>2, <1>3 DEF remaining
<1>7. position' = position
  <2>1. CASE fsm = "IDLE"
    <3>1. fsm' \in {"RUN", "IDLE"}
      BY <1>2, <2>1
    <3>2. position = Pred(program_counter_old) /\ position' = Pred(program_counter_old')
      BY <2>1, <3>1 DEF position
    <3> QED BY <1>2, <2>1, <3>2, Hold
  <2>2. CASE fsm = "BUBBLE" /\ idle_counter = 0
    <3>1. position = program_counter_old /\ position' = Pred(program_counter_old')
      BY <1>2, <2>2 DEF position
    <3>2. program_counter = Succ(program_counter_old)
      BY <1>1, <2>2 DEF FetchCoherent
    <3> QED BY <1>1, <1>2, <2>2, <3>1, <3>2, Advance
  <2>3. CASE fsm = "BUBBLE" /\ idle_counter # 0
    <3>1. fsm' = "BUBBLE" /\ idle_counter' = 0
      BY <1>1, <1>2, <2>3 DEF Handshake
    <3>2. position = program_counter /\ position' = program_counter_old'
      BY <2>3, <3>1 DEF position
    <3> QED BY <1>1, <1>2, <2>3, <3>2, Advance
  <2> QED BY <1>2, <2>1, <2>2, <2>3
<1> QED BY <1>2, <1>3, <1>4, <1>5, <1>6, <1>7

-----------------------------------------------------------------------------
(* The loop counter is 0 between executions *)

\* A transferred payload brings no LOOP into the last word.
LEMMA TransferLast ==
    ASSUME NoLoopAtEnd, NEW m \in Memory, ~IsLoop(m[Depth - 1]),
           NEW p \in Programs \cup Resident
    PROVE  ~IsLoop(Transfer(m, p)[Depth - 1])
<1>1. Len(p) \in Nat /\ Len(p) <= Depth
  BY ProgramsAssumption
<1>2. Depth - 1 \in Address /\ Depth - 1 + 1 = Depth
  BY DepthAssumption DEF Address
<1>3. CASE Len(p) = Depth
  <2>1. Transfer(m, p)[Depth - 1] = p[Depth]
    BY <1>2, <1>3, DepthAssumption DEF Transfer
  <2> QED BY <1>3, <2>1 DEF NoLoopAtEnd
<1>4. CASE Len(p) # Depth
  <2>1. ~(Depth - 1 < Len(p))
    BY <1>1, <1>4, DepthAssumption
  <2>2. Transfer(m, p)[Depth - 1] = m[Depth - 1]
    BY <1>2, <2>1 DEF Transfer
  <2> QED BY <2>2
<1> QED BY <1>3, <1>4

\* LoopInv holds after reset.
LEMMA LoopInit == NoLoopAtEnd /\ Init => LoopInv
<1> SUFFICES ASSUME NoLoopAtEnd, Init PROVE LoopInv
  OBVIOUS
<1> DEFINE zero == [a \in Address |-> I("NOOP", 0)]
<1>1. I("NOOP", 0) \in Instruction /\ ~IsLoop(I("NOOP", 0))
  BY LoopModAssumption DEF I, Instruction, OpCode, IsLoop
<1>2. zero \in Memory /\ ~IsLoop(zero[Depth - 1])
  BY <1>1, DepthAssumption DEF Memory, Address
<1>3. PICK p \in Resident : mem = Transfer(zero, p)
  BY DEF Init, InitialMemory
<1>4. ~IsLoop(mem[Depth - 1])
  BY <1>2, <1>3, TransferLast
<1>5. ~executing /\ loop_counter = 0
  BY DEF Init, executing, Executing
<1> QED BY <1>4, <1>5 DEF LoopInv

\* At the end of an execution the loop counter is 0.
LEMMA FinishFacts ==
    ASSUME IndInv, LoopInv, fsm = "RUN", Finished
    PROVE  loop_counter = 0
<1>1. executing
  BY DEF executing, Executing
<1>2. SUFFICES ASSUME loop_counter # 0 PROVE FALSE
  OBVIOUS
<1>3. PICK l \in Address : /\ position <= l
                           /\ IsLoop(mem[l])
                           /\ \A b \in Address : b <= l => ~IsStop(mem[b])
  BY <1>1, <1>2 DEF LoopInv
<1>4. ~IsStop(mem[position])
  BY <1>3, RunFacts
<1>5. position = Depth - 1
  BY <1>4, RunFacts DEF Finished, PIPELINE_DELAY
<1>6. l = Depth - 1
  BY <1>3, <1>5, DepthAssumption DEF Address
<1> QED BY <1>3, <1>6 DEF LoopInv

\* A word that is executed and does not end the execution is not STOP.
LEMMA RunContinues ==
    ASSUME IndInv, fsm = "RUN", ~Finished
    PROVE  ~IsStop(mem[position])
<1>1. ~IsStop(instruction)
  BY DEF Finished, IsStop, IsLoop
<1> QED BY <1>1, RunFacts

\* LoopInv is preserved by every clock cycle and host write.
LEMMA LoopStep ==
    ASSUME NoLoopAtEnd, IndInv, LoopInv, [Next]_vars
    PROVE  LoopInv'
<1>1. ASSUME NEW r \in BOOLEAN, NEW u \in BOOLEAN, Cycle(r, u)
      PROVE  LoopInv'
  <2>1. Executor /\ mem' = mem
    BY <1>1 DEF Cycle, hostVars
  <2>2. (~IsLoop(mem[Depth - 1]))'
    BY <2>1 DEF LoopInv
  <2>3. CASE Ready
    <3>1. ~executing /\ ~executing' /\ loop_counter' = loop_counter
      BY <2>3 DEF Ready, executing, Executing
    <3> QED BY <2>2, <3>1 DEF LoopInv
  <2>4. CASE WaitDfi
    <3>1. ~executing /\ loop_counter' = loop_counter /\ loop_counter' = 0
      BY <2>4 DEF WaitDfi, dfi_ready, executing, Executing, LoopInv
    <3>2. fsm' = "WAIT-DFI" \/ position' = 0
      BY <2>4 DEF WaitDfi, dfi_ready, position, PIPELINE_DELAY, Fetch, stall, IndInv, Handshake
    <3>3. fsm' = "WAIT-DFI" => ~executing'
      BY DEF executing, Executing
    <3>4. \A b \in Address : ~(b < 0)
      BY DepthAssumption DEF Address
    <3> QED BY <2>2, <3>1, <3>2, <3>3, <3>4 DEF LoopInv
  <2>5. CASE RunFinish
    <3>1. fsm = "RUN" /\ Finished /\ fsm' = "READY" /\ loop_counter' = loop_counter
      BY <2>5 DEF RunFinish
    <3>2. ~executing'
      BY <3>1 DEF executing, Executing
    <3>3. loop_counter' = 0
      BY <3>1, FinishFacts
    <3> QED BY <2>2, <3>2, <3>3 DEF LoopInv
  <2>6. CASE RunJump
    <3>1. fsm = "RUN" /\ ~Finished /\ IsLoop(instruction) /\ fsm' = "BUBBLE"
      BY <2>6 DEF RunJump
    <3>2. executing /\ executing'
      BY <3>1 DEF executing, Executing
    <3>3. position' = position - instruction.jump
      BY <2>1, <2>6, <3>1, RunPosition
    <3>4. /\ position \in Address
          /\ instruction = mem[position]
          /\ instruction.jump \in Nat
      BY <3>1, RunFacts DEF Instruction
    <3>5. position' <= position /\ position' \in Int
      BY <3>3, <3>4 DEF Address
    <3>6. \A b \in Address : b <= position => ~IsStop(mem[b])
      <4>1. \A b \in Address : b < position => ~IsStop(mem[b])
        BY <3>2 DEF LoopInv
      <4>2. \A b \in Address : b <= position => b < position \/ b = position
        BY <3>4 DEF Address
      <4>3. ~IsStop(mem[position])
        BY <3>1, RunContinues
      <4> QED BY <4>1, <4>2, <4>3
    <3>7. \A b \in Address : b < position' => b <= position
      BY <3>4, <3>5 DEF Address
    <3>8. IsLoop(mem[position])
      BY <3>1, <3>4
    <3> QED BY <2>1, <2>2, <3>2, <3>4, <3>5, <3>6, <3>7, <3>8 DEF LoopInv
  <2>7. CASE RunLoopEnd \/ RunCommand
    <3>1. fsm = "RUN" /\ ~Finished /\ fsm' \in {"RUN", "IDLE"}
      BY <2>7 DEF RunLoopEnd, RunCommand
    <3>2. executing /\ executing'
      BY <3>1 DEF executing, Executing
    <3>3. position \in Address /\ position' = position + 1
      BY <2>1, <2>7, <3>1, RunPosition, RunFacts
    <3>4. (executing => \A b \in Address : b < position => ~IsStop(mem[b]))'
      <4>1. \A b \in Address : b < position => ~IsStop(mem[b])
        BY <3>2 DEF LoopInv
      <4>2. \A b \in Address : b < position' => b < position \/ b = position
        BY <3>3 DEF Address
      <4>3. ~IsStop(mem[position])
        BY <3>1, RunContinues
      <4> QED BY <2>1, <4>1, <4>2, <4>3
    <3>5. CASE loop_counter' = 0
      BY <2>2, <3>2, <3>4, <3>5 DEF LoopInv
    <3>6. CASE loop_counter' # 0
      <4>1. loop_counter' = loop_counter /\ ~IsLoop(instruction)
        BY <2>7, <3>6 DEF RunLoopEnd, RunCommand
      <4>2. PICK l \in Address : /\ position <= l
                                 /\ IsLoop(mem[l])
                                 /\ \A b \in Address : b <= l => ~IsStop(mem[b])
        BY <3>2, <3>6, <4>1 DEF LoopInv
      <4>3. l # position
        BY <3>1, <4>1, <4>2, RunFacts
      <4>4. position' <= l
        BY <3>3, <4>2, <4>3 DEF Address
      <4> QED BY <2>1, <2>2, <3>2, <3>4, <4>2, <4>4 DEF LoopInv
    <3> QED BY <3>5, <3>6
  <2>8. CASE Idle \/ Bubble
    <3>1. position' = position /\ executing /\ executing' /\ loop_counter' = loop_counter
      BY <2>1, <2>8, WaitPosition
    <3> QED BY <2>1, <3>1 DEF LoopInv
  <2> QED BY <2>1, <2>3, <2>4, <2>5, <2>6, <2>7, <2>8 DEF Executor
<1>2. ASSUME fsm = "READY", UNCHANGED executorVars, (~IsLoop(mem[Depth - 1]))'
      PROVE  LoopInv'
  BY <1>2 DEF LoopInv, executing, Executing, executorVars
<1>3. ASSUME NEW p \in Programs, Load(p)
      PROVE  LoopInv'
  <2>1. (~IsLoop(mem[Depth - 1]))'
    BY <1>3, TransferLast DEF Load, LoopInv, IndInv, TypeOK
  <2> QED BY <1>2, <1>3, <2>1 DEF Load
<1>4. CASE WriteAtRefresh \/ WriteRefresh
  BY <1>2, <1>4 DEF WriteAtRefresh, WriteRefresh, LoopInv
<1>5. CASE UNCHANGED vars
  BY <1>5 DEF LoopInv, executing, Executing, position, vars, executorVars, hostVars
<1> QED BY <1>1, <1>3, <1>4, <1>5 DEF Next

\* RUN does not clear loop_counter when it finishes, and does not need to: as
\* long as no LOOP is the last word of memory it is 0 whenever the executor is
\* not executing, so that the next payload's first LOOP jumps COUNT times.
THEOREM LoopCounterReset == NoLoopAtEnd /\ Spec => []LoopInv
<1>1. ASSUME NoLoopAtEnd
      PROVE  Spec => []LoopInv
  <2>1. Init => LoopInv
    BY <1>1, LoopInit
  <2>2. IndInv /\ LoopInv /\ [Next]_vars => LoopInv'
    BY <1>1, LoopStep
  <2> QED BY <2>1, <2>2, Invariance, PTL DEF Spec
<1> QED BY <1>1

-----------------------------------------------------------------------------
(* Refinement *)

\* The reset state maps to the initial state of the instruction set.
LEMMA RefineInit == Init => ISA!Init
<1> SUFFICES ASSUME Init PROVE ISA!Init
  OBVIOUS
<1>1. ~executing /\ position = 0 /\ iteration = 0 /\ remaining = 0
  BY DEF Init, executing, Executing, position, iteration, remaining
<1>2. mem \in ISA!InitialMemory
  BY DEF Init, InitialMemory, ISA!InitialMemory, Transfer, ISA!Transfer,
     Address, ISA!Address, I, ISA!I
<1> QED BY <1>1, <1>2 DEF Init, ISA!Init

\* A clock cycle is a step of the instruction set, or leaves it where it is.
LEMMA RefineCycle ==
    ASSUME IndInv, LoopInv, NEW r \in BOOLEAN, NEW u \in BOOLEAN, Cycle(r, u)
    PROVE  [ISA!Next]_(ISA!vars)
<1>1. Executor /\ mem' = mem
  BY DEF Cycle, hostVars
<1>2. CASE Ready
  <2>1. /\ executing = FALSE /\ executing' = FALSE
        /\ position = 0 /\ position' = 0
        /\ remaining = 0 /\ remaining' = 0
    BY <1>2 DEF Ready, executing, Executing, position, remaining
  <2>2. dfi = "NONE" /\ dfi' = "NONE"
    BY <1>2 DEF Ready, IndInv, Handshake
  <2> QED BY <1>1, <2>1, <2>2 DEF ISA!vars, iteration
<1>3. CASE WaitDfi
  <2>1. dfi = "NONE" /\ dfi' = "NONE"
    BY <1>3 DEF WaitDfi, dfi_ready, IndInv, Handshake
  <2>2. executing = FALSE /\ position = 0 /\ remaining = 0 /\ iteration = 0
    BY <1>3 DEF WaitDfi, dfi_ready, executing, Executing, position, remaining, iteration
  <2>3. CASE switch = "PE"
    <3>1. executing' /\ position' = 0 /\ remaining' = 2
      BY <1>3, <2>3 DEF WaitDfi, dfi_ready, executing, Executing, position, remaining,
         PIPELINE_DELAY, Fetch, stall, IndInv, Handshake
    <3>2. iteration' = 0
      BY <1>3, <2>2, <3>1 DEF WaitDfi, dfi_ready, iteration, LoopInv
    <3>3. ISA!Begin
      BY <1>1, <2>1, <2>2, <3>1, <3>2 DEF ISA!Begin, PIPELINE_DELAY
    <3> QED BY <3>3 DEF ISA!Next
  <2>4. CASE switch # "PE"
    <3>1. executing' = FALSE /\ position' = 0 /\ remaining' = 0 /\ iteration' = 0
      BY <1>3, <2>4 DEF WaitDfi, dfi_ready, executing, Executing, position, remaining, iteration
    <3> QED BY <1>1, <2>1, <2>2, <3>1 DEF ISA!vars
  <2> QED BY <2>3, <2>4
<1>4. ASSUME fsm = "RUN"
      PROVE  executing /\ remaining = 0 /\ iteration = loop_counter
  BY <1>4 DEF executing, Executing, remaining, iteration
<1>5. CASE RunFinish
  <2>1. fsm = "RUN" /\ Finished /\ dfi' = "NONE" /\ fsm' = "READY"
    BY <1>5 DEF RunFinish
  <2>2. ~executing' /\ position' = 0 /\ remaining' = 0 /\ iteration' = 0
    BY <2>1 DEF executing, Executing, position, remaining, iteration
  <2>3. IsStop(mem[position]) \/ position = Depth - 1
    BY <2>1, RunFacts DEF Finished, PIPELINE_DELAY
  <2>4. IsLoop(mem[position]) => iteration = mem[position].count
    BY <1>4, <2>1, RunFacts DEF Finished
  <2>5. ISA!Halt
    BY <1>1, <1>4, <2>1, <2>2, <2>3, <2>4
       DEF ISA!Halt, ISA!Exhausted, ISA!IsStop, ISA!IsLoop, IsStop, IsLoop
  <2> QED BY <2>5 DEF ISA!Next
<1>6. CASE RunJump
  <2>1. /\ fsm = "RUN" /\ IsLoop(instruction) /\ loop_counter # instruction.count
        /\ dfi' = "NONE" /\ fsm' = "BUBBLE"
        /\ loop_counter' = (loop_counter + 1) % LoopMod
    BY <1>6 DEF RunJump
  <2>2. executing' /\ iteration' = (iteration + 1) % LoopMod
    BY <1>4, <2>1 DEF executing, Executing, iteration
  <2>3. remaining' = 2
    BY <1>6 DEF RunJump, remaining, PIPELINE_DELAY
  <2>4. position' = position - mem[position].jump
    BY <1>1, <1>6, <2>1, RunPosition, RunFacts
  <2>5. IsLoop(mem[position]) /\ iteration # mem[position].count
    BY <1>4, <2>1, RunFacts
  <2>6. ISA!Jump
    BY <1>1, <1>4, <2>1, <2>2, <2>3, <2>4, <2>5
       DEF ISA!Jump, ISA!Exhausted, ISA!IsLoop, IsLoop, PIPELINE_DELAY
  <2> QED BY <2>6 DEF ISA!Next
<1>7. CASE RunLoopEnd
  <2>1. /\ fsm = "RUN" /\ IsLoop(instruction) /\ loop_counter = instruction.count
        /\ dfi' = "NONE" /\ fsm' = "RUN" /\ loop_counter' = 0
    BY <1>7 DEF RunLoopEnd
  <2>2. executing' /\ iteration' = 0 /\ remaining' = 0
    BY <2>1 DEF executing, Executing, iteration, remaining
  <2>3. position # Depth - 1 /\ position' = position + 1
    BY <1>1, <1>7, <2>1, RunPosition
  <2>4. IsLoop(mem[position]) /\ iteration = mem[position].count
    BY <1>4, <2>1, RunFacts
  <2>5. ISA!FallThrough
    BY <1>1, <1>4, <2>1, <2>2, <2>3, <2>4
       DEF ISA!FallThrough, ISA!Exhausted, ISA!IsLoop, IsLoop
  <2> QED BY <2>5 DEF ISA!Next
<1>8. CASE RunCommand
  <2>1. /\ fsm = "RUN" /\ ~Finished /\ ~IsLoop(instruction)
        /\ dfi' = Command(instruction) /\ fsm' \in {"RUN", "IDLE"}
        /\ loop_counter' = loop_counter
    BY <1>8 DEF RunCommand
  <2>2. executing' /\ iteration' = iteration
    BY <1>4, <2>1 DEF executing, Executing, iteration
  <2>3. instruction.timeslice \in Nat
    BY <2>1, RunFacts DEF Instruction
  <2>4. remaining' = IF instruction.timeslice = 0 THEN 0
                     ELSE instruction.timeslice - 1
    <3>1. CASE instruction.timeslice \in {0, 1}
      <4>1. fsm' = "RUN"
        BY <1>8, <2>1, <3>1 DEF RunCommand
      <4> QED BY <3>1, <4>1 DEF remaining
    <3>2. CASE instruction.timeslice \notin {0, 1}
      <4>1. fsm' = "IDLE" /\ idle_counter' = instruction.timeslice - 2
        BY <1>8, <3>2 DEF RunCommand, IdleCycles
      <4> QED BY <2>3, <3>2, <4>1 DEF remaining
    <3> QED BY <3>1, <3>2
  <2>5. position # Depth - 1 /\ position' = position + 1
    BY <1>1, <1>8, <2>1, RunPosition
  <2>6. ~IsLoop(mem[position]) /\ ~IsStop(mem[position]) /\ instruction = mem[position]
    BY <2>1, RunFacts, RunContinues
  <2>7. ISA!Send
    BY <1>1, <1>4, <2>1, <2>2, <2>4, <2>5, <2>6
       DEF ISA!Send, ISA!IsLoop, IsLoop, ISA!IsStop, IsStop, ISA!Command, Command
  <2> QED BY <2>7 DEF ISA!Next
<1>9. CASE Idle \/ Bubble
  <2>1. iteration' = iteration
    BY <1>1, <1>9, WaitPosition DEF iteration
  <2>2. remaining > 0
    BY <1>1, <1>9, WaitPosition
  <2>3. ISA!Wait
    BY <1>1, <1>9, <2>1, <2>2, WaitPosition DEF ISA!Wait
  <2> QED BY <2>3 DEF ISA!Next
<1> QED BY <1>1, <1>2, <1>3, <1>5, <1>6, <1>7, <1>8, <1>9 DEF Executor

\* Every step maps to a step of the instruction set or leaves it alone.
LEMMA RefineNext ==
    ASSUME IndInv, LoopInv, [Next]_vars
    PROVE  [ISA!Next]_(ISA!vars)
<1>1. ASSUME UNCHANGED executorVars
      PROVE  UNCHANGED <<executing, position, iteration, remaining, dfi>>
  BY <1>1 DEF executorVars, executing, position, iteration, remaining
<1>2. ASSUME NEW p \in Programs, Load(p)
      PROVE  [ISA!Next]_(ISA!vars)
  <2>1. ~executing /\ mem' = Transfer(mem, p) /\ UNCHANGED executorVars
    BY <1>2 DEF Load, executing, Executing
  <2>2. ISA!Load(p)
    BY <1>1, <2>1 DEF ISA!Load, Transfer, ISA!Transfer, Address, ISA!Address
  <2> QED BY <2>2 DEF ISA!Next
<1>3. CASE WriteAtRefresh \/ WriteRefresh
  <2>1. UNCHANGED executorVars /\ UNCHANGED mem
    BY <1>3 DEF WriteAtRefresh, WriteRefresh
  <2> QED BY <1>1, <2>1 DEF ISA!vars
<1>4. CASE UNCHANGED vars
  <2>1. UNCHANGED executorVars /\ UNCHANGED mem
    BY <1>4 DEF vars, hostVars
  <2> QED BY <1>1, <2>1 DEF ISA!vars
<1> QED BY <1>2, <1>3, <1>4, RefineCycle DEF Next

\* Cycle for cycle, the pipelined executor does what Decoder documents: each
\* word in order, TIMESLICE cycles each, COUNT jumps per LOOP, until STOP or
\* the last word.
THEOREM ExecutorImplementsISA == NoLoopAtEnd /\ Spec => ImplementsISA
<1>1. IndInv /\ LoopInv /\ [Next]_vars => [ISA!Next]_(ISA!vars)
  BY RefineNext
<1> QED BY <1>1, RefineInit, Invariance, LoopCounterReset, PTL
    DEF Spec, ImplementsISA, ISA!Spec

-----------------------------------------------------------------------------
(* Execution time.  The sums are recursive functions on the addresses: that *)
(* they exist, and what they are, is shown with least counterexamples.      *)

\* A set of natural numbers that is not empty has a least element.
LEMMA Least ==
    ASSUME NEW T \in SUBSET Nat, T # {}
    PROVE  \E x \in T : \A y \in T : x <= y
<1> DEFINE R == OpToRel(<, Nat)
<1>1. IsWellFoundedOn(R, Nat)
  BY NatLessThanWellFounded
<1>2. \A x, y \in Nat : x < y => <<x, y>> \in R
  BY DEF OpToRel
<1> HIDE DEF R
<1>3. PICK x \in T : \A y \in T : ~(<<y, x>> \in R)
  BY <1>1, WFMin
<1>4. ASSUME NEW y \in T PROVE x <= y
  <2>1. x \in Nat /\ y \in Nat
    OBVIOUS
  <2>2. ~(y < x)
    BY <1>2, <1>3, <2>1
  <2> QED BY <2>1, <2>2
<1> QED BY <1>4

\* What an address contributes.
Part(value, S, a) == IF a \in S THEN value[a] ELSE 0

\* g is the sequence of the partial sums of the first n addresses.
SumsTo(value, S, n, g) ==
    /\ g \in [0 .. n -> Int]
    /\ g[0] = 0
    /\ \A k \in 1 .. n : g[k] = g[k - 1] + Part(value, S, k - 1)

\* There are such sums up to every address.
LEMMA SumsExist ==
    ASSUME NEW value \in [Address -> Int], NEW S, NEW n \in 0 .. Depth
    PROVE  \E g : SumsTo(value, S, n, g)
<1> DEFINE T == {k \in 0 .. Depth : ~\E g : SumsTo(value, S, k, g)}
<1>1. SUFFICES T = {}
  OBVIOUS
<1>2. SUFFICES ASSUME T # {} PROVE FALSE
  OBVIOUS
<1>3. PICK x \in T : \A y \in T : x <= y
  <2>1. T \in SUBSET Nat
    BY DepthAssumption
  <2> HIDE DEF T
  <2> QED BY <1>2, <2>1, Least
<1>4. x # 0
  <2>1. SumsTo(value, S, 0, [k \in 0 .. 0 |-> 0])
    BY DEF SumsTo
  <2> QED BY <2>1
<1>5. x \in 1 .. Depth /\ x - 1 \in 0 .. Depth /\ x - 1 \in Address /\ x - 1 \notin T
  BY <1>3, <1>4, DepthAssumption DEF Address
<1>6. PICK g : SumsTo(value, S, x - 1, g)
  BY <1>5
<1> DEFINE p == Part(value, S, x - 1)
           h == [k \in 0 .. x |-> IF k = x THEN g[x - 1] + p ELSE g[k]]
<1>7. p \in Int
  BY <1>5 DEF Part
<1>8. g \in [0 .. x - 1 -> Int] /\ g[0] = 0 /\ g[x - 1] \in Int
  BY <1>5, <1>6 DEF SumsTo
<1>9. h \in [0 .. x -> Int] /\ h[0] = 0
  <2> HIDE DEF p
  <2>1. \A k \in 0 .. x : k # x => k \in 0 .. x - 1
    BY <1>5
  <2>2. \A k \in 0 .. x : h[k] \in Int
    BY <1>7, <1>8, <2>1
  <2>3. 0 \in 0 .. x /\ 0 # x
    BY <1>5
  <2> QED BY <1>8, <2>2, <2>3
<1>10. \A k \in 1 .. x : h[k] = h[k - 1] + Part(value, S, k - 1)
  <2> SUFFICES ASSUME NEW k \in 1 .. x PROVE h[k] = h[k - 1] + Part(value, S, k - 1)
    OBVIOUS
  <2>1. k \in 0 .. x /\ k - 1 \in 0 .. x /\ k - 1 # x
    BY <1>5
  <2>2. h[k - 1] = g[k - 1]
    BY <2>1
  <2>3. CASE k = x
    BY <2>1, <2>2, <2>3
  <2>4. CASE k # x
    <3>1. k \in 1 .. x - 1
      BY <1>5, <2>4
    <3> QED BY <1>6, <2>1, <2>2, <2>4, <3>1 DEF SumsTo
  <2> QED BY <2>3, <2>4
<1>11. SumsTo(value, S, x, h)
  <2> HIDE DEF h
  <2> QED BY <1>9, <1>10 DEF SumsTo
<1> QED BY <1>3, <1>11

\* So the recursive definition of Sum defines them.
LEMMA SumsDef ==
    ASSUME NEW value \in [Address -> Int], NEW S
    PROVE  /\ SumsTo(value, S, Depth, Sums(value, S))
           /\ Sum(value, S) = Sums(value, S)[Depth]
<1> DEFINE F(f) == [k \in 0 .. Depth |->
                      IF k = 0
                      THEN 0
                      ELSE f[k - 1] + (IF k - 1 \in S THEN value[k - 1] ELSE 0)]
           s == Sums(value, S)
<1>1. s = CHOOSE f : f = F(f)
  BY DEF Sums
<1>2. PICK g : SumsTo(value, S, Depth, g)
  BY SumsExist, DepthAssumption
<1>3. g = F(g)
  <2>1. g = [k \in 0 .. Depth |-> g[k]]
    BY <1>2 DEF SumsTo
  <2>2. \A k \in 0 .. Depth : g[k] = F(g)[k]
    <3>1. \A k \in 0 .. Depth : k # 0 => k \in 1 .. Depth
      BY DepthAssumption
    <3> QED BY <1>2, <3>1 DEF SumsTo, Part
  <2> QED BY <2>1, <2>2
<1>4. s = F(s)
  <2> HIDE DEF F, s
  <2> QED BY <1>1, <1>3
<1>5. /\ s[0] = 0
      /\ \A k \in 1 .. Depth : s[k] = s[k - 1] + Part(value, S, k - 1)
  <2>1. 0 \in 0 .. Depth /\ \A k \in 1 .. Depth : k \in 0 .. Depth /\ k # 0
    BY DepthAssumption
  <2>2. \A k \in 0 .. Depth : s[k] = F(s)[k]
    <3> HIDE DEF F, s
    <3> QED BY <1>4
  <2> HIDE DEF s
  <2> QED BY <2>1, <2>2 DEF Part
<1>6. \A k \in 0 .. Depth : s[k] \in Int
  <2> DEFINE T == {k \in 0 .. Depth : s[k] \notin Int}
  <2>1. SUFFICES ASSUME T # {} PROVE FALSE
    OBVIOUS
  <2>2. PICK x \in T : \A y \in T : x <= y
    <3>1. T \in SUBSET Nat
      BY DepthAssumption
    <3> HIDE DEF T
    <3> QED BY <2>1, <3>1, Least
  <2> HIDE DEF s
  <2>3. x \in 1 .. Depth /\ x - 1 \in 0 .. Depth /\ x - 1 \in Address /\ x - 1 \notin T
    BY <1>5, <2>2, DepthAssumption DEF Address
  <2>4. Part(value, S, x - 1) \in Int
    BY <2>3 DEF Part
  <2>5. s[x - 1] \in Int
    BY <2>3
  <2>6. s[x] \in Int
    BY <1>5, <2>3, <2>4, <2>5
  <2> QED BY <2>2, <2>6
<1>7. s \in [0 .. Depth -> Int]
  <2>1. s = [k \in 0 .. Depth |-> s[k]]
    BY <1>4
  <2> HIDE DEF s
  <2> QED BY <1>6, <2>1
<1>8. Sum(value, S) = s[Depth]
  BY DEF Sum
<1> QED
  <2> HIDE DEF s
  <2>1. s = Sums(value, S)
    BY DEF s
  <2> QED BY <1>5, <1>7, <1>8, <2>1 DEF SumsTo

\* Nothing adds up to 0.
LEMMA SumEmpty ==
    ASSUME NEW value \in [Address -> Int]
    PROVE  Sum(value, {}) = 0
<1> DEFINE s == Sums(value, {})
           T == {k \in 0 .. Depth : s[k] # 0}
<1>1. SumsTo(value, {}, Depth, s) /\ Sum(value, {}) = s[Depth]
  BY SumsDef
<1> HIDE DEF s
<1>2. SUFFICES ASSUME T # {} PROVE FALSE
  BY <1>1, DepthAssumption
<1>3. PICK x \in T : \A y \in T : x <= y
  <2>1. T \in SUBSET Nat
    BY DepthAssumption
  <2> HIDE DEF T
  <2> QED BY <1>2, <2>1, Least
<1>4. x \in 1 .. Depth /\ x - 1 \in 0 .. Depth /\ x - 1 \notin T
  BY <1>1, <1>3, DepthAssumption DEF SumsTo
<1>5. s[x - 1] = 0 /\ Part(value, {}, x - 1) = 0
  BY <1>4 DEF Part
<1>6. s[x] = 0
  BY <1>1, <1>4, <1>5 DEF SumsTo
<1> QED BY <1>3, <1>6

\* An address more adds its value.
LEMMA SumAdd ==
    ASSUME NEW value \in [Address -> Int], NEW S, NEW a \in Address, a \notin S
    PROVE  /\ Sum(value, S) \in Int
           /\ Sum(value, S \cup {a}) = Sum(value, S) + value[a]
<1> DEFINE s == Sums(value, S)
           t == Sums(value, S \cup {a})
           D(k) == IF k <= a THEN 0 ELSE value[a]
           T == {k \in 0 .. Depth : t[k] # s[k] + D(k)}
<1>1. /\ SumsTo(value, S, Depth, s) /\ Sum(value, S) = s[Depth]
      /\ SumsTo(value, S \cup {a}, Depth, t) /\ Sum(value, S \cup {a}) = t[Depth]
  BY SumsDef
<1> HIDE DEF s, t
<1>2. Depth \in 0 .. Depth /\ ~(Depth <= a) /\ a \in Nat /\ value[a] \in Int
  BY DepthAssumption DEF Address
<1>3. s[Depth] \in Int
  BY <1>1, <1>2 DEF SumsTo
<1>4. T = {}
  <2>1. SUFFICES ASSUME T # {} PROVE FALSE
    OBVIOUS
  <2>2. PICK x \in T : \A y \in T : x <= y
    <3>1. T \in SUBSET Nat
      BY DepthAssumption
    <3> HIDE DEF T
    <3> QED BY <2>1, <3>1, Least
  <2>3. x \in 0 .. Depth /\ x # 0
    <3>1. 0 <= a
      BY <1>2
    <3> QED BY <1>1, <2>2, <3>1, DepthAssumption DEF SumsTo
  <2>4. x \in 1 .. Depth /\ x - 1 \in 0 .. Depth /\ x - 1 \in Address /\ x - 1 \notin T
    BY <2>2, <2>3, DepthAssumption DEF Address
  <2>5. t[x - 1] = s[x - 1] + D(x - 1)
    BY <2>4
  <2> DEFINE p == Part(value, S, x - 1)
             q == Part(value, S \cup {a}, x - 1)
  <2>6. t[x] = t[x - 1] + q /\ s[x] = s[x - 1] + p
    BY <1>1, <2>4 DEF SumsTo
  <2>7. s[x - 1] \in Int /\ p \in Int
    BY <1>1, <2>4 DEF SumsTo, Part
  <2>8. q = p + (IF x - 1 = a THEN value[a] ELSE 0)
    <3>1. CASE x - 1 = a
      BY <1>2, <3>1 DEF Part
    <3>2. CASE x - 1 # a
      <4>1. q = p
        BY <3>2 DEF Part
      <4> QED BY <2>7, <3>2, <4>1
    <3> QED BY <3>1, <3>2
  <2>9. D(x) = D(x - 1) + (IF x - 1 = a THEN value[a] ELSE 0)
    BY <1>2, <2>4
  <2>10. D(x - 1) \in Int
    BY <1>2
  <2> HIDE DEF p, q, D
  <2>11. t[x] = s[x] + D(x)
    BY <1>2, <2>5, <2>6, <2>7, <2>8, <2>9, <2>10
  <2> QED BY <2>2, <2>11
<1>5. t[Depth] = s[Depth] + D(Depth)
  BY <1>2, <1>4
<1> QED BY <1>1, <1>2, <1>3, <1>5

\* So a sum over an interval grows by the value behind it.
LEMMA SumNext ==
    ASSUME NEW value \in [Address -> Int], NEW a \in Address, NEW n \in 0 .. a
    PROVE  /\ Sum(value, n .. a - 1) \in Int
           /\ Sum(value, n .. a) = Sum(value, n .. a - 1) + value[a]
<1>1. a \notin n .. a - 1 /\ n .. a = (n .. a - 1) \cup {a}
  BY DEF Address
<1> QED BY <1>1, SumAdd

\* The cycles up to a word, the jumps to it included, and one iteration of
\* the body of the LOOP at l: what the counter shows on the way.
Elapsed(m, n) ==
    Sum(Cycles(m), 0 .. n - 1)
        + (1 + PIPELINE_DELAY) * Sum(Jumps(m), 0 .. n - 1)
Iteration(m, l) == 1 + PIPELINE_DELAY + Slices(m, Body(m, l))

\* In the middle of an execution, too, the counter is what the words behind
\* the position and the iterations of the loop around it have taken.
TimeInv ==
    /\ fsm = "WAIT-DFI" => exec_cycles = 0
    /\ executing /\ Estimable(mem) /\ loop_counter = 0 =>
          exec_cycles = (PIPELINE_DELAY + Elapsed(mem, position) - remaining)
                            % CycleMod
    /\ executing /\ Estimable(mem) /\ loop_counter # 0 =>
          \E l \in 0 .. Min(Stops(mem)) :
             /\ IsLoop(mem[l])
             /\ position \in (l - mem[l].jump) .. l
             /\ loop_counter <= mem[l].count
             /\ exec_cycles =
                  (PIPELINE_DELAY + Elapsed(mem, position)
                      + loop_counter * Iteration(mem, l) - remaining) % CycleMod

\* Every sum is a number.
LEMMA SumType ==
    ASSUME NEW value \in [Address -> Int], NEW S
    PROVE  Sum(value, S) \in Int
<1>1. SumsTo(value, S, Depth, Sums(value, S)) /\ Sum(value, S) = Sums(value, S)[Depth]
  BY SumsDef
<1>2. Depth \in 0 .. Depth
  BY DepthAssumption
<1> QED BY <1>1, <1>2 DEF SumsTo

\* What the words of a memory are worth.
LEMMA WordTimes ==
    ASSUME NEW m \in Memory
    PROVE  /\ [a \in Address |-> m[a].timeslice] \in [Address -> Int]
           /\ \A S : Slices(m, S) \in Int
           /\ Cycles(m) \in [Address -> Int]
           /\ Jumps(m) \in [Address -> Int]
           /\ \A a \in Address :
                 /\ IsStop(m[a]) => Cycles(m)[a] = 1 /\ Jumps(m)[a] = 0
                 /\ IsLoop(m[a]) =>
                       /\ Cycles(m)[a] = 1 + m[a].count * Slices(m, Body(m, a))
                       /\ Jumps(m)[a] = m[a].count
                 /\ ~IsStop(m[a]) /\ ~IsLoop(m[a]) =>
                       Cycles(m)[a] = m[a].timeslice /\ Jumps(m)[a] = 0
<1>1. \A a \in Address : m[a].timeslice \in Nat /\ m[a].count \in Nat
  BY DEF Memory, Instruction
<1>2. [a \in Address |-> m[a].timeslice] \in [Address -> Int]
  BY <1>1
<1>3. \A S : Slices(m, S) \in Int
  BY <1>2, SumType DEF Slices
<1>4. Jumps(m) \in [Address -> Int]
  BY <1>1 DEF Jumps
<1>5. ASSUME NEW a \in Address
      PROVE  /\ Cycles(m)[a] \in Int
             /\ IsStop(m[a]) => Cycles(m)[a] = 1 /\ Jumps(m)[a] = 0
             /\ IsLoop(m[a]) =>
                   /\ Cycles(m)[a] = 1 + m[a].count * Slices(m, Body(m, a))
                   /\ Jumps(m)[a] = m[a].count
             /\ ~IsStop(m[a]) /\ ~IsLoop(m[a]) =>
                   Cycles(m)[a] = m[a].timeslice /\ Jumps(m)[a] = 0
  <2> DEFINE body == Slices(m, Body(m, a))
  <2>1. Cycles(m)[a] =
          CASE IsStop(m[a]) -> 1
            [] IsLoop(m[a]) -> 1 + m[a].count * body
            [] ~IsStop(m[a]) /\ ~IsLoop(m[a]) -> 1 + (m[a].timeslice - 1)
    BY DEF Cycles
  <2>2. Jumps(m)[a] = IF IsLoop(m[a]) THEN m[a].count ELSE 0
    BY DEF Jumps
  <2>3. IsStop(m[a]) => ~IsLoop(m[a])
    BY DEF IsStop, IsLoop
  <2>4. body \in Int /\ m[a].count \in Int /\ m[a].timeslice \in Int
    BY <1>1, <1>3
  <2>5. m[a].count * body \in Int
    BY <2>4
  <2> HIDE DEF body
  <2>6. CASE IsStop(m[a])
    BY <2>1, <2>2, <2>3, <2>6
  <2>7. CASE IsLoop(m[a])
    <3>1. Cycles(m)[a] = 1 + m[a].count * body
      BY <2>1, <2>3, <2>7
    <3> QED BY <2>2, <2>3, <2>5, <2>7, <3>1 DEF body
  <2>8. CASE ~IsStop(m[a]) /\ ~IsLoop(m[a])
    BY <2>1, <2>2, <2>4, <2>8
  <2> QED BY <2>6, <2>7, <2>8
<1>6. Cycles(m) \in [Address -> Int]
  <2>1. Cycles(m) = [a \in Address |-> Cycles(m)[a]]
    BY DEF Cycles
  <2> QED BY <1>5, <2>1
<1> QED BY <1>2, <1>3, <1>4, <1>5, <1>6

\* The next word adds its cycles, and three for every jump it makes.
LEMMA ElapsedNext ==
    ASSUME NEW m \in Memory, NEW a \in Address
    PROVE  /\ Elapsed(m, a) \in Int
           /\ Elapsed(m, a + 1) = Elapsed(m, a) + Cycles(m)[a] + 3 * Jumps(m)[a]
<1> DEFINE c == Sum(Cycles(m), 0 .. a - 1)
           j == Sum(Jumps(m), 0 .. a - 1)
<1>1. 0 \in 0 .. a /\ 0 .. (a + 1) - 1 = 0 .. a
  BY DEF Address
<1>2. c \in Int /\ Sum(Cycles(m), 0 .. a) = c + Cycles(m)[a] /\ Cycles(m)[a] \in Int
  BY <1>1, SumNext, WordTimes
<1>3. j \in Int /\ Sum(Jumps(m), 0 .. a) = j + Jumps(m)[a] /\ Jumps(m)[a] \in Int
  BY <1>1, SumNext, WordTimes
<1>4. Elapsed(m, a) = c + 3 * j
  BY DEF Elapsed, PIPELINE_DELAY
<1>5. Elapsed(m, a + 1) = (c + Cycles(m)[a]) + 3 * (j + Jumps(m)[a])
  <2>1. Elapsed(m, a + 1) = Sum(Cycles(m), 0 .. a) + (1 + 2) * Sum(Jumps(m), 0 .. a)
    BY <1>1, Zenon DEF Elapsed, PIPELINE_DELAY
  <2> HIDE DEF c, j
  <2> QED BY <1>2, <1>3, <2>1
<1> HIDE DEF c, j
<1> QED BY <1>2, <1>3, <1>4, <1>5

\* Before the first word no cycle has passed.
LEMMA ElapsedStart ==
    ASSUME NEW m \in Memory
    PROVE  Elapsed(m, 0) = 0
<1>1. 0 .. 0 - 1 = {}
  OBVIOUS
<1>2. Sum(Cycles(m), {}) = 0 /\ Sum(Jumps(m), {}) = 0
  BY SumEmpty, WordTimes
<1> QED BY <1>1, <1>2 DEF Elapsed, PIPELINE_DELAY

\* The execution of a payload with an estimate ends at its first STOP.
LEMMA EndFacts ==
    ASSUME NEW m, Stops(m) # {}
    PROVE  /\ Min(Stops(m)) \in Address
           /\ IsStop(m[Min(Stops(m))])
           /\ \A b \in Address : IsStop(m[b]) => Min(Stops(m)) <= b
<1>1. Stops(m) \in SUBSET Nat
  BY DEF Stops, Address
<1>2. \E x \in Stops(m) : \A y \in Stops(m) : x <= y
  BY <1>1, Least
<1>3. Min(Stops(m)) \in Stops(m) /\ \A y \in Stops(m) : Min(Stops(m)) <= y
  BY <1>2 DEF Min
<1> QED BY <1>3 DEF Stops

\* The body of a loop takes the sum of its time slices.
LEMMA BodyTime ==
    ASSUME NEW m \in Memory, InBounds(m), Estimable(m),
           NEW l \in 0 .. Min(Stops(m)), IsLoop(m[l])
    PROVE  /\ l \in Address
           /\ m[l].jump \in 0 .. l
           /\ Elapsed(m, l) = Elapsed(m, l - m[l].jump) + Slices(m, Body(m, l))
<1> DEFINE e == Min(Stops(m))
           j == m[l].jump
           b == l - j
           ts == [a \in Address |-> m[a].timeslice]
           T == {k \in 0 .. j : Elapsed(m, b + k) # Elapsed(m, b) + Sum(ts, b .. (b + k) - 1)}
<1>1. e \in Address
  BY EndFacts DEF Estimable
<1>2. l \in Address /\ l \in Nat
  BY <1>1, DepthAssumption DEF Address
<1>3. j \in 0 .. l /\ b \in 0 .. l /\ b \in Address
  <2>1. j \in Nat /\ j <= l
    BY <1>2 DEF Memory, Instruction, InBounds
  <2>2. Address = 0 .. Depth - 1
    BY DEF Address
  <2> HIDE DEF j
  <2> QED BY <1>2, <2>1, <2>2, DepthAssumption
<1>4. ts \in [Address -> Int]
  BY WordTimes
<1>5. \A k \in 0 .. j : k # j => /\ b + k \in Address /\ b \in 0 .. b + k
                                  /\ b + k \in Body(m, l) /\ b + k \in 0 .. e
  <2>1. Body(m, l) = b .. l - 1 /\ Address = 0 .. Depth - 1 /\ b = l - j /\ l <= e
    BY <1>2 DEF Body, Address
  <2>2. e \in 0 .. Depth - 1
    BY <1>1, <2>1
  <2> HIDE DEF j, b, e
  <2> QED BY <1>2, <1>3, <2>1, <2>2, DepthAssumption
<1> HIDE DEF b, ts
<1>6. T = {}
  <2>1. SUFFICES ASSUME T # {} PROVE FALSE
    OBVIOUS
  <2>2. PICK x \in T : \A y \in T : x <= y
    <3>1. T \in SUBSET Nat
      BY <1>3
    <3> HIDE DEF T
    <3> QED BY <2>1, <3>1, Least
  <2>3. x # 0
    <3>1. b .. (b + 0) - 1 = {} /\ b + 0 = b
      BY <1>3
    <3>2. Sum(ts, {}) = 0 /\ Elapsed(m, b) \in Int
      BY <1>3, <1>4, SumEmpty, ElapsedNext
    <3>3. Elapsed(m, b + 0) = Elapsed(m, b) + Sum(ts, b .. (b + 0) - 1)
      <4>1. Sum(ts, b .. (b + 0) - 1) = 0 /\ Elapsed(m, b + 0) = Elapsed(m, b)
        BY <3>1, <3>2, Zenon
      <4> QED BY <3>2, <4>1
    <3> QED BY <2>2, <3>3
  <2> DEFINE a == b + (x - 1)
  <2>4. x \in 1 .. j /\ x - 1 \in 0 .. j /\ x - 1 # j /\ x - 1 \notin T
    BY <1>3, <2>2, <2>3
  <2>5. Elapsed(m, a) = Elapsed(m, b) + Sum(ts, b .. a - 1)
    BY <2>4, Zenon
  <2>6. a \in Address /\ b \in 0 .. a /\ a \in Body(m, l) /\ a \in 0 .. e
    BY <1>5, <2>4
  <2>7. a + 1 = b + x /\ a = (b + x) - 1
    BY <1>3, <2>4
  <2> HIDE DEF a
  <2>8. ~IsLoop(m[a]) /\ ~IsStop(m[a])
    BY <2>6, <1>2 DEF Estimable
  <2>9. Cycles(m)[a] = ts[a] /\ Jumps(m)[a] = 0 /\ ts[a] \in Int
    BY <1>4, <2>6, <2>8, WordTimes DEF ts
  <2>10. Elapsed(m, a) \in Int /\ Elapsed(m, b) \in Int
         /\ Elapsed(m, b + x) = Elapsed(m, a) + Cycles(m)[a] + 3 * Jumps(m)[a]
    BY <1>3, <2>6, <2>7, ElapsedNext
  <2>11. /\ Sum(ts, b .. a - 1) \in Int
         /\ Sum(ts, b .. (b + x) - 1) = Sum(ts, b .. a - 1) + ts[a]
    BY <1>4, <2>6, <2>7, SumNext
  <2>12. Elapsed(m, b + x) = Elapsed(m, b) + Sum(ts, b .. (b + x) - 1)
    BY <2>5, <2>9, <2>10, <2>11
  <2> QED BY <2>2, <2>12
<1>7. j \in 0 .. j /\ b + j = l
  BY <1>2, <1>3 DEF b
<1>8. Elapsed(m, l) = Elapsed(m, b) + Sum(ts, b .. l - 1)
  <2>1. Elapsed(m, b + j) = Elapsed(m, b) + Sum(ts, b .. (b + j) - 1)
    BY <1>6, <1>7, Zenon
  <2> QED BY <1>7, <2>1, Zenon
<1> QED BY <1>2, <1>3, <1>8 DEF b, ts, Slices, Body

\* The increment of a counter that wraps counts the number it stands for.
LEMMA ModNext ==
    ASSUME NEW n \in Nat \ {0}, NEW x \in Int
    PROVE  ((x % n) + 1) % n = (x + 1) % n
<1> DEFINE q == x \div n
           r == x % n
<1>1. q \in Int /\ r \in 0 .. n - 1
  BY Z3
<1>2. x = n * q + r
  BY Z3
<1> HIDE DEF q, r
<1>3. CASE r + 1 = n
  <2>1. x + 1 = n * (q + 1)
    BY <1>1, <1>2, <1>3
  <2>2. (n * (q + 1)) % n = 0
    BY <1>1, Z3
  <2>3. (r + 1) % n = 0
    BY <1>3
  <2> QED BY <2>1, <2>2, <2>3 DEF r
<1>4. CASE r + 1 # n
  <2>1. x + 1 = n * q + (r + 1) /\ r + 1 \in 0 .. n - 1
    BY <1>1, <1>2, <1>4
  <2>2. (n * q + (r + 1)) % n = r + 1
    BY <1>1, <2>1, Z3
  <2>3. (r + 1) % n = r + 1
    BY <2>1, ModSmall
  <2> QED BY <2>1, <2>2, <2>3 DEF r
<1> QED BY <1>3, <1>4

\* A cycle counted in exec_cycles.
LEMMA CountsOn ==
    ASSUME CountCycle, NEW x \in Int, exec_cycles = x % CycleMod
    PROVE  exec_cycles' = (x + 1) % CycleMod
  BY ModNext, CycleModAssumption DEF CountCycle

\* A payload with an estimate is never executed past its first STOP.
LEMMA RunBeforeEnd ==
    ASSUME IndInv, LoopInv, fsm = "RUN", Estimable(mem)
    PROVE  /\ position \in Address
           /\ position \in 0 .. Min(Stops(mem))
           /\ Min(Stops(mem)) \in Address
           /\ Elapsed(mem, position) \in Int
           /\ mem \in Memory /\ InBounds(mem)
<1>1. position \in Address
  BY RunFacts
<1>2. \A b \in Address : b < position => ~IsStop(mem[b])
  BY DEF LoopInv, executing, Executing
<1>3. Min(Stops(mem)) \in Address /\ IsStop(mem[Min(Stops(mem))])
  BY EndFacts DEF Estimable
<1>4. ~(Min(Stops(mem)) < position)
  BY <1>2, <1>3
<1>5. mem \in Memory /\ InBounds(mem)
  BY DEF IndInv, TypeOK
<1>6. Elapsed(mem, position) \in Int
  BY <1>1, <1>5, ElapsedNext
<1> QED BY <1>1, <1>3, <1>4, <1>5, <1>6 DEF Address

\* At a LOOP the loop in progress, if any, is the one that it ends: there is
\* no LOOP inside a body.
LEMMA TimeAtLoop ==
    ASSUME IndInv, LoopInv, TimeInv, fsm = "RUN", IsLoop(instruction), Estimable(mem)
    PROVE  /\ loop_counter <= mem[position].count
           /\ exec_cycles =
                (2 + Elapsed(mem, position)
                    + loop_counter * (3 + Slices(mem, Body(mem, position)))) % CycleMod
<1> DEFINE l == position
           c == loop_counter
           s == Slices(mem, Body(mem, l))
           t == Elapsed(mem, l)
<1>1. executing /\ remaining = 0
  BY DEF executing, Executing, remaining
<1>2. /\ l \in Address /\ l \in 0 .. Min(Stops(mem)) /\ IsLoop(mem[l])
      /\ mem \in Memory /\ InBounds(mem)
  BY RunBeforeEnd, RunFacts
<1>3. s \in Int /\ t \in Int /\ c \in Int /\ Iteration(mem, l) = 3 + s
  <2>1. c \in Int
    BY DEF IndInv, TypeOK
  <2> QED BY <1>2, <2>1, ElapsedNext, WordTimes DEF Iteration, PIPELINE_DELAY
<1>4. CASE c = 0
  <2>1. mem[l].count \in Nat
    BY <1>2 DEF Memory, Instruction
  <2>2. exec_cycles = (2 + t - 0) % CycleMod
    BY <1>1, <1>4 DEF TimeInv, PIPELINE_DELAY
  <2>3. 2 + t - 0 = 2 + t + c * (3 + s)
    <3> HIDE DEF s, t
    <3> QED BY <1>3, <1>4
  <2> QED BY <1>4, <2>1, <2>2, <2>3
<1>5. CASE c # 0
  <2>1. PICK k \in 0 .. Min(Stops(mem)) :
           /\ IsLoop(mem[k])
           /\ l \in (k - mem[k].jump) .. k
           /\ c <= mem[k].count
           /\ exec_cycles = (2 + t + c * Iteration(mem, k) - 0) % CycleMod
    BY <1>1, <1>5 DEF TimeInv, PIPELINE_DELAY
  <2>2. k = l
    <3>1. SUFFICES ASSUME k # l PROVE FALSE
      OBVIOUS
    <3>2. l \in Body(mem, k)
      <4>1. k \in Int /\ mem[k].jump \in Int
        BY <1>2, <2>1, BodyTime
      <4> QED BY <1>2, <2>1, <3>1, <4>1 DEF Body
    <3> QED BY <1>2, <2>1, <3>2 DEF Estimable
  <2>3. 2 + t + c * Iteration(mem, l) - 0 = 2 + t + c * (3 + s)
    <3>1. c * (3 + s) \in Int
      BY <1>3
    <3> HIDE DEF s, t, c
    <3> QED BY <1>3, <3>1
  <2> QED BY <2>1, <2>2, <2>3
<1> QED BY <1>4, <1>5

\* A jump counts an iteration of the loop.
LEMMA TimeJump ==
    ASSUME IndInv, LoopInv, TimeInv, RunJump, mem' = mem
    PROVE  TimeInv'
<1>1. /\ fsm = "RUN" /\ ~Finished /\ IsLoop(instruction)
      /\ loop_counter # instruction.count /\ fsm' = "BUBBLE"
      /\ loop_counter' = (loop_counter + 1) % LoopMod /\ CountCycle
  BY DEF RunJump
<1>2. executing /\ executing' /\ remaining = 0 /\ remaining' = 2
  BY <1>1 DEF RunJump, executing, Executing, remaining, PIPELINE_DELAY
<1>3. SUFFICES ASSUME Estimable(mem)
      PROVE  /\ loop_counter' # 0
             /\ \E l \in 0 .. Min(Stops(mem)) :
                   /\ IsLoop(mem[l])
                   /\ position' \in (l - mem[l].jump) .. l
                   /\ loop_counter' <= mem[l].count
                   /\ exec_cycles' = (2 + Elapsed(mem, position')
                          + loop_counter' * Iteration(mem, l) - 2) % CycleMod
  BY <1>1, <1>2 DEF TimeInv, PIPELINE_DELAY
<1> DEFINE l == position
           j == mem[l].jump
           c == loop_counter
           s == Slices(mem, Body(mem, l))
           t == Elapsed(mem, l - j)
<1>4. /\ l \in Address /\ l \in 0 .. Min(Stops(mem)) /\ IsLoop(mem[l])
      /\ mem \in Memory /\ InBounds(mem) /\ instruction = mem[l]
  BY <1>1, <1>3, RunBeforeEnd, RunFacts
<1>5. j \in 0 .. l /\ Elapsed(mem, l) = t + s
  BY <1>3, <1>4, BodyTime
<1>6. position' = l - j
  BY <1>1, <1>4, RunPosition
<1>7. s \in Int /\ t \in Int /\ Iteration(mem, l) = 3 + s
  <2>1. l - j \in Address
    <3> HIDE DEF j
    <3> QED BY <1>4, <1>5, DepthAssumption DEF Address
  <2> QED BY <1>4, <2>1, ElapsedNext, WordTimes DEF Iteration, PIPELINE_DELAY
<1>8. /\ c <= mem[l].count
      /\ exec_cycles = (2 + (t + s) + c * (3 + s)) % CycleMod
  BY <1>1, <1>3, <1>5, TimeAtLoop
<1>9. c \in Nat /\ mem[l].count \in 0 .. LoopMod - 1 /\ c # mem[l].count
  BY <1>1, <1>4 DEF IndInv, TypeOK, Memory, Instruction
<1>10. loop_counter' = c + 1 /\ c + 1 <= mem[l].count /\ c + 1 # 0
  <2>1. c + 1 \in 0 .. LoopMod - 1 /\ c + 1 <= mem[l].count
    BY <1>8, <1>9, LoopModAssumption
  <2>2. loop_counter' = (c + 1) % LoopMod
    BY <1>1
  <2>3. c + 1 # 0
    BY <1>9
  <2> HIDE DEF c
  <2>4. (c + 1) % LoopMod = c + 1
    BY <2>1, ModSmall, LoopModAssumption
  <2> QED BY <2>1, <2>2, <2>3, <2>4, Zenon
<1>11. exec_cycles' = (2 + t + (c + 1) * (3 + s) - 2) % CycleMod
  <2> HIDE DEF s, t, c
  <2>1. c * (3 + s) \in Int /\ (c + 1) * (3 + s) = c * (3 + s) + (3 + s)
    BY <1>7, <1>9
  <2>2. 2 + (t + s) + c * (3 + s) \in Int
    BY <1>7, <2>1
  <2>3. exec_cycles' = (2 + (t + s) + c * (3 + s) + 1) % CycleMod
    BY <1>1, <1>8, <2>2, CountsOn
  <2>4. 2 + (t + s) + c * (3 + s) + 1 = 2 + t + (c + 1) * (3 + s) - 2
    BY <1>7, <2>1
  <2> QED BY <2>3, <2>4
<1>12. l - j \in (l - j) .. l
  BY <1>4, <1>5 DEF Address
<1> QED
  <2> HIDE DEF s, t, c
  <2>1. exec_cycles' = (2 + t + (c + 1) * Iteration(mem, l) - 2) % CycleMod
    BY <1>7, <1>11
  <2>2. loop_counter' # 0 /\ loop_counter' <= mem[l].count
    BY <1>10
  <2>3. exec_cycles' = (2 + Elapsed(mem, position') + loop_counter' * Iteration(mem, l) - 2) % CycleMod
    BY <1>6, <1>10, <2>1 DEF t
  <2>4. position' \in (l - mem[l].jump) .. l
    BY <1>6, <1>12
  <2> QED BY <1>4, <2>2, <2>3, <2>4

\* An exhausted loop has taken what its LOOP word is worth.
LEMMA TimeLoopEnd ==
    ASSUME IndInv, LoopInv, TimeInv, RunLoopEnd, mem' = mem
    PROVE  TimeInv'
<1>1. /\ fsm = "RUN" /\ ~Finished /\ IsLoop(instruction)
      /\ loop_counter = instruction.count /\ fsm' = "RUN"
      /\ loop_counter' = 0 /\ CountCycle
  BY DEF RunLoopEnd
<1>2. executing /\ executing' /\ remaining = 0 /\ remaining' = 0
  BY <1>1 DEF executing, Executing, remaining
<1>3. SUFFICES ASSUME Estimable(mem)
      PROVE  exec_cycles' = (2 + Elapsed(mem, position') - 0) % CycleMod
  BY <1>1, <1>2 DEF TimeInv, PIPELINE_DELAY
<1> DEFINE l == position
           c == loop_counter
           s == Slices(mem, Body(mem, l))
           t == Elapsed(mem, l)
<1>4. /\ l \in Address /\ l \in 0 .. Min(Stops(mem)) /\ IsLoop(mem[l])
      /\ mem \in Memory /\ InBounds(mem) /\ c = mem[l].count
  BY <1>1, <1>3, RunBeforeEnd, RunFacts
<1>5. s \in Int /\ t \in Int /\ c \in Int /\ Iteration(mem, l) = 3 + s
  <2>1. c \in Int
    BY DEF IndInv, TypeOK
  <2> QED BY <1>4, <2>1, ElapsedNext, WordTimes DEF Iteration, PIPELINE_DELAY
<1>6. position' = l + 1
  BY <1>1, RunPosition
<1>7. Elapsed(mem, l + 1) = t + (1 + c * s) + 3 * c
  <2>1. Cycles(mem)[l] = 1 + c * s /\ Jumps(mem)[l] = c
    BY <1>4, WordTimes
  <2> QED BY <1>4, <2>1, ElapsedNext
<1>8. exec_cycles = (2 + t + c * (3 + s)) % CycleMod
  BY <1>1, <1>3, TimeAtLoop
<1> HIDE DEF s, t, c
<1>9. c * (3 + s) \in Int /\ c * s \in Int /\ c * (3 + s) = c * s + 3 * c
  BY <1>5
<1>10. exec_cycles' = (2 + t + c * (3 + s) + 1) % CycleMod
  <2>1. 2 + t + c * (3 + s) \in Int
    BY <1>5, <1>9
  <2> QED BY <1>1, <1>8, <2>1, CountsOn
<1>11. 2 + t + c * (3 + s) + 1 = 2 + Elapsed(mem, l + 1) - 0
  BY <1>5, <1>7, <1>9
<1> QED BY <1>6, <1>10, <1>11

\* A word that is sent takes its time slice.
LEMMA TimeCommand ==
    ASSUME IndInv, LoopInv, TimeInv, RunCommand, mem' = mem
    PROVE  TimeInv'
<1>1. /\ fsm = "RUN" /\ ~Finished /\ ~IsLoop(instruction)
      /\ fsm' \in {"RUN", "IDLE"} /\ loop_counter' = loop_counter /\ CountCycle
  BY DEF RunCommand
<1>2. executing /\ executing' /\ remaining = 0
  BY <1>1 DEF executing, Executing, remaining
<1>3. SUFFICES ASSUME Estimable(mem)
      PROVE  /\ loop_counter = 0 =>
                   exec_cycles' = (2 + Elapsed(mem, position') - remaining') % CycleMod
             /\ loop_counter # 0 =>
                   \E l \in 0 .. Min(Stops(mem)) :
                     /\ IsLoop(mem[l])
                     /\ position' \in (l - mem[l].jump) .. l
                     /\ loop_counter <= mem[l].count
                     /\ exec_cycles' = (2 + Elapsed(mem, position')
                           + loop_counter * Iteration(mem, l) - remaining') % CycleMod
  BY <1>1, <1>2 DEF TimeInv, PIPELINE_DELAY
<1> DEFINE a == position
           n == mem[a].timeslice
           t == Elapsed(mem, a)
<1>4. /\ a \in Address /\ a \in 0 .. Min(Stops(mem)) /\ t \in Int
      /\ mem \in Memory /\ InBounds(mem)
      /\ ~IsLoop(mem[a]) /\ ~IsStop(mem[a]) /\ instruction = mem[a]
  BY <1>1, <1>3, RunBeforeEnd, RunFacts, RunContinues
<1>5. n \in Nat /\ n > 0
  BY <1>3, <1>4 DEF Estimable, Memory, Instruction
<1>6. remaining' = n - 1
  <2>1. CASE n = 1
    <3>1. fsm' = "RUN"
      BY <1>4, <2>1 DEF RunCommand
    <3> QED BY <2>1, <3>1 DEF remaining
  <2>2. CASE n # 1
    <3>1. fsm' = "IDLE" /\ idle_counter' = n - 2
      <4>1. instruction.timeslice = n /\ n \notin {0, 1}
        BY <1>4, <1>5, <2>2
      <4> HIDE DEF n
      <4> QED BY <4>1 DEF RunCommand, IdleCycles
    <3>2. remaining' = (n - 2) + 1
      BY <3>1 DEF remaining
    <3> QED BY <1>5, <3>2
  <2> QED BY <2>1, <2>2
<1>7. position' = a + 1
  BY <1>1, RunPosition
<1>8. Elapsed(mem, a + 1) = t + n
  <2>1. Cycles(mem)[a] = n /\ Jumps(mem)[a] = 0
    BY <1>4, WordTimes
  <2> QED BY <1>4, <1>5, <2>1, ElapsedNext
<1>9. ASSUME NEW x \in Int, exec_cycles = (2 + t + x - 0) % CycleMod
      PROVE  exec_cycles' = (2 + Elapsed(mem, a + 1) + x - remaining') % CycleMod
  <2> HIDE DEF t, n
  <2>1. 2 + t + x - 0 \in Int
    BY <1>4
  <2>2. exec_cycles' = ((2 + t + x - 0) + 1) % CycleMod
    BY <1>1, <1>9, <2>1, CountsOn
  <2>3. (2 + t + x - 0) + 1 = 2 + Elapsed(mem, a + 1) + x - remaining'
    BY <1>4, <1>5, <1>6, <1>8
  <2> QED BY <2>2, <2>3
<1>10. ASSUME loop_counter = 0
       PROVE  exec_cycles' = (2 + Elapsed(mem, position') - remaining') % CycleMod
  <2>1. exec_cycles = (2 + t - 0) % CycleMod
    BY <1>2, <1>3, <1>10 DEF TimeInv, PIPELINE_DELAY
  <2>2. exec_cycles = (2 + t + 0 - 0) % CycleMod
    <3> HIDE DEF t
    <3> QED BY <1>4, <2>1
  <2>3. exec_cycles' = (2 + Elapsed(mem, a + 1) + 0 - remaining') % CycleMod
    BY <1>9, <2>2
  <2>4. 2 + Elapsed(mem, a + 1) + 0 - remaining' = 2 + Elapsed(mem, a + 1) - remaining'
    <3> HIDE DEF t, n
    <3> QED BY <1>4, <1>5, <1>6, <1>8
  <2> QED BY <1>7, <2>3, <2>4
<1>11. ASSUME loop_counter # 0
       PROVE  \E l \in 0 .. Min(Stops(mem)) :
                /\ IsLoop(mem[l])
                /\ position' \in (l - mem[l].jump) .. l
                /\ loop_counter <= mem[l].count
                /\ exec_cycles' = (2 + Elapsed(mem, position')
                      + loop_counter * Iteration(mem, l) - remaining') % CycleMod
  <2>1. PICK l \in 0 .. Min(Stops(mem)) :
           /\ IsLoop(mem[l])
           /\ a \in (l - mem[l].jump) .. l
           /\ loop_counter <= mem[l].count
           /\ exec_cycles = (2 + t + loop_counter * Iteration(mem, l) - 0) % CycleMod
    BY <1>2, <1>3, <1>11 DEF TimeInv, PIPELINE_DELAY
  <2>2. loop_counter * Iteration(mem, l) \in Int
    <3>1. Slices(mem, Body(mem, l)) \in Int
      BY <1>4, WordTimes
    <3>2. loop_counter \in Int
      BY DEF IndInv, TypeOK
    <3>3. Iteration(mem, l) \in Int
      BY <3>1 DEF Iteration, PIPELINE_DELAY
    <3> QED BY <3>2, <3>3
  <2>3. exec_cycles' = (2 + Elapsed(mem, a + 1) + loop_counter * Iteration(mem, l) - remaining')
                          % CycleMod
    BY <1>9, <2>1, <2>2
  <2>4. a + 1 \in (l - mem[l].jump) .. l
    <3>1. l \in Int /\ mem[l].jump \in Int
      BY <1>3, <1>4, <2>1, BodyTime
    <3>2. a # l
      BY <1>4, <2>1
    <3> QED BY <1>4, <2>1, <3>1, <3>2 DEF Address
  <2> QED BY <1>7, <2>1, <2>3, <2>4
<1> QED BY <1>10, <1>11

\* A cycle of waiting is one of those that remain.
LEMMA TimeWait ==
    ASSUME IndInv, LoopInv, TimeInv, Idle \/ Bubble, mem' = mem
    PROVE  TimeInv'
<1>1. /\ position' = position /\ remaining \in Nat \ {0} /\ remaining' = remaining - 1
      /\ executing /\ executing' /\ loop_counter' = loop_counter
  BY WaitPosition
<1>2. CountCycle /\ fsm' # "WAIT-DFI"
  BY DEF Idle, Bubble, IdleOrBubble
<1>3. SUFFICES ASSUME Estimable(mem)
      PROVE  /\ loop_counter = 0 =>
                   exec_cycles' = (2 + Elapsed(mem, position) - (remaining - 1)) % CycleMod
             /\ loop_counter # 0 =>
                   \E l \in 0 .. Min(Stops(mem)) :
                     /\ IsLoop(mem[l])
                     /\ position \in (l - mem[l].jump) .. l
                     /\ loop_counter <= mem[l].count
                     /\ exec_cycles' = (2 + Elapsed(mem, position)
                           + loop_counter * Iteration(mem, l) - (remaining - 1)) % CycleMod
  BY <1>1, <1>2 DEF TimeInv, PIPELINE_DELAY
<1>4. mem \in Memory /\ InBounds(mem)
  BY DEF IndInv, TypeOK
<1> DEFINE t == Elapsed(mem, position)
<1>5. t \in Int
  <2>1. Sum(Cycles(mem), 0 .. position - 1) \in Int /\ Sum(Jumps(mem), 0 .. position - 1) \in Int
    BY <1>4, SumType, WordTimes
  <2> QED BY <2>1 DEF Elapsed, PIPELINE_DELAY
<1>6. ASSUME loop_counter = 0
      PROVE  exec_cycles' = (2 + t - (remaining - 1)) % CycleMod
  <2>1. exec_cycles = (2 + t - remaining) % CycleMod
    BY <1>1, <1>3, <1>6 DEF TimeInv, PIPELINE_DELAY
  <2> HIDE DEF t
  <2>2. 2 + t - remaining \in Int /\ (2 + t - remaining) + 1 = 2 + t - (remaining - 1)
    BY <1>1, <1>5
  <2> QED BY <1>2, <2>1, <2>2, CountsOn
<1>7. ASSUME loop_counter # 0
      PROVE  \E l \in 0 .. Min(Stops(mem)) :
                /\ IsLoop(mem[l])
                /\ position \in (l - mem[l].jump) .. l
                /\ loop_counter <= mem[l].count
                /\ exec_cycles' = (2 + t + loop_counter * Iteration(mem, l) - (remaining - 1))
                                     % CycleMod
  <2>1. PICK l \in 0 .. Min(Stops(mem)) :
           /\ IsLoop(mem[l])
           /\ position \in (l - mem[l].jump) .. l
           /\ loop_counter <= mem[l].count
           /\ exec_cycles = (2 + t + loop_counter * Iteration(mem, l) - remaining) % CycleMod
    BY <1>1, <1>3, <1>7 DEF TimeInv, PIPELINE_DELAY
  <2> DEFINE x == loop_counter * Iteration(mem, l)
  <2>2. x \in Int
    <3>1. Slices(mem, Body(mem, l)) \in Int
      BY <1>4, WordTimes
    <3>2. loop_counter \in Int
      BY DEF IndInv, TypeOK
    <3>3. Iteration(mem, l) \in Int
      BY <3>1 DEF Iteration, PIPELINE_DELAY
    <3> QED BY <3>2, <3>3
  <2>3. exec_cycles = (2 + t + x - remaining) % CycleMod
    BY <2>1
  <2> HIDE DEF t, x
  <2>4. /\ 2 + t + x - remaining \in Int
        /\ (2 + t + x - remaining) + 1 = 2 + t + x - (remaining - 1)
    BY <1>1, <1>5, <2>2
  <2>5. exec_cycles' = (2 + t + x - (remaining - 1)) % CycleMod
    BY <1>2, <2>3, <2>4, CountsOn
  <2> QED BY <2>1, <2>5 DEF x
<1> QED BY <1>6, <1>7

\* TimeInv is preserved by every clock cycle and host write.
LEMMA TimeStep ==
    ASSUME IndInv, LoopInv, TimeInv, [Next]_vars
    PROVE  TimeInv'
<1>1. ASSUME NEW r \in BOOLEAN, NEW u \in BOOLEAN, Cycle(r, u)
      PROVE  TimeInv'
  <2>1. Executor /\ mem' = mem
    BY <1>1 DEF Cycle, hostVars
  <2>2. CASE Ready
    <3>1. fsm' = "WAIT-DFI" => exec_cycles' = 0
      BY <2>2 DEF Ready
    <3>2. ~executing'
      BY <2>2 DEF Ready, executing, Executing
    <3> QED BY <3>1, <3>2 DEF TimeInv
  <2>3. CASE WaitDfi
    <3>1. exec_cycles = 0 /\ exec_cycles' = 0 /\ loop_counter' = 0
      BY <2>3 DEF WaitDfi, dfi_ready, TimeInv, LoopInv, executing, Executing
    <3>2. CASE fsm' = "WAIT-DFI"
      <4>1. ~executing'
        BY <3>2 DEF executing, Executing
      <4> QED BY <3>1, <4>1 DEF TimeInv
    <3>3. CASE fsm' # "WAIT-DFI"
      <4>1. position' = 0 /\ remaining' = 2
        BY <2>3, <3>3 DEF WaitDfi, dfi_ready, position, remaining, PIPELINE_DELAY,
           Fetch, stall, IndInv, Handshake
      <4>2. Elapsed(mem, 0) = 0
        BY ElapsedStart DEF IndInv, TypeOK
      <4>3. (2 + 0 - 2) % CycleMod = 0
        BY CycleModAssumption
      <4> QED BY <2>1, <3>1, <3>3, <4>1, <4>2, <4>3 DEF TimeInv, PIPELINE_DELAY
    <3> QED BY <3>2, <3>3
  <2>4. CASE RunFinish
    <3>1. ~executing' /\ fsm' # "WAIT-DFI"
      BY <2>4 DEF RunFinish, executing, Executing
    <3> QED BY <3>1 DEF TimeInv
  <2>5. CASE RunJump
    BY <2>1, <2>5, TimeJump
  <2>6. CASE RunLoopEnd
    BY <2>1, <2>6, TimeLoopEnd
  <2>7. CASE RunCommand
    BY <2>1, <2>7, TimeCommand
  <2>8. CASE Idle \/ Bubble
    BY <2>1, <2>8, TimeWait
  <2> QED BY <2>1, <2>2, <2>3, <2>4, <2>5, <2>6, <2>7, <2>8 DEF Executor
<1>2. ASSUME fsm = "READY", UNCHANGED executorVars
      PROVE  TimeInv'
  <2>1. ~executing' /\ fsm' # "WAIT-DFI"
    BY <1>2 DEF executing, Executing, executorVars
  <2> QED BY <2>1 DEF TimeInv
<1>3. ASSUME NEW p \in Programs, Load(p)
      PROVE  TimeInv'
  BY <1>2, <1>3 DEF Load
<1>4. CASE WriteAtRefresh \/ WriteRefresh
  BY <1>2, <1>4 DEF WriteAtRefresh, WriteRefresh
<1>5. CASE UNCHANGED vars
  BY <1>5 DEF TimeInv, executing, Executing, position, remaining, vars, executorVars, hostVars
<1> QED BY <1>1, <1>3, <1>4, <1>5 DEF Next

\* At STOP the counter shows the estimate and the overhead.
LEMMA TimeAtStop ==
    ASSUME IndInv, LoopInv, TimeInv
    PROVE  ExecutionTime
<1> SUFFICES ASSUME fsm = "RUN", Finished, Estimable(mem)
             PROVE  (exec_cycles + 1) % CycleMod
                       = (ExpectedCycles(mem) + Overhead(mem)) % CycleMod
  BY DEF ExecutionTime
<1> DEFINE e == Min(Stops(mem))
           t == Elapsed(mem, position)
           c == Sum(Cycles(mem), 0 .. e)
           j == Sum(Jumps(mem), 0 .. e)
<1>1. loop_counter = 0 /\ executing /\ remaining = 0
  BY FinishFacts DEF executing, Executing, remaining
<1>2. /\ position \in Address /\ position \in 0 .. e /\ e \in Address
      /\ t \in Int /\ mem \in Memory
  BY RunBeforeEnd
<1>3. IsStop(mem[e]) /\ \A b \in Address : IsStop(mem[b]) => e <= b
  BY EndFacts DEF Estimable
<1>4. position = e
  <2>1. IsStop(mem[position]) \/ position = Depth - 1
    BY RunFacts DEF Finished, PIPELINE_DELAY
  <2> HIDE DEF e
  <2> QED BY <1>2, <1>3, <2>1, DepthAssumption DEF Address
<1>5. Elapsed(mem, e + 1) = t + 1
  <2>1. Cycles(mem)[e] = 1 /\ Jumps(mem)[e] = 0
    BY <1>2, <1>3, WordTimes
  <2> HIDE DEF e
  <2> QED BY <1>2, <1>4, <2>1, ElapsedNext
<1>6. Elapsed(mem, e + 1) = c + 3 * j
  <2>1. 0 .. (e + 1) - 1 = 0 .. e
    <3> HIDE DEF e
    <3> QED BY <1>2 DEF Address
  <2>2. Elapsed(mem, e + 1) = c + (1 + 2) * j
    BY <2>1, Zenon DEF Elapsed, PIPELINE_DELAY
  <2>3. c \in Int /\ j \in Int
    BY <1>2, SumType, WordTimes
  <2> HIDE DEF c, j
  <2> QED BY <2>2, <2>3
<1>7. exec_cycles = (2 + t - 0) % CycleMod
  BY <1>1 DEF TimeInv, PIPELINE_DELAY
<1>8. (exec_cycles + 1) % CycleMod = ((2 + t - 0) + 1) % CycleMod
  <2> HIDE DEF t
  <2>1. 2 + t - 0 \in Int
    BY <1>2
  <2> QED BY <1>7, <2>1, ModNext, CycleModAssumption
<1>9. (2 + t - 0) + 1 = ExpectedCycles(mem) + Overhead(mem)
  <2>1. ExpectedCycles(mem) = c /\ Overhead(mem) = 2 + (1 + 2) * j
    BY DEF ExpectedCycles, Overhead, PIPELINE_DELAY
  <2>2. c \in Int /\ j \in Int
    BY <1>2, SumType, WordTimes
  <2> HIDE DEF c, j, t
  <2> QED BY <1>2, <1>5, <1>6, <2>1, <2>2
<1> QED BY <1>8, <1>9

\* For every payload whose loops are not nested, every time slice and every
\* loop count, the cycles that an execution takes are those that the host
\* computes beforehand with get_expected_execution_cycles, two for filling the
\* pipeline and three for every jump.
THEOREM ExecutionTimeExact == NoLoopAtEnd /\ Spec => []ExecutionTime
<1>1. Init => TimeInv
  BY DEF Init, TimeInv, executing, Executing
<1>2. IndInv /\ LoopInv /\ TimeInv /\ [Next]_vars => TimeInv'
  BY TimeStep
<1>3. IndInv /\ LoopInv /\ TimeInv => ExecutionTime
  BY TimeAtStop
<1> QED BY <1>1, <1>2, <1>3, Invariance, LoopCounterReset, PTL DEF Spec
=============================================================================
