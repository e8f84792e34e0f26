--------------------------- MODULE HwMemtestProof ---------------------------
(***************************************************************************)
(* Proofs about the Reader under its scripts, for every pattern, row size, *)
(* inversion, FIFO depth and host speed, killed scripts and the second     *)
(* write to start included.                                                *)
(***************************************************************************)
EXTENDS HwMemtest, Integers, TLAPS

\* Taking the head of a sequence commutes with appending to it.
LEMMA TailAppend ==
  ASSUME NEW S, NEW s \in Seq(S), NEW e \in S, s # <<>>
  PROVE  /\ Tail(Append(s, e)) = Append(Tail(s), e)
         /\ Head(Append(s, e)) = Head(s)
         /\ Tail(s) \in Seq(S) /\ Append(s, e) \in Seq(S)
         /\ Len(Tail(s)) = Len(s) - 1 /\ Len(Append(s, e)) = Len(s) + 1
OBVIOUS

LEMMA MaskedNat ==
  ASSUME NEW x \in Nat, NEW mask \in Nat
  PROVE  Masked(x, mask) \in Nat /\ (mask = 0 => Masked(x, mask) = 0)
BY SMT DEF Masked

-----------------------------------------------------------------------------
\* The FIFOs in one clock cycle.
LEMMA QueuesCycle ==
  ASSUME AddressTypes, QueueTypes, InStep, Settled,
         NEW cmd_ready \in BOOLEAN, AddressFsm(cmd_ready), Queues(cmd_ready)
  PROVE  QueueTypes' /\ InStep'
<1> DEFINE aRest == IF TakeWord THEN Tail(address_fifo) ELSE address_fifo
           dRest == IF TakeWord THEN Tail(dma) ELSE dma
           aRestArrived == IF TakeWord THEN arrived - 1 ELSE arrived
<1>1. dram_addr \in Nat /\ address_fifo \in Seq(Nat) /\ dma \in Seq(Nat)
      /\ arrived \in 0 .. Len(dma)
  BY DEF AddressTypes, QueueTypes
<1>2. TakeWord => dma # <<>>
  BY <1>1 DEF TakeWord
<1>3. /\ aRest \in Seq(Nat) /\ dRest \in Seq(Nat)
      /\ aRestArrived \in 0 .. Len(dRest)
      /\ aRest = IF fsm_addr = "PUSH_TO_DMA" THEN Append(dRest, dram_addr) ELSE dRest
  <2>1. CASE TakeWord
    <3>1. address_fifo # <<>>
      BY <2>1, <1>1, <1>2 DEF InStep
    <3>2. aRest = Tail(address_fifo) /\ dRest = Tail(dma) /\ aRestArrived = arrived - 1
      BY <2>1
    <3>3. Tail(dma) \in Seq(Nat) /\ Len(Tail(dma)) = Len(dma) - 1
          /\ Tail(Append(dma, dram_addr)) = Append(Tail(dma), dram_addr)
          /\ Tail(address_fifo) \in Seq(Nat)
      BY <2>1, <1>1, <1>2, <3>1, TailAppend
    <3>4. arrived > 0
      BY <2>1 DEF TakeWord
    <3>5. arrived - 1 \in 0 .. Len(Tail(dma))
      <4>1. Len(dma) \in Nat
        BY <1>1
      <4> QED
        BY <4>1, <1>1, <3>3, <3>4
    <3>6. Tail(address_fifo) = IF fsm_addr = "PUSH_TO_DMA"
                                 THEN Append(Tail(dma), dram_addr) ELSE Tail(dma)
      BY <3>3 DEF InStep
    <3> HIDE DEF aRest, dRest, aRestArrived
    <3> QED
      BY <3>2, <3>3, <3>5, <3>6
  <2>2. CASE ~TakeWord
    BY <2>2, <1>1 DEF InStep
  <2> QED
    BY <2>1, <2>2
<1>4. /\ address_fifo' = IF PushAddress THEN Append(aRest, dram_addr) ELSE aRest
      /\ dma' = IF PushDma(cmd_ready) THEN Append(dRest, dram_addr) ELSE dRest
      /\ arrived' = aRestArrived
  BY DEF Queues
<1> HIDE DEF aRest, dRest, aRestArrived
<1>5. QueueTypes'
  BY <1>1, <1>3, <1>4 DEF QueueTypes
<1>6. InStep'
  <2>1. CASE fsm_addr = "PUSH_TO_FIFO"
    <3>1. ~PushDma(cmd_ready) /\ dram_addr' = dram_addr
          /\ fsm_addr' = IF PushAddress THEN "PUSH_TO_DMA" ELSE "PUSH_TO_FIFO"
      BY <2>1 DEF AddressFsm, AddressReady, AddressCompute, AddressWait, AddressDram,
                  AddressPushFifo, AddressPushDma, PushDma
    <3> QED
      BY <2>1, <3>1, <1>3, <1>4 DEF InStep
  <2>2. CASE fsm_addr = "PUSH_TO_DMA"
    <3>1. ~PushAddress /\ dram_addr' = dram_addr
          /\ fsm_addr' = IF PushDma(cmd_ready) THEN "COMPUTE_MEM_ADDR" ELSE "PUSH_TO_DMA"
      BY <2>2 DEF AddressFsm, AddressReady, AddressCompute, AddressWait, AddressDram,
                  AddressPushFifo, AddressPushDma, PushAddress
    <3> QED
      BY <2>2, <3>1, <1>3, <1>4 DEF InStep
  <2>3. CASE fsm_addr \notin {"PUSH_TO_FIFO", "PUSH_TO_DMA"}
    <3>1. ~PushAddress /\ ~PushDma(cmd_ready) /\ fsm_addr' # "PUSH_TO_DMA"
      BY <2>3 DEF AddressFsm, AddressReady, AddressCompute, AddressWait, AddressDram,
                  AddressPushFifo, AddressPushDma, PushAddress, PushDma
    <3> QED
      BY <2>3, <3>1, <1>3, <1>4 DEF InStep
  <2> QED
    BY <2>1, <2>2, <2>3
<1> QED
  BY <1>5, <1>6

\* The address registers in one clock cycle.
LEMMA AddressCycle ==
  ASSUME AddressTypes, NEW cmd_ready \in BOOLEAN, AddressFsm(cmd_ready), UNCHANGED csrs
  PROVE  AddressTypes'
<1>1. Len(RowTuple) \in 1 .. PatternDepth /\ PatternDepth \in Nat
  BY HostAssumption, PatternAssumption
<1>2. addr_dat_r' \in Nat
  BY <1>1 DEF AddressFsm, AddressTypes, PatternIndices
<1>3. Masked(counter_addr, mem_mask) \in Nat /\ Masked(counter_addr, data_mask) = 0
  BY MaskedNat DEF AddressTypes
<1>4. counter_addr' \in Nat /\ dram_addr' \in Nat
  BY <1>3 DEF AddressTypes, AddressFsm, AddressReady, AddressCompute, AddressWait,
              AddressDram, AddressPushFifo, AddressPushDma
<1>5. mem_addr' \in 0 .. Len(RowTuple) - 1
  BY <1>1, <1>3 DEF AddressTypes, AddressFsm, AddressReady, AddressCompute,
     AddressWait, AddressDram, AddressPushFifo, AddressPushDma, NextModulo
<1> QED
  BY <1>2, <1>4, <1>5 DEF AddressTypes, csrs

\* The head of address_fifo stays until the pattern FSM takes it.
LEMMA HeadStays ==
  ASSUME AddressTypes, QueueTypes, NEW cmd_ready \in BOOLEAN, Queues(cmd_ready),
         ~TakeWord, address_fifo # <<>>
  PROVE  address_fifo' # <<>> /\ Head(address_fifo') = Head(address_fifo)
<1>1. dram_addr \in Nat /\ address_fifo \in Seq(Nat)
  BY DEF AddressTypes, QueueTypes
<1>2. address_fifo' = IF PushAddress THEN Append(address_fifo, dram_addr) ELSE address_fifo
  BY DEF Queues
<1> QED
  BY <1>1, <1>2, TailAppend

\* The inverter in one clock cycle.
LEMMA SettledCycle ==
  ASSUME AddressTypes, QueueTypes, Settled, NEW cmd_ready \in BOOLEAN,
         PatternFsm, Inverter, Queues(cmd_ready), UNCHANGED csrs
  PROVE  Settled'
<1> USE DEF LastWait
<1>1. data' = data /\ data_dat_r' = data[data_mem_addr]
  BY DEF csrs, PatternFsm
<1>2. CASE fsm_pattern \notin {"WAIT_FOR_DRAM_ADDR", "INVERT_COMPUTE", "RD_DATA"}
  <2>1. fsm_pattern' \notin {"INVERT_COMPUTE", "RD_DATA"}
    BY <1>2 DEF PatternFsm, PatternReady, PatternCompute, PatternWait, PatternInvert,
       PatternCompare, PatternAwaitData, PatternError, TakeWord
  <2> QED
    BY <2>1 DEF Settled
<1>3. CASE fsm_pattern = "WAIT_FOR_DRAM_ADDR"
  <2>1. PatternWait /\ ~TakeWord
    BY <1>3 DEF PatternFsm, PatternReady, PatternCompute, PatternWait, PatternInvert,
       PatternCompare, PatternAwaitData, PatternError, TakeWord
  <2>2. CASE address_fifo = <<>>
    BY <2>1, <2>2 DEF PatternWait, Settled
  <2>3. CASE address_fifo # <<>>
    <3>1. fsm_pattern' = "INVERT_COMPUTE" /\ wait_counter' = 0
          /\ data_mem_addr' = data_mem_addr
      BY <2>1, <2>3 DEF PatternWait
    <3>2. address_fifo' # <<>> /\ Head(address_fifo') = Head(address_fifo)
      BY <2>1, <2>3, HeadStays
    <3>3. decoder_i' = RowIndex(Head(address_fifo))
      BY <2>3 DEF Inverter
    <3> QED
      BY <1>1, <3>1, <3>2, <3>3 DEF Settled
  <2> QED
    BY <2>2, <2>3
<1>4. ASSUME fsm_pattern \in {"INVERT_COMPUTE", "RD_DATA"}, ~TakeWord
      PROVE  /\ address_fifo' # <<>> /\ Head(address_fifo') = Head(address_fifo)
             /\ decoder_i' = RowIndex(Head(address_fifo))
             /\ selected' = (RowIndex(Head(address_fifo)) \in Selection)
  <2>1. address_fifo # <<>> /\ decoder_i = RowIndex(Head(address_fifo))
    BY <1>4 DEF Settled
  <2> QED
    BY <1>4, <2>1, HeadStays DEF Inverter
<1>5. CASE fsm_pattern = "INVERT_COMPUTE"
  <2>1. PatternInvert /\ ~TakeWord
    BY <1>5 DEF PatternFsm, PatternReady, PatternCompute, PatternWait, PatternInvert,
       PatternCompare, PatternAwaitData, PatternError, TakeWord
  <2>2. data_mem_addr' = data_mem_addr /\ wait_counter \in 0 .. 2
        /\ fsm_pattern' = (IF wait_counter = 2 THEN "RD_DATA" ELSE "INVERT_COMPUTE")
        /\ wait_counter' = wait_counter + 1
    BY <1>5, <2>1 DEF PatternInvert, Settled
  <2>3. wait_counter \in 1 .. 2 =>
          data_expected' = Expected(Head(address_fifo), data[data_mem_addr])
    BY <1>5 DEF Settled, Inverter, Expected
  <2> QED
    BY <1>1, <1>4, <1>5, <2>1, <2>2, <2>3 DEF Settled
<1>6. CASE fsm_pattern = "RD_DATA"
  <2>1. CASE TakeWord
    <3>1. fsm_pattern' \in {"COMPUTE_MEM_ADDR", "WR_ERR"}
      BY <1>6, <2>1 DEF PatternFsm, PatternReady, PatternCompute, PatternWait,
         PatternInvert, PatternCompare, PatternAwaitData, PatternError
    <3> QED
      BY <3>1 DEF Settled
  <2>2. CASE ~TakeWord
    <3>1. fsm_pattern' = "RD_DATA" /\ data_mem_addr' = data_mem_addr
      BY <1>6, <2>2 DEF PatternFsm, PatternReady, PatternCompute, PatternWait,
         PatternInvert, PatternCompare, PatternAwaitData, PatternError
    <3>2. data_expected' = Expected(Head(address_fifo), data[data_mem_addr])
      BY <1>6 DEF Settled, Inverter, Expected
    <3> QED
      BY <1>1, <1>4, <1>6, <2>2, <3>1, <3>2 DEF Settled
  <2> QED
    BY <2>1, <2>2
<1> QED
  BY <1>2, <1>3, <1>5, <1>6

-----------------------------------------------------------------------------
LEMMA InitInv == Init => IndInv
<1>1. Len(RowTuple) \in 1 .. PatternDepth /\ PatternDepth \in Nat
  BY HostAssumption, PatternAssumption
<1> QED
  BY <1>1 DEF Init, ReaderInit, IndInv, AddressTypes, QueueTypes, InStep, Settled,
              PatternIndices

\* Host actions leave the hardware alone; what they write to the CSRs keeps
\* the types, and the pattern data change only while the pattern FSM is idle.
LEMMA HostInv ==
  ASSUME IndInv, UNCHANGED hardware,
         AddressTypes', data' = data \/ fsm_pattern = "READY"
  PROVE  IndInv'
<1> USE DEF hardware, addressVars, patternVars, inverterVars, fifoVars
<1>1. QueueTypes' /\ InStep'
  BY DEF IndInv, QueueTypes, InStep
<1>2. Settled'
  BY DEF IndInv, Settled
<1> QED
  BY <1>1, <1>2 DEF IndInv

LEMMA NextInv == IndInv /\ [Next]_vars => IndInv'
<1> SUFFICES ASSUME IndInv, [Next]_vars PROVE IndInv'
  OBVIOUS
<1> USE HostAssumption, PatternAssumption, ReaderAssumption
<1>0. Len(RowTuple) \in 1 .. PatternDepth /\ PatternDepth \in Nat /\ AddressMax \in Nat
      /\ \A i \in 1 .. Len(RowTuple) : RowTuple[i] \in Nat
  BY DEF Addresses
<1> USE DEF csrs, pulses
<1>1. ASSUME NEW s \in Scripts, Start(s) PROVE IndInv'
  <2>1. AddressTypes'
    BY <1>1 DEF Start, Access, IndInv, AddressTypes, hardware, addressVars
  <2> QED
    BY <1>1, <2>1, HostInv DEF Start, Access
<1>2. CASE EnableFifo
  <2>1. AddressTypes'
    BY <1>2 DEF EnableFifo, Access, IndInv, AddressTypes, hardware, addressVars
  <2> QED
    BY <1>2, <2>1, HostInv DEF EnableFifo, Access
<1>3. CASE ConfigureMemtest
  <2>1. AddressTypes'
    BY <1>3, <1>0 DEF ConfigureMemtest, Access, IndInv, AddressTypes, hardware,
                      addressVars, PatternIndices
  <2> QED
    BY <1>3, <2>1, HostInv DEF ConfigureMemtest, Access, ready
<1>4. CASE ConfigureAttack
  <2>1. addr' \in [PatternIndices -> Nat]
    BY <1>4, <1>0 DEF ConfigureAttack, IndInv, AddressTypes, PatternIndices
  <2>2. AddressTypes'
    BY <1>4, <2>1 DEF ConfigureAttack, Access, IndInv, AddressTypes, hardware,
                      addressVars
  <2> QED
    BY <1>4, <2>2, HostInv DEF ConfigureAttack, Access, ready
<1>5. CASE NotReady \/ WriteStart \/ WriteStartZero \/ PollReady \/ ReadError
           \/ WriteContinue \/ NoMoreErrors \/ Return \/ AttackDone
  <2>1. UNCHANGED hardware /\ UNCHANGED csrs
    BY <1>5 DEF NotReady, WriteStart, WriteStartZero, PollReady, ReadError,
       WriteContinue, NoMoreErrors, Return, AttackDone, Access
  <2>2. AddressTypes'
    BY <2>1 DEF IndInv, AddressTypes, hardware, addressVars
  <2> QED
    BY <2>1, <2>2, HostInv
<1>6. CASE ClearModulo
  <2>1. AddressTypes'
    BY <1>6 DEF ClearModulo, IndInv, AddressTypes, hardware, addressVars
  <2> QED
    BY <1>6, <2>1, HostInv DEF ClearModulo
<1>7. CASE EndScript \/ Abort
  <2>1. UNCHANGED hardware /\ UNCHANGED csrs
    BY <1>7 DEF EndScript, Abort, readerVars
  <2>2. AddressTypes'
    BY <2>1 DEF IndInv, AddressTypes, hardware, addressVars
  <2> QED
    BY <2>1, <2>2, HostInv
<1>8. ASSUME NEW cmd_ready \in BOOLEAN, Cycle(cmd_ready) PROVE IndInv'
  <2>1. AddressFsm(cmd_ready) /\ PatternFsm /\ Inverter /\ Queues(cmd_ready)
        /\ UNCHANGED csrs
    BY <1>8 DEF Cycle, ReaderCycle
  <2>2. AddressTypes'
    BY <2>1, AddressCycle DEF IndInv
  <2>3. QueueTypes' /\ InStep'
    BY <2>1, QueuesCycle DEF IndInv
  <2>4. Settled'
    BY <2>1, SettledCycle DEF IndInv
  <2> QED
    BY <2>2, <2>3, <2>4 DEF IndInv
<1>9. CASE DeliverData
  <2> USE DEF DeliverData, Deliver, addressVars, patternVars, inverterVars
  <2>1. AddressTypes'
    BY <1>9 DEF IndInv, AddressTypes
  <2>2. QueueTypes' /\ InStep'
    BY <1>9 DEF IndInv, QueueTypes, InStep
  <2>3. Settled'
    BY <1>9 DEF IndInv, Settled
  <2> QED
    BY <2>1, <2>2, <2>3 DEF IndInv
<1>10. CASE UNCHANGED vars
  <2>1. UNCHANGED hardware /\ UNCHANGED csrs
    BY <1>10 DEF vars, readerVars
  <2>2. AddressTypes'
    BY <2>1 DEF IndInv, AddressTypes, hardware, addressVars
  <2> QED
    BY <2>1, <2>2, HostInv
<1> QED
  BY <1>1, <1>2, <1>3, <1>4, <1>5, <1>6, <1>7, <1>8, <1>9, <1>10 DEF Next, Host

\* The inductive invariant holds in every reachable state, whatever the host
\* and LiteDRAM do.
THEOREM Invariance == Spec => []IndInv
BY InitInv, NextInv, PTL DEF Spec

\* The two queues of the Reader never slip against each other: the word taken
\* from the DMA is the one requested at the address taken from address_fifo.
THEOREM QueuesInStep == Spec => []InStep
<1>1. IndInv => InStep
  BY DEF IndInv
<1> QED
  BY <1>1, Invariance, PTL

\* Every word is compared with the pattern word of its own address: the
\* inverter has settled by the time RD_DATA compares.
THEOREM ComparisonCorrect == Spec => []ComparedWithPattern
<1>1. IndInv => ComparedWithPattern
  <2> SUFFICES ASSUME IndInv, TakeWord
               PROVE  data_expected = Expected(Head(dma), data[data_mem_addr])
    BY DEF ComparedWithPattern
  <2>1. dma \in Seq(Nat) /\ dma # <<>> /\ dram_addr \in Nat
    BY DEF IndInv, QueueTypes, AddressTypes, TakeWord
  <2>2. Head(address_fifo) = Head(dma)
    BY <2>1, TailAppend DEF IndInv, InStep
  <2> QED
    BY <2>2 DEF IndInv, Settled, TakeWord
<1> QED
  BY <1>1, Invariance, PTL

-----------------------------------------------------------------------------
(* The Reader is idle when it says so *)

\* Cycles that the address FSM has spent on the read it is at.
Phase ==
  IF fsm_addr = "WAIT_FOR_DRAM_ADDR" THEN 1
  ELSE IF fsm_addr = "COMPUTE_DRAM_ADDR" THEN 2
  ELSE IF fsm_addr = "PUSH_TO_FIFO" THEN 3
  ELSE IF fsm_addr = "PUSH_TO_DMA" THEN 4 ELSE 0

CounterTypes ==
  /\ {counter_gen, count, gap} \subseteq Nat
  /\ {start, error_continue, skip_fifo, last} \subseteq BOOLEAN
  /\ reads \in [Addresses -> Nat]

\* What the two FSMs have counted, while an operation is in progress.
InProgress ==
  /\ ready => fsm_addr = "READY" /\ dma = <<>>
  /\ ~ready =>
       /\ counter_addr = counter_gen + Len(dma) /\ counter_addr <= count
       /\ fsm_addr = "READY" => counter_addr = count
       /\ fsm_addr \notin {"READY", "COMPUTE_MEM_ADDR"} => counter_addr < count
       /\ fsm_pattern \in {"WAIT_FOR_DRAM_ADDR", "INVERT_COMPUTE", "RD_DATA"} =>
            counter_gen < count

\* A start is taken by both FSMs or, the second one of an attack, by none.
Started ==
  /\ start => gap = 0 /\ (~ready => fsm_addr # "READY")
  /\ pc = "start" => ready /\ ~start /\ (script # "memtest" => count = ReadCount)
  /\ pc = "restart" =>
       /\ count = ReadCount /\ gap <= RestartGap
       /\ start => ready
       /\ ~start => fsm_addr # "READY" /\ 5 * counter_addr + Phase < gap

\* The address that is requested is that of the transfer.
Requested ==
  /\ fsm_addr = "COMPUTE_DRAM_ADDR" => addr_dat_r = addr[mem_addr]
  /\ fsm_addr \in {"PUSH_TO_FIFO", "PUSH_TO_DMA"} =>
       dram_addr = addr[mem_addr] + Masked(counter_addr, mem_mask)

Sync == CounterTypes /\ InProgress /\ Started /\ Requested

\* A step of the host that writes no CSR of the operation, or one that is not
\* in progress.
LEMMA SyncHost ==
  ASSUME Sync, UNCHANGED hardware, gap' \in Nat, CounterTypes',
         count' = count \/ ready, UNCHANGED <<addr, mem_mask>> \/ ready, Started'
  PROVE  Sync'
<1> USE DEF hardware, addressVars, patternVars, fifoVars, ready
<1>1. InProgress'
  BY DEF Sync, InProgress
<1>2. Requested'
  BY DEF Sync, Requested, InProgress
<1> QED
  BY <1>1, <1>2 DEF Sync

\* What a clock cycle does to the requests that are outstanding.
LEMMA Outstanding ==
  ASSUME IndInv, NEW cmd_ready \in BOOLEAN, Queues(cmd_ready)
  PROVE  /\ Len(dma) \in Nat /\ Len(dma') \in Nat /\ (TakeWord => Len(dma) > 0)
         /\ Len(dma') = Len(dma) + (IF PushDma(cmd_ready) THEN 1 ELSE 0)
                                 - (IF TakeWord THEN 1 ELSE 0)
<1>1. dma \in Seq(Nat) /\ dram_addr \in Nat /\ arrived \in 0 .. Len(dma)
  BY DEF IndInv, QueueTypes, AddressTypes
<1>2. TakeWord => dma # <<>>
  BY <1>1 DEF TakeWord
<1> DEFINE rest == IF TakeWord THEN Tail(dma) ELSE dma
<1>3. /\ rest \in Seq(Nat)
      /\ Len(rest) = Len(dma) - (IF TakeWord THEN 1 ELSE 0)
  BY <1>1, <1>2
<1>4. dma' = IF PushDma(cmd_ready) THEN Append(rest, dram_addr) ELSE rest
  BY DEF Queues
<1> HIDE DEF rest
<1>5. Len(dma) \in Nat /\ Len(rest) \in Nat /\ (dma # <<>> => Len(dma) > 0)
  BY <1>1, <1>3
<1>6. Len(Append(rest, dram_addr)) = Len(rest) + 1
  <2>1. rest \in Seq(Nat)
    BY <1>3
  <2> QED
    BY <2>1
<1>7. CASE PushDma(cmd_ready)
  BY <1>2, <1>3, <1>4, <1>5, <1>6, <1>7
<1>8. CASE ~PushDma(cmd_ready)
  BY <1>2, <1>3, <1>4, <1>5, <1>8
<1> QED
  BY <1>7, <1>8

LEMMA ProgressCycle ==
  ASSUME IndInv, Sync, NEW cmd_ready \in BOOLEAN, Cycle(cmd_ready)
  PROVE  InProgress'
<1> USE DEF ready
<1>1. /\ AddressFsm(cmd_ready) /\ PatternFsm /\ Queues(cmd_ready) /\ count' = count
  BY DEF Cycle, ReaderCycle, csrs
<1>2. {counter_gen, count, counter_addr} \subseteq Nat /\ start \in BOOLEAN
  BY DEF Sync, CounterTypes, IndInv, AddressTypes
<1>3. /\ Len(dma) \in Nat /\ Len(dma') \in Nat /\ (TakeWord => Len(dma) > 0)
      /\ Len(dma') = Len(dma) + (IF PushDma(cmd_ready) THEN 1 ELSE 0)
                              - (IF TakeWord THEN 1 ELSE 0)
  BY <1>1, Outstanding
<1>4. dma \in Seq(Nat) /\ dma' \in Seq(Nat)
  <2>1. QueueTypes'
    BY <1>1, QueuesCycle DEF IndInv
  <2> QED
    BY <2>1 DEF IndInv, QueueTypes
<1>5. (dma = <<>> <=> Len(dma) = 0) /\ (dma' = <<>> <=> Len(dma') = 0)
  BY <1>4
<1> USE DEF AddressFsm, AddressReady, AddressCompute, AddressWait, AddressDram, AddressPushFifo,
            AddressPushDma, PushAddress, PushDma
<1>6. CASE ready
  <2>1. /\ ~TakeWord /\ fsm_addr = "READY" /\ dma = <<>> /\ PatternReady
    BY <1>1, <1>6 DEF Sync, InProgress, TakeWord, PatternFsm, PatternCompute, PatternWait,
                      PatternInvert, PatternCompare, PatternAwaitData, PatternError
  <2>2. dma' = <<>>
    BY <1>3, <1>5, <2>1
  <2> QED
    BY <1>1, <1>2, <1>3, <1>5, <2>1, <2>2 DEF PatternReady, InProgress
<1>7. CASE ~ready
  <2>1. /\ counter_addr = counter_gen + Len(dma) /\ counter_addr <= count
        /\ fsm_addr = "READY" => counter_addr = count /\ ~start
        /\ fsm_addr \notin {"READY", "COMPUTE_MEM_ADDR"} => counter_addr < count
        /\ fsm_pattern \in {"WAIT_FOR_DRAM_ADDR", "INVERT_COMPUTE", "RD_DATA"} =>
             counter_gen < count
    BY <1>7 DEF Sync, InProgress, Started
  <2>2. /\ counter_addr' = counter_addr + (IF PushDma(cmd_ready) THEN 1 ELSE 0)
        /\ fsm_addr' = "READY" => counter_addr' = count
        /\ fsm_addr' \notin {"READY", "COMPUTE_MEM_ADDR"} => counter_addr' < count
        /\ counter_addr' <= count
    <3>1. CASE AddressReady \/ AddressCompute \/ AddressWait
      BY <1>2, <2>1, <3>1
    <3>2. CASE AddressDram \/ AddressPushFifo
      BY <1>2, <2>1, <3>2
    <3>3. CASE AddressPushDma(cmd_ready)
      <4>1. CASE PushDma(cmd_ready)
        BY <1>2, <2>1, <3>3, <4>1
      <4>2. CASE ~PushDma(cmd_ready)
        BY <1>2, <2>1, <3>3, <4>2
      <4> QED
        BY <4>1, <4>2
    <3> QED
      BY <1>1, <3>1, <3>2, <3>3
  <2>3. counter_gen' = counter_gen + (IF TakeWord THEN 1 ELSE 0)
    BY <1>1, <1>2, <1>7 DEF PatternFsm, PatternReady, PatternCompute, PatternWait,
       PatternInvert, PatternCompare, PatternAwaitData, PatternError, TakeWord
  <2>4. fsm_pattern' \in {"WAIT_FOR_DRAM_ADDR", "INVERT_COMPUTE", "RD_DATA"} =>
          counter_gen' < count
    BY <1>1, <1>2, <1>7, <2>1 DEF PatternFsm, PatternReady, PatternCompute, PatternWait,
       PatternInvert, PatternCompare, PatternAwaitData, PatternError, TakeWord
  <2>5. ASSUME fsm_pattern' = "READY"
        PROVE  fsm_addr' = "READY" /\ dma' = <<>>
    <3>1. fsm_pattern = "COMPUTE_MEM_ADDR" /\ counter_gen >= count /\ ~TakeWord
      BY <1>1, <1>7, <2>5 DEF PatternFsm, PatternReady, PatternCompute, PatternWait,
         PatternInvert, PatternCompare, PatternAwaitData, PatternError, TakeWord
    <3>2. Len(dma) = 0 /\ counter_addr = count
      BY <1>2, <1>3, <2>1, <3>1
    <3>3. fsm_addr \in {"READY", "COMPUTE_MEM_ADDR"}
      BY <1>2, <2>1, <3>2
    <3>4. fsm_addr' = "READY" /\ ~PushDma(cmd_ready)
      BY <1>1, <1>2, <2>1, <3>2, <3>3
    <3> QED
      BY <1>3, <1>5, <3>1, <3>2, <3>4
  <2>6. counter_addr' = counter_gen' + Len(dma')
    <3>1. CASE PushDma(cmd_ready)
      BY <1>2, <1>3, <2>1, <2>2, <2>3, <3>1, SMTT(30)
    <3>2. CASE ~PushDma(cmd_ready)
      <4>1. Len(dma') = Len(dma) - (IF TakeWord THEN 1 ELSE 0) /\ counter_addr' = counter_addr
        BY <1>2, <1>3, <2>2, <3>2
      <4>2. CASE TakeWord
        BY <1>2, <1>3, <2>1, <2>3, <4>1, <4>2
      <4>3. CASE ~TakeWord
        BY <1>2, <1>3, <2>1, <2>3, <4>1, <4>3
      <4> QED
        BY <4>2, <4>3
    <3> QED
      BY <3>1, <3>2
  <2> QED
    BY <1>1, <2>2, <2>4, <2>5, <2>6 DEF InProgress
<1> QED
  BY <1>6, <1>7

LEMMA StartedCycle ==
  ASSUME IndInv, Sync, NEW cmd_ready \in BOOLEAN, Cycle(cmd_ready)
  PROVE  Started'
<1> USE DEF ready
<1>1. /\ AddressFsm(cmd_ready) /\ PatternFsm /\ UNCHANGED <<count, pc, script>> /\ start' = FALSE
      /\ pc = "restart" => gap < RestartGap
      /\ gap' = IF gap < SleepCycles THEN gap + 1 ELSE gap
  BY DEF Cycle, ReaderCycle, csrs
<1>2. {counter_gen, count, counter_addr, gap} \subseteq Nat /\ start \in BOOLEAN
  BY DEF Sync, CounterTypes, IndInv, AddressTypes
<1>3. pc = "start" => ready' /\ (script # "memtest" => count = ReadCount)
  BY <1>1 DEF Sync, Started, PatternFsm, PatternReady, PatternCompute, PatternWait,
     PatternInvert, PatternCompare, PatternAwaitData, PatternError, TakeWord
<1>4. ASSUME pc = "restart"
      PROVE  /\ count = ReadCount /\ gap' <= RestartGap
             /\ fsm_addr' # "READY" /\ 5 * counter_addr' + Phase' < gap'
  <2>1. /\ count = ReadCount /\ gap < RestartGap /\ gap' = gap + 1
        /\ start => ready /\ fsm_addr = "READY" /\ gap = 0
        /\ ~start => fsm_addr # "READY" /\ 5 * counter_addr + Phase < gap
    BY <1>1, <1>2, <1>4, HostAssumption DEF Sync, Started, InProgress
  <2>2. ReadCount \in Nat /\ RestartGap \in Nat /\ RestartGap <= 5 * ReadCount
    BY HostAssumption, ReaderAssumption DEF Counts
  <2>3. CASE start
    BY <1>1, <1>2, <2>1, <2>2, <2>3 DEF AddressFsm, AddressReady, AddressCompute, AddressWait,
       AddressDram, AddressPushFifo, AddressPushDma, Phase
  <2>4. CASE ~start
    <3>1. fsm_addr = "COMPUTE_MEM_ADDR" => counter_addr < count
      BY <1>2, <2>1, <2>2, <2>4 DEF Phase
    <3>2. fsm_addr' # "READY" /\ 5 * counter_addr' + Phase' <= 5 * counter_addr + Phase + 1
      BY <1>1, <1>2, <2>1, <2>4, <3>1 DEF AddressFsm, AddressReady, AddressCompute, AddressWait,
         AddressDram, AddressPushFifo, AddressPushDma, Phase
    <3>3. Phase \in Nat /\ Phase' \in Nat /\ counter_addr' \in Nat
      BY <1>1, <1>2 DEF Phase, AddressFsm, AddressReady, AddressCompute, AddressWait,
         AddressDram, AddressPushFifo, AddressPushDma
    <3> QED
      BY <1>2, <2>1, <2>2, <2>4, <3>2, <3>3
  <2> QED
    BY <1>2, <2>3, <2>4
<1> QED
  BY <1>1, <1>3, <1>4 DEF Started

LEMMA RequestedCycle ==
  ASSUME IndInv, Sync, NEW cmd_ready \in BOOLEAN, Cycle(cmd_ready)
  PROVE  Requested'
<1>1. AddressFsm(cmd_ready) /\ UNCHANGED <<addr, mem_mask>>
  BY DEF Cycle, ReaderCycle, csrs
<1> QED
  BY <1>1 DEF Sync, Requested, AddressFsm, AddressReady, AddressCompute, AddressWait,
     AddressDram, AddressPushFifo, AddressPushDma

LEMMA SyncInit == Init => Sync
<1> SUFFICES ASSUME Init PROVE Sync
  OBVIOUS
<1> USE DEF Init, ReaderInit, ready
<1>1. CounterTypes
  <2>1. reads \in [Addresses -> Nat]
    OBVIOUS
  <2>2. counter_gen = 0 /\ count = 0 /\ gap = 0
    OBVIOUS
  <2>3. start = FALSE /\ error_continue = FALSE /\ skip_fifo = FALSE /\ last = FALSE
    OBVIOUS
  <2> HIDE DEF Init, ReaderInit
  <2>4. {counter_gen, count, gap} \subseteq Nat
    BY <2>2
  <2>5. {start, error_continue, skip_fifo, last} \subseteq BOOLEAN
    BY <2>3, Zenon
  <2> QED
    BY <2>1, <2>4, <2>5 DEF CounterTypes
<1>2. InProgress /\ Started /\ Requested
  BY DEF InProgress, Started, Requested
<1> QED
  BY <1>1, <1>2 DEF Sync

LEMMA SyncNext == IndInv /\ Sync /\ [Next]_vars => Sync'
<1> SUFFICES ASSUME IndInv, Sync, [Next]_vars PROVE Sync'
  OBVIOUS
<1> USE HostAssumption, ReaderAssumption
<1>0. ReadCount \in Nat /\ Size \in Nat /\ RestartGap \in Nat
  BY DEF Counts
<1> USE DEF csrs, pulses, hardware, addressVars, patternVars, fifoVars, Access, ready
<1>1. ASSUME NEW s \in Scripts, Start(s) PROVE Sync'
  <2>1. /\ UNCHANGED <<hardware, count, start, error_continue>> /\ gap' = 0 /\ pc' = "flush"
        /\ gap >= HostGap /\ skip_fifo' \in BOOLEAN /\ last' \in BOOLEAN
        /\ reads' \in [Addresses -> Nat]
    BY <1>1 DEF Start
  <2>2. CounterTypes'
    BY <2>1 DEF Sync, CounterTypes
  <2>3. Started'
    BY <2>1 DEF Sync, Started
  <2> QED
    BY <1>1, <2>1, <2>2, <2>3, SyncHost DEF Start
<1>2. CASE EnableFifo \/ NotReady \/ PollReady \/ ReadError \/ WriteContinue \/ NoMoreErrors
           \/ Return \/ AttackDone
  <2>1. /\ UNCHANGED <<hardware, count, addr, mem_mask, start, reads>> /\ gap' = 0
        /\ gap >= HostGap /\ pc' \notin {"start", "restart"}
        /\ {skip_fifo', error_continue', last'} \subseteq BOOLEAN
    BY <1>2 DEF EnableFifo, NotReady, PollReady, ReadError, WriteContinue, NoMoreErrors, Return,
       AttackDone, Sync, CounterTypes
  <2>2. CounterTypes' /\ Started'
    BY <2>1 DEF Sync, CounterTypes, Started
  <2> QED
    BY <2>1, <2>2, SyncHost
<1>3. CASE ConfigureMemtest \/ ConfigureAttack
  <2>1. /\ UNCHANGED <<hardware, start, error_continue, last>> /\ gap' = 0 /\ ready
        /\ script' # "memtest" => count' = ReadCount
        /\ gap >= HostGap /\ pc' = "start" /\ count' \in Nat /\ skip_fifo' \in BOOLEAN
        /\ reads' \in [Addresses -> Nat]
    <3>1. CASE ConfigureMemtest
      BY <1>0, <3>1 DEF ConfigureMemtest, Sync, CounterTypes
    <3>2. CASE ConfigureAttack
      BY <1>0, <3>2 DEF ConfigureAttack, Sync, CounterTypes
    <3> QED
      BY <1>3, <3>1, <3>2
  <2>2. CounterTypes' /\ Started'
    BY <2>1 DEF Sync, CounterTypes, Started
  <2> QED
    BY <2>1, <2>2, SyncHost
<1>4. CASE WriteStart
  <2>1. CounterTypes' /\ Started'
    <3>1. /\ UNCHANGED <<hardware, count, error_continue, skip_fifo, last, reads>>
          /\ start' = TRUE /\ gap' = 0 /\ pc' \in {"poll", "restart"} /\ ready
      BY <1>4 DEF WriteStart, Sync, Started
    <3>2. CounterTypes'
      BY <3>1 DEF Sync, CounterTypes
    <3>3. pc' = "restart" => count = ReadCount
      BY <1>4 DEF WriteStart, Sync, Started
    <3> QED
      BY <1>0, <3>1, <3>2, <3>3 DEF Started
  <2> QED
    BY <1>4, <2>1, SyncHost DEF WriteStart
<1>5. CASE WriteStartZero
  <2>1. ~start
    BY <1>5 DEF WriteStartZero, Sync, Started
  <2>2. CounterTypes' /\ Started'
    BY <1>5, <2>1 DEF WriteStartZero, Sync, CounterTypes, Started
  <2> QED
    BY <1>5, <2>2, SyncHost DEF WriteStartZero
<1>6. CASE ClearModulo \/ EndScript \/ Abort
  <2>1. /\ UNCHANGED <<hardware, count, addr, mem_mask, start, reads, error_continue, skip_fifo,
                       last>>
        /\ gap' = 0 /\ pc' \notin {"start", "restart"}
    BY <1>6 DEF ClearModulo, EndScript, Abort, readerVars
  <2>2. CounterTypes' /\ Started'
    BY <2>1 DEF Sync, CounterTypes, Started
  <2> QED
    BY <2>1, <2>2, SyncHost
<1>7. ASSUME NEW cmd_ready \in BOOLEAN, Cycle(cmd_ready) PROVE Sync'
  <2>1. CounterTypes'
    <3>1. counter_gen' \in Nat
      BY <1>7 DEF Cycle, ReaderCycle, Sync, CounterTypes, PatternFsm, PatternReady,
         PatternCompute, PatternWait, PatternInvert, PatternCompare, PatternAwaitData, PatternError
    <3>2. count' \in Nat /\ gap' \in Nat
      BY <1>7 DEF Cycle, ReaderCycle, Sync, CounterTypes
    <3>3. {start', error_continue', skip_fifo', last'} \subseteq BOOLEAN
      BY <1>7 DEF Cycle, ReaderCycle, Sync, CounterTypes
    <3>4. reads' \in [Addresses -> Nat]
      <4>1. reads \in [Addresses -> Nat]
        BY DEF Sync, CounterTypes
      <4>2. reads' = reads \/ reads' = [reads EXCEPT ![dram_addr] = reads[dram_addr] + 1]
        BY <1>7 DEF Cycle
      <4>3. CASE dram_addr \in Addresses
        BY <4>1, <4>2, <4>3
      <4>4. CASE dram_addr \notin Addresses
        BY <4>1, <4>2, <4>4
      <4> QED
        BY <4>3, <4>4
    <3> QED
      BY <3>1, <3>2, <3>3, <3>4 DEF CounterTypes
  <2> QED
    BY <1>7, <2>1, ProgressCycle, StartedCycle, RequestedCycle DEF Sync
<1>8. CASE DeliverData
  <2>1. UNCHANGED <<csrs, pulses, addressVars, patternVars, dma, hostVars>>
    BY <1>8 DEF DeliverData, Deliver
  <2> QED
    BY <2>1 DEF Sync, CounterTypes, InProgress, Started, Requested, Phase, hostVars
<1>9. CASE UNCHANGED vars
  BY <1>9 DEF vars, readerVars, hostVars, Sync, CounterTypes, InProgress, Started, Requested,
              Phase
<1> QED
  BY <1>1, <1>2, <1>3, <1>4, <1>5, <1>6, <1>7, <1>8, <1>9 DEF Next, Host

\* ready is 1 only when nothing that was requested is outstanding and the
\* address FSM takes the next start too.  The second start that attack writes
\* is ignored, since the first operation outlasts it.
THEOREM IdleWhenReady == Spec => []ReadyMeansIdle
<1>1. IndInv /\ Sync => ReadyMeansIdle
  BY DEF IndInv, Sync, InProgress, InStep, ReadyMeansIdle
<1> QED
  BY <1>1, InitInv, NextInv, SyncInit, SyncNext, PTL DEF Spec

-----------------------------------------------------------------------------
(* An attack reads its rows in turn *)

\* Quotient and remainder are determined by what they add up to.
LEMMA Division ==
  ASSUME NEW d \in Nat \ {0}, NEW q \in Int, NEW r \in 0 .. d - 1,
         NEW m \in Int, m = d * q + r
  PROVE  m \div d = q /\ m % d = r
<1> DEFINE k == m \div d
           t == m % d
<1>1. k \in Int /\ t \in 0 .. d - 1
  OBVIOUS
<1>2. m = d * k + t
  BY Z3
<1> HIDE DEF k, t
<1>3. d * (q - k) = t - r
  <2>1. d * (q - k) = d * q - d * k
    BY <1>1
  <2> QED
    BY <1>1, <1>2, <2>1
<1>4. q - k < 1
  <2> SUFFICES ASSUME q - k >= 1 PROVE FALSE
    BY <1>1
  <2>1. d * (q - k) >= d
    BY <1>1
  <2> QED
    BY <1>1, <1>3, <2>1
<1>5. q - k > -1
  <2> SUFFICES ASSUME q - k <= -1 PROVE FALSE
    BY <1>1
  <2>1. d * (q - k) <= -d
    BY <1>1
  <2> QED
    BY <1>1, <1>3, <2>1
<1>6. q = k
  BY <1>1, <1>4, <1>5
<1> QED
  BY <1>1, <1>3, <1>6 DEF k, t

Attacking == pc \in {"restart", "attacking", "clear", "attacked"}

\* Reads of the i-th row among the first k of an attack.
Turns(k, i) == (k + Len(RowTuple) - i) \div Len(RowTuple)

\* An attack reads its rows in turn.
InTurn ==
  /\ Attacking => script = "attack"
  /\ pc = "start" => script \in {"memtest", "attack"}
  /\ Attacking /\ pc # "restart" => ~(start /\ ready)
  /\ script = "attack" /\ (pc = "start" \/ Attacking) =>
       /\ count = ReadCount
       /\ pc # "attacked" =>
            /\ modulo /\ mem_mask = 0 /\ data_div = Len(RowTuple) - 1
            /\ \A i \in 1 .. Len(RowTuple) : addr[i - 1] = RowTuple[i]
       /\ pc = "start" \/ (start /\ ready) => \A i \in 1 .. Len(RowTuple) : reads[RowTuple[i]] = 0
  /\ Attacking /\ ~(start /\ ready) =>
       /\ ready => counter_addr = count
       /\ ~ready => pc \in {"restart", "attacking"} /\ mem_addr = counter_addr % Len(RowTuple)
       /\ \A i \in 1 .. Len(RowTuple) : reads[RowTuple[i]] = Turns(counter_addr, i)

\* One read more is one of the row whose turn it is.
LEMMA NextTurn ==
  ASSUME NEW k \in Nat
  PROVE  LET n == Len(RowTuple)
         IN  /\ n \in Nat \ {0} /\ k % n \in 0 .. n - 1
             /\ (k + 1) % n = IF k % n = n - 1 THEN 0 ELSE (k % n) + 1
             /\ \A i \in 1 .. n : Turns(k + 1, i) = Turns(k, i) + (IF k % n = i - 1 THEN 1 ELSE 0)
             /\ \A i \in 1 .. n : Turns(k, i) \in Int /\ Turns(0, i) = 0
             /\ 0 % n = 0
<1> DEFINE n == Len(RowTuple)
           q == k \div n
           r == k % n
<1>1. n \in Nat \ {0}
  BY HostAssumption, PatternAssumption
<1> HIDE DEF n
<1>2. q \in Int /\ r \in 0 .. n - 1
  BY <1>1
<1>3. k = n * q + r
  BY <1>1, Z3
<1> HIDE DEF q, r
<1>4. n * (q + 1) = n * q + n
  BY <1>1, <1>2
<1>5. ASSUME NEW i \in 1 .. n
      PROVE  /\ Turns(k, i) = IF r >= i THEN q + 1 ELSE q
             /\ Turns(k + 1, i) = IF r >= i - 1 THEN q + 1 ELSE q
             /\ Turns(0, i) = 0
  <2>1. Turns(k, i) = (k + n - i) \div n /\ Turns(k + 1, i) = (k + 1 + n - i) \div n
        /\ Turns(0, i) = (0 + n - i) \div n
    BY DEF Turns, n
  <2>2. Turns(0, i) = 0
    <3> DEFINE m == 0 + n - i
               p == 0
               t == n - i
    <3>1. m \in Int /\ p \in Int /\ t \in 0 .. n - 1 /\ m = n * p + t
      BY <1>1
    <3> HIDE DEF m, p, t
    <3>2. m \div n = p /\ m % n = t
      BY <1>1, <3>1, Division
    <3> QED
      BY <2>1, <3>2 DEF m, p, t
  <2>3. Turns(k, i) = IF r >= i THEN q + 1 ELSE q
    <3>1. CASE r >= i
      <4> DEFINE m == k + n - i
                 p == q + 1
                 t == r - i
      <4>1. m \in Int /\ p \in Int /\ t \in 0 .. n - 1 /\ m = n * p + t
        BY <1>1, <1>2, <1>3, <1>4, <3>1
      <4> HIDE DEF m, p, t
      <4>2. m \div n = p /\ m % n = t
        BY <1>1, <4>1, Division
      <4> QED
        BY <2>1, <3>1, <4>2 DEF m, p, t
    <3>2. CASE ~(r >= i)
      <4> DEFINE m == k + n - i
                 p == q
                 t == r + n - i
      <4>1. m \in Int /\ p \in Int /\ t \in 0 .. n - 1 /\ m = n * p + t
        BY <1>1, <1>2, <1>3, <3>2
      <4> HIDE DEF m, p, t
      <4>2. m \div n = p /\ m % n = t
        BY <1>1, <4>1, Division
      <4> QED
        BY <2>1, <3>2, <4>2 DEF m, p, t
    <3> QED
      BY <3>1, <3>2
  <2>4. Turns(k + 1, i) = IF r >= i - 1 THEN q + 1 ELSE q
    <3>1. CASE r >= i - 1
      <4> DEFINE m == k + 1 + n - i
                 p == q + 1
                 t == r + 1 - i
      <4>1. m \in Int /\ p \in Int /\ t \in 0 .. n - 1 /\ m = n * p + t
        BY <1>1, <1>2, <1>3, <1>4, <3>1
      <4> HIDE DEF m, p, t
      <4>2. m \div n = p /\ m % n = t
        BY <1>1, <4>1, Division
      <4> QED
        BY <2>1, <3>1, <4>2 DEF m, p, t
    <3>2. CASE ~(r >= i - 1)
      <4> DEFINE m == k + 1 + n - i
                 p == q
                 t == r + 1 + n - i
      <4>1. m \in Int /\ p \in Int /\ t \in 0 .. n - 1 /\ m = n * p + t
        BY <1>1, <1>2, <1>3, <3>2
      <4> HIDE DEF m, p, t
      <4>2. m \div n = p /\ m % n = t
        BY <1>1, <4>1, Division
      <4> QED
        BY <2>1, <3>2, <4>2 DEF m, p, t
    <3> QED
      BY <3>1, <3>2
  <2> QED
    BY <2>2, <2>3, <2>4
<1>6. (k + 1) % n = IF r = n - 1 THEN 0 ELSE r + 1
  <2>1. CASE r = n - 1
    <3> DEFINE m == k + 1
               p == q + 1
               t == 0
    <3>1. m \in Int /\ p \in Int /\ t \in 0 .. n - 1 /\ m = n * p + t
      BY <1>1, <1>2, <1>3, <1>4, <2>1
    <3> HIDE DEF m, p, t
    <3>2. m \div n = p /\ m % n = t
      BY <1>1, <3>1, Division
    <3> QED
      BY <2>1, <3>2 DEF m, p, t
  <2>2. CASE r # n - 1
    <3> DEFINE m == k + 1
               p == q
               t == r + 1
    <3>1. m \in Int /\ p \in Int /\ t \in 0 .. n - 1 /\ m = n * p + t
      BY <1>1, <1>2, <1>3, <2>2
    <3> HIDE DEF m, p, t
    <3>2. m \div n = p /\ m % n = t
      BY <1>1, <3>1, Division
    <3> QED
      BY <2>2, <3>2 DEF m, p, t
  <2> QED
    BY <2>1, <2>2
<1>7. 0 % n = 0
  BY <1>1
<1>8. \A i \in 1 .. n : Turns(k + 1, i) = Turns(k, i) + (IF r = i - 1 THEN 1 ELSE 0)
  BY <1>1, <1>2, <1>5
<1>9. \A i \in 1 .. n : Turns(k, i) \in Int /\ Turns(0, i) = 0
  BY <1>2, <1>5
<1> QED
  BY <1>1, <1>2, <1>6, <1>7, <1>8, <1>9 DEF n, r

RowsDistinct == \A i, j \in 1 .. Len(RowTuple) : RowTuple[i] = RowTuple[j] => i = j

\* A clock cycle of an attack that is in progress.
LEMMA TurnCycle ==
  ASSUME IndInv, Sync, InTurn, RowsDistinct, NEW cmd_ready \in BOOLEAN, Cycle(cmd_ready)
  PROVE  InTurn'
<1> USE DEF ready
<1> DEFINE n == Len(RowTuple)
<1>1. /\ AddressFsm(cmd_ready) /\ PatternFsm /\ start' = FALSE
      /\ UNCHANGED <<count, modulo, mem_mask, data_div, addr, pc, script>>
      /\ reads' = IF PushDma(cmd_ready) /\ script = "attack"
                  THEN [reads EXCEPT ![dram_addr] = @ + 1] ELSE reads
  BY DEF Cycle, ReaderCycle, csrs
<1>2. /\ counter_addr \in Nat /\ reads \in [Addresses -> Nat] /\ start \in BOOLEAN
      /\ n \in Nat \ {0} /\ \A i \in 1 .. n : RowTuple[i] \in Addresses /\ RowTuple[i] \in Nat
  <2>1. counter_addr \in Nat /\ reads \in [Addresses -> Nat] /\ start \in BOOLEAN
    BY DEF Sync, CounterTypes, IndInv, AddressTypes
  <2>2. RowTuple \in Seq(Addresses) /\ n \in Nat \ {0}
    BY HostAssumption, PatternAssumption
  <2>3. Addresses \subseteq Nat
    BY ReaderAssumption DEF Addresses
  <2> QED
    BY <2>1, <2>2, <2>3
<1>3. PushDma(cmd_ready) => ~ready
  BY DEF PushDma, Sync, InProgress
<1>4. script = "attack" /\ (pc = "start" \/ Attacking) =>
        /\ count = ReadCount
        /\ pc # "attacked" =>
             /\ modulo /\ mem_mask = 0 /\ data_div = n - 1
             /\ \A i \in 1 .. n : addr[i - 1] = RowTuple[i]
  BY DEF InTurn
<1>5. pc = "start" => ~start /\ ready /\ reads' = reads
  BY <1>1, <1>3 DEF Sync, Started
<1> HIDE DEF n
<1>6. ASSUME Attacking
      PROVE  /\ ready' => counter_addr' = count
             /\ ~ready' => pc \in {"restart", "attacking"} /\ mem_addr' = counter_addr' % n
             /\ \A i \in 1 .. n : reads'[RowTuple[i]] = Turns(counter_addr', i)
  <2>1. CASE start /\ ready
    <3>1. /\ fsm_addr = "READY" /\ counter_addr' = 0 /\ mem_addr' = 0 /\ ~ready' /\ reads' = reads
      BY <1>1, <1>3, <2>1 DEF AddressFsm, AddressReady, AddressCompute, AddressWait, AddressDram,
         AddressPushFifo, AddressPushDma, PatternFsm, PatternReady, PatternCompute, PatternWait,
         PatternInvert, PatternCompare, PatternAwaitData, PatternError, TakeWord, Sync, InProgress
    <3>2. pc = "restart" /\ \A i \in 1 .. n : reads[RowTuple[i]] = 0
      BY <1>6, <2>1 DEF InTurn, n
    <3>3. 0 % n = 0 /\ \A i \in 1 .. n : Turns(0, i) = 0
      BY <1>2, NextTurn DEF n
    <3> QED
      BY <3>1, <3>2, <3>3
  <2>2. CASE ~(start /\ ready)
    <3>1. /\ script = "attack"
          /\ ready => counter_addr = count
          /\ ~ready => pc \in {"restart", "attacking"} /\ mem_addr = counter_addr % n
          /\ \A i \in 1 .. n : reads[RowTuple[i]] = Turns(counter_addr, i)
      BY <1>6, <2>2 DEF InTurn, n
    <3>2. CASE ready
      <4>1. fsm_addr = "READY" /\ counter_addr' = counter_addr /\ ready' /\ reads' = reads
        BY <1>1, <1>2, <1>3, <2>2, <3>2 DEF AddressFsm, AddressReady, AddressCompute, AddressWait,
           AddressDram, AddressPushFifo, AddressPushDma, PatternFsm, PatternReady, PatternCompute,
           PatternWait, PatternInvert, PatternCompare, PatternAwaitData, PatternError, TakeWord,
           Sync, InProgress
      <4> QED
        BY <3>1, <3>2, <4>1
    <3>3. CASE ~ready
      <4>1. modulo /\ mem_mask = 0 /\ data_div = n - 1 /\ \A i \in 1 .. n : addr[i - 1] = RowTuple[i]
        BY <1>4, <1>6, <3>1, <3>3
      <4>2. fsm_addr = "READY" => ~start
        BY <3>3 DEF Sync, Started
      <4>3. ready' => counter_addr' = count
        <5>1. ASSUME ready'
              PROVE  ~PushDma(cmd_ready) /\ counter_addr = count
          <6>1. fsm_pattern = "COMPUTE_MEM_ADDR" /\ counter_gen >= count
            BY <1>1, <3>3, <5>1 DEF PatternFsm, PatternReady, PatternCompute, PatternWait,
               PatternInvert, PatternCompare, PatternAwaitData, PatternError, TakeWord
          <6>2. Len(dma) \in Nat /\ counter_gen \in Nat /\ count \in Nat
            BY DEF IndInv, QueueTypes, Sync, CounterTypes
          <6>3. counter_addr = count
            BY <1>2, <3>3, <6>1, <6>2 DEF Sync, InProgress
          <6> QED
            BY <3>3, <6>2, <6>3 DEF Sync, InProgress, PushDma
        <5>2. ~PushDma(cmd_ready) => counter_addr' = counter_addr
          BY <1>1, <4>2 DEF AddressFsm, AddressReady, AddressCompute, AddressWait,
             AddressDram, AddressPushFifo, AddressPushDma
        <5> QED
          BY <5>1, <5>2
      <4>4. CASE ~PushDma(cmd_ready)
        <5>1. counter_addr' = counter_addr /\ mem_addr' = mem_addr /\ reads' = reads
          BY <1>1, <4>1, <4>2, <4>4 DEF AddressFsm, AddressReady, AddressCompute, AddressWait,
             AddressDram, AddressPushFifo, AddressPushDma
        <5> QED
          BY <3>1, <3>3, <4>3, <5>1
      <4>5. CASE PushDma(cmd_ready)
        <5> DEFINE r == counter_addr % n
        <5>1. /\ r \in 0 .. n - 1
              /\ (counter_addr + 1) % n = IF r = n - 1 THEN 0 ELSE r + 1
              /\ \A i \in 1 .. n : /\ Turns(counter_addr, i) \in Int
                                   /\ Turns(counter_addr + 1, i) = Turns(counter_addr, i)
                                        + (IF r = i - 1 THEN 1 ELSE 0)
          BY <1>2, NextTurn DEF n
        <5> HIDE DEF r
        <5>2. /\ counter_addr' = counter_addr + 1
              /\ mem_addr' = (IF mem_addr = n - 1 THEN 0 ELSE mem_addr + 1)
          BY <1>1, <4>1, <4>5 DEF AddressFsm, AddressReady, AddressCompute, AddressWait,
             AddressDram, AddressPushFifo, AddressPushDma, PushDma, NextModulo
        <5>3. dram_addr = RowTuple[r + 1]
          <6>1. dram_addr = addr[mem_addr] + Masked(counter_addr, 0) /\ mem_addr = r
            BY <3>1, <3>3, <4>1, <4>5 DEF Sync, Requested, PushDma, r
          <6>2. Masked(counter_addr, 0) = 0
            BY <1>2, MaskedNat
          <6> DEFINE j == r + 1
          <6>3. j \in 1 .. n /\ j - 1 = r
            BY <1>2, <5>1
          <6> HIDE DEF j
          <6>4. addr[j - 1] = RowTuple[j] /\ RowTuple[j] \in Nat
            BY <1>2, <4>1, <6>3
          <6> QED
            BY <6>1, <6>2, <6>3, <6>4 DEF j
        <5>4. ASSUME NEW i \in 1 .. n
              PROVE  reads'[RowTuple[i]] = reads[RowTuple[i]] + (IF r = i - 1 THEN 1 ELSE 0)
          <6>1. reads' = [reads EXCEPT ![dram_addr] = reads[dram_addr] + 1]
            BY <1>1, <3>1, <4>5
          <6>2. r + 1 \in 1 .. n /\ RowTuple[i] \in Addresses /\ RowTuple[r + 1] \in Addresses
            BY <1>2, <5>1
          <6>3. RowTuple[i] = RowTuple[r + 1] <=> i = r + 1
            BY <6>2 DEF RowsDistinct, n
          <6>4. reads[RowTuple[i]] \in Nat
            BY <1>2, <6>2
          <6>5. CASE i = r + 1
            BY <1>2, <5>1, <5>3, <6>1, <6>2, <6>5
          <6>6. CASE i # r + 1
            BY <1>2, <5>1, <5>3, <6>1, <6>2, <6>3, <6>4, <6>6
          <6> QED
            BY <6>5, <6>6
        <5>5. mem_addr' = counter_addr' % n
          BY <3>1, <3>3, <5>1, <5>2 DEF r
        <5>6. \A i \in 1 .. n : reads'[RowTuple[i]] = Turns(counter_addr', i)
          BY <3>1, <5>1, <5>2, <5>4
        <5> QED
          BY <3>1, <3>3, <4>3, <5>5, <5>6
      <4> QED
        BY <4>4, <4>5
    <3> QED
      BY <3>2, <3>3
  <2> QED
    BY <2>1, <2>2
<1>7. Attacking' = Attacking
  BY <1>1 DEF Attacking
<1>8. ASSUME script = "attack", pc = "start"
      PROVE  \A i \in 1 .. n : reads'[RowTuple[i]] = 0
  BY <1>5, <1>8 DEF InTurn, n
<1> QED
  BY <1>1, <1>4, <1>5, <1>6, <1>7, <1>8 DEF InTurn, n

LEMMA TurnNext ==
  ASSUME RowsDistinct
  PROVE  IndInv /\ Sync /\ InTurn /\ [Next]_vars => InTurn'
<1> SUFFICES ASSUME IndInv, Sync, InTurn, [Next]_vars PROVE InTurn'
  OBVIOUS
<1> USE HostAssumption
<1> USE DEF csrs, pulses, hardware, addressVars, patternVars, Access, ready, Attacking
<1>0. /\ Len(RowTuple) \in Nat \ {0} /\ RowTuple \in Seq(Addresses)
      /\ start => gap = 0
  BY PatternAssumption DEF Sync, Started
<1>1. CASE \/ \E s \in Scripts : Start(s)
           \/ EnableFifo \/ NotReady \/ PollReady \/ ReadError \/ WriteContinue \/ NoMoreErrors
           \/ Return \/ EndScript \/ Abort
  <2>1. pc' \notin {"start", "restart", "attacking", "clear", "attacked"}
    BY <1>1 DEF Start, EnableFifo, NotReady, PollReady, ReadError, WriteContinue, NoMoreErrors,
       Return, EndScript, Abort
  <2> QED
    BY <2>1 DEF InTurn
<1>2. CASE ConfigureMemtest
  BY <1>2 DEF ConfigureMemtest, InTurn
<1>3. CASE ConfigureAttack
  <2>1. /\ pc' = "start" /\ script' = "attack" /\ count' = ReadCount /\ modulo' = TRUE
        /\ mem_mask' = 0 /\ data_div' = Len(RowTuple) - 1
    BY <1>3 DEF ConfigureAttack
  <2>2. ASSUME NEW i \in 1 .. Len(RowTuple)
        PROVE  addr'[i - 1] = RowTuple[i] /\ reads'[RowTuple[i]] = 0
    <3>1. i - 1 \in PatternIndices /\ i - 1 < Len(RowTuple) /\ (i - 1) + 1 = i
      BY <1>0, PatternAssumption DEF PatternIndices
    <3>2. RowTuple[i] \in Addresses
      BY <1>0
    <3> QED
      BY <1>3, <3>1, <3>2 DEF ConfigureAttack
  <2> QED
    BY <2>1, <2>2 DEF InTurn
<1>4. CASE WriteStart
  <2>1. /\ start' = TRUE /\ pc' \in {"poll", "restart"} /\ ready'
        /\ pc = "start" /\ (pc' = "restart" => script = "attack")
        /\ UNCHANGED <<count, modulo, mem_mask, data_div, addr, reads, script>>
    BY <1>4 DEF WriteStart, InTurn, Sync, Started
  <2> QED
    BY <2>1 DEF InTurn
<1>5. CASE WriteStartZero
  <2>1. ~start /\ ~ready /\ ~ready' /\ pc = "restart" /\ pc' = "attacking"
    BY <1>0, <1>5 DEF WriteStartZero, Sync, Started, InProgress
  <2>2. UNCHANGED <<count, modulo, mem_mask, data_div, addr, reads, script, counter_addr, mem_addr>>
    BY <1>5 DEF WriteStartZero
  <2> QED
    BY <2>1, <2>2 DEF InTurn, Turns
<1>6. CASE AttackDone
  <2>1. ~start /\ ready /\ ready' /\ start' = start /\ pc = "attacking" /\ pc' = "clear"
    BY <1>0, <1>6 DEF AttackDone
  <2>2. UNCHANGED <<count, modulo, mem_mask, data_div, addr, reads, script, counter_addr, mem_addr>>
    BY <1>6 DEF AttackDone
  <2> QED
    BY <2>1, <2>2 DEF InTurn, Turns
<1>7. CASE ClearModulo
  BY <1>7 DEF ClearModulo, InTurn, Turns
<1>8. ASSUME NEW cmd_ready \in BOOLEAN, Cycle(cmd_ready) PROVE InTurn'
  BY <1>8, TurnCycle
<1>9. CASE DeliverData \/ UNCHANGED vars
  <2>1. UNCHANGED <<csrs, start, addressVars, fsm_pattern, script, pc, reads>>
    BY <1>9 DEF DeliverData, Deliver, vars, readerVars, hostVars
  <2> QED
    BY <2>1 DEF InTurn, Turns
<1> QED
  BY <1>1, <1>2, <1>3, <1>4, <1>5, <1>6, <1>7, <1>8, <1>9 DEF Next, Host

\* For every read count and any number of distinct rows an attack has read each
\* of them equally often, up to one read, when HwRowHammer.attack returns, even
\* if attacks and tests before it were killed.
THEOREM EvenHammering == RowsDistinct => (Spec => []HammeredEvenly)
<1> SUFFICES ASSUME RowsDistinct PROVE Spec => []HammeredEvenly
  OBVIOUS
<1>1. Init => InTurn
  BY DEF Init, InTurn, Attacking
<1>2. IndInv /\ Sync /\ InTurn => HammeredEvenly
  BY DEF InTurn, Attacking, HammeredEvenly, Turns, Sync, Started
<1> QED
  BY <1>1, <1>2, InitInv, NextInv, SyncInit, SyncNext, TurnNext, PTL DEF Spec

-----------------------------------------------------------------------------
(* A memory test reports what it is to report *)

ErrorRecord == [offset : Nat, data : Data, expected : Data]
ErrorLists == Seq(ErrorRecord)

ErrorTypes ==
  /\ data \in [PatternIndices -> Data]
  /\ errors \in ErrorLists /\ error_fifo \in ErrorLists
  /\ error_out \in ErrorLists /\ Len(error_out) <= 1
  /\ fsm_error \in {"INVALID", "VALID"}
  /\ error_ready => error_reg \in ErrorRecord
  /\ fsm_pattern = "WR_ERR" => error_sink \in ErrorRecord

Quiet == error_fifo = <<>> /\ error_out = <<>> /\ ~error_ready

Testing == pc \in {"poll", "drain", "continue", "asserts", "returned"}

\* The errors that are found, from the one that was read first to the one that
\* waits for a place in error_fifo.
Shown ==
  IF error_ready /\ pc # "continue" /\ ~error_continue THEN <<error_reg>> ELSE <<>>
Sink == IF fsm_pattern = "WR_ERR" THEN <<error_sink>> ELSE <<>>
Cat(s, t) == s \o t
Reported == Cat(errors, Cat(Shown, Cat(error_out, Cat(error_fifo, Sink))))

Configured ==
  /\ script = "memtest" /\ ~skip_fifo /\ ~modulo /\ count = Size
  /\ mem_mask = AddressMax /\ data[0] = FillWord /\ addr[0] = 0

\* The Reader and the error path between two scripts, and during an attack.
Between ==
  /\ \/ pc \in {"idle", "flush", "check", "start", "restart", "attacking", "clear", "attacked"}
     \/ Testing
  /\ ~Testing \/ pc \in {"asserts", "returned"} => Quiet
  /\ pc \in {"idle", "flush", "check", "clear", "attacked"} => ready /\ ~start
  /\ pc \in {"idle", "flush", "check", "attacked"} => ~modulo
  /\ pc \in {"flush", "check", "start"} => errors = <<>> /\ ~last
  /\ pc \in {"restart", "attacking", "clear"} => skip_fifo
  /\ pc = "start" /\ script # "memtest" => skip_fifo
  /\ pc = "check" => ~skip_fifo
  /\ fsm_pattern = "WR_ERR" => Testing
  /\ error_continue => pc = "drain" /\ gap = 0 /\ error_ready
  /\ error_fifo # <<>> /\ error_out = <<>> => fsm_pattern = "COMPUTE_MEM_ADDR"

Entries(list) == {list[i] : i \in DOMAIN list}
ErrorsBelow(n) == {ErrorAt(a) : a \in flipped \cap (0 .. n - 1)}

\* The errors that a test has found so far are those of the words it has
\* taken, and the words on their way are the next.
Found ==
  /\ ready => counter_gen = Size
  /\ ~ready => /\ mem_addr = 0 /\ data_mem_addr = 0
               /\ \A k \in 1 .. Len(dma) : dma[k] = counter_gen + k - 1
  /\ Entries(Reported) = ErrorsBelow(counter_gen)
  /\ Ascending(Reported)
  /\ error_count = Len(Reported)

Test ==
  /\ pc = "start" /\ script = "memtest" => Configured
  /\ Testing =>
       /\ Configured
       /\ pc = "poll" => ~last
       /\ pc = "continue" => error_ready
       /\ pc \in {"asserts", "returned"} => last
       /\ last => ready /\ ~start /\ (gap # 0 /\ ~error_ready => error_out = <<>>)
       /\ start => pc = "poll" /\ ready /\ Quiet /\ errors = <<>>
       /\ ~start => Found

Exact == aborts \in Nat /\ (aborts = 0 => ErrorTypes /\ Between /\ Test)

\* Concatenation, by name: the provers need not look into sequences again.
LEMMA CatFacts ==
  /\ <<>> \in ErrorLists
  /\ \A s \in ErrorLists : Cat(<<>>, s) = s /\ Cat(s, <<>>) = s
  /\ \A s, t \in ErrorLists : Cat(s, t) \in ErrorLists
  /\ \A s, t, u \in ErrorLists : Cat(Cat(s, t), u) = Cat(s, Cat(t, u))
  /\ \A s \in ErrorLists, e \in ErrorRecord : Append(s, e) = Cat(s, <<e>>) /\ <<e>> \in ErrorLists
  /\ \A s \in ErrorLists : s # <<>> => /\ Cat(<<Head(s)>>, Tail(s)) = s
                                       /\ Head(s) \in ErrorRecord /\ Tail(s) \in ErrorLists
<1> DEFINE S == ErrorRecord
<1> HIDE DEF S
<1>1. ASSUME NEW s \in Seq(S)
      PROVE  /\ <<>> \o s = s /\ s \o <<>> = s
             /\ s # <<>> => <<Head(s)>> \o Tail(s) = s /\ Head(s) \in S /\ Tail(s) \in Seq(S)
  OBVIOUS
<1>2. ASSUME NEW s \in Seq(S), NEW t \in Seq(S)
      PROVE  s \o t \in Seq(S)
  OBVIOUS
<1>3. ASSUME NEW s \in Seq(S), NEW t \in Seq(S), NEW u \in Seq(S)
      PROVE  (s \o t) \o u = s \o (t \o u)
  OBVIOUS
<1>4. ASSUME NEW s \in Seq(S), NEW e \in S
      PROVE  Append(s, e) = s \o <<e>> /\ <<e>> \in Seq(S)
  OBVIOUS
<1>5. <<>> \in Seq(S)
  OBVIOUS
<1> QED
  BY <1>1, <1>2, <1>3, <1>4, <1>5, Zenon DEF S, Cat, ErrorLists

\* An error that follows those of lower addresses keeps the order.
LEMMA Extended ==
  ASSUME NEW s \in ErrorLists, NEW e \in ErrorRecord, Ascending(s),
         \A i \in DOMAIN s : s[i].offset < e.offset
  PROVE  LET t == Cat(s, <<e>>)
         IN  /\ Ascending(t) /\ Len(t) = Len(s) + 1
             /\ Entries(t) = Entries(s) \cup {e}
<1> DEFINE t == Cat(s, <<e>>)
           n == Len(s)
<1> USE DEF ErrorLists, Cat
<1>1. n \in Nat /\ DOMAIN s = 1 .. n
  OBVIOUS
<1>2. t \in Seq(ErrorRecord) /\ Len(t) = n + 1 /\ DOMAIN t = 1 .. (n + 1)
  OBVIOUS
<1>3. (\A i \in 1 .. n : t[i] = s[i]) /\ t[n + 1] = e
  OBVIOUS
<1> HIDE DEF t, n
<1>4. Ascending(t)
  <2> SUFFICES ASSUME NEW i \in 1 .. (n + 1), NEW j \in 1 .. (n + 1), i < j
               PROVE  t[i].offset < t[j].offset
    BY <1>2 DEF Ascending
  <2>1. i \in 1 .. n /\ t[i] = s[i]
    BY <1>1, <1>3
  <2>2. CASE j = n + 1
    BY <1>1, <1>3, <2>1, <2>2
  <2>3. CASE j # n + 1
    BY <1>1, <1>3, <2>1, <2>3 DEF Ascending
  <2> QED
    BY <2>2, <2>3
<1>5. Entries(t) = Entries(s) \cup {e}
  BY <1>1, <1>2, <1>3 DEF Entries
<1> QED
  BY <1>2, <1>4, <1>5 DEF t, n

LEMMA Single ==
  ASSUME NEW S, NEW s \in Seq(S), Len(s) <= 1, s # <<>>
  PROVE  s = <<s[1]>> /\ s[1] \in S
<1>1. Len(s) \in Nat
  OBVIOUS
<1>2. Len(s) = 0 => s = <<>>
  OBVIOUS
<1>3. Len(s) = 1
  BY <1>1, <1>2, SMTT(30)
<1>4. s[1] \in S
  BY <1>3
<1>5. <<s[1]>> \in Seq(S) /\ Len(<<s[1]>>) = 1 /\ <<s[1]>>[1] = s[1]
  BY <1>4
<1> QED
  BY <1>3, <1>4, <1>5

\* The error FSM and the buffered FIFO move errors on and lose none.
LEMMA ErrorPath ==
  ASSUME ErrorTypes, ErrorFsm, ErrorFifo, ~skip_fifo, ~error_continue', pc' = pc,
         error_continue => error_ready /\ pc # "continue", pc = "continue" => error_ready
  PROVE  /\ Shown \in ErrorLists /\ Shown' \in ErrorLists
         /\ error_out' \in ErrorLists /\ Len(error_out') <= 1
         /\ fsm_error' \in {"INVALID", "VALID"}
         /\ error_ready' => error_reg' \in ErrorRecord
         /\ pc = "continue" => error_ready'
         /\ error_fifo = <<>> \/ error_out # <<>> => (~error_ready' => error_out' = <<>>)
         /\ \E rest \in ErrorLists :
              /\ error_fifo' = (IF PushError THEN Append(rest, error_sink) ELSE rest)
              /\ rest # <<>> => error_out' # <<>>
              /\ Cat(Shown', Cat(error_out', rest)) = Cat(Shown, Cat(error_out, error_fifo))
<1> USE DEF error_ready
<1>1. /\ error_fifo \in ErrorLists /\ error_out \in ErrorLists /\ Len(error_out) <= 1
      /\ fsm_error \in {"INVALID", "VALID"}
      /\ error_ready => error_reg \in ErrorRecord
  BY DEF ErrorTypes
<1>2. error_out # <<>> => error_out = <<error_out[1]>> /\ error_out[1] \in ErrorRecord
  BY <1>1, Single DEF ErrorLists
<1>3. /\ \A e \in ErrorRecord : <<e>> \in ErrorLists /\ Len(<<e>>) = 1 /\ <<e>> # <<>>
      /\ <<>> \in ErrorLists /\ Len(<<>>) = 0
  BY DEF ErrorLists
<1> DEFINE moves == error_fifo # <<>> /\ (error_out = <<>> \/ PopError)
           rest == IF moves THEN Tail(error_fifo) ELSE error_fifo
<1>4. /\ error_fifo' = (IF PushError THEN Append(rest, error_sink) ELSE rest)
      /\ error_out' = (IF moves THEN <<Head(error_fifo)>>
                       ELSE IF PopError THEN <<>> ELSE error_out)
  BY DEF ErrorFifo
<1>5. error_fifo # <<>> => /\ Cat(<<Head(error_fifo)>>, Tail(error_fifo)) = error_fifo
                           /\ Head(error_fifo) \in ErrorRecord /\ Tail(error_fifo) \in ErrorLists
  BY <1>1, CatFacts
<1>6. rest \in ErrorLists
  BY <1>1, <1>5
<1> HIDE DEF rest
<1>7. error_out' \in ErrorLists /\ Len(error_out') <= 1
  BY <1>1, <1>3, <1>4, <1>5
<1>8. Shown \in ErrorLists
  BY <1>1, <1>3 DEF Shown
<1>9. CASE PopError
  <2>1. error_ready' /\ error_reg' = error_out[1] /\ error_out # <<>>
    BY <1>9 DEF ErrorFsm, PopError
  <2>2. Shown = <<>> /\ pc # "continue"
    BY <1>9 DEF PopError, Shown
  <2>3. Shown' = error_out
    BY <1>2, <2>1, <2>2 DEF Shown
  <2>4. Cat(error_out', rest) = error_fifo
    <3>1. CASE moves
      BY <1>4, <1>5, <3>1 DEF rest
    <3>2. CASE ~moves
      <4>1. error_fifo = <<>> /\ rest = <<>> /\ error_out' = <<>>
        BY <1>4, <1>9, <3>2 DEF rest
      <4> QED
        BY <1>3, <4>1, CatFacts
    <3> QED
      BY <3>1, <3>2
  <2>5. Cat(Shown, Cat(error_out, error_fifo)) = Cat(error_out, error_fifo)
    BY <1>1, <2>2, CatFacts
  <2>6. rest # <<>> => error_out' # <<>>
    <3>1. CASE moves
      BY <1>3, <1>4, <1>5, <3>1
    <3>2. CASE ~moves
      BY <1>9, <3>2 DEF rest
    <3> QED
      BY <3>1, <3>2
  <2>7. Cat(Shown', Cat(error_out', rest)) = Cat(Shown, Cat(error_out, error_fifo))
    BY <2>3, <2>4, <2>5
  <2> QED
    BY <1>1, <1>2, <1>4, <1>6, <1>7, <1>8, <2>1, <2>2, <2>3, <2>6, <2>7
<1>10. CASE ~PopError
  <2>1. /\ fsm_error' = (IF error_continue THEN "INVALID" ELSE fsm_error)
        /\ error_reg' = error_reg
    BY <1>10 DEF ErrorFsm
  <2>2. Shown' = Shown
    BY <2>1 DEF Shown
  <2>3. Cat(error_out', rest) = Cat(error_out, error_fifo)
    <3>1. CASE moves
      <4>1. error_out = <<>> /\ error_out' = <<Head(error_fifo)>> /\ rest = Tail(error_fifo)
        BY <1>4, <1>10, <3>1 DEF rest
      <4> QED
        BY <1>1, <1>5, <3>1, <4>1, CatFacts
    <3>2. CASE ~moves
      BY <1>4, <1>10, <3>2 DEF rest
    <3> QED
      BY <3>1, <3>2
  <2>4. rest # <<>> => error_out' # <<>>
    <3>1. CASE moves
      BY <1>3, <1>4, <1>5, <3>1
    <3>2. CASE ~moves
      BY <1>4, <1>10, <3>2 DEF rest
    <3> QED
      BY <3>1, <3>2
  <2>5. ASSUME error_fifo = <<>> \/ error_out # <<>>, ~error_ready'
        PROVE  error_out' = <<>>
    <3>1. error_out = <<>>
      BY <1>1, <1>10, <2>1, <2>5 DEF PopError
    <3> QED
      BY <1>4, <1>10, <2>5, <3>1
  <2>6. Cat(Shown', Cat(error_out', rest)) = Cat(Shown, Cat(error_out, error_fifo))
    BY <2>2, <2>3
  <2>7. /\ fsm_error' \in {"INVALID", "VALID"}
        /\ error_ready' => error_reg' \in ErrorRecord
        /\ pc = "continue" => error_ready'
    BY <1>1, <2>1
  <2> QED
    BY <1>4, <1>6, <1>7, <1>8, <2>2, <2>4, <2>5, <2>6, <2>7
<1> QED
  BY <1>9, <1>10

\* The error that a cycle finds, if any.
Mismatch == TakeWord /\ DramWord(Head(dma)) # data_expected
New ==
  IF Mismatch
    THEN <<[offset |-> Head(address_fifo), data |-> DramWord(Head(dma)),
            expected |-> data_expected]>>
    ELSE <<>>

\* The pattern FSM passes errors on to error_fifo and loses none.
LEMMA SinkPath ==
  ASSUME ErrorTypes, PatternFsm, ~skip_fifo, New \in ErrorLists,
         NEW rest \in ErrorLists,
         error_fifo' = (IF PushError THEN Append(rest, error_sink) ELSE rest)
  PROVE  /\ Sink \in ErrorLists
         /\ error_fifo' \in ErrorLists
         /\ fsm_pattern' = "WR_ERR" => error_sink' \in ErrorRecord
         /\ Cat(error_fifo', Sink') = Cat(Cat(rest, Sink), New)
<1> USE DEF TakeWord
<1>1. /\ \A e \in ErrorRecord : <<e>> \in ErrorLists
      /\ \A s \in ErrorLists, e \in ErrorRecord : Append(s, e) = Cat(s, <<e>>)
      /\ \A s \in ErrorLists : Cat(<<>>, s) = s /\ Cat(s, <<>>) = s
      /\ \A s, t \in ErrorLists : Cat(s, t) \in ErrorLists
      /\ <<>> \in ErrorLists
  BY CatFacts
<1>2. fsm_pattern = "WR_ERR" => error_sink \in ErrorRecord
  BY DEF ErrorTypes
<1>3. CASE fsm_pattern = "WR_ERR"
  <2>1. /\ fsm_pattern' = (IF PushError THEN "COMPUTE_MEM_ADDR" ELSE "WR_ERR")
        /\ error_sink' = error_sink
    BY <1>3 DEF PatternFsm, PatternReady, PatternCompute, PatternWait, PatternInvert,
                PatternCompare, PatternAwaitData, PatternError
  <2>2. New = <<>> /\ Sink = <<error_sink>>
    BY <1>3 DEF New, Mismatch, Sink
  <2>3. Sink' = (IF PushError THEN <<>> ELSE <<error_sink>>)
    BY <2>1 DEF Sink
  <2>4. Cat(rest, Sink) \in ErrorLists /\ Sink \in ErrorLists
    BY <1>1, <1>2, <1>3, <2>2
  <2>5. CASE PushError
    BY <1>1, <1>2, <1>3, <2>1, <2>2, <2>3, <2>4, <2>5
  <2>6. CASE ~PushError
    BY <1>1, <1>2, <1>3, <2>1, <2>2, <2>3, <2>4, <2>6
  <2> QED
    BY <2>5, <2>6
<1>4. CASE fsm_pattern # "WR_ERR"
  <2>1. ~PushError /\ Sink = <<>>
    BY <1>4 DEF PushError, Sink
  <2>2. Cat(rest, Sink) = rest /\ error_fifo' = rest
    BY <1>1, <2>1
  <2>3. Sink' = New /\ (fsm_pattern' = "WR_ERR" => New = <<error_sink'>>)
    <3>1. CASE Mismatch
      BY <1>4, <3>1 DEF PatternFsm, PatternReady, PatternCompute, PatternWait, PatternInvert,
                PatternCompare, PatternAwaitData, PatternError, Mismatch, New, Sink
    <3>2. CASE ~Mismatch
      <4>1. fsm_pattern' # "WR_ERR"
        BY <1>4, <3>2 DEF PatternFsm, PatternReady, PatternCompute, PatternWait, PatternInvert,
                PatternCompare, PatternAwaitData, PatternError, Mismatch
      <4> QED
        BY <3>2, <4>1 DEF New, Sink
    <3> QED
      BY <3>1, <3>2
  <2>4. fsm_pattern' = "WR_ERR" => error_sink' \in ErrorRecord
    <3> SUFFICES ASSUME fsm_pattern' = "WR_ERR" PROVE error_sink' \in ErrorRecord
      OBVIOUS
    <3>1. <<error_sink'>> \in Seq(ErrorRecord)
      BY <2>3 DEF ErrorLists
    <3> QED
      BY <3>1
  <2> QED
    BY <1>1, <2>1, <2>2, <2>3, <2>4
<1> QED
  BY <1>3, <1>4

LEMMA ErrorAtFacts ==
  ASSUME NEW a \in Nat
  PROVE  /\ ErrorAt(a) \in ErrorRecord /\ ErrorAt(a).offset = a
         /\ DramWord(a) # Expected(a, FillWord) <=> a \in flipped
<1>1. FillWord \in Data
  BY ReaderAssumption
<1>2. Expected(a, FillWord) \in Data
  BY <1>1 DEF Expected, Inverse, Data
<1>3. DramWord(a) \in Data /\ (DramWord(a) # Expected(a, FillWord) <=> a \in flipped)
  BY <1>2 DEF DramWord, Inverse, Data
<1> QED
  BY <1>2, <1>3 DEF ErrorAt, ErrorRecord

\* The word that a test takes is that of the next address of its range, and
\* differs from the pattern word it is compared with iff it has flipped.
LEMMA WordTaken ==
  ASSUME IndInv, Sync, Configured, Found, TakeWord
  PROVE  /\ Mismatch <=> counter_gen \in flipped
         /\ New = IF counter_gen \in flipped THEN <<ErrorAt(counter_gen)>> ELSE <<>>
<1>1. dma \in Seq(Nat) /\ dma # <<>> /\ dram_addr \in Nat /\ counter_gen \in Nat
  BY DEF IndInv, QueueTypes, AddressTypes, TakeWord, Sync, CounterTypes
<1>2. Head(address_fifo) = Head(dma)
  BY <1>1, TailAppend DEF IndInv, InStep
<1>3. data_mem_addr = 0 /\ \A k \in 1 .. Len(dma) : dma[k] = counter_gen + k - 1
  BY DEF Found, TakeWord, ready
<1>4. Len(dma) \in Nat \ {0} /\ Head(dma) = dma[1]
  BY <1>1
<1>5. Head(dma) = counter_gen
  BY <1>1, <1>3, <1>4
<1>6. data_expected = Expected(counter_gen, FillWord)
  BY <1>2, <1>3, <1>5 DEF IndInv, Settled, TakeWord, Configured
<1>7. DramWord(counter_gen) # Expected(counter_gen, FillWord) <=> counter_gen \in flipped
  BY <1>1, ErrorAtFacts
<1> QED
  BY <1>2, <1>5, <1>6, <1>7 DEF Mismatch, New, ErrorAt

\* Taking the first of consecutive numbers and adding the next keeps them
\* consecutive.
LEMMA Consecutive ==
  ASSUME NEW s \in Seq(Nat), NEW n \in Nat,
         \A k \in 1 .. Len(s) : s[k] = n + k - 1
  PROVE  /\ s # <<>> => /\ Tail(s) \in Seq(Nat)
                        /\ \A k \in 1 .. Len(Tail(s)) : Tail(s)[k] = n + 1 + k - 1
         /\ \A m \in Nat : m = n + Len(s) =>
              \A k \in 1 .. Len(Append(s, m)) : Append(s, m)[k] = n + k - 1
<1>1. Len(s) \in Nat
  OBVIOUS
<1>2. ASSUME s # <<>>
      PROVE  /\ Tail(s) \in Seq(Nat)
             /\ \A k \in 1 .. Len(Tail(s)) : Tail(s)[k] = n + 1 + k - 1
  <2>1. Tail(s) \in Seq(Nat) /\ Len(Tail(s)) = Len(s) - 1
        /\ \A k \in 1 .. Len(Tail(s)) : Tail(s)[k] = s[k + 1]
    BY <1>2
  <2> QED
    BY <1>1, <2>1
<1>3. ASSUME NEW m \in Nat, m = n + Len(s)
      PROVE  \A k \in 1 .. Len(Append(s, m)) : Append(s, m)[k] = n + k - 1
  <2>1. Len(Append(s, m)) = Len(s) + 1
    OBVIOUS
  <2>2. ASSUME NEW k \in 1 .. (Len(s) + 1)
        PROVE  Append(s, m)[k] = n + k - 1
    <3>1. CASE k = Len(s) + 1
      BY <1>1, <1>3, <3>1
    <3>2. CASE k \in 1 .. Len(s)
      BY <1>1, <3>2
    <3> QED
      BY <1>1, <3>1, <3>2
  <2> QED
    BY <2>1, <2>2
<1> QED
  BY <1>2, <1>3

\* The words a test has requested are those of the addresses it is to take next.
LEMMA RequestsInOrder ==
  ASSUME IndInv, Sync, Configured, ~ready, Found, NEW cmd_ready \in BOOLEAN, Queues(cmd_ready)
  PROVE  LET n == IF TakeWord THEN counter_gen + 1 ELSE counter_gen
         IN  \A k \in 1 .. Len(dma') : dma'[k] = n + k - 1
<1> DEFINE n == IF TakeWord THEN counter_gen + 1 ELSE counter_gen
           rest == IF TakeWord THEN Tail(dma) ELSE dma
<1>1. /\ dma \in Seq(Nat) /\ {dram_addr, counter_gen, counter_addr} \subseteq Nat
      /\ arrived \in 0 .. Len(dma) /\ Len(dma) \in Nat
  BY DEF IndInv, QueueTypes, AddressTypes, Sync, CounterTypes
<1>2. TakeWord => dma # <<>>
  BY <1>1 DEF TakeWord
<1>3. mem_addr = 0 /\ \A k \in 1 .. Len(dma) : dma[k] = counter_gen + k - 1
  BY DEF Found
<1>4. /\ rest \in Seq(Nat) /\ n \in Nat
      /\ \A k \in 1 .. Len(rest) : rest[k] = n + k - 1
      /\ n + Len(rest) = counter_gen + Len(dma)
  <2>1. CASE TakeWord
    <3>1. /\ Tail(dma) \in Seq(Nat) /\ Len(Tail(dma)) = Len(dma) - 1
          /\ \A k \in 1 .. Len(Tail(dma)) : Tail(dma)[k] = counter_gen + 1 + k - 1
      BY <1>1, <1>2, <1>3, <2>1, Consecutive
    <3> QED
      BY <1>1, <2>1, <3>1
  <2>2. CASE ~TakeWord
    BY <1>1, <1>3, <2>2
  <2> QED
    BY <2>1, <2>2
<1>5. dma' = IF PushDma(cmd_ready) THEN Append(rest, dram_addr) ELSE rest
  BY DEF Queues
<1>6. ASSUME PushDma(cmd_ready)
      PROVE  dram_addr = counter_gen + Len(dma)
  <2>1. dram_addr = addr[mem_addr] + Masked(counter_addr, mem_mask)
    BY <1>6 DEF PushDma, Sync, Requested
  <2>2. addr[mem_addr] = 0 /\ mem_mask = AddressMax
    BY <1>3 DEF Configured
  <2>3. counter_addr = counter_gen + Len(dma) /\ counter_addr < Size
    BY <1>6 DEF PushDma, Sync, InProgress, Configured
  <2>4. AddressMax \in Nat /\ Size \in Nat /\ Size <= AddressMax + 1
    BY HostAssumption, ReaderAssumption DEF Counts
  <2>5. Masked(counter_addr, AddressMax) = counter_addr
    <3> DEFINE d == AddressMax + 1
    <3>1. d \in Nat \ {0} /\ counter_addr \in 0 .. d - 1 /\ 0 \in Int /\ counter_addr \in Int
          /\ counter_addr = d * 0 + counter_addr
      BY <1>1, <2>3, <2>4
    <3> HIDE DEF d
    <3>2. counter_addr % d = counter_addr
      BY <3>1, Division
    <3> QED
      BY <3>2 DEF Masked, d
  <2> QED
    BY <1>1, <2>1, <2>2, <2>3, <2>5
<1> HIDE DEF n, rest
<1>7. \A k \in 1 .. Len(dma') : dma'[k] = n + k - 1
  <2>1. CASE PushDma(cmd_ready)
    BY <1>1, <1>4, <1>5, <1>6, <2>1, Consecutive
  <2>2. CASE ~PushDma(cmd_ready)
    BY <1>4, <1>5, <2>2
  <2> QED
    BY <2>1, <2>2
<1> QED
  BY <1>7 DEF n

\* With nothing on the error path and nothing to put there, it stays so.
LEMMA QuietCycle ==
  ASSUME Quiet, fsm_error \in {"INVALID", "VALID"}, fsm_pattern # "WR_ERR", ErrorFsm, ErrorFifo
  PROVE  Quiet' /\ fsm_error' = "INVALID"
BY DEF Quiet, ErrorFsm, ErrorFifo, PopError, PushError, error_ready

\* One clock cycle of a test that is in progress: the words taken so far stay
\* accounted for.
LEMMA FoundCycle ==
  ASSUME IndInv, Sync, ErrorTypes, Between, Test, Testing, ~start,
         NEW cmd_ready \in BOOLEAN, Cycle(cmd_ready)
  PROVE  /\ ErrorTypes' /\ Found'
         /\ pc = "continue" => error_ready'
         /\ error_fifo = <<>> \/ error_out # <<>> => (~error_ready' => error_out' = <<>>)
         /\ error_fifo' # <<>> /\ error_out' = <<>> => fsm_pattern' = "COMPUTE_MEM_ADDR"
<1> USE DEF ready
<1>1. /\ AddressFsm(cmd_ready) /\ PatternFsm /\ Queues(cmd_ready) /\ ErrorFsm /\ ErrorFifo
      /\ UNCHANGED <<errors, pc, flipped, data, skip_fifo>> /\ ~error_continue'
  BY DEF Cycle, ReaderCycle, csrs
<1>2. Configured /\ Found /\ ~skip_fifo /\ count = Size
  BY DEF Test, Configured
<1>3. counter_gen \in Nat /\ count \in Nat /\ counter_addr \in Nat /\ Len(dma) \in Nat
  BY DEF Sync, CounterTypes, IndInv, AddressTypes, QueueTypes
<1>4. error_continue => error_ready /\ pc # "continue"
  BY DEF Between
<1>5. pc = "continue" => error_ready
  BY DEF Test
<1>6. /\ New \in ErrorLists
      /\ New = IF TakeWord /\ counter_gen \in flipped THEN <<ErrorAt(counter_gen)>> ELSE <<>>
  <2>1. New = IF TakeWord /\ counter_gen \in flipped THEN <<ErrorAt(counter_gen)>> ELSE <<>>
    <3>1. CASE TakeWord
      BY <1>2, <3>1, WordTaken
    <3>2. CASE ~TakeWord
      BY <3>2 DEF New, Mismatch
    <3> QED
      BY <3>1, <3>2
  <2> QED
    BY <1>3, <2>1, ErrorAtFacts, CatFacts
<1>7. /\ Shown \in ErrorLists /\ Shown' \in ErrorLists
      /\ error_out' \in ErrorLists /\ Len(error_out') <= 1
      /\ fsm_error' \in {"INVALID", "VALID"}
      /\ error_ready' => error_reg' \in ErrorRecord
      /\ pc = "continue" => error_ready'
      /\ error_fifo = <<>> \/ error_out # <<>> => (~error_ready' => error_out' = <<>>)
      /\ \E rest \in ErrorLists :
           /\ error_fifo' = (IF PushError THEN Append(rest, error_sink) ELSE rest)
           /\ rest # <<>> => error_out' # <<>>
           /\ Cat(Shown', Cat(error_out', rest)) = Cat(Shown, Cat(error_out, error_fifo))
  BY <1>1, <1>2, <1>4, <1>5, ErrorPath
<1>8. PICK rest \in ErrorLists :
        /\ error_fifo' = (IF PushError THEN Append(rest, error_sink) ELSE rest)
        /\ rest # <<>> => error_out' # <<>>
        /\ Cat(Shown', Cat(error_out', rest)) = Cat(Shown, Cat(error_out, error_fifo))
  BY <1>7
<1>9. /\ Sink \in ErrorLists
      /\ error_fifo' \in ErrorLists
      /\ fsm_pattern' = "WR_ERR" => error_sink' \in ErrorRecord
      /\ Cat(error_fifo', Sink') = Cat(Cat(rest, Sink), New)
  BY <1>1, <1>2, <1>6, <1>8, SinkPath
<1>10. errors \in ErrorLists /\ error_fifo \in ErrorLists /\ error_out \in ErrorLists
  BY DEF ErrorTypes
<1>11. ErrorTypes'
  BY <1>1, <1>7, <1>9 DEF ErrorTypes
<1>12. Reported \in ErrorLists
  <2>1. Cat(error_fifo, Sink) \in ErrorLists
    BY <1>9, <1>10, CatFacts
  <2>2. Cat(error_out, Cat(error_fifo, Sink)) \in ErrorLists
    BY <1>10, <2>1, CatFacts
  <2>3. Cat(Shown, Cat(error_out, Cat(error_fifo, Sink))) \in ErrorLists
    BY <1>7, <2>2, CatFacts
  <2> QED
    BY <1>10, <2>3, CatFacts DEF Reported
<1>13. Reported' = Cat(Reported, New)
  <2> DEFINE b1 == Shown'
             c1 == error_out'
             fs1 == Cat(error_fifo', Sink')
             e == Sink
             f == New
             d == error_fifo
             c == error_out
             b == Shown
             a == errors
  <2>1. /\ a \in ErrorLists /\ b \in ErrorLists /\ c \in ErrorLists /\ d \in ErrorLists
        /\ e \in ErrorLists /\ f \in ErrorLists /\ b1 \in ErrorLists /\ c1 \in ErrorLists
        /\ Cat(b1, Cat(c1, rest)) = Cat(b, Cat(c, d))
        /\ fs1 = Cat(Cat(rest, e), f)
    BY <1>6, <1>7, <1>8, <1>9, <1>10
  <2>2. Reported = Cat(a, Cat(b, Cat(c, Cat(d, e)))) /\ Reported' = Cat(a, Cat(b1, Cat(c1, fs1)))
    BY <1>1 DEF Reported
  <2> HIDE DEF a, b, c, d, e, f, b1, c1, fs1
  <2>3. Cat(a, Cat(b1, Cat(c1, Cat(Cat(rest, e), f)))) = Cat(Cat(a, Cat(b, Cat(c, Cat(d, e)))), f)
    <3>1. \A s, t, u \in ErrorLists : Cat(Cat(s, t), u) = Cat(s, Cat(t, u)) /\ Cat(s, t) \in ErrorLists
      BY CatFacts
    <3>2. ASSUME NEW s \in ErrorLists, NEW t \in ErrorLists, NEW u \in ErrorLists,
                 NEW v \in ErrorLists
          PROVE  Cat(s, Cat(t, Cat(u, v))) = Cat(Cat(s, Cat(t, u)), v)
      BY <3>1
    <3> DEFINE ef == Cat(e, f)
               de == Cat(d, e)
    <3>3. ef \in ErrorLists /\ de \in ErrorLists /\ Cat(c, de) \in ErrorLists
      BY <2>1, <3>1
    <3>4. Cat(Cat(rest, e), f) = Cat(rest, ef) /\ Cat(de, f) = Cat(d, ef)
      BY <2>1, <3>1
    <3> HIDE DEF ef, de
    <3>5. Cat(b1, Cat(c1, Cat(rest, ef))) = Cat(b, Cat(c, Cat(d, ef)))
      BY <2>1, <3>2, <3>3
    <3>6. Cat(c, Cat(de, f)) = Cat(Cat(c, de), f)
      BY <2>1, <3>1, <3>3
    <3>7. Cat(a, Cat(b, Cat(Cat(c, de), f))) = Cat(Cat(a, Cat(b, Cat(c, de))), f)
      BY <2>1, <3>2, <3>3
    <3> QED
      BY <3>4, <3>5, <3>6, <3>7 DEF de
  <2> QED
    BY <2>1, <2>2, <2>3 DEF f
<1>14. error_count = Len(Reported) /\ error_count \in Nat
  BY <1>2, <1>12 DEF Found, ErrorLists
<1>15. /\ counter_gen' = counter_gen + (IF TakeWord THEN 1 ELSE 0)
       /\ error_count' = error_count + (IF Mismatch THEN 1 ELSE 0)
  <2>1. CASE TakeWord
    <3>1. PatternCompare
      BY <1>1, <2>1 DEF PatternFsm, PatternReady, PatternCompute, PatternWait,
         PatternInvert, PatternAwaitData, PatternError, TakeWord
    <3> QED
      BY <1>3, <1>14, <2>1, <3>1 DEF PatternCompare, Mismatch
  <2>2. CASE ~TakeWord
    <3>1. counter_gen' = counter_gen /\ error_count' = error_count
      BY <1>1, <2>2 DEF PatternFsm, PatternReady, PatternCompute, PatternWait,
         PatternInvert, PatternCompare, PatternAwaitData, PatternError
    <3> QED
      BY <1>3, <1>14, <2>2, <3>1 DEF Mismatch
  <2> QED
    BY <2>1, <2>2
<1>16. \A a : ErrorAt(a)' = ErrorAt(a)
  BY <1>1 DEF ErrorAt, DramWord
<1>17. /\ Entries(Reported') = ErrorsBelow(counter_gen')
       /\ Ascending(Reported')
       /\ error_count' = Len(Reported')
  <2>1. Entries(Reported) = ErrorsBelow(counter_gen) /\ Ascending(Reported)
    BY <1>2 DEF Found
  <2>2. Mismatch <=> TakeWord /\ counter_gen \in flipped
    BY <1>2, WordTaken DEF Mismatch
  <2>3. CASE Mismatch
    <3> DEFINE e == ErrorAt(counter_gen)
               r == Reported
    <3>1. New = <<e>> /\ e \in ErrorRecord /\ e.offset = counter_gen
      BY <1>3, <1>6, <2>2, <2>3, ErrorAtFacts
    <3>2. \A i \in DOMAIN r : r[i].offset < counter_gen
      <4> SUFFICES ASSUME NEW i \in DOMAIN Reported PROVE Reported[i].offset < counter_gen
        OBVIOUS
      <4>1. Reported[i] \in ErrorsBelow(counter_gen)
        BY <2>1 DEF Entries
      <4>2. PICK a \in flipped \cap (0 .. counter_gen - 1) : Reported[i] = ErrorAt(a)
        BY <4>1 DEF ErrorsBelow
      <4>3. a \in Nat /\ a < counter_gen /\ ErrorAt(a).offset = a
        BY <1>3, ErrorAtFacts
      <4> QED
        BY <4>2, <4>3
    <3>3. ErrorsBelow(counter_gen + 1) = ErrorsBelow(counter_gen) \cup {e}
      <4>1. flipped \cap (0 .. counter_gen + 1 - 1) =
              (flipped \cap (0 .. counter_gen - 1)) \cup {counter_gen}
        BY <1>3, <2>2, <2>3
      <4> QED
        BY <4>1 DEF ErrorsBelow
    <3>4. r \in ErrorLists /\ Ascending(r) /\ Entries(r) = ErrorsBelow(counter_gen)
      BY <1>12, <2>1
    <3>5. /\ Reported' = Cat(r, <<e>>) /\ counter_gen' = counter_gen + 1
          /\ error_count' = Len(r) + 1
      BY <1>13, <1>14, <1>15, <2>2, <2>3, <3>1
    <3> HIDE DEF e, r
    <3>6. LET t == Cat(r, <<e>>)
          IN  /\ Ascending(t) /\ Len(t) = Len(r) + 1
              /\ Entries(t) = Entries(r) \cup {e}
      BY <3>1, <3>2, <3>4, Extended
    <3> QED
      BY <3>3, <3>4, <3>5, <3>6
  <2>4. CASE ~Mismatch
    <3>1. Reported' = Reported /\ error_count' = error_count
      BY <1>6, <1>12, <1>13, <1>14, <1>15, <2>2, <2>4, CatFacts
    <3>2. flipped \cap (0 .. counter_gen' - 1) = flipped \cap (0 .. counter_gen - 1)
      <4>1. CASE TakeWord
        BY <1>3, <1>15, <2>2, <2>4, <4>1
      <4>2. CASE ~TakeWord
        BY <1>3, <1>15, <4>2
      <4> QED
        BY <4>1, <4>2
    <3>3. ErrorsBelow(counter_gen') = ErrorsBelow(counter_gen)
      BY <3>2 DEF ErrorsBelow
    <3> QED
      BY <1>14, <2>1, <3>1, <3>3
  <2> QED
    BY <2>3, <2>4
<1>18. /\ ready' => counter_gen' = Size
       /\ ~ready' => /\ mem_addr' = 0 /\ data_mem_addr' = 0
                     /\ \A k \in 1 .. Len(dma') : dma'[k] = counter_gen' + k - 1
  <2>1. data_mask = 0 /\ ~modulo
    BY <1>2 DEF IndInv, AddressTypes, Configured
  <2>2. Masked(counter_addr, 0) = 0 /\ Masked(counter_gen, 0) = 0
    BY <1>3, MaskedNat
  <2>3. CASE ready
    <3>1. ready' /\ counter_gen = Size /\ ~TakeWord
      BY <1>1, <1>2, <2>3 DEF Found, PatternFsm, PatternReady, PatternCompute, PatternWait,
         PatternInvert, PatternCompare, PatternAwaitData, PatternError, TakeWord
    <3> QED
      BY <1>3, <1>15, <3>1
  <2>4. CASE ~ready
    <3>1. mem_addr = 0 /\ data_mem_addr = 0
      BY <1>2, <2>4 DEF Found
    <3>2. data_mem_addr' = 0
      BY <1>1, <2>1, <2>2, <2>4, <3>1 DEF PatternFsm, PatternReady, PatternCompute, PatternWait,
         PatternInvert, PatternCompare, PatternAwaitData, PatternError
    <3>3. mem_addr' = 0
      BY <1>1, <2>1, <2>2, <2>4, <3>1 DEF AddressFsm, AddressReady, AddressCompute, AddressWait,
         AddressDram, AddressPushFifo, AddressPushDma
    <3>4. \A k \in 1 .. Len(dma') : dma'[k] = counter_gen' + k - 1
      <4> DEFINE n == IF TakeWord THEN counter_gen + 1 ELSE counter_gen
      <4>1. \A k \in 1 .. Len(dma') : dma'[k] = n + k - 1
        BY <1>1, <1>2, <2>4, RequestsInOrder
      <4>2. counter_gen' = n
        BY <1>3, <1>15
      <4> HIDE DEF n
      <4> QED
        BY <4>1, <4>2
    <3>5. ready' => counter_gen' = Size
      <4> SUFFICES ASSUME ready' PROVE counter_gen' = Size
        OBVIOUS
      <4>1. fsm_pattern = "COMPUTE_MEM_ADDR" /\ counter_gen >= count /\ counter_gen' = counter_gen
        BY <1>1, <2>4 DEF PatternFsm, PatternReady, PatternCompute, PatternWait,
           PatternInvert, PatternCompare, PatternAwaitData, PatternError
      <4>2. counter_gen <= count
        BY <1>3, <2>4 DEF Sync, InProgress
      <4> QED
        BY <1>2, <1>3, <4>1, <4>2
    <3> QED
      BY <3>2, <3>3, <3>4, <3>5
  <2> QED
    BY <2>3, <2>4
<1>19. Found'
  <2>1. ErrorsBelow(counter_gen)' = ErrorsBelow(counter_gen')
    BY <1>1, <1>16 DEF ErrorsBelow
  <2> QED
    BY <1>17, <1>18, <2>1 DEF Found, Ascending, Entries
<1>20. error_fifo' # <<>> /\ error_out' = <<>> => fsm_pattern' = "COMPUTE_MEM_ADDR"
  <2> SUFFICES ASSUME error_fifo' # <<>>, error_out' = <<>>
               PROVE  fsm_pattern' = "COMPUTE_MEM_ADDR"
    OBVIOUS
  <2>1. PushError
    BY <1>8
  <2> QED
    BY <1>1, <2>1 DEF PushError, PatternFsm, PatternReady, PatternCompute, PatternWait,
       PatternInvert, PatternCompare, PatternAwaitData, PatternError, TakeWord
<1> QED
  BY <1>7, <1>11, <1>19, <1>20

\* The cycle in which a test starts.
LEMMA FoundStart ==
  ASSUME IndInv, Sync, ErrorTypes, Between, Test, Testing, start,
         NEW cmd_ready \in BOOLEAN, Cycle(cmd_ready)
  PROVE  ErrorTypes' /\ Found' /\ Quiet'
<1> USE DEF ready
<1>1. /\ AddressFsm(cmd_ready) /\ PatternFsm /\ Queues(cmd_ready) /\ ErrorFsm /\ ErrorFifo
      /\ UNCHANGED <<errors, pc, flipped, data>>
  BY DEF Cycle, ReaderCycle, csrs
<1>2. /\ ready /\ Quiet /\ errors = <<>> /\ fsm_error \in {"INVALID", "VALID"}
      /\ data \in [PatternIndices -> Data]
  BY DEF Test, ErrorTypes
<1>3. fsm_addr = "READY" /\ dma = <<>>
  BY <1>2 DEF Sync, InProgress
<1>4. Quiet' /\ fsm_error' = "INVALID"
  BY <1>1, <1>2, QuietCycle
<1>5. /\ fsm_pattern' = "COMPUTE_MEM_ADDR" /\ counter_gen' = 0 /\ data_mem_addr' = 0
      /\ error_count' = 0
  BY <1>1, <1>2 DEF PatternFsm, PatternReady, PatternCompute, PatternWait,
     PatternInvert, PatternCompare, PatternAwaitData, PatternError, TakeWord
<1>6. mem_addr' = 0 /\ dma' = <<>>
  BY <1>1, <1>2, <1>3 DEF AddressFsm, AddressReady, AddressCompute, AddressWait,
     AddressDram, AddressPushFifo, AddressPushDma, Queues, TakeWord, PushDma
<1>7. Reported' = <<>>
  <2>1. Shown' = <<>> /\ Sink' = <<>> /\ error_out' = <<>> /\ error_fifo' = <<>>
    BY <1>4, <1>5 DEF Shown, Sink, Quiet
  <2>2. Cat(<<>>, <<>>) = <<>>
    BY CatFacts
  <2> QED
    BY <1>1, <1>2, <2>1, <2>2 DEF Reported
<1>8. Entries(<<>>) = {} /\ Ascending(<<>>) /\ Len(<<>>) = 0
  BY DEF Entries, Ascending
<1>9. ErrorsBelow(counter_gen)' = {}
  BY <1>5 DEF ErrorsBelow
<1>10. Found'
  <2>1. Entries(Reported)' = {} /\ Ascending(Reported)' /\ Len(Reported)' = 0
    BY <1>7, <1>8 DEF Entries, Ascending
  <2> QED
    BY <1>5, <1>6, <1>9, <2>1 DEF Found
<1>11. ErrorTypes'
  <2>1. <<>> \in ErrorLists /\ Len(<<>>) = 0
    BY CatFacts
  <2> QED
    BY <1>1, <1>2, <1>4, <1>5, <2>1 DEF ErrorTypes, Quiet, error_ready
<1> QED
  BY <1>4, <1>10, <1>11

\* A clock cycle outside a test, and of a test that has ended.
LEMMA QuietPhase ==
  ASSUME IndInv, Sync, ErrorTypes, Between, Test, ~Testing,
         NEW cmd_ready \in BOOLEAN, Cycle(cmd_ready)
  PROVE  ErrorTypes' /\ Between' /\ Test'
<1> USE DEF ready
<1>1. /\ PatternFsm /\ ErrorFsm /\ ErrorFifo /\ UNCHANGED <<errors, script, pc, last, csrs>>
      /\ start' = FALSE /\ error_continue' = FALSE
  BY DEF Cycle, ReaderCycle
<1>2. /\ Quiet /\ fsm_error \in {"INVALID", "VALID"} /\ fsm_pattern # "WR_ERR"
      /\ data \in [PatternIndices -> Data] /\ errors \in ErrorLists
  BY DEF Between, ErrorTypes
<1>3. Quiet' /\ fsm_error' = "INVALID"
  BY <1>1, <1>2, QuietCycle
<1>4. ready /\ ~start => ready'
  BY <1>1 DEF PatternFsm, PatternReady, PatternCompute, PatternWait,
     PatternInvert, PatternCompare, PatternAwaitData, PatternError, TakeWord
<1>5. fsm_pattern' # "WR_ERR"
  <2>1. CASE skip_fifo
    BY <1>1, <1>2, <2>1 DEF PatternFsm, PatternReady, PatternCompute, PatternWait,
     PatternInvert, PatternCompare, PatternAwaitData, PatternError, TakeWord
  <2>2. CASE ~skip_fifo
    <3>1. ready /\ ~start
      BY <2>2 DEF Between, Testing, Sync, Started
    <3> QED
      BY <1>4, <3>1
  <2> QED
    BY <2>1, <2>2
<1>6. ErrorTypes'
  <2>1. <<>> \in ErrorLists /\ Len(<<>>) = 0
    BY CatFacts
  <2> QED
    BY <1>1, <1>2, <1>3, <1>5, <2>1 DEF ErrorTypes, Quiet, error_ready, csrs
<1>7. Between'
  BY <1>1, <1>3, <1>4, <1>5 DEF Between, Testing, Quiet, csrs
<1>8. Test'
  BY <1>1 DEF Test, Testing, Configured, csrs
<1> QED
  BY <1>6, <1>7, <1>8

LEMMA ExactCycle ==
  ASSUME IndInv, Sync, ErrorTypes, Between, Test, NEW cmd_ready \in BOOLEAN, Cycle(cmd_ready)
  PROVE  ErrorTypes' /\ Between' /\ Test'
<1> USE DEF ready
<1>1. /\ PatternFsm /\ ErrorFsm /\ ErrorFifo /\ UNCHANGED <<errors, script, pc, last, csrs>>
      /\ start' = FALSE /\ error_continue' = FALSE
  BY DEF Cycle, ReaderCycle
<1>2. CASE ~Testing
  BY <1>2, QuietPhase
<1>3. CASE Testing /\ start
  <2>1. pc = "poll" /\ ~last /\ Configured /\ pc' = "poll"
    BY <1>1, <1>3 DEF Test
  <2>2. ErrorTypes' /\ Found' /\ Quiet'
    BY <1>3, FoundStart
  <2>3. Between'
    BY <1>1, <2>1, <2>2 DEF Between, Testing, Quiet
  <2>4. Test'
    BY <1>1, <2>1, <2>2 DEF Test, Testing, Configured, csrs
  <2> QED
    BY <2>2, <2>3, <2>4
<1>4. CASE Testing /\ ~start
  <2>1. /\ ErrorTypes' /\ Found'
        /\ pc = "continue" => error_ready'
        /\ error_fifo = <<>> \/ error_out # <<>> => (~error_ready' => error_out' = <<>>)
        /\ error_fifo' # <<>> /\ error_out' = <<>> => fsm_pattern' = "COMPUTE_MEM_ADDR"
    BY <1>4, FoundCycle
  <2>2. ready => ready'
    BY <1>1, <1>4 DEF PatternFsm, PatternReady, PatternCompute, PatternWait,
       PatternInvert, PatternCompare, PatternAwaitData, PatternError, TakeWord
  <2>3. last => ready
    BY <1>4 DEF Test
  <2>4. pc \in {"asserts", "returned"} => Quiet'
    <3> SUFFICES ASSUME pc \in {"asserts", "returned"} PROVE Quiet'
      OBVIOUS
    <3>1. Quiet /\ fsm_error \in {"INVALID", "VALID"} /\ fsm_pattern # "WR_ERR"
      BY <1>4, <2>3 DEF Between, ErrorTypes, Test
    <3> QED
      BY <1>1, <3>1, QuietCycle
  <2>5. last => ready' /\ (~error_ready' => error_out' = <<>>)
    BY <2>1, <2>2, <2>3 DEF Between
  <2>6. Between'
    BY <1>1, <1>4, <2>1, <2>4 DEF Between, Testing
  <2>7. Test'
    BY <1>1, <1>4, <2>1, <2>5 DEF Test, Testing, Configured, csrs
  <2> QED
    BY <2>1, <2>6, <2>7
<1> QED
  BY <1>2, <1>3, <1>4

\* An access of a script moves no error in the hardware; in a test it changes no
\* word of DRAM.
LEMMA ExactHost ==
  ASSUME ErrorTypes, Between, UNCHANGED <<flipped, hardware>> \/ ~Testing', UNCHANGED hardware,
         errors' \in ErrorLists, data' \in [PatternIndices -> Data]
  PROVE  ErrorTypes' /\ (Reported' = Reported /\ Found => (Testing' => Found'))
<1> USE DEF hardware, addressVars, patternVars, inverterVars, fifoVars, errorVars, ready, error_ready
<1>1. ErrorTypes'
  BY DEF ErrorTypes
<1>2. ASSUME Reported' = Reported, Found, Testing' PROVE Found'
  <2>1. ErrorsBelow(counter_gen)' = ErrorsBelow(counter_gen)
    BY <1>2 DEF ErrorsBelow, ErrorAt, DramWord
  <2>2. Entries(Reported)' = Entries(Reported) /\ (Ascending(Reported)' <=> Ascending(Reported))
    BY <1>2 DEF Entries, Ascending
  <2> QED
    BY <1>2, <2>1, <2>2 DEF Found
<1> QED
  BY <1>1, <1>2

LEMMA ExactNext == IndInv /\ Sync /\ Exact /\ [Next]_vars => Exact'
<1> SUFFICES ASSUME IndInv, Sync, Exact, [Next]_vars PROVE Exact'
  OBVIOUS
<1>1. aborts \in Nat /\ MaxAborts \in Nat
  BY HostAssumption DEF Exact
<1>2. CASE Abort
  BY <1>1, <1>2 DEF Abort, Exact
<1>3. CASE ~Abort /\ aborts # 0
  <2>1. aborts' = aborts
    BY <1>3 DEF Next, Host, Start, EnableFifo, NotReady, ConfigureMemtest, ConfigureAttack,
       WriteStart, WriteStartZero, PollReady, ReadError, WriteContinue, NoMoreErrors, Return,
       AttackDone, ClearModulo, EndScript, Access, Cycle, DeliverData, vars, hostVars
  <2> QED
    BY <1>1, <1>3, <2>1 DEF Exact
<1>4. CASE ~Abort /\ aborts = 0
  <2>0. ErrorTypes /\ Between /\ Test
    BY <1>4 DEF Exact
  <2> SUFFICES (ErrorTypes /\ Between /\ Test)' /\ aborts' = aborts
    BY <1>1 DEF Exact
  <2>types. /\ errors \in ErrorLists /\ data \in [PatternIndices -> Data] /\ <<>> \in ErrorLists
        /\ {start, error_continue, skip_fifo, last} \subseteq BOOLEAN /\ gap \in Nat
        /\ HostGap \in Nat \ {0} /\ FillWord \in Data /\ 0 \in PatternIndices
        /\ addr \in [PatternIndices -> Nat]
    <3>1. errors \in ErrorLists /\ data \in [PatternIndices -> Data] /\ <<>> \in ErrorLists
      BY <2>0, CatFacts DEF ErrorTypes
    <3>2. {start, error_continue, skip_fifo, last} \subseteq BOOLEAN /\ gap \in Nat
      BY DEF Sync, CounterTypes
    <3>3. HostGap \in Nat \ {0} /\ FillWord \in Data /\ 0 \in PatternIndices
      BY HostAssumption, ReaderAssumption, PatternAssumption DEF PatternIndices
    <3>4. addr \in [PatternIndices -> Nat]
      BY DEF IndInv, AddressTypes
    <3> QED
      BY <3>1, <3>2, <3>3, <3>4
  <2>gap. gap >= HostGap => ~start /\ ~error_continue /\ gap # 0
    BY <2>0, <2>types DEF Sync, Started, Between
  <2> USE DEF csrs, pulses, Access, ready, error_ready
  <2>hw. UNCHANGED hardware => UNCHANGED <<fsm_pattern, fsm_error, error_reg, error_sink, error_out, error_fifo>>
    BY DEF hardware, patternVars, fifoVars, errorVars
  <2>1. ASSUME NEW s \in Scripts, Start(s) PROVE (ErrorTypes /\ Between /\ Test)' /\ aborts' = aborts
    <3>1. /\ UNCHANGED <<flipped, hardware, data, start, error_continue, modulo, aborts>>
          /\ pc = "idle" /\ pc' = "flush" /\ errors' = <<>> /\ last' = FALSE /\ gap >= HostGap
      BY <2>1 DEF Start
    <3>2. ErrorTypes'
      BY <2>0, <2>types, <3>1, ExactHost
    <3>3. Between' /\ Test'
      BY <2>0, <2>gap, <2>hw, <3>1 DEF Between, Test, Testing, Quiet
    <3> QED
      BY <3>1, <3>2, <3>3
  <2>2. CASE EnableFifo
    <3>1. /\ UNCHANGED <<flipped, hardware, data, start, error_continue, modulo, aborts, errors, last>>
          /\ pc = "flush" /\ pc' = "check" /\ ~skip_fifo' /\ gap >= HostGap
      BY <2>2 DEF EnableFifo
    <3>2. ErrorTypes'
      BY <2>0, <2>types, <3>1, ExactHost
    <3>3. Between' /\ Test'
      BY <2>0, <2>gap, <2>hw, <3>1 DEF Between, Test, Testing, Quiet
    <3> QED
      BY <3>1, <3>2, <3>3
  <2>3. CASE NotReady
    BY <2>0, <2>3 DEF NotReady, Between
  <2>4. CASE ConfigureMemtest
    <3>1. /\ UNCHANGED <<flipped, hardware, start, error_continue, modulo, aborts, errors, last,
                         script, skip_fifo>>
          /\ pc = "check" /\ pc' = "start" /\ gap >= HostGap /\ script = "memtest"
          /\ data' = [data EXCEPT ![0] = FillWord] /\ addr' = [addr EXCEPT ![0] = 0]
          /\ mem_mask' = AddressMax /\ count' = Size
      BY <2>4 DEF ConfigureMemtest
    <3>2. ErrorTypes'
      BY <2>0, <2>types, <3>1, ExactHost
    <3>3. Between' /\ Test'
      BY <2>0, <2>types, <2>gap, <2>hw, <3>1 DEF Between, Test, Testing, Quiet, Configured
    <3> QED
      BY <3>1, <3>2, <3>3
  <2>5. CASE ConfigureAttack
    <3>1. /\ UNCHANGED <<flipped, hardware, start, error_continue, aborts, errors, last, script>>
          /\ pc = "check" /\ pc' = "start" /\ gap >= HostGap /\ script = "attack"
          /\ data' = [i \in PatternIndices |-> Inverse(FillWord)] /\ skip_fifo'
      BY <2>5 DEF ConfigureAttack
    <3>2. data' \in [PatternIndices -> Data]
      BY <2>types, <3>1 DEF Data, Inverse
    <3>3. ErrorTypes'
      BY <2>0, <2>types, <3>1, <3>2, ExactHost
    <3>4. Between' /\ Test'
      BY <2>0, <2>gap, <2>hw, <3>1 DEF Between, Test, Testing, Quiet
    <3> QED
      BY <3>1, <3>3, <3>4
  <2>6. CASE WriteStart
    <3>1. /\ UNCHANGED <<flipped, hardware, csrs, error_continue, aborts, errors, last, script>>
          /\ pc = "start" /\ pc' = (IF script = "memtest" THEN "poll" ELSE "restart")
          /\ gap >= HostGap /\ start' = TRUE /\ gap' = 0
      BY <2>6 DEF WriteStart
    <3>2. ErrorTypes'
      BY <2>0, <2>types, <3>1, ExactHost
    <3>3. ready
      BY <3>1 DEF Sync, Started
    <3>4. Quiet /\ Quiet' /\ ready' /\ errors' = <<>> /\ ~last'
      BY <2>0, <2>hw, <3>1, <3>3 DEF Between, Testing, Quiet
    <3>5. Between' /\ Test'
      <4>1. CASE script = "memtest"
        BY <2>0, <2>gap, <2>hw, <3>1, <3>4, <4>1 DEF Between, Test, Testing, Configured
      <4>2. CASE script # "memtest"
        BY <2>0, <2>gap, <2>hw, <3>1, <3>4, <4>2 DEF Between, Test, Testing
      <4> QED
        BY <4>1, <4>2
    <3> QED
      BY <3>1, <3>2, <3>5
  <2>7. CASE WriteStartZero \/ AttackDone \/ ClearModulo
    <3>1. /\ UNCHANGED <<hardware, data, error_continue, aborts, errors, last, script, skip_fifo>>
          /\ \/ pc = "restart" /\ pc' = "attacking"
             \/ pc = "attacking" /\ pc' = "clear" /\ ready /\ start' = start
             \/ pc = "clear" /\ pc' = "attacked" /\ ~modulo' /\ start' = start
          /\ gap >= HostGap
      BY <2>7 DEF WriteStartZero, AttackDone, ClearModulo
    <3>2. ErrorTypes'
      BY <2>0, <2>types, <3>1, ExactHost DEF Testing
    <3>3. Between' /\ Test'
      BY <2>0, <2>gap, <2>hw, <3>1 DEF Between, Test, Testing, Quiet
    <3> QED
      BY <3>1, <3>2, <3>3
  <2>8. CASE PollReady \/ NoMoreErrors \/ Return \/ WriteContinue
    <3>1. /\ UNCHANGED <<flipped, hardware, csrs, start, aborts, errors, script>>
          /\ gap >= HostGap /\ gap' = 0
          /\ \/ PollReady /\ pc = "poll" /\ pc' = "drain" /\ last' = ready
                /\ error_continue' = error_continue
             \/ NoMoreErrors /\ pc = "drain" /\ pc' = (IF last THEN "asserts" ELSE "poll")
                /\ ~error_ready /\ UNCHANGED <<last, error_continue>>
             \/ Return /\ pc = "asserts" /\ UNCHANGED <<last, error_continue>>
                /\ pc' = (IF ready /\ ~error_ready THEN "returned" ELSE "failed")
             \/ WriteContinue /\ pc = "continue" /\ pc' = "drain" /\ error_continue' = TRUE
                /\ last' = last
      BY <2>8 DEF PollReady, NoMoreErrors, Return, WriteContinue
    <3>2. Testing /\ ~start /\ Found /\ Configured
      BY <2>0, <2>gap, <3>1 DEF Testing, Test
    <3>3. Reported' = Reported
      <4>1. Shown' = Shown /\ Sink' = Sink
        BY <2>0, <2>gap, <2>hw, <3>1, <3>2 DEF Shown, Sink, Between, Test
      <4> QED
        BY <2>hw, <3>1, <4>1 DEF Reported
    <3>4. ErrorTypes' /\ (Testing' => Found')
      BY <2>0, <2>types, <3>1, <3>2, <3>3, ExactHost
    <3>5. CASE PollReady
      <4>1. pc = "poll" /\ pc' = "drain" /\ (last' => ready) /\ error_continue' = error_continue
        BY <3>5 DEF PollReady
      <4>2. Between'
        BY <2>0, <2>gap, <2>hw, <3>1, <4>1 DEF Between, Testing, Quiet
      <4>3. Test'
        BY <2>0, <2>gap, <2>hw, <3>1, <3>2, <3>4, <4>1 DEF Test, Testing, Configured
      <4> QED
        BY <3>1, <3>4, <4>2, <4>3
    <3>6. CASE NoMoreErrors
      <4>1. pc = "drain" /\ pc' = (IF last THEN "asserts" ELSE "poll") /\ ~error_ready
            /\ UNCHANGED <<last, error_continue>>
        BY <3>6 DEF NoMoreErrors
      <4>2. last => ready /\ Quiet
        BY <2>0, <2>gap, <3>1, <3>2, <4>1 DEF Test, Between, Quiet
      <4> QED
        BY <2>0, <2>gap, <2>hw, <3>1, <3>2, <3>4, <4>1, <4>2 DEF Between, Test, Testing, Quiet, Configured
    <3>7. CASE Return
      <4>1. pc = "asserts" /\ pc' = "returned" /\ last /\ ready /\ Quiet
            /\ UNCHANGED <<last, error_continue>>
        BY <2>0, <3>2, <3>7 DEF Return, Between, Test, Quiet
      <4> QED
        BY <2>0, <2>gap, <2>hw, <3>1, <3>2, <3>4, <4>1 DEF Between, Test, Testing, Quiet, Configured
    <3>8. CASE WriteContinue
      <4>1. pc = "continue" /\ pc' = "drain" /\ error_continue' = TRUE /\ last' = last /\ error_ready
        BY <2>0, <3>2, <3>8 DEF WriteContinue, Test
      <4> QED
        BY <2>0, <2>gap, <2>hw, <3>1, <3>2, <3>4, <4>1 DEF Between, Test, Testing, Quiet, Configured
    <3> QED
      BY <2>8, <3>1, <3>5, <3>6, <3>7, <3>8
  <2>9. CASE ReadError
    <3>1. /\ UNCHANGED <<flipped, hardware, csrs, pulses, aborts, script, last>>
          /\ gap >= HostGap /\ gap' = 0 /\ pc = "drain" /\ pc' = "continue" /\ error_ready
          /\ errors' = Append(errors, error_reg)
      BY <2>9 DEF ReadError
    <3>2. Testing /\ ~start /\ Found /\ Configured /\ ~error_continue
      BY <2>0, <2>gap, <3>1 DEF Testing, Test
    <3>3. error_reg \in ErrorRecord /\ error_out \in ErrorLists /\ error_fifo \in ErrorLists
          /\ Sink \in ErrorLists
      BY <2>0, <2>types, <3>1, CatFacts DEF ErrorTypes, Sink
    <3>4. Reported' = Reported
      <4>1. Shown = <<error_reg>> /\ Shown' = <<>> /\ Sink' = Sink
        BY <2>hw, <3>1, <3>2 DEF Shown, Sink
      <4> DEFINE rest == Cat(error_out, Cat(error_fifo, Sink))
      <4>2. Cat(error_fifo, Sink) \in ErrorLists
        BY <3>3, CatFacts
      <4>3. rest \in ErrorLists
        BY <3>3, <4>2, CatFacts
      <4>4. Reported = Cat(errors, Cat(<<error_reg>>, rest))
            /\ Reported' = Cat(Append(errors, error_reg), Cat(<<>>, rest))
        BY <2>hw, <3>1, <4>1 DEF Reported
      <4> HIDE DEF rest
      <4>5. <<error_reg>> \in ErrorLists /\ Append(errors, error_reg) = Cat(errors, <<error_reg>>)
            /\ Cat(<<>>, rest) = rest
        BY <2>types, <3>3, <4>3, CatFacts
      <4> QED
        BY <2>types, <4>3, <4>4, <4>5, CatFacts
    <3>5. errors' \in ErrorLists
      BY <2>types, <3>1, <3>3 DEF ErrorLists
    <3>6. ErrorTypes' /\ (Testing' => Found')
      BY <2>0, <2>types, <3>1, <3>2, <3>4, <3>5, ExactHost
    <3>7. Between' /\ Test'
      BY <2>0, <2>gap, <2>hw, <3>1, <3>2, <3>6 DEF Between, Test, Testing, Quiet, Configured
    <3> QED
      BY <3>1, <3>6, <3>7
  <2>10. CASE EndScript
    <3>1. UNCHANGED <<readerVars, script, last, errors, aborts>> /\ pc' = "idle"
          /\ pc \in {"returned", "failed", "attacked"}
      BY <2>10 DEF EndScript
    <3>2. ready /\ ~start /\ ~modulo /\ Quiet
      BY <2>0, <3>1 DEF Between, Test, Testing, Configured
    <3>3. ErrorTypes'
      BY <2>0, <2>types, <3>1, ExactHost DEF readerVars
    <3>4. Between' /\ Test'
      BY <2>0, <2>hw, <3>1, <3>2 DEF Between, Test, Testing, Quiet, readerVars
    <3> QED
      BY <3>1, <3>3, <3>4
  <2>11. ASSUME NEW cmd_ready \in BOOLEAN, Cycle(cmd_ready)
         PROVE  (ErrorTypes /\ Between /\ Test)' /\ aborts' = aborts
    BY <2>0, <2>11, ExactCycle DEF Cycle
  <2>12. CASE DeliverData \/ UNCHANGED vars
    <3>1. UNCHANGED <<csrs, pulses, flipped, addressVars, patternVars, dma, error_fifo, error_out,
                      errorVars, hostVars>>
      BY <2>12 DEF DeliverData, Deliver, vars, readerVars, hardware, fifoVars
    <3> USE DEF addressVars, patternVars, errorVars, hostVars
    <3>2. ErrorTypes' /\ Between'
      BY <2>0, <3>1 DEF ErrorTypes, Between, Testing, Quiet
    <3>3. Reported' = Reported
      BY <3>1 DEF Reported, Shown, Sink
    <3>4. Found => Found'
      <4>1. ErrorsBelow(counter_gen)' = ErrorsBelow(counter_gen)
        BY <3>1 DEF ErrorsBelow, ErrorAt, DramWord
      <4>2. Entries(Reported)' = Entries(Reported) /\ (Ascending(Reported)' <=> Ascending(Reported))
        BY <3>3 DEF Entries, Ascending
      <4> QED
        BY <3>1, <3>3, <4>1, <4>2 DEF Found
    <3>5. Test'
      BY <2>0, <3>1, <3>4 DEF Test, Testing, Quiet, Configured
    <3> QED
      BY <3>1, <3>2, <3>5
  <2> QED
    BY <1>4, <2>1, <2>2, <2>3, <2>4, <2>5, <2>6, <2>7, <2>8, <2>9, <2>10, <2>11, <2>12
       DEF Next, Host
<1> QED
  BY <1>2, <1>3, <1>4

\* As long as no script is killed, hw_memtest returns exactly the erroneous words
\* of its range, in order, and its final assertions hold: for every range, pattern
\* and set of flipped words, every depth of the three FIFOs, and whatever the
\* host and LiteDRAM hold up.  (A killed test may leave an error in the error
\* register, which skip_fifo does not remove.)
THEOREM TestExact == Spec => [](aborts = 0 => MemtestExact)
<1>1. Init => Exact
  <2> SUFFICES ASSUME Init PROVE Exact
    OBVIOUS
  <2> USE DEF Init, ReaderInit, ready, error_ready
  <2>1. <<>> \in ErrorLists /\ Len(<<>>) = 0
    BY CatFacts
  <2>2. ErrorTypes
    BY <2>1 DEF ErrorTypes, Data
  <2>3. Between /\ Test
    BY DEF Between, Test, Testing, Quiet
  <2> QED
    BY <2>2, <2>3 DEF Exact
<1>2. IndInv /\ Sync /\ Exact => (aborts = 0 => MemtestExact)
  <2> SUFFICES ASSUME IndInv, Sync, ErrorTypes, Between, Test PROVE MemtestExact
    BY DEF Exact
  <2>1. pc # "failed"
    BY DEF Between, Testing
  <2>2. ASSUME pc = "returned"
        PROVE  /\ {errors[i] : i \in DOMAIN errors} = {ErrorAt(a) : a \in flipped \cap Range}
               /\ Ascending(errors)
               /\ error_count = Len(errors)
    <3>1. Found /\ Quiet /\ ready
      BY <2>2 DEF Test, Testing, Between
    <3>2. Shown = <<>> /\ Sink = <<>> /\ error_out = <<>> /\ error_fifo = <<>>
      BY <3>1 DEF Shown, Sink, Quiet, ready
    <3>3. Cat(<<>>, <<>>) = <<>> /\ Cat(errors, <<>>) = errors
      BY CatFacts DEF ErrorTypes
    <3>4. Reported = errors
      BY <3>2, <3>3 DEF Reported
    <3>5. counter_gen = Size
      BY <3>1 DEF Found
    <3>6. Entries(errors) = ErrorsBelow(Size)
      BY <3>1, <3>4, <3>5 DEF Found
    <3> QED
      BY <3>1, <3>4, <3>6 DEF Found, Entries, ErrorsBelow, Range
  <2> QED
    BY <2>1, <2>2 DEF MemtestExact
<1> QED
  BY <1>1, <1>2, InitInv, NextInv, SyncInit, SyncNext, ExactNext, PTL DEF Spec

=============================================================================
