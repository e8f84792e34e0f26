----------------------------- MODULE BistWriter -----------------------------
(***************************************************************************)
(* Writer of gateware/bist.py, cycle by cycle, as hw_memset of             *)
(* scripts/utils.py and the other users of BISTModule configure it.        *)
(*                                                                         *)
(* LiteDRAM's DMA writer is external: it accepts a word in any cycle in    *)
(* which it has room and writes the words to DRAM in order, at any time.   *)
(***************************************************************************)
EXTENDS BistPattern

CONSTANTS
  Configs,        \* what the host may write to the CSRs and the pattern memory
  Addresses,      \* DMA addresses of DRAM
  DmaFifoDepth    \* 4 in the code

ASSUME WriterAssumption ==
  /\ DmaFifoDepth \in Nat \ {0} /\ Addresses \subseteq Nat
  /\ \A c \in Configs :
       /\ c.modulo \in BOOLEAN /\ c.count \in Nat
       /\ c.mem_mask \in Nat /\ c.data_mask \in PatternIndices
       /\ c.data_div \in PatternIndices
       /\ c.addr \in [PatternIndices -> Addresses]
       /\ c.data \in [PatternIndices -> Data]

VARIABLES
  csr,            \* the configuration, a member of Configs
  start,          \* start is written in this cycle
  fsm, cmd_counter, mem_addr, dram_addr, wait_counter,
  addr_dat_r, data_dat_r,           \* read ports of the pattern memory
  decoder_i, selected, sink_data,   \* pipeline of the RowDataInverter
  dma,            \* words accepted and not yet written
  dram,           \* content of DRAM
  host, initial,  \* where hw_memset is, and what DRAM would hold without it
  sent            \* words accepted since start

registers == <<fsm, cmd_counter, mem_addr, dram_addr, wait_counter>>
pipeline == <<addr_dat_r, data_dat_r, decoder_i, selected, sink_data>>
vars == <<csr, start, registers, pipeline, dma, dram, host, initial, sent>>

Init ==
  /\ csr \in Configs
  /\ start = FALSE
  /\ fsm = "READY" /\ cmd_counter = 0 /\ mem_addr = 0 /\ dram_addr = 0
  /\ wait_counter = 0
  /\ addr_dat_r = 0 /\ data_dat_r = 0
  /\ decoder_i = 0 /\ selected = FALSE /\ sink_data = 0
  /\ dma = <<>> /\ sent = <<>>
  /\ dram = [a \in Addresses |-> 0] /\ initial = dram
  /\ host = "idle"

ready == fsm = "READY"

-----------------------------------------------------------------------------
Accept(dma_ready) == fsm = "SEND" /\ dma_ready /\ Len(dma) < DmaFifoDepth

NextModulo(index) == IF index = csr.data_div THEN 0 ELSE index + 1

Ready ==
  /\ fsm = "READY"
  /\ fsm' = IF start THEN "COMPUTE_MEM_ADDR" ELSE "READY"
  /\ cmd_counter' = IF start THEN 0 ELSE cmd_counter
  /\ mem_addr' = IF start THEN 0 ELSE mem_addr
  /\ UNCHANGED <<dram_addr, wait_counter>>

ComputeMemAddr ==
  /\ fsm = "COMPUTE_MEM_ADDR"
  /\ mem_addr' = IF csr.modulo THEN mem_addr ELSE Masked(cmd_counter, csr.data_mask)
  /\ fsm' = IF cmd_counter >= csr.count THEN "READY" ELSE "WAIT_FOR_DRAM_ADDR"
  /\ UNCHANGED <<cmd_counter, dram_addr, wait_counter>>

WaitForDramAddr ==
  /\ fsm = "WAIT_FOR_DRAM_ADDR"
  /\ fsm' = "COMPUTE_DRAM_ADDR"
  /\ UNCHANGED <<cmd_counter, mem_addr, dram_addr, wait_counter>>

ComputeDramAddr ==
  /\ fsm = "COMPUTE_DRAM_ADDR"
  /\ wait_counter' = 0
  /\ dram_addr' = addr_dat_r + Masked(cmd_counter, csr.mem_mask)
  /\ fsm' = "INVERT_COMPUTE"
  /\ UNCHANGED <<cmd_counter, mem_addr>>

\* Mutants: INVERT_COMPUTE is one cycle shorter; it waits for a value that the
\* two bits of wait_counter do not have.
LastWait_Short == 1
LastWait_Unreachable == 4

\* wait_counter at which the inverter's pipeline is taken to have settled
LastWait == 2

InvertCompute ==
  /\ fsm = "INVERT_COMPUTE"
  /\ fsm' = IF wait_counter = LastWait THEN "SEND" ELSE "INVERT_COMPUTE"
  /\ wait_counter' = (wait_counter + 1) % 4
  /\ UNCHANGED <<cmd_counter, mem_addr, dram_addr>>

Send(dma_ready) ==
  /\ fsm = "SEND"
  /\ \/ /\ Accept(dma_ready)
        /\ cmd_counter' = cmd_counter + 1
        /\ mem_addr' = IF csr.modulo THEN NextModulo(mem_addr) ELSE mem_addr
        /\ fsm' = "COMPUTE_MEM_ADDR"
     \/ /\ ~Accept(dma_ready)
        /\ UNCHANGED <<fsm, cmd_counter, mem_addr>>
  /\ UNCHANGED <<dram_addr, wait_counter>>

\* Registers between dram_addr and the word at the DMA.
Pipeline ==
  /\ addr_dat_r' = csr.addr[mem_addr]
  /\ data_dat_r' = csr.data[mem_addr]
  /\ decoder_i' = RowIndex(dram_addr)
  /\ selected' = (decoder_i \in Selection)
  /\ sink_data' = IF selected THEN Inverse(data_dat_r) ELSE data_dat_r

\* One clock cycle of the Writer.
Cycle(dma_ready) ==
  /\ \/ Ready \/ ComputeMemAddr \/ WaitForDramAddr \/ ComputeDramAddr
     \/ InvertCompute \/ Send(dma_ready)
  /\ Pipeline
  /\ LET word == [address |-> dram_addr, data |-> sink_data]
     IN  IF Accept(dma_ready)
           THEN dma' = Append(dma, word) /\ sent' = Append(sent, word)
           ELSE UNCHANGED <<dma, sent>>
  /\ start' = FALSE
  /\ UNCHANGED <<csr, dram, host, initial>>

\* The DMA writes its oldest word to DRAM.
WriteBack ==
  /\ dma # <<>>
  /\ dram' = [dram EXCEPT ![Head(dma).address] = Head(dma).data]
  /\ dma' = Tail(dma)
  /\ UNCHANGED <<csr, start, registers, pipeline, host, initial, sent>>

-----------------------------------------------------------------------------
\* DRAM as it will be when the DMA has written what it has accepted.
Settled ==
  [a \in Addresses |->
     LET later == {k \in 1 .. Len(dma) : dma[k].address = a}
     IN  IF later = {} THEN dram[a]
         ELSE dma[CHOOSE k \in later : \A j \in later : j <= k].data]

\* hw_memset: assert ready, write the CSRs and the pattern, write start.
Configure(c) ==
  /\ host = "idle" /\ ready
  /\ host' = "start" /\ csr' = c /\ sent' = <<>> /\ initial' = Settled
  /\ UNCHANGED <<start, registers, pipeline, dma, dram>>

WriteStart ==
  /\ host = "start"
  /\ host' = "poll" /\ start' = TRUE
  /\ UNCHANGED <<csr, registers, pipeline, dma, dram, initial, sent>>

\* The script sees ready; the write to start has been a cycle or more ago.
PollReady ==
  /\ host = "poll" /\ ready /\ ~start
  /\ host' = "idle"
  /\ UNCHANGED <<csr, start, registers, pipeline, dma, dram, initial, sent>>

Next ==
  \/ \E dma_ready \in BOOLEAN : Cycle(dma_ready)
  \/ WriteBack
  \/ \E c \in Configs : Configure(c)
  \/ WriteStart
  \/ PollReady

Spec == Init /\ [][Next]_vars

\* The clock runs, LiteDRAM makes progress, and hw_memset goes on polling.
FairSpec ==
  /\ Spec
  /\ WF_vars(Cycle(TRUE))
  /\ WF_vars(WriteBack)
  /\ WF_vars(WriteStart \/ PollReady)

-----------------------------------------------------------------------------
\* Properties

\* Word k of the transfer, by the documentation of BISTModule and the CSRs:
\* the pattern is repeated with the mask, or modulo data_div + 1, and the
\* address advances within mem_mask.
PatternWord(k) ==
  LET i == IF csr.modulo THEN k % (csr.data_div + 1) ELSE Masked(k, csr.data_mask)
      a == csr.addr[i] + Masked(k, csr.mem_mask)
  IN  [address |-> a, data |-> Expected(a, csr.data[i])]

\* The words handed to the DMA are those of the pattern, in order, each
\* inverted by the row of its own address: INVERT_COMPUTE is exactly long
\* enough, and the indices of data and address never part.
PatternSent == \A k \in 1 .. Len(sent) : sent[k] = PatternWord(k - 1)

\* The Writer sends the pattern, and when hw_memset has seen ready, every
\* address of the transfer holds or will hold the last word the pattern has for
\* it, and no other address changed.
Filled ==
  /\ PatternSent
  /\ host = "idle" /\ sent # <<>> =>
       /\ Len(sent) = csr.count
       /\ \A a \in Addresses :
            LET ks == {k \in 0 .. csr.count - 1 : PatternWord(k).address = a}
            IN  IF ks = {} THEN Settled[a] = initial[a]
                ELSE Settled[a] = PatternWord(CHOOSE k \in ks : \A j \in ks : j <= k).data

\* A transfer that was started ends: neither the FSM nor a full DMA stays
\* behind, and hw_memset's loop sees ready.
FillEnds == host = "start" ~> host = "idle"

=============================================================================
