----------------------------- MODULE BistReader -----------------------------
(***************************************************************************)
(* Reader of gateware/bist.py, cycle by cycle: the address FSM that asks   *)
(* the DMA for words, the pattern FSM that compares what the DMA returns   *)
(* with the pattern, the error FSM that shows one error at a time in CSRs, *)
(* and the FIFOs between them.                                             *)
(*                                                                         *)
(* LiteDRAM's DMA reader and the stream FIFOs of LiteX are external and    *)
(* modelled by what the Reader relies on: data come back in the order of   *)
(* the requests, at any time; at most fifo_depth requests are outstanding; *)
(* a request may be held up for any number of cycles.                      *)
(***************************************************************************)
EXTENDS BistPattern

CONSTANTS
  CountMax,       \* largest number of transfers of one operation
  AddressMax,     \* largest DMA address used
  FillWord,       \* pattern word the Writer filled DRAM with
  AddressFifoDepth, DmaFifoDepth,  \* 4 in the code
  ErrorFifoDepth                   \* 2 in the code

ASSUME ReaderAssumption ==
  /\ CountMax \in Nat /\ AddressMax \in Nat /\ FillWord \in Data
  /\ AddressFifoDepth \in Nat \ {0}
  /\ DmaFifoDepth \in Nat \ {0}
  /\ ErrorFifoDepth \in Nat \ {0}

Counts == 0 .. CountMax
Addresses == 0 .. AddressMax

VARIABLES
  modulo, count, mem_mask, data_mask, data_div, skip_fifo,  \* CSR storage
  start, error_continue,              \* CSR writes of this cycle
  addr, data,                         \* the pattern memory
  flipped,                            \* DRAM words that do not hold the pattern
  fsm_addr, counter_addr, mem_addr, dram_addr, addr_dat_r,
  fsm_pattern, counter_gen, data_mem_addr, data_dat_r, wait_counter,
  error_count, error_sink,
  decoder_i, selected, data_expected, \* pipeline of the RowDataInverter
  address_fifo,
  dma, arrived,                       \* requests, and how many have data
  error_fifo, error_out,              \* buffered FIFO: memory and output word
  fsm_error, error_reg

csrs == <<modulo, count, mem_mask, data_mask, data_div, skip_fifo, addr, data>>
pulses == <<start, error_continue>>
addressVars == <<fsm_addr, counter_addr, mem_addr, dram_addr, addr_dat_r>>
patternVars == <<fsm_pattern, counter_gen, data_mem_addr, data_dat_r,
                 wait_counter, error_count, error_sink>>
inverterVars == <<decoder_i, selected, data_expected>>
fifoVars == <<address_fifo, dma, arrived, error_fifo, error_out>>
errorVars == <<fsm_error, error_reg>>
hardware == <<addressVars, patternVars, inverterVars, fifoVars, errorVars>>
readerVars == <<csrs, pulses, flipped, hardware>>

Errors == [offset : Addresses, data : Data, expected : Data]
NoError == [offset |-> 0, data |-> 0, expected |-> 0]

\* The word DRAM holds: what the Writer wrote there, unless it has flipped since.
DramWord(a) ==
  LET word == Expected(a, FillWord)
  IN  IF a \in flipped THEN Inverse(word) ELSE word

ReaderInit ==
  /\ modulo = FALSE /\ count = 0 /\ mem_mask = 0 /\ data_mask = 0
  /\ data_div = 0 /\ skip_fifo = FALSE
  /\ start = FALSE /\ error_continue = FALSE
  /\ addr = [i \in PatternIndices |-> 0]
  /\ data = [i \in PatternIndices |-> 0]
  /\ fsm_addr = "READY" /\ counter_addr = 0 /\ mem_addr = 0
  /\ dram_addr = 0 /\ addr_dat_r = 0
  /\ fsm_pattern = "READY" /\ counter_gen = 0 /\ data_mem_addr = 0
  /\ data_dat_r = 0 /\ wait_counter = 0
  /\ error_count = 0 /\ error_sink = NoError
  /\ decoder_i = 0 /\ selected = FALSE /\ data_expected = 0
  /\ address_fifo = <<>> /\ dma = <<>> /\ arrived = 0
  /\ error_fifo = <<>> /\ error_out = <<>>
  /\ fsm_error = "INVALID" /\ error_reg = NoError

-----------------------------------------------------------------------------
\* CSRs the host reads.
ready == fsm_pattern = "READY"
error_ready == fsm_error = "VALID"

-----------------------------------------------------------------------------
\* The address FSM.

PushAddress ==
  fsm_addr = "PUSH_TO_FIFO" /\ Len(address_fifo) < AddressFifoDepth

PushDma(cmd_ready) ==
  fsm_addr = "PUSH_TO_DMA" /\ cmd_ready /\ Len(dma) < DmaFifoDepth

\* Index of the next pattern word when addresses are taken modulo data_div + 1.
NextModulo(index) == IF index = data_div THEN 0 ELSE index + 1

AddressReady ==
  /\ fsm_addr = "READY"
  /\ fsm_addr' = IF start THEN "COMPUTE_MEM_ADDR" ELSE "READY"
  /\ counter_addr' = IF start THEN 0 ELSE counter_addr
  /\ mem_addr' = IF start THEN 0 ELSE mem_addr
  /\ UNCHANGED dram_addr

AddressCompute ==
  /\ fsm_addr = "COMPUTE_MEM_ADDR"
  /\ mem_addr' = IF modulo THEN mem_addr ELSE Masked(counter_addr, data_mask)
  /\ fsm_addr' = IF counter_addr >= count THEN "READY" ELSE "WAIT_FOR_DRAM_ADDR"
  /\ UNCHANGED <<counter_addr, dram_addr>>

AddressWait ==
  /\ fsm_addr = "WAIT_FOR_DRAM_ADDR"
  /\ fsm_addr' = "COMPUTE_DRAM_ADDR"
  /\ UNCHANGED <<counter_addr, mem_addr, dram_addr>>

AddressDram ==
  /\ fsm_addr = "COMPUTE_DRAM_ADDR"
  /\ dram_addr' = addr_dat_r + Masked(counter_addr, mem_mask)
  /\ fsm_addr' = "PUSH_TO_FIFO"
  /\ UNCHANGED <<counter_addr, mem_addr>>

\* Mutant: the address FSM does not wait for address_fifo.
AddressPushFifo_Ignore ==
  /\ fsm_addr = "PUSH_TO_FIFO"
  /\ fsm_addr' = "PUSH_TO_DMA"
  /\ UNCHANGED <<counter_addr, mem_addr, dram_addr>>

AddressPushFifo ==
  /\ fsm_addr = "PUSH_TO_FIFO"
  /\ fsm_addr' = IF PushAddress THEN "PUSH_TO_DMA" ELSE "PUSH_TO_FIFO"
  /\ UNCHANGED <<counter_addr, mem_addr, dram_addr>>

AddressPushDma(cmd_ready) ==
  /\ fsm_addr = "PUSH_TO_DMA"
  /\ \/ /\ PushDma(cmd_ready)
        /\ counter_addr' = counter_addr + 1
        /\ mem_addr' = IF modulo THEN NextModulo(mem_addr) ELSE mem_addr
        /\ fsm_addr' = "COMPUTE_MEM_ADDR"
     \/ /\ ~PushDma(cmd_ready)
        /\ UNCHANGED <<fsm_addr, counter_addr, mem_addr>>
  /\ UNCHANGED dram_addr

\* One cycle of the address FSM; the pattern memory's read port has a register.
AddressFsm(cmd_ready) ==
  /\ \/ AddressReady \/ AddressCompute \/ AddressWait
     \/ AddressDram \/ AddressPushFifo \/ AddressPushDma(cmd_ready)
  /\ addr_dat_r' = addr[mem_addr]

-----------------------------------------------------------------------------
\* The pattern FSM.

\* A word of the DMA is consumed, together with the head of address_fifo.
TakeWord == fsm_pattern = "RD_DATA" /\ arrived > 0

PushError == fsm_pattern = "WR_ERR" /\ Len(error_fifo) < ErrorFifoDepth

PatternReady ==
  /\ fsm_pattern = "READY"
  /\ fsm_pattern' = IF start THEN "COMPUTE_MEM_ADDR" ELSE "READY"
  /\ counter_gen' = IF start THEN 0 ELSE counter_gen
  /\ data_mem_addr' = IF start THEN 0 ELSE data_mem_addr
  /\ error_count' = IF start THEN 0 ELSE error_count
  /\ UNCHANGED <<wait_counter, error_sink>>

\* Mutant: the last transfer is not waited for.
PatternCompute_Early ==
  /\ fsm_pattern = "COMPUTE_MEM_ADDR"
  /\ data_mem_addr' = IF modulo THEN data_mem_addr
                                ELSE Masked(counter_gen, data_mask)
  /\ fsm_pattern' = IF counter_gen + 1 >= count THEN "READY"
                                                ELSE "WAIT_FOR_DRAM_ADDR"
  /\ UNCHANGED <<counter_gen, wait_counter, error_count, error_sink>>

PatternCompute ==
  /\ fsm_pattern = "COMPUTE_MEM_ADDR"
  /\ data_mem_addr' = IF modulo THEN data_mem_addr
                                ELSE Masked(counter_gen, data_mask)
  /\ fsm_pattern' = IF counter_gen >= count THEN "READY"
                                            ELSE "WAIT_FOR_DRAM_ADDR"
  /\ UNCHANGED <<counter_gen, wait_counter, error_count, error_sink>>

PatternWait ==
  /\ fsm_pattern = "WAIT_FOR_DRAM_ADDR"
  /\ fsm_pattern' = IF address_fifo # <<>> THEN "INVERT_COMPUTE"
                                           ELSE "WAIT_FOR_DRAM_ADDR"
  /\ wait_counter' = IF address_fifo # <<>> THEN 0 ELSE wait_counter
  /\ UNCHANGED <<counter_gen, data_mem_addr, error_count, error_sink>>

\* Mutant: INVERT_COMPUTE takes one cycle.
LastWait_Short == 0

\* wait_counter at which the inverter's pipeline is taken to have settled
LastWait == 2

PatternInvert ==
  /\ fsm_pattern = "INVERT_COMPUTE"
  /\ fsm_pattern' = IF wait_counter = LastWait THEN "RD_DATA"
                                               ELSE "INVERT_COMPUTE"
  /\ wait_counter' = (wait_counter + 1) % 4
  /\ UNCHANGED <<counter_gen, data_mem_addr, error_count, error_sink>>

PatternCompare ==
  /\ TakeWord
  /\ counter_gen' = counter_gen + 1
  /\ LET word == DramWord(Head(dma))
     IN  \/ /\ word # data_expected
            /\ error_count' = error_count + 1
            /\ error_sink' = [offset |-> Head(address_fifo), data |-> word,
                              expected |-> data_expected]
            /\ fsm_pattern' = IF skip_fifo THEN "COMPUTE_MEM_ADDR" ELSE "WR_ERR"
         \/ /\ word = data_expected
            /\ fsm_pattern' = "COMPUTE_MEM_ADDR"
            /\ UNCHANGED <<error_count, error_sink>>
  /\ UNCHANGED <<data_mem_addr, wait_counter>>

PatternAwaitData ==
  /\ fsm_pattern = "RD_DATA" /\ ~TakeWord
  /\ UNCHANGED <<fsm_pattern, counter_gen, data_mem_addr, wait_counter,
                 error_count, error_sink>>

PatternError ==
  /\ fsm_pattern = "WR_ERR"
  /\ fsm_pattern' = IF PushError \/ skip_fifo THEN "COMPUTE_MEM_ADDR"
                                              ELSE "WR_ERR"
  /\ UNCHANGED <<counter_gen, data_mem_addr, wait_counter, error_count,
                 error_sink>>

PatternFsm ==
  /\ \/ PatternReady \/ PatternCompute \/ PatternWait \/ PatternInvert
     \/ PatternCompare \/ PatternAwaitData \/ PatternError
  /\ data_dat_r' = data[data_mem_addr]

\* AddressSelector and RowDataInverter: three registers between the address
\* at the head of address_fifo and the word the data are compared with.  The
\* output of an empty FIFO is whatever its memory holds.
Inverter ==
  /\ IF address_fifo # <<>>
       THEN decoder_i' = RowIndex(Head(address_fifo))
       ELSE decoder_i' \in RowIndices
  /\ selected' = (decoder_i \in Selection)
  /\ data_expected' = IF selected THEN Inverse(data_dat_r) ELSE data_dat_r

-----------------------------------------------------------------------------
\* The error FSM and the FIFOs.

PopError ==
  /\ error_out # <<>>
  /\ fsm_error = "INVALID" \/ error_continue

\* Mutant: the error that is popped while another is shown is lost.
ErrorFsm_Drop ==
  \/ /\ PopError
     /\ error_reg' = IF skip_fifo \/ fsm_error = "VALID" THEN error_reg
                                                       ELSE error_out[1]
     /\ fsm_error' = IF skip_fifo \/ fsm_error = "VALID" THEN "INVALID" ELSE "VALID"
  \/ /\ ~PopError
     /\ fsm_error' = IF error_continue THEN "INVALID" ELSE fsm_error
     /\ UNCHANGED error_reg

\* The error FSM: an error that is popped is shown unless errors are skipped;
\* without one, error_continue ends the display of the current error.
ErrorFsm ==
  \/ /\ PopError
     /\ error_reg' = IF skip_fifo THEN error_reg ELSE error_out[1]
     /\ fsm_error' = IF skip_fifo THEN "INVALID" ELSE "VALID"
  \/ /\ ~PopError
     /\ fsm_error' = IF error_continue THEN "INVALID" ELSE fsm_error
     /\ UNCHANGED error_reg

\* The buffered FIFO moves a word from its memory to its output when that is
\* empty or taken.
ErrorFifo ==
  LET moves == error_fifo # <<>> /\ (error_out = <<>> \/ PopError)
      rest == IF moves THEN Tail(error_fifo) ELSE error_fifo
  IN  /\ error_fifo' = IF PushError THEN Append(rest, error_sink) ELSE rest
      /\ error_out' = IF moves THEN <<Head(error_fifo)>>
                      ELSE IF PopError THEN <<>> ELSE error_out

\* address_fifo and the DMA: what is pushed and popped in this cycle.
Queues(cmd_ready) ==
  LET addressRest == IF TakeWord THEN Tail(address_fifo) ELSE address_fifo
      dmaRest == IF TakeWord THEN Tail(dma) ELSE dma
  IN  /\ address_fifo' = IF PushAddress THEN Append(addressRest, dram_addr)
                                        ELSE addressRest
      /\ dma' = IF PushDma(cmd_ready) THEN Append(dmaRest, dram_addr)
                                      ELSE dmaRest
      /\ arrived' = IF TakeWord THEN arrived - 1 ELSE arrived

-----------------------------------------------------------------------------
\* One clock cycle of the Reader.
ReaderCycle(cmd_ready) ==
  /\ AddressFsm(cmd_ready)
  /\ PatternFsm
  /\ Inverter
  /\ ErrorFsm
  /\ ErrorFifo
  /\ Queues(cmd_ready)
  /\ start' = FALSE /\ error_continue' = FALSE
  /\ UNCHANGED <<csrs, flipped>>

\* LiteDRAM returns the data of the oldest request that has none.
Deliver ==
  /\ arrived < Len(dma)
  /\ arrived' = arrived + 1
  /\ UNCHANGED <<csrs, pulses, flipped, addressVars, patternVars, inverterVars,
                 address_fifo, dma, error_fifo, error_out, errorVars>>

=============================================================================
