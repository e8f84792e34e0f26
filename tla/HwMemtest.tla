----------------------------- MODULE HwMemtest -----------------------------
(***************************************************************************)
(* The Reader under the scripts that use it: hw_memtest of                 *)
(* scripts/utils.py, which collects the addresses whose content has        *)
(* changed, and HwRowHammer.attack, which uses the Reader to hammer rows.  *)
(*                                                                         *)
(* The scripts reach the CSRs over Ethernet: between two accesses at least *)
(* HostGap clock cycles go by, and any number may.  A script may be killed *)
(* at any point, up to MaxAborts times, and another one started.           *)
(***************************************************************************)
EXTENDS BistReader

CONSTANTS
  Size,           \* DMA words that hw_memtest checks, from address 0
  RowTuple,       \* DMA addresses that attack hammers
  ReadCount,      \* reads of one attack
  HostGap,        \* clock cycles between two accesses of a script, at least
  RestartGap,     \* cycles between attack's two writes to start, at most
  SleepCycles,    \* clock cycles of time.sleep(0.1), at least
  Scripts,        \* the scripts that are started
  MaxAborts       \* how often a script is killed

\* The attack outlasts its second write to start: the address FSM takes at
\* least five cycles for a read.
ASSUME HostAssumption ==
  /\ Size \in Counts /\ Size <= AddressMax + 1
  /\ RowTuple \in Seq(Addresses) /\ Len(RowTuple) \in 1 .. PatternDepth
  /\ ReadCount \in Counts
  /\ HostGap \in Nat \ {0} /\ SleepCycles \in Nat
  /\ RestartGap \in 0 .. SleepCycles /\ RestartGap <= 5 * ReadCount
  /\ Scripts \subseteq {"memtest", "attack"}
  /\ MaxAborts \in Nat

VARIABLES
  script, pc,     \* the running script and where it is
  gap,            \* clock cycles since the script's last access
  last,           \* hw_memtest's loop has seen ready
  errors,         \* hw_memtest's list
  reads,          \* accepted DMA reads of every address in this attack
  aborts

hostVars == <<script, pc, gap, last, errors, reads, aborts>>
vars == <<readerVars, hostVars>>

Range == 0 .. Size - 1

Init ==
  /\ ReaderInit
  /\ flipped \in SUBSET Range
  /\ script = "none" /\ pc = "idle" /\ gap = 0 /\ last = FALSE
  /\ errors = <<>> /\ reads = [a \in Addresses |-> 0] /\ aborts = 0

-----------------------------------------------------------------------------
\* An access of the running script at pc = from, which continues at pc = to.
Access(from, to) ==
  /\ pc = from /\ gap >= HostGap
  /\ pc' = to /\ gap' = 0
  /\ UNCHANGED <<flipped, hardware, aborts>>

\* Both scripts begin by letting the Reader drop the errors nobody has read.
Start(s) ==
  /\ Access("idle", "flush")
  /\ script' = s
  /\ skip_fifo' = TRUE
  /\ last' = FALSE /\ errors' = <<>> /\ reads' = [a \in Addresses |-> 0]
  /\ UNCHANGED <<modulo, count, mem_mask, data_mask, data_div, addr, data, pulses>>

EnableFifo ==
  /\ gap >= SleepCycles
  /\ Access("flush", "check")
  /\ skip_fifo' = FALSE
  /\ UNCHANGED <<modulo, count, mem_mask, data_mask, data_div, addr, data, pulses,
                 script, last, errors, reads>>

\* assert reader_ready == 1 fails: the script ends with an exception.
NotReady ==
  /\ ~ready
  /\ Access("check", "idle")
  /\ UNCHANGED <<csrs, pulses, script, last, errors, reads>>

\* CSRs and pattern of hw_memtest.  They are separate accesses; the Reader is
\* idle meanwhile and uses none of them.
ConfigureMemtest ==
  /\ ready /\ script = "memtest"
  /\ Access("check", "start")
  /\ mem_mask' = AddressMax
  /\ data' = [data EXCEPT ![0] = FillWord]
  /\ addr' = [addr EXCEPT ![0] = 0]
  /\ data_mask' = 0
  /\ count' = Size
  /\ UNCHANGED <<modulo, data_div, skip_fifo, pulses, script, last, errors, reads>>

\* CSRs and pattern of attack: read the rows in turn and ignore the data.
ConfigureAttack ==
  /\ ready /\ script = "attack"
  /\ Access("check", "start")
  /\ skip_fifo' = TRUE
  /\ mem_mask' = 0
  /\ modulo' = TRUE
  /\ data_div' = Len(RowTuple) - 1
  /\ addr' = [i \in PatternIndices |->
                IF i < Len(RowTuple) THEN RowTuple[i + 1] ELSE addr[i]]
  /\ data' = [i \in PatternIndices |-> Inverse(FillWord)]
  /\ count' = ReadCount
  /\ reads' = [a \in Addresses |-> 0]
  /\ UNCHANGED <<data_mask, pulses, script, last, errors>>

\* A write to reader_start, of any value, raises start for a cycle.
WriteStart ==
  /\ Access("start", IF script = "memtest" THEN "poll" ELSE "restart")
  /\ start' = TRUE
  /\ UNCHANGED <<csrs, error_continue, script, last, errors, reads>>

\* attack goes on to write 0 to reader_start.
WriteStartZero ==
  /\ Access("restart", "attacking")
  /\ start' = TRUE
  /\ UNCHANGED <<csrs, error_continue, script, last, errors, reads>>

-----------------------------------------------------------------------------
\* Mutant: errors are only read after ready is seen.
PollReady_NoDrain ==
  /\ Access("poll", IF ready THEN "drain" ELSE "poll")
  /\ last' = ready
  /\ UNCHANGED <<csrs, pulses, script, errors, reads>>

\* hw_memtest, while the Reader runs.
PollReady ==
  /\ Access("poll", "drain")
  /\ last' = ready
  /\ UNCHANGED <<csrs, pulses, script, errors, reads>>

\* append_errors: error_ready is 1, the error is read ...
ReadError ==
  /\ error_ready
  /\ Access("drain", "continue")
  /\ errors' = Append(errors, error_reg)
  /\ UNCHANGED <<csrs, pulses, script, last, reads>>

\* ... and error_continue is written.
WriteContinue ==
  /\ Access("continue", "drain")
  /\ error_continue' = TRUE
  /\ UNCHANGED <<csrs, start, script, last, errors, reads>>

\* append_errors: error_ready is 0.
NoMoreErrors ==
  /\ ~error_ready
  /\ Access("drain", IF last THEN "asserts" ELSE "poll")
  /\ UNCHANGED <<csrs, pulses, script, last, errors, reads>>

\* The assertions at the end of hw_memtest; it returns errors if they hold.
Return ==
  /\ Access("asserts", IF ready /\ ~error_ready THEN "returned" ELSE "failed")
  /\ UNCHANGED <<csrs, pulses, script, last, errors, reads>>

-----------------------------------------------------------------------------
\* Mutant: attack does not wait for ready.
AttackDone_Early ==
  /\ Access("attacking", "clear")
  /\ UNCHANGED <<csrs, pulses, script, last, errors, reads>>

\* attack waits for ready, then clears modulo.  Hammering may flip any words.
AttackDone ==
  /\ ready
  /\ Access("attacking", "clear")
  /\ UNCHANGED <<csrs, pulses, script, last, errors, reads>>

ClearModulo ==
  /\ pc = "clear" /\ gap >= HostGap
  /\ pc' = "attacked" /\ gap' = 0
  /\ modulo' = FALSE
  /\ \E flips \in SUBSET Range : flipped' = flipped \cup flips
  /\ UNCHANGED <<count, mem_mask, data_mask, data_div, skip_fifo, addr, data,
                 pulses, hardware, script, last, errors, reads, aborts>>

EndScript ==
  /\ pc \in {"returned", "failed", "attacked"}
  /\ pc' = "idle" /\ gap' = 0
  /\ UNCHANGED <<readerVars, script, last, errors, reads, aborts>>

\* The script is killed.
Abort ==
  /\ aborts < MaxAborts
  /\ pc \notin {"idle", "returned", "failed", "attacked"}
  /\ aborts' = aborts + 1
  /\ pc' = "idle" /\ gap' = 0
  /\ UNCHANGED <<readerVars, script, last, errors, reads>>

Host ==
  \/ EnableFifo \/ NotReady \/ ConfigureMemtest \/ ConfigureAttack
  \/ WriteStart \/ WriteStartZero
  \/ PollReady \/ ReadError \/ WriteContinue \/ NoMoreErrors \/ Return
  \/ AttackDone \/ ClearModulo \/ EndScript

\* A clock cycle.  The second write to start comes at most RestartGap after
\* the first.
Cycle(cmd_ready) ==
  /\ pc = "restart" => gap < RestartGap
  /\ ReaderCycle(cmd_ready)
  /\ gap' = IF gap < SleepCycles THEN gap + 1 ELSE gap
  /\ reads' = IF PushDma(cmd_ready) /\ script = "attack"
                THEN [reads EXCEPT ![dram_addr] = @ + 1]
                ELSE reads
  /\ UNCHANGED <<script, pc, last, errors, aborts>>

DeliverData == Deliver /\ UNCHANGED hostVars

Next ==
  \/ \E s \in Scripts : Start(s)
  \/ Host
  \/ Abort
  \/ \E cmd_ready \in BOOLEAN : Cycle(cmd_ready)
  \/ DeliverData

Spec == Init /\ [][Next]_vars

\* The clock runs, LiteDRAM accepts and answers requests, and a script that
\* has been started goes on.
FairSpec ==
  /\ Spec
  /\ WF_vars(Cycle(TRUE))
  /\ WF_vars(DeliverData)
  /\ WF_vars(Host)

-----------------------------------------------------------------------------
\* Properties

\* The word that RD_DATA takes from the DMA is the one that was requested at
\* the address it takes from address_fifo, however the DMA is held up: the
\* two queues never slip against each other (address_fifo, "pass addresses
\* from address FSM to pattern FSM").
InStep ==
  address_fifo = IF fsm_addr = "PUSH_TO_DMA" THEN Append(dma, dram_addr) ELSE dma

\* The inverter's pipeline has settled when a word is compared: it is
\* compared with the pattern word of the pattern index in use, inverted if
\* the row of its own address is selected (INVERT_COMPUTE waits for it).
ComparedWithPattern ==
  TakeWord => data_expected = Expected(Head(dma), data[data_mem_addr])

-----------------------------------------------------------------------------
\* An inductive invariant that implies InStep and ComparedWithPattern.

\* Types, as far as the addresses need them: the index into the pattern
\* memory stays among the entries the scripts use.
AddressTypes ==
  /\ data_mask = 0 /\ mem_mask \in Nat
  /\ modulo \in BOOLEAN /\ data_div \in {0, Len(RowTuple) - 1}
  /\ modulo => data_div = Len(RowTuple) - 1
  /\ addr \in [PatternIndices -> Nat]
  /\ counter_addr \in Nat /\ mem_addr \in 0 .. Len(RowTuple) - 1
  /\ dram_addr \in Nat /\ addr_dat_r \in Nat

QueueTypes ==
  address_fifo \in Seq(Nat) /\ dma \in Seq(Nat) /\ arrived \in 0 .. Len(dma)

\* How far the word that is about to be compared has come in the inverter.
Settled ==
  /\ fsm_pattern = "INVERT_COMPUTE" => wait_counter \in 0 .. 2
  /\ fsm_pattern \in {"INVERT_COMPUTE", "RD_DATA"} =>
       /\ address_fifo # <<>>
       /\ decoder_i = RowIndex(Head(address_fifo))
       /\ data_dat_r = data[data_mem_addr]
  /\ \/ fsm_pattern = "INVERT_COMPUTE" /\ wait_counter \in 1 .. 2
     \/ fsm_pattern = "RD_DATA"
     => selected = (RowIndex(Head(address_fifo)) \in Selection)
  /\ \/ fsm_pattern = "INVERT_COMPUTE" /\ wait_counter = 2
     \/ fsm_pattern = "RD_DATA"
     => data_expected = Expected(Head(address_fifo), data[data_mem_addr])

IndInv == AddressTypes /\ QueueTypes /\ InStep /\ Settled

-----------------------------------------------------------------------------
\* ready tells the host that no part of the Reader is still at work: nothing
\* is requested that would be taken for an answer of the next operation, and
\* start is taken by both FSMs or by none.
ReadyMeansIdle ==
  ready => fsm_addr = "READY" /\ address_fifo = <<>> /\ dma = <<>>

\* What hw_memtest is to report of a word.
ErrorAt(a) == [offset |-> a, data |-> DramWord(a), expected |-> Expected(a, FillWord)]

Ascending(list) ==
  \A i, j \in DOMAIN list : i < j => list[i].offset < list[j].offset

\* hw_memtest returns every erroneous word of its range, with the data found
\* and expected there, once and in ascending order, and nothing else; the
\* Reader's error_count agrees (mem_bist.py relies on the order and number).
\* The assertions at its end never fail: when the loop has seen ready and
\* append_errors has found error_ready at 0, no further error is on its way
\* through error_fifo.
MemtestExact ==
  /\ pc # "failed"
  /\ pc = "returned" =>
       /\ {errors[i] : i \in DOMAIN errors} = {ErrorAt(a) : a \in flipped \cap Range}
       /\ Ascending(errors)
       /\ error_count = Len(errors)

\* attack reads the rows in turn, read_count times in all.
HammeredEvenly ==
  pc = "attacked" =>
    \A i \in 1 .. Len(RowTuple) :
      LET n == Len(RowTuple)
      IN  reads[RowTuple[i]] = (ReadCount + n - i) \div n

\* A script that was started ends.
ScriptEnds == pc # "idle" ~> pc = "idle"

=============================================================================
