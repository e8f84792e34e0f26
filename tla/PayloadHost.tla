----------------------------- MODULE PayloadHost -----------------------------
(***************************************************************************)
(* execute_payload on the host and what it meets on the board: the SRAM    *)
(* through which it writes the payload memory over Wishbone, the start and *)
(* status registers, the wait for the refresh the switch is set to, the    *)
(* execution (as PayloadISA has it) and the Scratchpad that collects the   *)
(* data of READ commands.  A script may be killed at any time and another  *)
(* one started; the board does not notice.                                 *)
(* Executor and Scratchpad share a clock and step together; the bus and    *)
(* the host are slower and take their steps in between.                    *)
(***************************************************************************)
EXTENDS PayloadISA, FiniteSets

CONSTANTS
  ScratchDepth,   \* words of scratchpad memory
  ReadLatency,    \* cycles from READ to its data (external)
  AtRefreshes,    \* values of the at_refresh register, set before
  MaxRefresh,     \* bound: refreshes are counted up to here
  MaxScripts      \* bound: scripts that are started

\* Payloads end, and data do not arrive in two cycles in a row: the Scratchpad
\* would lose the first of them.
ASSUME HostAssumption ==
  /\ ScratchDepth \in Nat /\ ScratchDepth > 2
  /\ ReadLatency \in Nat \ {0} /\ AtRefreshes \subseteq 0 .. MaxRefresh
  /\ \A p \in Programs : Len(p) = Depth \/ IsStop(p[Len(p)])
  /\ \A p \in Programs \cup Resident : \A k \in DOMAIN p :
       p[k].op = "READ" => p[k].timeslice >= 2

VARIABLES
  pc, payload,     \* the script
  written,         \* words that memwrite has transferred
  scripts,         \* scripts so far
  bus,             \* the Wishbone access in progress
  sram,            \* state and port registers of the SRAM
  waiting,         \* the executor is in WAIT-DFI
  owned,           \* the switch is at the executor
  owner,           \* script whose start the executor has taken last
  completed,       \* executions that have ended, by owner
  at_refresh, refresh_count,
  reads,           \* data on their way, one place for each cycle
  sent,            \* READ commands of this execution
  stored,          \* data that have reached the scratchpad
  scratchpad,      \* its registers
  scratch_mem

hostVars == <<pc, payload, written, scripts>>
busVars == <<bus, sram>>
grantVars == <<waiting, owned, owner, completed, at_refresh, refresh_count>>
scratchVars == <<reads, sent, stored, scratchpad, scratch_mem>>
allVars == <<vars, hostVars, busVars, grantVars, scratchVars>>

NoAccess == [stb |-> FALSE, by |-> 0, adr |-> 0, dat_w |-> I("NOOP", 0)]
CleanScratchpad == [counter |-> 0, overflow |-> FALSE, adr |-> 0, dat_w |-> 0, we |-> FALSE]

HostInit ==
  /\ Init
  /\ pc = "off" /\ payload = << >> /\ written = 0 /\ scripts = 0
  /\ bus = NoAccess
  /\ sram = [fsm |-> "ADDR", adr |-> 0, dat_w |-> I("NOOP", 0), we |-> FALSE]
  /\ waiting = FALSE /\ owned = FALSE /\ owner = 0 /\ completed = {}
  /\ at_refresh \in AtRefreshes /\ refresh_count = 0
  /\ reads = [i \in 1 .. ReadLatency |-> 0]
  /\ sent = 0 /\ stored = 0
  /\ scratchpad = CleanScratchpad
  /\ scratch_mem = [a \in 0 .. ScratchDepth - 1 |-> 0]

ready == ~on /\ ~waiting

-----------------------------------------------------------------------------
\* Host

Start ==
  /\ pc \in {"off", "end"} /\ scripts < MaxScripts
  /\ pc' = "transfer" /\ written' = 0 /\ scripts' = scripts + 1
  /\ payload' \in Programs
  /\ UNCHANGED <<vars, busVars, grantVars, scratchVars>>

\* The next word of memwrite
WriteWord ==
  /\ pc = "transfer" /\ ~bus.stb /\ written < Len(payload)
  /\ bus' = [stb |-> TRUE, by |-> scripts, adr |-> written, dat_w |-> payload[written + 1]]
  /\ UNCHANGED <<vars, hostVars, sram, grantVars, scratchVars>>

\* mutant: the script goes on whether or not the executor is ready
AssertReady_Skipped ==
  /\ pc = "transfer" /\ written = Len(payload)
  /\ pc' = "start"
  /\ UNCHANGED <<vars, payload, written, scripts, busVars, grantVars, scratchVars>>

\* Behind the transfer; the script ends with an AssertionError otherwise.
AssertReady ==
  /\ pc = "transfer" /\ written = Len(payload)
  /\ pc' = IF ready THEN "start" ELSE "off"
  /\ UNCHANGED <<vars, payload, written, scripts, busVars, grantVars, scratchVars>>

Drained == (\A i \in DOMAIN reads : reads[i] = 0) /\ ~scratchpad.we

\* The executor takes a start in READY only.  The way of a register access from
\* the host to the board is longer than the way of data from the memory.
WriteStart ==
  /\ pc = "start" /\ (on \/ (Drained /\ ~owned))
  /\ pc' = "poll"
  /\ IF ready
     THEN /\ waiting' = TRUE /\ owner' = scripts
          /\ sent' = 0 /\ stored' = 0
     ELSE UNCHANGED <<waiting, owner, sent, stored>>
  /\ UNCHANGED <<vars, payload, written, scripts, busVars, owned, completed, at_refresh,
                 refresh_count, reads, scratchpad, scratch_mem>>

\* while not ready(): the script sleeps and reports the refresh count.
Poll ==
  /\ pc = "poll" /\ ready
  /\ pc' = "end"
  /\ UNCHANGED <<vars, payload, written, scripts, busVars, grantVars, scratchVars>>

\* The host goes away; an access that is on the bus is finished.
Kill ==
  /\ pc \in {"transfer", "start", "poll"} /\ scripts < MaxScripts
  /\ pc' = "off"
  /\ UNCHANGED <<vars, payload, written, scripts, busVars, grantVars, scratchVars>>

Host == Start \/ WriteWord \/ AssertReady \/ WriteStart \/ Poll

-----------------------------------------------------------------------------
\* SRAM.  The port writes whenever its we is set, and that stays set.

PortWrite == mem' = IF sram.we THEN [mem EXCEPT ![sram.adr] = sram.dat_w] ELSE mem

\* mutant: the data port keeps the data of the access before
Latch_NoData ==
  sram' = [sram EXCEPT !.fsm = "GET_DATA", !.adr = bus.adr, !.we = TRUE]

Latch ==
  sram' = [fsm |-> "GET_DATA", adr |-> bus.adr, dat_w |-> bus.dat_w, we |-> TRUE]

SramAddr ==
  /\ sram.fsm = "ADDR" /\ bus.stb
  /\ Latch
  /\ PortWrite
  /\ UNCHANGED <<on, at, iter, left, out, hostVars, bus, grantVars, scratchVars>>

SramGetData ==
  /\ sram.fsm = "GET_DATA"
  /\ sram' = [sram EXCEPT !.fsm = "DATA"]
  /\ PortWrite
  /\ UNCHANGED <<on, at, iter, left, out, hostVars, bus, grantVars, scratchVars>>

\* ack: the access is over; the script it belongs to goes on.
SramData ==
  /\ sram.fsm = "DATA"
  /\ sram' = [sram EXCEPT !.fsm = "ADDR"]
  /\ PortWrite
  /\ bus' = NoAccess
  /\ written' = IF bus.by = scripts THEN bus.adr + 1 ELSE written
  /\ UNCHANGED <<on, at, iter, left, out, pc, payload, scripts, grantVars, scratchVars>>

Sram == SramAddr \/ SramGetData \/ SramData

-----------------------------------------------------------------------------
\* Scratchpad, in a cycle in which valid data n arrive (0: none)

\* The width of counter is that of depth - 2.
CounterMod == CHOOSE m \in {2^k : k \in 1 .. ScratchDepth} :
                m > ScratchDepth - 2 /\ (m > 2 => m \div 2 <= ScratchDepth - 2)

\* So it is for a depth that is a power of two.
ASSUME CounterFits == CounterMod \in Nat /\ CounterMod >= ScratchDepth

\* A word that is being written is counted.
NextCount ==
  IF scratchpad.counter = ScratchDepth - 1
  THEN [scratchpad EXCEPT !.counter = 0, !.overflow = TRUE]
  ELSE [scratchpad EXCEPT !.counter = (@ + 1) % CounterMod]

\* mutant: the scratchpad goes on where the payload before has ended
Scratchpad_NoReset(n) ==
  /\ scratchpad' =
       [(IF scratchpad.we THEN NextCount ELSE scratchpad) EXCEPT
          !.adr = scratchpad.counter, !.dat_w = n, !.we = (n # 0)]
  /\ scratch_mem' = IF scratchpad.we
                    THEN [scratch_mem EXCEPT ![scratchpad.adr] = scratchpad.dat_w]
                    ELSE scratch_mem

\* The write port is registered: it has the address of a cycle ago.
Scratchpad(n) ==
  /\ scratchpad' =
       IF waiting THEN CleanScratchpad
       ELSE [(IF scratchpad.we THEN NextCount ELSE scratchpad) EXCEPT
               !.adr = scratchpad.counter, !.dat_w = n, !.we = (n # 0)]
  /\ scratch_mem' = IF scratchpad.we
                    THEN [scratch_mem EXCEPT ![scratchpad.adr] = scratchpad.dat_w]
                    ELSE scratch_mem

\* Data travel through the PHY; they are numbered, and reach the scratchpad
\* while the switch is at the executor.
Read ==
  LET arriving == IF owned THEN reads[ReadLatency] ELSE 0
  IN  /\ sent' = IF out' = "READ" THEN sent + 1 ELSE sent
      /\ reads' = [i \in DOMAIN reads |->
                     IF i > 1 THEN reads[i - 1] ELSE IF out' = "READ" THEN sent' ELSE 0]
      /\ stored' = IF arriving # 0 THEN arriving ELSE stored
      /\ Scratchpad(arriving)

-----------------------------------------------------------------------------
\* Clock

\* mutant: the switch waits for refresh 0, too
Granted_Zero == at_refresh = refresh_count + 1

\* Any refresh, or exactly this one, and the switch goes to the executor.
Granted == at_refresh = 0 \/ at_refresh = refresh_count + 1

\* A refresh of the controller, which has the bus
McRefresh ==
  /\ ~owned
  /\ refresh_count' = IF refresh_count < MaxRefresh THEN refresh_count + 1 ELSE refresh_count
  /\ IF waiting /\ Granted
     THEN Begin /\ waiting' = FALSE /\ owned' = TRUE
     ELSE UNCHANGED <<vars, waiting, owned>>
  /\ Read
  /\ UNCHANGED <<hostVars, busVars, owner, completed, at_refresh>>

\* A cycle of the payload
ExecutorCycle ==
  /\ Wait \/ Halt \/ Jump \/ FallThrough \/ Send
  /\ completed' = IF on' THEN completed ELSE completed \cup {owner}
  /\ Read
  /\ UNCHANGED <<hostVars, busVars, waiting, owned, owner, at_refresh, refresh_count>>

\* A cycle without execution and refresh: the switch goes back and the
\* pipelines move.
IdleCycle ==
  /\ ~on /\ (owned \/ ~Drained)
  /\ owned' = FALSE
  /\ UNCHANGED vars
  /\ Read
  /\ UNCHANGED <<hostVars, busVars, waiting, owner, completed, at_refresh, refresh_count>>

HostNext == Host \/ Kill \/ Sram \/ McRefresh \/ ExecutorCycle \/ IdleCycle

\* Scripts run on unless they are killed, the bus answers, the controller
\* refreshes and the clock does not stop; nobody has to start a script.
HostSpec ==
  /\ HostInit /\ [][HostNext]_allVars
  /\ WF_allVars(WriteWord \/ AssertReady \/ WriteStart \/ Poll)
  /\ WF_allVars(Sram)
  /\ WF_allVars(McRefresh)
  /\ WF_allVars(ExecutorCycle \/ IdleCycle)

-----------------------------------------------------------------------------
\* Properties

\* What is executed for a script is its own payload, every word of it and from
\* the first cycle to the last: the last word has reached the memory when the
\* start is written, and nothing that killed scripts left behind on the bus or
\* in the memory is mixed in.
OwnPayload ==
  owner = scripts /\ (waiting \/ on) =>
    \A k \in DOMAIN payload : mem[k - 1] = payload[k]

\* A script that returns has had its payload executed, to the end: ready is
\* never that of an earlier payload.
ReturnsWhenDone == pc = "end" => scripts \in completed

\* The data that READ commands have returned while the executor had the bus
\* are in the scratchpad, in order, the counter says how many, and overflow
\* whether they were too many, whichever payload was executed before.
ScratchpadExact ==
  ~waiting /\ ~owned /\ Drained /\ owner # 0 =>
    IF stored < ScratchDepth
    THEN /\ ~scratchpad.overflow
         /\ scratchpad.counter = stored
         /\ \A k \in 1 .. stored : scratch_mem[k - 1] = k
    ELSE scratchpad.overflow /\ scratchpad.counter = stored % ScratchDepth

\* execute_payload returns, if the refresh that it waits for is to come.
ExecutionReturns ==
  waiting /\ owner = scripts /\ (at_refresh = 0 \/ at_refresh > refresh_count)
    ~> pc # "poll"

=============================================================================
