-------------------------------- MODULE I2C --------------------------------
(***************************************************************************)
(* i2c_read, i2c_write and i2c_poll (scripts/utils.py), which pass entries *)
(* to the I2C worker of LiteX through a FIFO and take one result for every *)
(* byte from another, and read_spd_i2c (scripts/spd_eeprom.py), which      *)
(* reads the EEPROM of a module page by page with them.                    *)
(* The worker runs while the host polls it; the device may refuse bytes.   *)
(* Before a start the worker is idle, so that what the host does until     *)
(* then is one step with it; so is what it does with a worker that has     *)
(* stopped.                                                                *)
(***************************************************************************)
EXTENDS Integers, Sequences

CONSTANTS
  Depth,                  \* entries of a FIFO
  reg_addr_size,
  PageReg, DataReg,       \* registers of the EEPROM: page, first byte of a page
  Pages, PageLength,
  Lengths,                \* of other reads
  MaxCalls, MaxNacks      \* bounds: calls from the console, bytes refused

ASSUME I2CAssumption ==
  /\ {Depth, reg_addr_size, Pages, PageLength} \subseteq Nat \ {0}
  /\ PageLength + 3 + reg_addr_size <= Depth
  /\ Lengths \subseteq Nat \ {0}
  /\ {PageReg, DataReg} \subseteq 0 .. 256 ^ reg_addr_size - 1

\* What is used of powers: the provers know none.
ASSUME PowersOf256 ==
  /\ 256 ^ 0 = 1
  /\ \A i \in 0 .. reg_addr_size :
       256 ^ i \in Nat \ {0} /\ 256 ^ (i + 1) = 256 * 256 ^ i

VARIABLES
  pc, call,               \* of the host: where it is in which call
  sent, discard_reads, ret,
  last,                   \* call that has returned last, and what it has returned
  spd,                    \* read_spd_i2c: its state, page and data
  calls,                  \* calls from the console
  ctrl, worker, fsm,      \* registers: i2c_ctrl, i2c_worker, state of the FSM
  wfifo, rfifo,
  device,                 \* the EEPROM: page, and the transfer it takes part in
  nacks,                  \* bytes refused
  missed                  \* pages whose selection was refused (history)

hostVars == <<pc, call, sent, discard_reads, ret, last, spd, calls>>
deviceVars == <<device, nacks, missed>>
vars == <<hostVars, ctrl, worker, fsm, wfifo, rfifo, deviceVars>>

-----------------------------------------------------------------------------
\* Entries

Byte(reg, i) == (reg \div 256 ^ i) % 256

I2CQueueEntry ==
  [kind |-> "stop", data |-> 0, ack |-> 0, idle |-> FALSE, abort_on_nack |-> TRUE]

Address(kind) == [I2CQueueEntry EXCEPT !.kind = kind, !.ack = 1]

RegAddress(reg) ==
  [i \in 1 .. reg_addr_size |->
     [I2CQueueEntry EXCEPT !.kind = "byte", !.data = Byte(reg, i - 1), !.ack = 1]]

Header(c) ==
  <<Address("write")>> \o RegAddress(c.reg)
    \o (IF c.kind = "read" THEN (IF c.send_stop THEN <<I2CQueueEntry>> ELSE << >>)
                                  \o <<Address("read")>>
        ELSE << >>)

\* mutant: counted from 1
IsLast_From1(c, i) == i = c.length

IsLast(c, i) == i = c.length - 1

\* The i-th data entry, from 0: stop, idle and no abort on the last
DataEntry(c, i) ==
  LET flag == IsLast(c, i)
  IN  [kind |-> "byte", data |-> IF c.kind = "read" THEN 255 ELSE c.data[i + 1],
       ack |-> IF flag THEN 1 ELSE 0, idle |-> flag, abort_on_nack |-> ~flag]

DataEntries(c, from, n) == [k \in 1 .. n |-> DataEntry(c, from + k - 1)]

Least(a, b) == IF a < b THEN a ELSE b

\* Data entries that the FIFO has room for
Fitting(c, from, fifo) == Least(c.length - from, Depth - Len(fifo))

TooLong(c) ==
  c.length + (IF c.kind = "read" THEN 3 ELSE 1) + reg_addr_size > Depth

\* mutant: one address byte less
Discarded_Short(c) == reg_addr_size

Discarded(c) == (IF c.kind = "read" THEN 2 ELSE 1) + reg_addr_size

-----------------------------------------------------------------------------
\* The worker and the device (external)

\* A write to start: the FIFOs are cleared, or their entries run.
Start(c, w, r) ==
  /\ fsm'   = IF c = 1 THEN "idle" ELSE "run"
  /\ wfifo' = IF c = 1 THEN << >> ELSE w
  /\ rfifo' = IF c = 1 THEN << >> ELSE r

\* Bytes of a register address before the data
Written(d, byte) ==
  IF d.got < reg_addr_size
  THEN [d EXCEPT !.got = @ + 1,
                 !.at = (IF d.got = 0 THEN 0 ELSE @) + byte * 256 ^ d.got]
  ELSE IF d.at = PageReg THEN [d EXCEPT !.page = byte] ELSE d

Refuse(e) ==
  /\ nacks < MaxNacks
  /\ nacks' = nacks + 1
  /\ missed' = IF spd.state = "write" THEN missed \cup {spd.page} ELSE missed
  /\ device' = IF e.kind = "byte" THEN device ELSE [device EXCEPT !.mode = "none"]
  /\ fsm' = CASE e.abort_on_nack -> "abort" [] e.idle -> "stop" [] OTHER -> "run"
  /\ \/ rfifo' = Append(rfifo, [data |-> e.data, ack |-> 1])
     \/ e.abort_on_nack /\ rfifo' = rfifo

Accept(e) ==
  /\ device' = CASE e.kind = "write" -> [device EXCEPT !.mode = "write", !.got = 0]
                 [] e.kind = "read"  -> [device EXCEPT !.mode = "read"]
                 [] OTHER            -> Written(device, e.data)
  /\ fsm' = IF e.idle THEN "stop" ELSE "run"
  /\ rfifo' = Append(rfifo, [data |-> e.data, ack |-> 0])
  /\ UNCHANGED <<nacks, missed>>

\* A byte of the device, acknowledged by the worker as the entry says; a device
\* that has refused its address leaves the bus alone.
Deliver(e) ==
  /\ device' = [device EXCEPT !.at = IF device.mode = "read" THEN @ + 1 ELSE @]
  /\ fsm' = IF e.idle THEN "stop" ELSE "run"
  /\ rfifo' = Append(rfifo, [data |-> IF device.mode = "read" THEN <<device.page, device.at>>
                                      ELSE 255,
                             ack |-> e.ack])
  /\ UNCHANGED <<nacks, missed>>

Worker ==
  /\ fsm = "run" /\ wfifo # << >>
  /\ wfifo' = Tail(wfifo)
  /\ LET e == Head(wfifo)
     IN  CASE e.kind = "stop" -> UNCHANGED <<fsm, rfifo, deviceVars>>
           [] e.kind = "byte" /\ device.mode # "write" -> Deliver(e)
           [] OTHER -> Accept(e) \/ Refuse(e)
  /\ UNCHANGED <<hostVars, ctrl, worker>>

\* The result of the last byte is there before the stop condition.
Stop ==
  /\ fsm = "stop" /\ fsm' = "idle"
  /\ UNCHANGED <<hostVars, ctrl, worker, wfifo, rfifo, deviceVars>>

-----------------------------------------------------------------------------
\* i2c_read and i2c_write

NoCall == [kind |-> "none"]
None == << >>           \* no read asks for nothing

Init ==
  /\ pc = "ready" /\ call = NoCall /\ sent = 0 /\ discard_reads = 0 /\ ret = << >>
  /\ last = [call |-> NoCall, value |-> << >>]
  /\ spd = [state |-> "off", page |-> 0, data |-> << >>] /\ calls = 0
  /\ ctrl = 0 /\ worker = FALSE /\ fsm = "idle" /\ wfifo = << >> /\ rfifo = << >>
  /\ device = [page |-> 0, mode |-> "none", got |-> 0, at |-> 0]
  /\ nacks = 0 /\ missed = {}

\* The steps up to the start of the worker
Begin(c) ==
  LET header == wfifo \o Header(c)
      n == Fitting(c, 0, header)
  IN  /\ ~TooLong(c)
      /\ pc' = "loop" /\ call' = c /\ ret' = << >> /\ sent' = n
      /\ discard_reads' = Discarded(c)
      /\ last' = [call |-> NoCall, value |-> << >>]
      /\ ctrl' = 0 /\ worker' = TRUE
      /\ Start(0, header \o DataEntries(c, 0, n), rfifo)
      /\ UNCHANGED deviceVars

\* ValueError
Raise(c) ==
  /\ TooLong(c)
  /\ last' = [call |-> NoCall, value |-> << >>]
  /\ UNCHANGED <<pc, call, sent, discard_reads, ret, ctrl, worker, fsm, wfifo, rfifo,
                 deviceVars>>

\* The condition of the loop, and the state of the worker
ReadState ==
  /\ pc = "loop"
  /\ pc' = CASE Len(ret) >= call.length -> "wait"
             [] fsm = "abort"           -> "abort"
             [] OTHER                   -> "refill"
  /\ UNCHANGED <<call, sent, discard_reads, ret, last, spd, calls,
                 ctrl, worker, fsm, wfifo, rfifo, deviceVars>>

ClearSetup == 1

\* The FSM is reset, the results are read, the FIFOs cleared; i2c_ctrl keeps
\* the setting for that.
Abort ==
  /\ pc = "abort"
  /\ ctrl' = ClearSetup
  /\ Start(ClearSetup, wfifo, << >>)
  /\ pc' = "wait"
  /\ ret' = IF call.kind = "read" THEN None ELSE ret
  /\ UNCHANGED <<call, sent, discard_reads, last, spd, calls, worker, deviceVars>>

Refill ==
  LET n == Fitting(call, sent, wfifo)
  IN  /\ pc = "refill" /\ pc' = "collect"
      /\ wfifo' = wfifo \o DataEntries(call, sent, n)
      /\ sent' = sent + n
      /\ UNCHANGED <<call, discard_reads, ret, last, spd, calls,
                     ctrl, worker, fsm, rfifo, deviceVars>>

\* A read leaves data in the FIFO until all entries are sent.
Collect ==
  LET skip == Least(discard_reads, Len(rfifo))
      take == call.kind = "write" \/ sent = call.length
  IN  /\ pc = "collect" /\ pc' = "loop"
      /\ discard_reads' = discard_reads - skip
      /\ ret' = IF take THEN ret \o [i \in 1 .. Len(rfifo) - skip |-> rfifo[i + skip].data]
                ELSE ret
      /\ rfifo' = IF take THEN << >> ELSE SubSeq(rfifo, skip + 1, Len(rfifo))
      /\ UNCHANGED <<call, sent, last, spd, calls, ctrl, worker, fsm, wfifo, deviceVars>>

Returned == IF call.kind = "read" THEN ret ELSE Len(ret)

\* mutant: None is taken for an empty page
NoData_Lenient == FALSE

NoData == ret = None

\* read_spd_i2c after one of its calls; a page without data cannot be appended,
\* while the length that i2c_write returns is not looked at.
SpdAfterCall ==
  CASE spd.state = "write" -> [spd EXCEPT !.state = "read"]
    [] spd.state = "read" /\ NoData -> [spd EXCEPT !.state = "raised"]
    [] spd.state = "read" /\ ~NoData ->
         [state |-> IF spd.page = Pages - 1 THEN "done" ELSE "write",
          page |-> spd.page + 1, data |-> spd.data \o ret]
    [] OTHER -> spd

Idle == fsm = "idle"

Return ==
  /\ pc = "wait" /\ Idle
  /\ pc' = "ready" /\ worker' = FALSE
  /\ last' = [call |-> call, value |-> Returned]
  /\ spd' = SpdAfterCall
  /\ UNCHANGED <<call, sent, discard_reads, ret, calls, ctrl, fsm, wfifo, rfifo, deviceVars>>

-----------------------------------------------------------------------------
\* i2c_poll

PollLast(kind) == [Address(kind) EXCEPT !.idle = TRUE, !.abort_on_nack = FALSE]

\* i2c_ctrl is as the call before has left it.
PollWrite ==
  /\ pc' = "poll_write" /\ call' = [kind |-> "poll", refused |-> nacks]
  /\ last' = [call |-> NoCall, value |-> << >>]
  /\ Start(ctrl, Append(wfifo, PollLast("write")), rfifo)
  /\ worker' = FALSE
  /\ UNCHANGED <<sent, discard_reads, ret, ctrl, deviceVars>>

\* What a FIFO gives that is empty is not known (external).
Result == IF rfifo = << >> THEN {0, 1} ELSE {Head(rfifo).ack}
Popped(fifo) == IF fifo = << >> THEN fifo ELSE Tail(fifo)

Answered(ack) == ack = 0

PollReturn(ack) ==
  /\ pc' = "ready"
  /\ last' = [call |-> call, value |-> Answered(ack)]

\* The second attempt addresses the device for a read.
PollWriteDone ==
  /\ pc = "poll_write" /\ Idle
  /\ \E ack \in Result :
       \/ /\ Answered(ack) /\ PollReturn(ack)
          /\ rfifo' = Popped(rfifo)
          /\ UNCHANGED <<fsm, wfifo>>
       \/ /\ ~Answered(ack)
          /\ pc' = "poll_read" /\ last' = last
          /\ Start(ctrl, wfifo \o <<[Address("read") EXCEPT !.abort_on_nack = FALSE],
                                    [PollLast("byte") EXCEPT !.data = 255]>>,
                   Popped(rfifo))
  /\ UNCHANGED <<call, sent, discard_reads, ret, spd, calls, ctrl, worker, deviceVars>>

PollReadDone ==
  /\ pc = "poll_read" /\ Idle
  /\ \E ack \in Result : PollReturn(ack)
  /\ rfifo' = Popped(Popped(rfifo))
  /\ UNCHANGED <<call, sent, discard_reads, ret, spd, calls, ctrl, worker, fsm, wfifo, deviceVars>>

-----------------------------------------------------------------------------
\* Scripts

ReadCall(length, stop) ==
  [kind |-> "read", reg |-> DataReg, length |-> length, send_stop |-> stop]
WriteCall(data) == [kind |-> "write", reg |-> PageReg, length |-> Len(data), data |-> data]

Busy == pc # "ready" \/ spd.state \in {"write", "read"}

Console ==
  /\ ~Busy /\ calls < MaxCalls
  /\ calls' = calls + 1
  /\ \/ /\ \/ \E length \in Lengths, stop \in BOOLEAN :
                Begin(ReadCall(length, stop)) \/ Raise(ReadCall(length, stop))
           \/ \E page \in 0 .. Pages - 1 : Begin(WriteCall(<<page>>))
           \/ PollWrite
        /\ spd' = spd
     \/ /\ spd' = [state |-> "write", page |-> 0, data |-> << >>]
        /\ missed' = {}
        /\ UNCHANGED <<pc, call, sent, discard_reads, ret, last, ctrl, worker, fsm,
                       wfifo, rfifo, device, nacks>>

\* A call of read_spd_i2c
SpdCall ==
  /\ pc = "ready"
  /\ \/ spd.state = "write" /\ Begin(WriteCall(<<spd.page>>))
     \/ spd.state = "read" /\ Begin(ReadCall(PageLength, FALSE))
  /\ UNCHANGED <<spd, calls>>

Host ==
  \/ ReadState \/ Abort \/ Refill \/ Collect \/ Return
  \/ PollWriteDone \/ PollReadDone \/ SpdCall

Next == Console \/ Host \/ Worker \/ Stop

\* A call that has begun goes on, and so does the worker.
Spec == Init /\ [][Next]_vars /\ WF_vars(Host) /\ WF_vars(Worker \/ Stop)

-----------------------------------------------------------------------------
\* Properties

\* A call returns what its own transfer has brought: i2c_read the bytes asked
\* for, from the register asked for, or None, never a result of an address
\* byte and nothing of an earlier call, aborted or not; i2c_poll whether the
\* device has taken its address in either attempt, unless i2c_ctrl is still at
\* the clearing of FIFOs, where a call that was aborted leaves it.  No entry
\* is written to a FIFO that is full.
OwnData ==
  /\ Len(wfifo) <= Depth /\ Len(rfifo) <= Depth
  /\ last.call.kind = "read" /\ last.value # None =>
       last.value = [i \in 1 .. last.call.length |-> <<device.page, last.call.reg + i - 1>>]
  /\ last.call.kind = "poll" /\ ctrl = 0 =>
       last.value = (nacks - last.call.refused < 2)

\* What read_spd_i2c returns has every page in its place, but for pages whose
\* selection the device has refused: i2c_write tells nobody of that.
SpdExact ==
  spd.state = "done" =>
    /\ Len(spd.data) = Pages * PageLength
    /\ \A p \in (0 .. Pages - 1) \ missed : \A i \in 1 .. PageLength :
         spd.data[p * PageLength + i] = <<p, DataReg + i - 1>>

\* Every call returns, whatever the device refuses.
CallsEnd == Busy ~> ~Busy

=============================================================================
