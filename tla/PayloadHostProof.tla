-------------------------- MODULE PayloadHostProof --------------------------
(***************************************************************************)
(* Proofs about PayloadHost: for every memory, scratchpad and latency and  *)
(* any number of killed scripts, a script executes its own payload, does   *)
(* not return before it has ended, and finds the data of its READs, in     *)
(* order, in the scratchpad.                                               *)
(***************************************************************************)
EXTENDS PayloadHost, TLAPS

\* A word that may be at address a of the payload memory.
Fits(i, a) ==
  /\ i \in Instruction
  /\ IsLoop(i) => i.jump <= a
  /\ i.op = "READ" => i.timeslice >= 2

ScratchAddress == 0 .. ScratchDepth - 1

HostTypes ==
  /\ pc \in {"off", "transfer", "start", "poll", "end"}
  /\ payload \in Programs \cup {<< >>}
  /\ {written, scripts, owner} \subseteq Nat
  /\ bus \in [stb : BOOLEAN, by : Nat, adr : Address, dat_w : Instruction]
  /\ sram \in [fsm : {"ADDR", "GET_DATA", "DATA"}, adr : Address, dat_w : Instruction,
               we : BOOLEAN]

BoardTypes ==
  /\ {on, waiting, owned} \subseteq BOOLEAN
  /\ at \in Address
  /\ reads \in [1 .. ReadLatency -> Nat] /\ sent \in Nat /\ stored \in Nat
  /\ scratchpad \in [counter : ScratchAddress, overflow : BOOLEAN, adr : ScratchAddress,
                     dat_w : Nat, we : BOOLEAN]
  /\ scratch_mem \in [ScratchAddress -> Nat]

\* What is on the bus is the next word of the script, or the last one of a
\* killed script, which is over before the first word of the next.
Access ==
  /\ bus.stb => Fits(bus.dat_w, bus.adr)
  /\ bus.stb /\ bus.by = scripts =>
       written < Len(payload) /\ bus.adr = written /\ bus.dat_w = payload[written + 1]
  /\ bus.stb /\ bus.by # scripts => bus.by < scripts /\ written = 0
  /\ sram.fsm # "ADDR" => /\ bus.stb /\ sram.we
                          /\ sram.adr = bus.adr /\ sram.dat_w = bus.dat_w

\* The port of the SRAM writes a word again and again, but changes the memory
\* in GET_DATA only; so the words that were acknowledged stay.
Transferred ==
  /\ mem \in Memory /\ \A a \in Address : Fits(mem[a], a)
  /\ sram.fsm # "GET_DATA" /\ sram.we => mem[sram.adr] = sram.dat_w
  /\ written <= Len(payload)
  /\ \A k \in 1 .. written : mem[k - 1] = payload[k]

\* A start is that of a script whose payload is in the memory.
Started ==
  /\ owner <= scripts
  /\ owner = scripts => written = Len(payload)
  /\ pc = "start" => written = Len(payload) /\ ~on /\ ~waiting
  /\ pc = "poll" => owner = scripts /\ (waiting \/ on \/ scripts \in completed)
  /\ pc = "end" => scripts \in completed

\* Data on their way from the memory: those that are not stored yet, without a
\* gap and in order, and never in two places in a row.
InFlight ==
  /\ on => owned
  /\ waiting => /\ ~on /\ ~owned /\ sent = 0 /\ stored = 0
                /\ \A i \in 1 .. ReadLatency : reads[i] = 0
  /\ out = "READ" => on /\ left # 0
  /\ out = "READ" <=> reads[1] # 0
  /\ \A i \in 1 .. ReadLatency - 1 : reads[i] # 0 => reads[i + 1] = 0
  /\ owned =>
       /\ stored <= sent
       /\ \A i \in 1 .. ReadLatency : reads[i] # 0 => stored < reads[i] /\ reads[i] <= sent
       /\ \A i, j \in 1 .. ReadLatency :
            i < j /\ reads[i] # 0 /\ reads[j] # 0 => reads[j] < reads[i]
       /\ \A n \in (stored + 1) .. sent : \E i \in 1 .. ReadLatency : reads[i] = n

\* Data that the scratchpad has counted: all that are stored but for the one at
\* its write port.
Counted == IF scratchpad.we THEN stored - 1 ELSE stored

Collected ==
  /\ scratchpad.we => reads[ReadLatency] = 0
  /\ ~waiting =>
       /\ scratchpad.we => /\ stored > 0 /\ scratchpad.dat_w = stored
                           /\ scratchpad.adr = scratchpad.counter
       /\ scratchpad.counter = Counted % ScratchDepth
       /\ (scratchpad.overflow <=> Counted >= ScratchDepth)
       /\ Counted < ScratchDepth => \A k \in 1 .. Counted : scratch_mem[k - 1] = k

IndInv ==
  /\ HostTypes /\ BoardTypes
  /\ Access /\ Transferred /\ Started /\ InFlight /\ Collected

-----------------------------------------------------------------------------
(* Payloads *)

\* The words of a payload fit the addresses they are written to.
LEMMA ProgramWord ==
  ASSUME NEW p \in Programs \cup Resident
  PROVE  /\ p \in Seq(Instruction) /\ Len(p) \in Nat /\ Len(p) <= Depth
         /\ DOMAIN p = 1 .. Len(p)
         /\ \A k \in 1 .. Len(p) : Fits(p[k], k - 1)
<1>1. /\ p \in Seq(Instruction) /\ Len(p) <= Depth
      /\ \A k \in 1 .. Len(p) : IsLoop(p[k]) => p[k].jump < k
  BY ProgramsAssumption
<1>2. Len(p) \in Nat /\ DOMAIN p = 1 .. Len(p)
  BY <1>1
<1>3. \A k \in 1 .. Len(p) : p[k].op = "READ" => p[k].timeslice >= 2
  BY <1>2, HostAssumption
<1>4. ASSUME NEW k \in 1 .. Len(p)
      PROVE  Fits(p[k], k - 1)
  <2>1. p[k] \in Instruction
    BY <1>1, <1>2
  <2>2. p[k].jump \in Nat
    BY <2>1 DEF Instruction
  <2>3. IsLoop(p[k]) => p[k].jump <= k - 1
    BY <1>1, <1>2, <2>2
  <2> QED
    BY <1>3, <2>1, <2>3 DEF Fits
<1> QED
  BY <1>1, <1>2, <1>4

\* So are those of the running script's.
LEMMA PayloadWord ==
  ASSUME HostTypes
  PROVE  /\ Len(payload) \in Nat /\ Len(payload) <= Depth
         /\ DOMAIN payload = 1 .. Len(payload)
         /\ \A k \in 1 .. Len(payload) : Fits(payload[k], k - 1)
<1>1. CASE payload \in Programs
  BY <1>1, ProgramWord
<1>2. CASE payload = << >>
  BY <1>2, DepthAssumption
<1> QED
  BY <1>1, <1>2 DEF HostTypes

\* A memory in which a payload was transferred at power-up.
LEMMA ResidentFits ==
  ASSUME NEW m \in InitialMemory
  PROVE  m \in Memory /\ \A a \in Address : Fits(m[a], a)
<1> DEFINE stop == I("NOOP", 0)
<1>1. PICK p \in Resident : m = Transfer([a \in Address |-> stop], p)
  BY DEF InitialMemory
<1>2. \A a \in Address : Fits(stop, a)
  BY LoopModAssumption DEF Fits, I, Instruction, OpCode, IsLoop
<1>3. ASSUME NEW a \in Address
      PROVE  m[a] = IF a < Len(p) THEN p[a + 1] ELSE stop
  BY <1>1 DEF Transfer
<1>4. ASSUME NEW a \in Address
      PROVE  Fits(m[a], a)
  <2>1. CASE a < Len(p)
    <3> DEFINE k == a + 1
    <3>1. k \in 1 .. Len(p) /\ k - 1 = a
      BY <2>1, ProgramWord, DepthAssumption DEF Address
    <3>2. m[a] = p[k]
      BY <1>3, <2>1
    <3> HIDE DEF k
    <3>3. Fits(p[k], k - 1)
      BY <3>1, ProgramWord
    <3> QED
      BY <3>1, <3>2, <3>3
  <2>2. CASE ~(a < Len(p))
    BY <1>2, <1>3, <2>2
  <2> QED
    BY <2>1, <2>2
<1>5. m = [a \in Address |-> m[a]]
  BY <1>1 DEF Transfer
<1> QED
  BY <1>4, <1>5 DEF Memory, Fits

-----------------------------------------------------------------------------
(* Init *)

LEMMA InitInv == HostInit => IndInv
<1> SUFFICES ASSUME HostInit PROVE IndInv
  OBVIOUS
<1> USE DEF HostInit, Init
<1>1. 0 \in Address /\ I("NOOP", 0) \in Instruction /\ 0 \in ScratchAddress
  BY DepthAssumption, LoopModAssumption, HostAssumption
  DEF Address, I, Instruction, OpCode, ScratchAddress
<1>2. HostTypes
  BY <1>1 DEF HostTypes, NoAccess
<1>3. BoardTypes
  BY <1>1, HostAssumption DEF BoardTypes, CleanScratchpad, ScratchAddress
<1>4. Access
  BY DEF Access, NoAccess
<1>5. Transferred
  BY ResidentFits DEF Transferred
<1>6. Started
  BY DEF Started
<1>7. InFlight
  BY HostAssumption DEF InFlight
<1>8. Collected
  <2>1. 0 % ScratchDepth = 0 /\ ~(0 >= ScratchDepth)
    BY HostAssumption
  <2>2. /\ ~scratchpad.we /\ scratchpad.counter = 0 /\ scratchpad.overflow = FALSE
        /\ stored = 0
    BY DEF CleanScratchpad
  <2>3. Counted = 0
    BY <2>2 DEF Counted
  <2> QED
    BY <2>1, <2>2, <2>3 DEF Collected
<1> QED
  BY <1>2, <1>3, <1>4, <1>5, <1>6, <1>7, <1>8 DEF IndInv

-----------------------------------------------------------------------------
(* The host *)

\* Steps of the host leave the pipelines alone, but for a start, which
\* finds them empty.
LEMMA HostInv ==
  ASSUME IndInv, Host \/ Kill
  PROVE  IndInv'
<1> USE DEF IndInv
<1>0. /\ Len(payload) \in Nat /\ Len(payload) <= Depth
      /\ \A k \in 1 .. Len(payload) : Fits(payload[k], k - 1)
  BY PayloadWord
<1> USE DEF vars, busVars, grantVars, scratchVars, hostVars
<1>1. CASE Start
  <2> USE <1>1 DEF Start
  <2>1. HostTypes' /\ BoardTypes'
    BY DEF HostTypes, BoardTypes
  <2>2. Access'
    BY DEF Access, HostTypes
  <2>3. Transferred'
    <3>1. payload' \in Programs \cup Resident /\ written' = 0
      OBVIOUS
    <3>2. Len(payload') \in Nat
      BY <3>1, ProgramWord
    <3> QED
      BY <3>1, <3>2 DEF Transferred
  <2>4. Started'
    BY DEF Started, HostTypes
  <2>5. InFlight' /\ Collected'
    BY DEF InFlight, Collected, Counted
  <2> QED
    BY <2>1, <2>2, <2>3, <2>4, <2>5
<1>2. CASE WriteWord
  <2> USE <1>2 DEF WriteWord
  <2>1. written + 1 \in 1 .. Len(payload) /\ written \in Address
    BY <1>0, DepthAssumption DEF HostTypes, Address
  <2>2. Fits(payload[written + 1], written)
    BY <1>0, <2>1 DEF HostTypes
  <2>3. HostTypes' /\ BoardTypes'
    BY <2>1, <2>2 DEF HostTypes, BoardTypes, Fits
  <2>4. Access'
    BY <2>2 DEF Access
  <2>5. Transferred' /\ Started' /\ InFlight' /\ Collected'
    BY DEF Transferred, Started, InFlight, Collected, Counted
  <2> QED
    BY <2>3, <2>4, <2>5
<1>3. CASE AssertReady
  <2> USE <1>3 DEF AssertReady, ready
  <2>1. HostTypes' /\ BoardTypes' /\ Access' /\ Transferred' /\ InFlight' /\ Collected'
    BY DEF HostTypes, BoardTypes, Access, Transferred, InFlight, Collected, Counted
  <2>2. Started'
    BY DEF Started
  <2> QED
    BY <2>1, <2>2
<1>4. CASE WriteStart
  <2> USE <1>4 DEF WriteStart, ready
  <2>1. ~on /\ ~waiting /\ written = Len(payload) /\ ~owned /\ Drained
    BY DEF Started
  <2>2. /\ pc' = "poll" /\ waiting' = TRUE /\ owner' = scripts /\ sent' = 0 /\ stored' = 0
        /\ UNCHANGED <<reads, scratchpad, scratch_mem, on, owned, out, left, at, mem, bus, sram,
                       payload, written, scripts, completed>>
    BY <2>1
  <2>3. HostTypes' /\ BoardTypes' /\ Access' /\ Transferred'
    BY <2>2 DEF HostTypes, BoardTypes, Access, Transferred
  <2>4. Started'
    BY <2>1, <2>2 DEF Started, HostTypes
  <2>5. \A i \in 1 .. ReadLatency : reads[i] = 0
    BY <2>1 DEF Drained, BoardTypes
  <2>6. InFlight' /\ Collected'
    BY <2>1, <2>2, <2>5 DEF InFlight, Collected, Drained
  <2> QED
    BY <2>3, <2>4, <2>6
<1>5. CASE Poll
  <2> USE <1>5 DEF Poll, ready
  <2>1. HostTypes' /\ BoardTypes' /\ Access' /\ Transferred' /\ InFlight' /\ Collected'
    BY DEF HostTypes, BoardTypes, Access, Transferred, InFlight, Collected, Counted
  <2>2. Started'
    BY DEF Started
  <2> QED
    BY <2>1, <2>2
<1>6. CASE Kill
  BY <1>6 DEF Kill, HostTypes, BoardTypes, Access, Transferred, Started, InFlight,
              Collected, Counted
<1> QED
  BY <1>1, <1>2, <1>3, <1>4, <1>5, <1>6 DEF Host

-----------------------------------------------------------------------------
(* The SRAM *)

\* A word of the memory is replaced in GET_DATA, by one that fits; otherwise
\* the port writes what is there.
LEMMA PortInv ==
  ASSUME IndInv, PortWrite
  PROVE  /\ mem' \in Memory /\ \A a \in Address : Fits(mem'[a], a)
         /\ sram.fsm # "GET_DATA" => mem' = mem
         /\ sram.we => mem'[sram.adr] = sram.dat_w
         /\ \A a \in Address : a # sram.adr => mem'[a] = mem[a]
<1> USE DEF IndInv
<1>1. sram.adr \in Address /\ sram.dat_w \in Instruction
  BY DEF HostTypes
<1>2. mem \in Memory /\ \A a \in Address : Fits(mem[a], a)
  BY DEF Transferred
<1>3. CASE ~sram.we
  BY <1>2, <1>3 DEF PortWrite, Access
<1>4. CASE sram.we
  <2>1. mem' = [mem EXCEPT ![sram.adr] = sram.dat_w]
    BY <1>4 DEF PortWrite
  <2>2. mem' \in Memory
    BY <1>1, <1>2, <2>1 DEF Memory
  <2>3. mem'[sram.adr] = sram.dat_w /\ \A a \in Address : a # sram.adr => mem'[a] = mem[a]
    BY <1>1, <1>2, <2>1 DEF Memory
  <2>4. sram.fsm # "GET_DATA" => mem' = mem
    BY <1>1, <1>2, <1>4, <2>1 DEF Transferred, Memory
  <2>5. Fits(sram.dat_w, sram.adr)
    BY <1>1, <1>2, <1>4 DEF Access, Transferred
  <2>6. \A a \in Address : Fits(mem'[a], a)
    BY <1>2, <2>3, <2>5
  <2> QED
    BY <2>2, <2>3, <2>4, <2>6
<1>5. sram.we \in BOOLEAN
  BY DEF HostTypes
<1> QED
  BY <1>3, <1>4, <1>5

LEMMA SramInv ==
  ASSUME IndInv, Sram
  PROVE  IndInv'
<1> USE DEF IndInv
<1>1. PortWrite
  BY DEF Sram, SramAddr, SramGetData, SramData
<1>2. /\ mem' \in Memory /\ \A a \in Address : Fits(mem'[a], a)
      /\ sram.fsm # "GET_DATA" => mem' = mem
      /\ sram.we => mem'[sram.adr] = sram.dat_w
      /\ \A a \in Address : a # sram.adr => mem'[a] = mem[a]
  BY <1>1, PortInv
<1>3. /\ UNCHANGED <<on, at, left, out, pc, payload, scripts, waiting, owned, owner, completed,
                     reads, sent, stored, scratchpad, scratch_mem>>
  BY DEF Sram, SramAddr, SramGetData, SramData, hostVars, grantVars, scratchVars
<1>4. BoardTypes' /\ InFlight' /\ Collected'
  BY <1>3 DEF BoardTypes, InFlight, Collected, Counted
<1>5. sram \in [fsm : {"ADDR", "GET_DATA", "DATA"}, adr : Address, dat_w : Instruction, we : BOOLEAN]
  BY DEF HostTypes
<1>6. CASE SramAddr
  <2> USE <1>6 DEF SramAddr, hostVars, Latch
  <2>1. sram' = [fsm |-> "GET_DATA", adr |-> bus.adr, dat_w |-> bus.dat_w, we |-> TRUE]
    OBVIOUS
  <2>2. mem' = mem /\ UNCHANGED <<bus, written>>
    BY <1>2
  <2>3. HostTypes'
    BY <1>3, <2>1, <2>2 DEF HostTypes
  <2>4. Access'
    BY <1>3, <2>1, <2>2 DEF Access
  <2>5. Transferred'
    BY <1>2, <1>3, <2>1, <2>2 DEF Transferred
  <2>6. Started'
    BY <1>3, <2>2 DEF Started
  <2> QED
    BY <1>4, <2>3, <2>4, <2>5, <2>6
<1>7. CASE SramGetData
  <2> USE <1>7 DEF SramGetData, hostVars
  <2>1. /\ sram'.fsm = "DATA" /\ sram'.adr = sram.adr /\ sram'.dat_w = sram.dat_w
        /\ sram'.we = sram.we
        /\ sram' \in [fsm : {"ADDR", "GET_DATA", "DATA"}, adr : Address, dat_w : Instruction,
                      we : BOOLEAN]
    BY <1>5
  <2>2. UNCHANGED <<bus, written>>
    OBVIOUS
  <2>3. HostTypes' /\ Access' /\ Started'
    BY <1>3, <2>1, <2>2 DEF HostTypes, Access, Started
  <2>4. \A k \in 1 .. written : mem'[k - 1] = payload[k]
    <3> TAKE k \in 1 .. written
    <3>1. sram.adr = bus.adr /\ bus.stb
      BY DEF Access
    <3>2. sram.adr = written /\ written \in Nat
      BY <3>1 DEF Access, HostTypes
    <3>3. k - 1 \in Address /\ k - 1 # sram.adr
      <4>1. Len(payload) \in Nat /\ Len(payload) <= Depth
        BY PayloadWord
      <4>2. written \in Nat /\ written <= Len(payload)
        BY DEF HostTypes, Transferred
      <4> QED
        BY <3>2, <4>1, <4>2, DepthAssumption DEF Address
    <3> QED
      BY <1>2, <3>3 DEF Transferred
  <2>5. Transferred'
    BY <1>2, <1>3, <2>1, <2>2, <2>4 DEF Transferred
  <2> QED
    BY <1>4, <2>3, <2>5
<1>8. CASE SramData
  <2> USE <1>8 DEF SramData
  <2>1. /\ sram'.fsm = "ADDR" /\ sram'.adr = sram.adr /\ sram'.dat_w = sram.dat_w
        /\ sram'.we = sram.we
        /\ sram' \in [fsm : {"ADDR", "GET_DATA", "DATA"}, adr : Address, dat_w : Instruction,
                      we : BOOLEAN]
    BY <1>5
  <2>2. mem' = mem /\ bus' = NoAccess
    BY <1>2
  <2>3. bus.stb /\ sram.we /\ mem[bus.adr] = bus.dat_w
    BY DEF Access, Transferred
  <2>4. 0 \in Address /\ I("NOOP", 0) \in Instruction
    BY DepthAssumption, LoopModAssumption DEF Address, I, Instruction, OpCode
  <2>5. written' \in Nat
    BY DEF HostTypes, Address
  <2>6. HostTypes'
    BY <1>3, <2>1, <2>2, <2>4, <2>5 DEF HostTypes, NoAccess
  <2>7. Access'
    BY <2>1, <2>2 DEF Access, NoAccess
  <2>8. CASE bus.by = scripts
    <3>1. /\ written' = written + 1 /\ written < Len(payload)
          /\ mem[written] = payload[written + 1]
      BY <2>3, <2>8 DEF Access
    <3>2. owner # scripts /\ pc # "start" /\ pc # "poll"
      BY <3>1, PayloadWord DEF Started, HostTypes
    <3>3. \A k \in 1 .. (written + 1) : mem[k - 1] = payload[k]
      BY <3>1 DEF Transferred, HostTypes
    <3>4. Transferred'
      BY <1>2, <1>3, <2>1, <2>2, <3>1, <3>3, PayloadWord DEF Transferred, HostTypes
    <3>5. Started'
      BY <1>3, <3>2 DEF Started
    <3> QED
      BY <1>4, <2>6, <2>7, <3>4, <3>5
  <2>9. CASE bus.by # scripts
    <3>1. UNCHANGED written
      BY <2>9
    <3> QED
      BY <1>2, <1>3, <1>4, <2>1, <2>2, <2>6, <2>7, <3>1 DEF Transferred, Started
  <2> QED
    BY <2>8, <2>9
<1> QED
  BY <1>6, <1>7, <1>8 DEF Sram

-----------------------------------------------------------------------------
(* The clock *)

\* Counting up, a remainder goes up or back to zero.
LEMMA NextRemainder ==
  ASSUME NEW d \in Nat \ {0}, NEW n \in Nat
  PROVE  /\ n % d \in 0 .. d - 1
         /\ n < d => n % d = n
         /\ (n + 1) % d = IF n % d = d - 1 THEN 0 ELSE (n % d) + 1
         /\ n % d = d - 1 => n + 1 >= d
<1> DEFINE q == n \div d
           r == n % d
           k == (n + 1) \div d
           t == (n + 1) % d
<1>1. q \in Int /\ r \in 0 .. d - 1 /\ k \in Int /\ t \in 0 .. d - 1
  OBVIOUS
<1>2. n = d * q + r
  BY Z3
<1>3. n + 1 = d * k + t
  BY Z3
<1>4. n < d => n % d = n
  BY Z3
<1> HIDE DEF q, r, k, t
<1>5. d * (k - q) = r + 1 - t
  <2>1. d * (k - q) = d * k - d * q
    BY <1>1
  <2> QED
    BY <1>1, <1>2, <1>3, <2>1
<1>6. k - q < 2
  <2> SUFFICES ASSUME k - q >= 2 PROVE FALSE
    BY <1>1
  <2>1. d * (k - q) >= d * 2
    BY <1>1
  <2> QED
    BY <1>1, <1>5, <2>1
<1>7. k - q > -1
  <2> SUFFICES ASSUME k - q <= -1 PROVE FALSE
    BY <1>1
  <2>1. d * (k - q) <= -d
    BY <1>1
  <2> QED
    BY <1>1, <1>5, <2>1
<1>8. k - q = 0 \/ k - q = 1
  BY <1>1, <1>6, <1>7
<1>9. t = IF r = d - 1 THEN 0 ELSE r + 1
  <2>1. d * 0 = 0 /\ d * 1 = d
    OBVIOUS
  <2> QED
    BY <1>1, <1>5, <1>8, <2>1
<1>10. r = d - 1 => n + 1 >= d
  <2>1. q >= 0
    <3> SUFFICES ASSUME q <= -1 PROVE FALSE
      BY <1>1
    <3>1. d * q <= -d
      BY <1>1
    <3> QED
      BY <1>1, <1>2, <3>1
  <2>2. d * q >= 0
    BY <1>1, <2>1
  <2> QED
    BY <1>1, <1>2, <2>2
<1> QED
  BY <1>1, <1>4, <1>9, <1>10 DEF r, t

\* A cycle of the payload stays within the memory, and no READ follows a READ.
LEMMA CycleOfPayload ==
  ASSUME IndInv, Wait \/ Halt \/ Jump \/ FallThrough \/ Send
  PROVE  /\ on /\ mem' = mem /\ on' \in BOOLEAN /\ at' \in Address
         /\ out' = "READ" => out # "READ" /\ on' /\ left' # 0
<1> USE DEF IndInv
<1>1. at \in Address /\ 0 \in Address /\ Depth \in Nat
  BY DepthAssumption DEF BoardTypes, Address
<1>2. Fits(mem[at], at)
  BY <1>1 DEF Transferred
<1>3. CASE Wait
  BY <1>1, <1>3 DEF Wait, InFlight
<1>4. CASE Halt
  BY <1>1, <1>4 DEF Halt, InFlight
<1>5. CASE Jump
  <2>1. mem[at].jump \in Nat /\ mem[at].jump <= at
    BY <1>2, <1>5 DEF Jump, Fits, Instruction
  <2>2. at - mem[at].jump \in Address
    BY <1>1, <2>1 DEF Address
  <2> QED
    BY <1>5, <2>2 DEF Jump
<1>6. CASE FallThrough
  BY <1>1, <1>6 DEF FallThrough, Address
<1>7. CASE Send
  <2>1. out # "READ"
    BY <1>7 DEF Send, InFlight
  <2>2. at' \in Address
    BY <1>1, <1>7 DEF Send, Address
  <2>3. mem[at].timeslice \in Nat
    BY <1>2 DEF Fits, Instruction
  <2>4. Command(mem[at]) = "READ" => mem[at].op = "READ"
    BY DEF Command
  <2>5. out' = "READ" => left' # 0
    BY <1>2, <1>7, <2>3, <2>4 DEF Send, Fits
  <2> QED
    BY <1>7, <2>1, <2>2, <2>5 DEF Send
<1> QED
  BY <1>3, <1>4, <1>5, <1>6, <1>7

\* Data reach the scratchpad in the order of their READs.
LEMMA Arrival ==
  ASSUME IndInv, owned, reads[ReadLatency] # 0
  PROVE  reads[ReadLatency] = stored + 1
<1> USE DEF IndInv
<1>1. /\ ReadLatency \in 1 .. ReadLatency /\ reads \in [1 .. ReadLatency -> Nat]
      /\ stored \in Nat /\ sent \in Nat
  BY HostAssumption DEF BoardTypes
<1>2. stored < reads[ReadLatency] /\ reads[ReadLatency] <= sent
  BY <1>1 DEF InFlight
<1>3. PICK i \in 1 .. ReadLatency : reads[i] = stored + 1
  <2>1. stored + 1 \in (stored + 1) .. sent
    BY <1>1, <1>2
  <2> QED
    BY <2>1 DEF InFlight
<1>4. CASE i = ReadLatency
  BY <1>3, <1>4
<1>5. CASE i # ReadLatency
  <2>1. i < ReadLatency /\ reads[i] # 0
    BY <1>1, <1>3, <1>5, HostAssumption
  <2>2. reads[ReadLatency] < reads[i]
    BY <1>1, <2>1 DEF InFlight
  <2> QED
    BY <1>1, <1>2, <1>3, <2>2
<1> QED
  BY <1>4, <1>5

\* What a cycle may do to the command on the bus and to the switch while no
\* start is waiting.
Ticks ==
  /\ ~waiting /\ ~waiting' /\ owned' \in BOOLEAN
  /\ out' = "READ" => out # "READ" /\ on' /\ left' # 0
  /\ on' => owned'
  /\ owned' => owned

\* Data move on by one place in a cycle.
LEMMA FlowInv ==
  ASSUME IndInv, Ticks, Read
  PROVE  /\ InFlight'
         /\ reads' \in [1 .. ReadLatency -> Nat] /\ sent' \in Nat /\ stored' \in Nat
<1> USE DEF IndInv
<1> DEFINE L == ReadLatency
           arriving == IF owned THEN reads[L] ELSE 0
<1>1. /\ L \in Nat /\ L \in 1 .. L /\ 1 \in 1 .. L /\ reads \in [1 .. L -> Nat]
      /\ stored \in Nat /\ sent \in Nat /\ owned \in BOOLEAN
  BY HostAssumption DEF BoardTypes
<1>2. sent' = (IF out' = "READ" THEN sent + 1 ELSE sent) /\ sent' \in Nat
  BY <1>1 DEF Read
<1>3. /\ reads' \in [1 .. L -> Nat]
      /\ reads'[1] = (IF out' = "READ" THEN sent' ELSE 0)
      /\ \A i \in 1 .. L : i > 1 => i - 1 \in 1 .. L /\ reads'[i] = reads[i - 1]
  <2>1. reads' = [i \in 1 .. L |->
                    IF i > 1 THEN reads[i - 1] ELSE IF out' = "READ" THEN sent' ELSE 0]
    BY <1>1 DEF Read
  <2>2. \A i \in 1 .. L : i > 1 => i - 1 \in 1 .. L
    BY <1>1
  <2> HIDE DEF L
  <2>3. \A i \in 1 .. L : (IF i > 1 THEN reads[i - 1] ELSE IF out' = "READ" THEN sent' ELSE 0)
                          \in Nat
    BY <1>1, <1>2, <2>2
  <2> QED
    BY <1>1, <2>1, <2>2, <2>3
<1>4. stored' = (IF arriving # 0 THEN arriving ELSE stored) /\ stored' \in Nat
  BY <1>1 DEF Read
<1>5. owned => /\ stored' = (IF reads[L] # 0 THEN reads[L] ELSE stored)
               /\ reads[L] # 0 => reads[L] = stored + 1 /\ reads[L] <= sent
  BY <1>1, <1>4, Arrival DEF InFlight
<1>6. out' = "READ" <=> reads'[1] # 0
  BY <1>1, <1>2, <1>3
<1> HIDE DEF L, arriving
<1> USE DEF L
<1>7. ASSUME NEW i \in 1 .. L - 1, reads'[i] # 0
      PROVE  reads'[i + 1] = 0
  <2>1. i \in 1 .. L /\ i + 1 \in 1 .. L /\ i + 1 > 1 /\ (i + 1) - 1 = i
    BY <1>1
  <2>2. reads'[i + 1] = reads[i]
    BY <1>3, <2>1
  <2>3. CASE i = 1
    BY <1>6, <1>7, <2>2, <2>3 DEF Ticks, InFlight
  <2>4. CASE i # 1
    <3>1. i - 1 \in 1 .. L - 1 /\ reads'[i] = reads[i - 1] /\ (i - 1) + 1 = i
      BY <1>1, <1>3, <2>1, <2>4
    <3> QED
      BY <1>7, <2>2, <3>1 DEF InFlight
  <2> QED
    BY <2>3, <2>4
<1>8. ASSUME owned'
      PROVE  /\ stored' <= sent'
             /\ \A i \in 1 .. L : reads'[i] # 0 => stored' < reads'[i] /\ reads'[i] <= sent'
             /\ \A i, j \in 1 .. L : i < j /\ reads'[i] # 0 /\ reads'[j] # 0 => reads'[j] < reads'[i]
             /\ \A n \in (stored' + 1) .. sent' : \E i \in 1 .. L : reads'[i] = n
  <2>1. owned
    BY <1>8 DEF Ticks
  <2>2. /\ stored <= sent
        /\ \A i \in 1 .. L : reads[i] # 0 => stored < reads[i] /\ reads[i] <= sent
        /\ \A i, j \in 1 .. L : i < j /\ reads[i] # 0 /\ reads[j] # 0 => reads[j] < reads[i]
        /\ \A n \in (stored + 1) .. sent : \E i \in 1 .. L : reads[i] = n
    BY <2>1 DEF InFlight
  <2>3. stored' <= sent /\ sent <= sent' /\ stored <= stored'
    BY <1>1, <1>2, <1>4, <1>5, <2>1, <2>2
  <2>4. ASSUME NEW i \in 1 .. L, reads'[i] # 0
        PROVE  stored' < reads'[i] /\ reads'[i] <= sent'
    <3>1. CASE i = 1
      BY <1>1, <1>2, <1>3, <1>4, <2>3, <2>4, <3>1
    <3>2. CASE i # 1
      <4>1. i - 1 \in 1 .. L /\ reads'[i] = reads[i - 1] /\ i - 1 < L
        BY <1>1, <1>3, <3>2
      <4>2. stored < reads[i - 1] /\ reads[i - 1] <= sent
        BY <2>2, <2>4, <4>1
      <4>3. reads[L] # 0 => reads[L] < reads[i - 1]
        BY <1>1, <2>2, <2>4, <4>1
      <4> QED
        BY <1>1, <1>2, <1>5, <2>1, <2>3, <4>1, <4>2, <4>3
    <3> QED
      BY <3>1, <3>2
  <2>5. ASSUME NEW i \in 1 .. L, NEW j \in 1 .. L, i < j, reads'[i] # 0, reads'[j] # 0
        PROVE  reads'[j] < reads'[i]
    <3>1. j - 1 \in 1 .. L /\ reads'[j] = reads[j - 1]
      BY <1>1, <1>3, <2>5
    <3>2. CASE i = 1
      <4>1. reads'[1] = sent + 1
        BY <1>2, <1>3, <2>5, <3>2
      <4>2. reads[j - 1] <= sent
        BY <2>2, <2>5, <3>1
      <4> QED
        BY <1>1, <3>1, <3>2, <4>1, <4>2
    <3>3. CASE i # 1
      <4>1. i - 1 \in 1 .. L /\ reads'[i] = reads[i - 1] /\ i - 1 < j - 1
        BY <1>1, <1>3, <2>5, <3>3
      <4> QED
        BY <2>2, <2>5, <3>1, <4>1
    <3> QED
      BY <3>2, <3>3
  <2>6. ASSUME NEW n \in (stored' + 1) .. sent'
        PROVE  \E i \in 1 .. L : reads'[i] = n
    <3>1. n \in Nat /\ n # 0 /\ stored < n /\ stored' < n /\ n <= sent'
      BY <1>1, <1>2, <1>4, <2>3
    <3>2. CASE n > sent
      BY <1>1, <1>2, <1>3, <3>1, <3>2
    <3>3. CASE ~(n > sent)
      <4>1. n \in (stored + 1) .. sent
        BY <1>1, <3>1, <3>3
      <4>2. PICK i \in 1 .. L : reads[i] = n
        BY <2>2, <4>1
      <4>3. i # L
        BY <1>1, <1>4, <1>5, <2>1, <3>1, <4>2
      <4>4. i + 1 \in 1 .. L /\ i + 1 > 1 /\ (i + 1) - 1 = i
        BY <1>1, <4>3
      <4>5. reads'[i + 1] = n
        BY <1>3, <4>2, <4>4
      <4> QED
        BY <4>4, <4>5
    <3> QED
      BY <3>2, <3>3
  <2> QED
    BY <1>1, <1>2, <1>4, <2>3, <2>4, <2>5, <2>6
<1>9. InFlight'
  BY <1>6, <1>7, <1>8 DEF InFlight, Ticks
<1> QED
  BY <1>2, <1>3, <1>4, <1>9

\* The scratchpad takes what arrives, in a cycle in which it does not write,
\* or writes what has arrived a cycle ago, and counts it.
LEMMA ScratchpadInv ==
  ASSUME IndInv, Ticks, Read
  PROVE  /\ Collected'
         /\ scratchpad' \in [counter : ScratchAddress, overflow : BOOLEAN, adr : ScratchAddress,
                             dat_w : Nat, we : BOOLEAN]
         /\ scratch_mem' \in [ScratchAddress -> Nat]
<1> USE DEF IndInv
<1> DEFINE L == ReadLatency
           D == ScratchDepth
           n == IF owned THEN reads[L] ELSE 0
           c == Counted
<1>1. /\ L \in Nat /\ L \in 1 .. L /\ 1 \in 1 .. L /\ reads \in [1 .. L -> Nat]
      /\ stored \in Nat /\ n \in Nat /\ owned \in BOOLEAN /\ ~waiting /\ ~waiting'
      /\ D \in Nat \ {0} /\ D > 2
  BY HostAssumption DEF BoardTypes, Ticks
<1>2. /\ scratchpad \in [counter : ScratchAddress, overflow : BOOLEAN, adr : ScratchAddress,
                         dat_w : Nat, we : BOOLEAN]
      /\ scratch_mem \in [ScratchAddress -> Nat]
  BY DEF BoardTypes
<1>3. /\ scratchpad.we => /\ n = 0 /\ stored > 0 /\ scratchpad.dat_w = stored
                          /\ scratchpad.adr = scratchpad.counter
      /\ scratchpad.counter = c % D
      /\ (scratchpad.overflow <=> c >= D)
      /\ c < D => \A k \in 1 .. c : scratch_mem[k - 1] = k
      /\ c = (IF scratchpad.we THEN stored - 1 ELSE stored) /\ c \in Nat
  BY <1>1, <1>2 DEF Collected, Counted
<1>4. /\ stored' = (IF n # 0 THEN n ELSE stored) /\ Scratchpad(n)
      /\ n # 0 => n = stored + 1 /\ reads[L] # 0
  BY <1>1, Arrival DEF Read
<1>5. /\ c % D \in 0 .. D - 1 /\ (c < D => c % D = c)
      /\ (c + 1) % D = (IF c % D = D - 1 THEN 0 ELSE (c % D) + 1)
      /\ (c % D = D - 1 => c + 1 >= D)
  BY <1>1, <1>3, NextRemainder
<1>6. n # 0 => reads'[L] = 0
  <2> SUFFICES ASSUME reads[L] # 0 PROVE reads'[L] = 0
    BY <1>4
  <2>1. reads'[L] = (IF L > 1 THEN reads[L - 1] ELSE IF out' = "READ" THEN sent' ELSE 0)
    BY <1>1 DEF Read
  <2>2. CASE L = 1
    BY <2>1, <2>2 DEF InFlight, Ticks
  <2>3. CASE L # 1
    <3>1. L - 1 \in 1 .. L - 1 /\ (L - 1) + 1 = L /\ L > 1
      BY <1>1, <2>3
    <3>2. reads[L - 1] = 0
      BY <3>1 DEF InFlight
    <3> QED
      BY <2>1, <3>1, <3>2
  <2> QED
    BY <2>2, <2>3
<1> HIDE DEF L, D, n, c
<1>7. CASE scratchpad.we
  <2>1. n = 0 /\ stored' = stored /\ c = stored - 1 /\ stored > 0 /\ stored' = c + 1
    BY <1>1, <1>3, <1>4, <1>7
  <2>2. /\ scratchpad' = [NextCount EXCEPT !.adr = scratchpad.counter, !.dat_w = n,
                                           !.we = (n # 0)]
        /\ scratch_mem' = [scratch_mem EXCEPT ![scratchpad.adr] = scratchpad.dat_w]
    BY <1>1, <1>4, <1>7 DEF Scratchpad
  <2>3. /\ NextCount \in [counter : ScratchAddress, overflow : BOOLEAN, adr : ScratchAddress,
                          dat_w : Nat, we : BOOLEAN]
        /\ NextCount.counter = (c + 1) % D
        /\ NextCount.overflow = (IF c % D = D - 1 THEN TRUE ELSE scratchpad.overflow)
    <3>1. CASE c % D = D - 1
      <4>1. NextCount = [scratchpad EXCEPT !.counter = 0, !.overflow = TRUE]
        BY <1>3, <3>1 DEF NextCount, D
      <4>2. 0 \in ScratchAddress
        BY <1>1 DEF D, ScratchAddress
      <4> QED
        BY <1>2, <1>5, <3>1, <4>1, <4>2
    <3>2. CASE c % D # D - 1
      <4>1. NextCount = [scratchpad EXCEPT !.counter = ((c % D) + 1) % CounterMod]
        BY <1>3, <3>2 DEF NextCount, D
      <4>2. (c % D) + 1 \in Nat /\ (c % D) + 1 < D
        BY <1>1, <1>5, <3>2
      <4> DEFINE r == (c % D) + 1
      <4>3. r % CounterMod = r
        <5>1. CounterMod \in Nat \ {0} /\ r < CounterMod /\ r \in Nat
          BY <1>1, <4>2, CounterFits DEF D
        <5> HIDE DEF r
        <5> QED
          BY <5>1, NextRemainder
      <4>4. r \in ScratchAddress
        BY <1>1, <4>2 DEF ScratchAddress, D
      <4>5. NextCount = [scratchpad EXCEPT !.counter = r]
        BY <4>1, <4>3
      <4> HIDE DEF r
      <4>6. NextCount.counter = r /\ NextCount.overflow = scratchpad.overflow
        BY <1>2, <4>5
      <4>7. NextCount \in [counter : ScratchAddress, overflow : BOOLEAN, adr : ScratchAddress,
                           dat_w : Nat, we : BOOLEAN]
        BY <1>2, <4>4, <4>5
      <4> QED
        BY <1>5, <3>2, <4>6, <4>7 DEF r
    <3> QED
      BY <3>1, <3>2
  <2>4. /\ scratchpad'.we = FALSE /\ scratchpad'.counter = (c + 1) % D
        /\ scratchpad'.overflow = (IF c % D = D - 1 THEN TRUE ELSE scratchpad.overflow)
        /\ scratchpad' \in [counter : ScratchAddress, overflow : BOOLEAN, adr : ScratchAddress,
                            dat_w : Nat, we : BOOLEAN]
    BY <1>2, <2>1, <2>2, <2>3
  <2>5. scratchpad'.overflow <=> c + 1 >= D
    BY <1>1, <1>3, <1>5, <2>4
  <2>6. ASSUME c + 1 < D, NEW k \in 1 .. (c + 1)
        PROVE  scratch_mem'[k - 1] = k
    <3>1. scratchpad.adr = c /\ scratchpad.dat_w = c + 1 /\ k - 1 \in ScratchAddress
      BY <1>1, <1>3, <1>5, <1>7, <2>1, <2>6 DEF ScratchAddress, D
    <3>2. scratch_mem'[k - 1] = (IF k - 1 = c THEN c + 1 ELSE scratch_mem[k - 1])
      BY <1>2, <2>2, <3>1
    <3> QED
      BY <1>1, <1>3, <2>6, <3>2
  <2>7. Counted' = c + 1
    BY <2>1, <2>4 DEF Counted
  <2>8. Collected'
    BY <2>4, <2>5, <2>6, <2>7 DEF Collected, D
  <2>9. scratch_mem' \in [ScratchAddress -> Nat]
    BY <1>2, <2>2
  <2> QED
    BY <2>4, <2>8, <2>9
<1>8. CASE ~scratchpad.we
  <2>1. /\ scratchpad' = [scratchpad EXCEPT !.adr = scratchpad.counter, !.dat_w = n,
                                            !.we = (n # 0)]
        /\ scratch_mem' = scratch_mem
    BY <1>1, <1>4, <1>8 DEF Scratchpad
  <2>2. /\ scratchpad'.counter = scratchpad.counter /\ scratchpad'.adr = scratchpad.counter
        /\ scratchpad'.dat_w = n /\ scratchpad'.we = (n # 0)
        /\ scratchpad'.overflow = scratchpad.overflow
        /\ scratchpad' \in [counter : ScratchAddress, overflow : BOOLEAN, adr : ScratchAddress,
                            dat_w : Nat, we : BOOLEAN]
    BY <1>1, <1>2, <2>1
  <2>3. Counted' = c /\ (n # 0 => stored' = n /\ stored' > 0)
    BY <1>1, <1>3, <1>4, <1>8, <2>2 DEF Counted
  <2>4. Collected'
    BY <1>3, <1>6, <2>1, <2>2, <2>3 DEF Collected, D, L
  <2> QED
    BY <1>2, <2>1, <2>2, <2>4
<1> QED
  BY <1>2, <1>7, <1>8

\* While a start waits for its refresh the pipelines are empty and the
\* scratchpad is cleared.
LEMMA WaitingInv ==
  ASSUME IndInv, waiting, Read, out' # "READ", owned' \in BOOLEAN, on' \in BOOLEAN,
         \/ waiting' /\ ~on' /\ ~owned'
         \/ ~waiting' /\ owned'
  PROVE  /\ InFlight' /\ Collected'
         /\ reads' \in [1 .. ReadLatency -> Nat] /\ sent' \in Nat /\ stored' \in Nat
         /\ scratchpad' \in [counter : ScratchAddress, overflow : BOOLEAN, adr : ScratchAddress,
                             dat_w : Nat, we : BOOLEAN]
         /\ scratch_mem' \in [ScratchAddress -> Nat]
<1> USE DEF IndInv
<1>1. /\ ReadLatency \in Nat \ {0} /\ reads \in [1 .. ReadLatency -> Nat]
      /\ \A i \in 1 .. ReadLatency : reads[i] = 0
      /\ sent = 0 /\ stored = 0 /\ ~owned
  BY HostAssumption DEF BoardTypes, InFlight
<1>2. sent' = 0 /\ stored' = 0
  BY <1>1 DEF Read
<1>3. reads' \in [1 .. ReadLatency -> Nat] /\ \A i \in 1 .. ReadLatency : reads'[i] = 0
  <2>1. reads' = [i \in 1 .. ReadLatency |-> IF i > 1 THEN reads[i - 1] ELSE 0]
    BY <1>1 DEF Read
  <2>2. \A i \in 1 .. ReadLatency : i > 1 => i - 1 \in 1 .. ReadLatency
    BY <1>1
  <2> QED
    BY <1>1, <2>1, <2>2
<1>4. scratchpad' = CleanScratchpad
  BY DEF Read, Scratchpad
<1>5. /\ scratchpad' \in [counter : ScratchAddress, overflow : BOOLEAN, adr : ScratchAddress,
                          dat_w : Nat, we : BOOLEAN]
      /\ ~scratchpad'.we /\ scratchpad'.counter = 0 /\ scratchpad'.overflow = FALSE
  BY <1>4, HostAssumption DEF CleanScratchpad, ScratchAddress
<1>6. scratch_mem' \in [ScratchAddress -> Nat]
  BY DEF Read, Scratchpad, BoardTypes
<1>7. InFlight'
  BY <1>1, <1>2, <1>3 DEF InFlight
<1>8. Collected'
  <2>1. Counted' = 0
    BY <1>2, <1>5 DEF Counted
  <2>2. 0 % ScratchDepth = 0 /\ ~(0 >= ScratchDepth)
    BY HostAssumption
  <2> QED
    BY <1>5, <2>1, <2>2 DEF Collected
<1> QED
  BY <1>2, <1>3, <1>5, <1>6, <1>7, <1>8

LEMMA ClockInv ==
  ASSUME IndInv, McRefresh \/ ExecutorCycle \/ IdleCycle
  PROVE  IndInv'
<1> USE DEF IndInv
<1>1. /\ UNCHANGED <<mem, pc, payload, written, scripts, bus, sram, owner>>
      /\ completed \subseteq completed' /\ Read
  BY DEF McRefresh, ExecutorCycle, IdleCycle, Begin, Wait, Halt, Jump, FallThrough, Send, vars,
         hostVars, busVars
<1>2. HostTypes' /\ Access' /\ Transferred'
  BY <1>1 DEF HostTypes, Access, Transferred
<1>3. at \in Address /\ 0 \in Address /\ {on, waiting, owned} \subseteq BOOLEAN
  BY DepthAssumption DEF BoardTypes, Address
<1>4. SUFFICES
      /\ at' \in Address /\ {on', waiting', owned'} \subseteq BOOLEAN
      /\ Started'
      /\ \/ Ticks
         \/ /\ waiting /\ out' # "READ"
            /\ \/ waiting' /\ ~on' /\ ~owned'
               \/ ~waiting' /\ owned'
  <2>1. CASE Ticks
    BY <1>1, <1>2, <1>4, <2>1, FlowInv, ScratchpadInv DEF BoardTypes
  <2>2. CASE ~Ticks
    BY <1>1, <1>2, <1>4, <2>2, WaitingInv DEF BoardTypes
  <2> QED
    BY <2>1, <2>2
<1>5. CASE McRefresh
  <2>1. ~owned /\ ~on
    BY <1>5 DEF McRefresh, InFlight
  <2>2. CASE waiting /\ Granted
    BY <1>1, <1>3, <1>5, <2>1, <2>2 DEF McRefresh, Begin, Started
  <2>3. CASE ~(waiting /\ Granted)
    <3>1. UNCHANGED <<on, at, left, out, waiting, owned>>
      BY <1>5, <2>3 DEF McRefresh, vars
    <3>2. out # "READ"
      BY <2>1 DEF InFlight
    <3>3. Started'
      BY <1>1, <3>1 DEF Started
    <3> QED
      BY <1>3, <2>1, <3>1, <3>2, <3>3 DEF Ticks
  <2> QED
    BY <2>2, <2>3
<1>6. CASE ExecutorCycle
  <2>1. Wait \/ Halt \/ Jump \/ FallThrough \/ Send
    BY <1>6 DEF ExecutorCycle
  <2>2. /\ on /\ on' \in BOOLEAN /\ at' \in Address
        /\ out' = "READ" => out # "READ" /\ on' /\ left' # 0
    BY <2>1, CycleOfPayload
  <2>3. owned /\ ~waiting /\ UNCHANGED <<owned, waiting>>
    BY <1>6, <2>2 DEF ExecutorCycle, InFlight
  <2>4. Started'
    <3>1. ~on' => completed' = completed \cup {owner}
      BY <1>6 DEF ExecutorCycle
    <3> QED
      BY <1>1, <2>2, <2>3, <3>1 DEF Started
  <2> QED
    BY <1>3, <2>2, <2>3, <2>4 DEF Ticks
<1>7. CASE IdleCycle
  <2>1. ~on /\ ~owned' /\ UNCHANGED <<on, at, left, out, waiting>> /\ owned' \in BOOLEAN
    BY <1>7 DEF IdleCycle, vars
  <2>2. out # "READ"
    BY <2>1 DEF InFlight
  <2>3. Started'
    BY <1>1, <2>1 DEF Started
  <2> QED
    BY <1>3, <2>1, <2>2, <2>3 DEF Ticks
<1> QED
  BY <1>5, <1>6, <1>7

-----------------------------------------------------------------------------
(* What a script may rely on *)

LEMMA NextInv == IndInv /\ [HostNext]_allVars => IndInv'
<1> SUFFICES ASSUME IndInv, [HostNext]_allVars PROVE IndInv'
  OBVIOUS
<1>1. CASE UNCHANGED allVars
  BY <1>1 DEF allVars, vars, hostVars, busVars, grantVars, scratchVars, IndInv, HostTypes,
              BoardTypes, Access, Transferred, Started, InFlight, Collected, Counted
<1> QED
  BY <1>1, HostInv, SramInv, ClockInv DEF HostNext

\* The invariant holds in every behaviour, whatever is killed and when.
THEOREM Invariance == HostSpec => []IndInv
  BY InitInv, NextInv, PTL DEF HostSpec

\* What execute_payload transfers is what the executor executes, from its
\* start to its end, for payloads of any length, in a memory in which killed
\* scripts have left parts of theirs, with an access of one of them still on
\* the bus.
THEOREM OwnPayloadExecuted == HostSpec => []OwnPayload
<1>1. IndInv => OwnPayload
  <2> SUFFICES ASSUME IndInv, owner = scripts PROVE \A k \in DOMAIN payload : mem[k - 1] = payload[k]
    BY DEF OwnPayload
  <2>1. DOMAIN payload = 1 .. Len(payload)
    BY PayloadWord DEF IndInv
  <2> QED
    BY <2>1 DEF IndInv, Started, Transferred
<1> QED
  BY <1>1, Invariance, PTL

\* When execute_payload has seen ready after its start, that is the ready of
\* its own payload.
THEOREM DoneWhenReturned == HostSpec => []ReturnsWhenDone
<1>1. IndInv => ReturnsWhenDone
  BY DEF IndInv, Started, ReturnsWhenDone
<1> QED
  BY <1>1, Invariance, PTL

\* The scratchpad has the data of the READs, in order and counted modulo its
\* depth, for every depth that the width of the counter fits and every latency
\* of the memory.
THEOREM ScratchpadIsExact == HostSpec => []ScratchpadExact
<1>1. IndInv => ScratchpadExact
  <2> SUFFICES ASSUME IndInv, ~waiting, ~owned, Drained
               PROVE  IF stored < ScratchDepth
                      THEN /\ ~scratchpad.overflow
                           /\ scratchpad.counter = stored
                           /\ \A k \in 1 .. stored : scratch_mem[k - 1] = k
                      ELSE scratchpad.overflow /\ scratchpad.counter = stored % ScratchDepth
    BY DEF ScratchpadExact
  <2>1. Counted = stored /\ stored \in Nat
    BY DEF IndInv, Drained, Counted, BoardTypes
  <2>2. stored < ScratchDepth => stored % ScratchDepth = stored
    BY <2>1, HostAssumption, NextRemainder
  <2> QED
    BY <2>1, <2>2, HostAssumption DEF IndInv, Collected
<1> QED
  BY <1>1, Invariance, PTL

=============================================================================
