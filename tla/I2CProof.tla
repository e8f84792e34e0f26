------------------------------ MODULE I2CProof ------------------------------
(***************************************************************************)
(* Every call of the I2C functions gets the results of its own entries,    *)
(* and the SPD is read page by page, for every FIFO, page and register     *)
(* size and whatever the device refuses.                                   *)
(***************************************************************************)
EXTENDS I2C, SequenceTheorems, TLAPS

-----------------------------------------------------------------------------
\* A transfer as one list of entries

Reads ==
  {ReadCall(length, stop) : length \in Lengths \cup {PageLength}, stop \in BOOLEAN}
Writes == {WriteCall(<<page>>) : page \in 0 .. Pages - 1}
Transfers == {c \in Reads \cup Writes : ~TooLong(c)}

\* Entries with a register address, and before the data
Addressed == 1 + reg_addr_size
Before(c) ==
  IF c.kind = "read" THEN Addressed + (IF c.send_stop THEN 2 ELSE 1) ELSE Addressed
Total(c) == Before(c) + c.length

EntryAt(c, i) ==
  IF i = 1 THEN Address("write")
  ELSE IF i <= Addressed
  THEN [I2CQueueEntry EXCEPT !.kind = "byte", !.data = Byte(c.reg, i - 2), !.ack = 1]
  ELSE IF i > Before(c) THEN DataEntry(c, i - Before(c) - 1)
  ELSE IF i = Before(c) THEN Address("read")
  ELSE I2CQueueEntry

\* Entries that have been taken, and the results they have brought: none for
\* a stop condition
Taken == Total(call) - Len(wfifo)
Brought(c, k) == IF k > Addressed /\ c.kind = "read" /\ c.send_stop THEN k - 1 ELSE k

\* Results that the host has read
Seen == Discarded(call) - discard_reads + Len(ret)

-----------------------------------------------------------------------------
\* The inductive invariant

InTransfer == pc \in {"loop", "refill", "collect", "wait", "abort"}
InPoll == pc \in {"poll_write", "poll_read"}

Entry ==
  [kind : {"stop", "byte", "write", "read"}, data : Int, ack : {0, 1},
   idle : BOOLEAN, abort_on_nack : BOOLEAN]
Value == Int \cup Int \X Int
Answer == [data : Value, ack : {0, 1}]
Device == [page : Int, mode : {"none", "write", "read"}, got : 0 .. reg_addr_size, at : Int]

TypeOK ==
  /\ pc \in {"ready", "loop", "refill", "collect", "wait", "abort", "poll_write", "poll_read"}
  /\ fsm \in {"idle", "run", "stop", "abort"}
  /\ wfifo \in Seq(Entry)
  /\ rfifo \in Seq(Answer)
  /\ ret \in Seq(Value)
  /\ device \in Device
  /\ ctrl \in {0, 1} /\ nacks \in Nat
  /\ discard_reads \in Nat

\* The worker has taken entries in order and is where the next one tells it.
Progress ==
  /\ ctrl = 0
  /\ Taken \in 0 .. Total(call)
  /\ \A i \in 1 .. Len(wfifo) : wfifo[i] = EntryAt(call, Taken + i)
  /\ fsm \in {"run", "stop", "idle"}
  /\ fsm = "run" <=> wfifo # << >>
  /\ Seen + Len(rfifo) = Brought(call, Taken)

\* What the device has understood of the entries taken
Understood ==
  /\ Taken > 0 /\ (call.kind = "read" => Taken < Before(call)) =>
       /\ device.mode = "write"
       /\ device.got = (IF Taken <= Addressed THEN Taken - 1 ELSE reg_addr_size)
       /\ Taken > 1 => device.at = call.reg % 256 ^ device.got
  /\ call.kind = "read" /\ Taken >= Before(call) =>
       device.mode = "read" /\ device.at = call.reg + (Taken - Before(call))

\* The bytes that a read has brought, read by the host or not
OwnBytes ==
  call.kind = "read" =>
    /\ \A i \in 1 .. Len(ret) : ret[i] = <<device.page, call.reg + i - 1>>
    /\ \A i \in 1 .. Len(rfifo) : Seen + i > Discarded(call) =>
         rfifo[i].data = <<device.page, call.reg + (Seen + i - Discarded(call)) - 1>>

\* An entry of the header was refused, and no result is of data.
Refused ==
  /\ ctrl = 0 /\ fsm = "abort" /\ pc # "wait"
  /\ Seen + Len(rfifo) <= Discarded(call) /\ Len(wfifo) <= Total(call)

\* After the abort
Cleared ==
  /\ pc = "wait" /\ fsm = "idle" /\ wfifo = << >> /\ rfifo = << >>
  /\ ret = << >>

TransferInv ==
  InTransfer =>
    /\ call \in Transfers /\ sent = call.length
    /\ discard_reads \in 0 .. Discarded(call)
    /\ ret # << >> => discard_reads = 0
    /\ pc = "abort" => fsm = "abort"
    /\ pc = "wait" => Cleared \/ Len(ret) >= call.length
    /\ Cleared \/ Refused \/ (Progress /\ Understood /\ OwnBytes)

\* The refusals since the poll has begun, and the answer to come
PollInv ==
  InPoll =>
    /\ call.kind = "poll" /\ call.refused \in Nat
    /\ \/ ctrl = 1 /\ fsm = "idle" /\ wfifo = << >> /\ rfifo = << >>
       \/ /\ ctrl = 0
          /\ \/ /\ pc = "poll_write" /\ fsm = "run"
                /\ wfifo = <<PollLast("write")>> /\ rfifo = << >> /\ nacks = call.refused
             \/ /\ pc = "poll_write" /\ fsm \in {"stop", "idle"}
                /\ wfifo = << >> /\ Len(rfifo) = 1 /\ nacks = call.refused + rfifo[1].ack
             \/ /\ pc = "poll_read" /\ fsm = "run"
                /\ wfifo = <<[Address("read") EXCEPT !.abort_on_nack = FALSE],
                             [PollLast("byte") EXCEPT !.data = 255]>>
                /\ rfifo = << >> /\ nacks = call.refused + 1
             \/ /\ pc = "poll_read" /\ fsm = "run" /\ device.mode # "write"
                /\ wfifo = <<[PollLast("byte") EXCEPT !.data = 255]>>
                /\ Len(rfifo) = 1 /\ nacks = call.refused + 1 + rfifo[1].ack
             \/ /\ pc = "poll_read" /\ fsm \in {"stop", "idle"}
                /\ wfifo = << >> /\ Len(rfifo) = 2 /\ nacks = call.refused + 1 + rfifo[1].ack

ReadyInv ==
  pc = "ready" => fsm = "idle" /\ wfifo = << >> /\ rfifo = << >>

\* What has been returned stays true until the next call.
LastInv ==
  /\ last.call.kind # "none" => pc = "ready"
  /\ last.call.kind = "read" /\ last.value # None =>
       last.value = [i \in 1 .. last.call.length |-> <<device.page, last.call.reg + i - 1>>]
  /\ last.call.kind = "poll" /\ ctrl = 0 =>
       last.value = (nacks - last.call.refused < 2)

\* The page whose data are to be read is selected, or its selection refused.
Selected == device.page = spd.page \/ spd.page \in missed

SpdInv ==
  /\ spd \in [state : {"off", "raised", "write", "read", "done"}, page : Nat, data : Seq(Value)]
  /\ spd.state \in {"write", "read"} =>
       /\ spd.page \in 0 .. Pages - 1
       /\ ~InPoll
       /\ InTransfer => call = IF spd.state = "write" THEN WriteCall(<<spd.page>>)
                               ELSE ReadCall(PageLength, FALSE)
  /\ spd.state = "done" => spd.page = Pages
  /\ spd.state \in {"write", "read", "done"} =>
       /\ Len(spd.data) = spd.page * PageLength
       /\ \A p \in (0 .. spd.page - 1) \ missed : \A i \in 1 .. PageLength :
            spd.data[p * PageLength + i] = <<p, DataReg + i - 1>>
  /\ spd.state = "write" /\ InTransfer /\ (wfifo = << >> \/ fsm = "abort") => Selected
  /\ spd.state = "read" => Selected

IndInv == TypeOK /\ TransferInv /\ PollInv /\ ReadyInv /\ LastInv /\ SpdInv

-----------------------------------------------------------------------------
\* The first entry of a FIFO, and what is behind it
LEMMA FirstEntry ==
  ASSUME NEW S, NEW fifo \in Seq(S), Len(fifo) >= 1
  PROVE  /\ fifo # << >> /\ Head(fifo) = fifo[1] /\ fifo[1] \in S
         /\ Tail(fifo) \in Seq(S) /\ Len(Tail(fifo)) = Len(fifo) - 1
         /\ \A i \in 1 .. Len(fifo) - 1 : Tail(fifo)[i] = fifo[i + 1]
         /\ Len(fifo) = 1 => Tail(fifo) = << >>
<1>1. Len(fifo) \in Nat
  OBVIOUS
<1>2. fifo # << >>
  BY <1>1, EmptySeq
<1>3. Tail(fifo) \in Seq(S) /\ Len(Tail(fifo)) = Len(fifo) - 1
      /\ \A i \in 1 .. Len(fifo) - 1 : Tail(fifo)[i] = fifo[i + 1]
  BY <1>2, HeadTailProperties
<1>4. Head(fifo) = fifo[1]
  OBVIOUS
<1>6. fifo[1] \in S
  BY <1>1, ElementOfSeq
<1>5. Len(fifo) = 1 => Tail(fifo) = << >>
  <2> SUFFICES ASSUME Len(fifo) = 1 PROVE Tail(fifo) = << >>
    OBVIOUS
  <2>1. Len(Tail(fifo)) = 0
    BY <1>3
  <2> QED
    BY <1>3, <2>1, EmptySeq
<1> QED
  BY <1>2, <1>3, <1>4, <1>5, <1>6

-----------------------------------------------------------------------------
\* Transfers

\* What is known of every transfer
LEMMA TransferFacts ==
  ASSUME NEW c \in Transfers
  PROVE  /\ c.kind \in {"read", "write"}
         /\ c.kind = "read" => c.send_stop \in BOOLEAN
         /\ c.kind = "write" => c.length = 1 /\ c.data[1] \in Int
         /\ c.length \in Nat \ {0} /\ reg_addr_size \in Nat \ {0}
         /\ c.reg \in 0 .. 256 ^ reg_addr_size - 1
         /\ Before(c) \in Nat /\ Total(c) \in Nat /\ Total(c) <= Depth
         /\ Before(c) >= Addressed /\ Addressed = 1 + reg_addr_size
         /\ Discarded(c) = Brought(c, Before(c)) /\ Discarded(c) \in Nat
<1>0. /\ reg_addr_size \in Nat \ {0} /\ Pages \in Nat \ {0} /\ PageLength \in Nat \ {0}
      /\ PageLength + 3 + reg_addr_size <= Depth
      /\ Lengths \subseteq Nat \ {0}
      /\ PageReg \in 0 .. 256 ^ reg_addr_size - 1 /\ DataReg \in 0 .. 256 ^ reg_addr_size - 1
  BY I2CAssumption
<1>d. Depth \in Int
  BY I2CAssumption
<1>t. c \in Reads \cup Writes /\ ~TooLong(c)
  BY DEF Transfers
<1>1. CASE c \in Reads
  <2>1. PICK length \in Lengths \cup {PageLength}, stop \in BOOLEAN : c = ReadCall(length, stop)
    BY <1>1 DEF Reads
  <2>2. /\ c.kind = "read" /\ c.send_stop = stop /\ c.length = length /\ c.reg = DataReg
    BY <2>1 DEF ReadCall
  <2>3. length \in Nat \ {0}
    BY <1>0
  <2>4. length + 3 + reg_addr_size <= Depth
    BY <1>t, <1>0, <1>d, <2>2, <2>3 DEF TooLong
  <2> QED
    BY <1>0, <1>d, <2>2, <2>3, <2>4 DEF Before, Total, Addressed, Discarded, Brought
<1>2. CASE c \in Writes
  <2>1. PICK page \in 0 .. Pages - 1 : c = WriteCall(<<page>>)
    BY <1>2 DEF Writes
  <2>2. c.kind = "write" /\ c.length = 1 /\ c.reg = PageReg /\ c.data = <<page>>
    BY <2>1 DEF WriteCall
  <2> QED
    BY <1>0, <1>d, <2>2 DEF Before, Total, Addressed, Discarded, Brought
<1> QED
  BY <1>t, <1>1, <1>2

\* An address entry is a byte to be acknowledged and neither ends a transfer
\* nor is optional.
LEMMA AddressFacts ==
  ASSUME NEW k \in {"write", "read", "byte"}
  PROVE  /\ I2CQueueEntry \in Entry /\ Address(k) \in Entry
         /\ Address(k).kind = k /\ Address(k).idle = FALSE /\ Address(k).abort_on_nack = TRUE
<1>1. I2CQueueEntry \in Entry
  BY DEF I2CQueueEntry, Entry
<1>2. Address(k) \in Entry
  BY <1>1 DEF Entry, Address
<1>3. Address(k).kind = k /\ Address(k).idle = FALSE /\ Address(k).abort_on_nack = TRUE
  BY DEF I2CQueueEntry, Address
<1> QED
  BY <1>1, <1>2, <1>3

\* An entry of a transfer, by its place
LEMMA EntryFacts ==
  ASSUME NEW c \in Transfers, NEW i \in 1 .. Total(c)
  PROVE  /\ EntryAt(c, i) \in Entry
         /\ i = 1 => /\ EntryAt(c, i).kind = "write"
         /\ i \in 2 .. Addressed => /\ EntryAt(c, i).kind = "byte"
                                   /\ EntryAt(c, i).data = Byte(c.reg, i - 2)
         /\ i > Before(c) => EntryAt(c, i).kind = "byte"
         /\ i > Before(c) /\ c.kind = "write" => EntryAt(c, i).data = c.data[1]
         /\ c.kind = "read" /\ i = Before(c) => EntryAt(c, i).kind = "read"
         /\ c.kind = "read" /\ i > Addressed /\ i < Before(c) =>
              EntryAt(c, i).kind = "stop" /\ c.send_stop /\ i = Addressed + 1
         /\ EntryAt(c, i).idle = (i = Total(c))
         /\ EntryAt(c, i).abort_on_nack = (i # Total(c))
<1> DEFINE e == EntryAt(c, i)
<1>0. /\ c.kind \in {"read", "write"}
      /\ c.kind = "read" => c.send_stop \in BOOLEAN
      /\ c.kind = "write" => c.length = 1 /\ c.data[1] \in Int
      /\ c.length \in Nat \ {0} /\ reg_addr_size \in Nat \ {0}
      /\ c.reg \in Int
      /\ Before(c) \in Nat /\ Total(c) \in Nat
      /\ Before(c) >= Addressed /\ Addressed = 1 + reg_addr_size
  BY TransferFacts
<1>1. Total(c) = Before(c) + c.length
  BY DEF Total
<1>b. Before(c) = IF c.kind = "read" THEN Addressed + (IF c.send_stop THEN 2 ELSE 1) ELSE Addressed
  BY DEF Before
<1>2. CASE i = 1
  <2>1. e = Address("write")
    BY <1>2 DEF EntryAt
  <2> HIDE DEF e
  <2>2. e \in Entry /\ e.kind = "write" /\ e.idle = FALSE /\ e.abort_on_nack = TRUE
    BY <2>1, AddressFacts
  <2>3. i # Total(c) /\ i \notin 2 .. Addressed /\ ~(i > Before(c)) /\ ~(i > Addressed) /\ i # Before(c)
    BY <1>0, <1>1, <1>2
  <2> QED
    BY <1>2, <2>2, <2>3 DEF e
<1>3. CASE i \in 2 .. Addressed
  <2>1. Byte(c.reg, i - 2) \in Int
    <3>1. i - 2 \in 0 .. reg_addr_size
      BY <1>0, <1>3
    <3>2. 256 ^ (i - 2) \in Nat \ {0}
      BY <3>1, PowersOf256
    <3>3. c.reg \div 256 ^ (i - 2) \in Int
      BY <1>0, <3>2
    <3> QED
      BY <3>3 DEF Byte
  <2>2. e = [I2CQueueEntry EXCEPT !.kind = "byte", !.data = Byte(c.reg, i - 2), !.ack = 1]
    BY <1>0, <1>3 DEF EntryAt
  <2> HIDE DEF e
  <2>3. /\ e \in Entry /\ e.kind = "byte" /\ e.data = Byte(c.reg, i - 2)
        /\ e.idle = FALSE /\ e.abort_on_nack = TRUE
    BY <2>1, <2>2 DEF I2CQueueEntry, Entry
  <2>4. i # Total(c) /\ ~(i > Before(c)) /\ ~(i > Addressed) /\ i # 1
        /\ (c.kind = "read" => i # Before(c))
    BY <1>0, <1>1, <1>b, <1>3
  <2> QED
    BY <2>3, <2>4 DEF e
<1>4. CASE i > Before(c)
  <2>1. e = DataEntry(c, i - Before(c) - 1)
    BY <1>0, <1>4 DEF EntryAt
  <2>2. IsLast(c, i - Before(c) - 1) <=> i = Total(c)
    BY <1>0, <1>1 DEF IsLast
  <2>3. c.kind = "write" => c.data[i - Before(c) - 1 + 1] = c.data[1]
    BY <1>0, <1>1, <1>4
  <2>4. DataEntry(c, i - Before(c) - 1) \in Entry
    BY <1>0, <2>3 DEF DataEntry, Entry, IsLast
  <2> HIDE DEF e
  <2>5. /\ e.kind = "byte" /\ (c.kind = "write" => e.data = c.data[1])
        /\ e.idle = (i = Total(c)) /\ e.abort_on_nack = (i # Total(c))
    BY <2>1, <2>2, <2>3, <1>0 DEF DataEntry, IsLast
  <2>6. i # 1 /\ i > Addressed /\ ~(i <= Before(c)) /\ i # Before(c)
    BY <1>0, <1>4
  <2> QED
    BY <2>1, <2>4, <2>5, <2>6, <1>0, <1>4 DEF e
<1>5. CASE i = Before(c) /\ i > Addressed
  <2>1. e = Address("read")
    BY <1>0, <1>5 DEF EntryAt
  <2> HIDE DEF e
  <2>2. e \in Entry /\ e.kind = "read" /\ e.idle = FALSE /\ e.abort_on_nack = TRUE
    BY <2>1, AddressFacts
  <2>3. i # Total(c) /\ i \notin 2 .. Addressed /\ ~(i > Before(c)) /\ ~(i < Before(c)) /\ ~(i <= Addressed) /\ i # 1
    BY <1>0, <1>1, <1>5
  <2> QED
    BY <1>0, <2>2, <2>3 DEF e
<1>6. CASE i > Addressed /\ i < Before(c)
  <2>1. e = I2CQueueEntry
    BY <1>0, <1>6 DEF EntryAt
  <2> HIDE DEF e
  <2>2. e \in Entry /\ e.kind = "stop" /\ e.idle = FALSE /\ e.abort_on_nack = TRUE
    BY <2>1, AddressFacts DEF I2CQueueEntry
  <2>3. i # Total(c) /\ i \notin 2 .. Addressed /\ ~(i > Before(c)) /\ i # Before(c) /\ ~(i <= Addressed) /\ i # 1
        /\ c.kind = "read" /\ c.send_stop /\ i = Addressed + 1
    BY <1>0, <1>1, <1>b, <1>6
  <2> QED
    BY <1>0, <2>2, <2>3 DEF e
<1> QED
  BY <1>0, <1>2, <1>3, <1>4, <1>5, <1>6

\* What the host writes before it starts the worker is the whole transfer.
LEMMA WholeTransfer ==
  ASSUME NEW c \in Transfers
  PROVE  LET w == (<< >> \o Header(c)) \o DataEntries(c, 0, c.length)
         IN  /\ Fitting(c, 0, << >> \o Header(c)) = c.length
             /\ w \in Seq(Entry) /\ Len(w) = Total(c)
             /\ \A i \in 1 .. Total(c) : w[i] = EntryAt(c, i)
<1> DEFINE h == Header(c)
           d == DataEntries(c, 0, c.length)
           bytes == RegAddress(c.reg)
           first == <<Address("write")>>
           middle == IF c.kind = "read" THEN (IF c.send_stop THEN <<I2CQueueEntry>> ELSE << >>)
                                               \o <<Address("read")>>
                     ELSE << >>
<1>0. /\ c.kind \in {"read", "write"}
      /\ c.kind = "read" => c.send_stop \in BOOLEAN
      /\ c.length \in Nat \ {0} /\ reg_addr_size \in Nat \ {0}
      /\ Before(c) \in Nat /\ Total(c) \in Nat /\ Total(c) <= Depth
      /\ Before(c) >= Addressed /\ Addressed = 1 + reg_addr_size
      /\ Depth \in Nat
  BY TransferFacts, I2CAssumption
<1>1. Total(c) = Before(c) + c.length
  BY DEF Total
<1>b. Before(c) = IF c.kind = "read" THEN Addressed + (IF c.send_stop THEN 2 ELSE 1) ELSE Addressed
  BY DEF Before
<1>e. \A i \in 1 .. Total(c) : EntryAt(c, i) \in Entry
  BY EntryFacts
<1>a. I2CQueueEntry \in Entry /\ Address("write") \in Entry /\ Address("read") \in Entry
  BY AddressFacts
<1>2. /\ bytes \in Seq(Entry) /\ Len(bytes) = reg_addr_size
      /\ \A i \in 1 .. reg_addr_size : bytes[i] = EntryAt(c, i + 1)
  <2>1. \A i \in 1 .. reg_addr_size :
          EntryAt(c, i + 1) = [I2CQueueEntry EXCEPT !.kind = "byte", !.data = Byte(c.reg, i - 1),
                                                    !.ack = 1]
    <3> SUFFICES ASSUME NEW i \in 1 .. reg_addr_size
                 PROVE  EntryAt(c, i + 1) =
                          [I2CQueueEntry EXCEPT !.kind = "byte", !.data = Byte(c.reg, i - 1), !.ack = 1]
      OBVIOUS
    <3> DEFINE j == i + 1
    <3>1. j # 1 /\ j <= Addressed /\ j - 2 = i - 1
      BY <1>0
    <3> HIDE DEF j
    <3>2. EntryAt(c, j) =
            [I2CQueueEntry EXCEPT !.kind = "byte", !.data = Byte(c.reg, j - 2), !.ack = 1]
      BY <3>1 DEF EntryAt
    <3> QED
      BY <3>1, <3>2, Zenon DEF j
  <2>2. bytes = [i \in 1 .. reg_addr_size |-> EntryAt(c, i + 1)]
    BY <2>1 DEF RegAddress
  <2>3. \A i \in 1 .. reg_addr_size : EntryAt(c, i + 1) \in Entry
    BY <1>0, <1>1, <1>e
  <2> HIDE DEF bytes
  <2> QED
    BY <1>0, <2>2, <2>3
<1>3. /\ d \in Seq(Entry) /\ Len(d) = c.length
      /\ \A i \in 1 .. c.length : d[i] = EntryAt(c, Before(c) + i)
  <2>1. \A i \in 1 .. c.length : EntryAt(c, Before(c) + i) = DataEntry(c, 0 + i - 1)
    <3> SUFFICES ASSUME NEW i \in 1 .. c.length
                 PROVE  EntryAt(c, Before(c) + i) = DataEntry(c, 0 + i - 1)
      OBVIOUS
    <3> DEFINE j == Before(c) + i
    <3>1. /\ j # 1 /\ ~(j <= Addressed) /\ j > Before(c)
          /\ j - Before(c) - 1 = 0 + i - 1
      BY <1>0
    <3> HIDE DEF j
    <3>2. EntryAt(c, j) = DataEntry(c, j - Before(c) - 1)
      BY <3>1 DEF EntryAt
    <3> QED
      BY <3>1, <3>2, Zenon DEF j
  <2>2. d = [i \in 1 .. c.length |-> EntryAt(c, Before(c) + i)]
    BY <2>1 DEF DataEntries
  <2>3. \A i \in 1 .. c.length : EntryAt(c, Before(c) + i) \in Entry
    BY <1>0, <1>1, <1>e
  <2> HIDE DEF d
  <2> QED
    BY <1>0, <2>2, <2>3
<1>4. /\ middle \in Seq(Entry) /\ Len(middle) = Before(c) - Addressed
      /\ \A i \in 1 .. Len(middle) : middle[i] = EntryAt(c, Addressed + i)
  <2>1. CASE c.kind = "write"
    BY <1>0, <1>b, <2>1
  <2>2. CASE c.kind = "read" /\ c.send_stop
    <3> DEFINE s == <<I2CQueueEntry>>
               t == <<Address("read")>>
    <3>a. /\ s \in Seq(Entry) /\ Len(s) = 1 /\ s[1] = I2CQueueEntry
          /\ t \in Seq(Entry) /\ Len(t) = 1 /\ t[1] = Address("read")
      BY <1>a
    <3>0. middle = s \o t
      BY <2>2
    <3> HIDE DEF s, t, middle
    <3>b. /\ middle \in Seq(Entry) /\ Len(middle) = Len(s) + Len(t)
          /\ \A i \in 1 .. Len(s) + Len(t) :
               middle[i] = IF i <= Len(s) THEN s[i] ELSE t[i - Len(s)]
      BY <3>a, <3>0, ConcatProperties
    <3>1. middle \in Seq(Entry) /\ Len(middle) = 2
          /\ middle[1] = I2CQueueEntry /\ middle[2] = Address("read")
      BY <3>a, <3>b
    <3>2. EntryAt(c, Addressed + 1) = I2CQueueEntry /\ EntryAt(c, Addressed + 2) = Address("read")
      BY <1>0, <1>b, <2>2 DEF EntryAt
    <3> HIDE DEF middle
    <3> QED
      BY <1>0, <1>b, <1>a, <2>2, <3>1, <3>2
  <2>3. CASE c.kind = "read" /\ ~c.send_stop
    <3>1. middle = <<Address("read")>>
      BY <2>3, <1>a
    <3>2. EntryAt(c, Addressed + 1) = Address("read")
      BY <1>0, <1>b, <2>3 DEF EntryAt
    <3> HIDE DEF middle
    <3> QED
      BY <1>0, <1>b, <1>a, <2>3, <3>1, <3>2
  <2> QED
    BY <1>0, <2>1, <2>2, <2>3
<1>5. /\ first \in Seq(Entry) /\ Len(first) = 1 /\ first[1] = EntryAt(c, 1)
  BY <1>a DEF EntryAt
<1>6. h = (first \o bytes) \o middle
  BY DEF Header
<1> HIDE DEF first, bytes, middle, d, h
<1>7. /\ first \o bytes \in Seq(Entry) /\ Len(first \o bytes) = Addressed
      /\ \A i \in 1 .. Addressed : (first \o bytes)[i] = EntryAt(c, i)
  <2>1. /\ first \o bytes \in Seq(Entry) /\ Len(first \o bytes) = Len(first) + Len(bytes)
        /\ \A i \in 1 .. Len(first) + Len(bytes) :
             (first \o bytes)[i] = IF i <= Len(first) THEN first[i] ELSE bytes[i - Len(first)]
    BY <1>2, <1>5, ConcatProperties
  <2>2. ASSUME NEW i \in 1 .. Addressed
        PROVE  (first \o bytes)[i] = EntryAt(c, i)
    <3>1. CASE i = 1
      BY <3>1, <2>1, <1>0, <1>2, <1>5
    <3>2. CASE i # 1
      <4>1. i - 1 \in 1 .. reg_addr_size /\ (i - 1) + 1 = i
        BY <1>0, <3>2
      <4>2. bytes[i - 1] = EntryAt(c, i)
        BY <4>1, <1>2
      <4>3. i \in 1 .. Len(first) + Len(bytes) /\ ~(i <= Len(first)) /\ Len(first) = 1
        BY <4>1, <1>0, <1>2, <1>5
      <4>4. (first \o bytes)[i] = bytes[i - 1]
        BY <4>3, <2>1, Zenon
      <4> QED
        BY <4>2, <4>4
    <3> QED
      BY <3>1, <3>2
  <2> QED
    BY <2>1, <2>2, <1>0, <1>2, <1>5
<1>8. /\ h \in Seq(Entry) /\ Len(h) = Before(c)
      /\ \A i \in 1 .. Before(c) : h[i] = EntryAt(c, i)
  <2> DEFINE f == first \o bytes
  <2>0. f \in Seq(Entry) /\ Len(f) = Addressed /\ \A i \in 1 .. Addressed : f[i] = EntryAt(c, i)
    BY <1>7
  <2>h. h = f \o middle
    BY <1>6
  <2> HIDE DEF f
  <2>1. /\ h \in Seq(Entry) /\ Len(h) = Len(f) + Len(middle)
        /\ \A i \in 1 .. Len(f) + Len(middle) :
             h[i] = IF i <= Len(f) THEN f[i] ELSE middle[i - Len(f)]
    BY <2>0, <2>h, <1>4, ConcatProperties
  <2>2. ASSUME NEW i \in 1 .. Before(c)
        PROVE  h[i] = EntryAt(c, i)
    <3>1. CASE i <= Addressed
      BY <3>1, <2>0, <2>1, <1>0, <1>4
    <3>2. CASE i > Addressed
      <4>1. i - Addressed \in 1 .. Len(middle) /\ Addressed + (i - Addressed) = i
        BY <1>0, <1>4, <3>2
      <4>2. middle[i - Addressed] = EntryAt(c, i)
        BY <4>1, <1>4
      <4> QED
        BY <3>2, <4>1, <4>2, <2>0, <2>1, <1>0, <1>4
    <3> QED
      BY <3>1, <3>2, <1>0
  <2> QED
    BY <2>0, <2>1, <2>2, <1>0, <1>4
<1>9. << >> \o h = h
  BY <1>8, ConcatEmptySeq
<1>10. /\ h \o d \in Seq(Entry) /\ Len(h \o d) = Total(c)
       /\ \A i \in 1 .. Total(c) : (h \o d)[i] = EntryAt(c, i)
  <2>1. /\ h \o d \in Seq(Entry) /\ Len(h \o d) = Len(h) + Len(d)
        /\ \A i \in 1 .. Len(h) + Len(d) :
             (h \o d)[i] = IF i <= Len(h) THEN h[i] ELSE d[i - Len(h)]
    BY <1>3, <1>8, ConcatProperties
  <2>2. ASSUME NEW i \in 1 .. Total(c)
        PROVE  (h \o d)[i] = EntryAt(c, i)
    <3>1. CASE i <= Before(c)
      BY <3>1, <2>1, <1>0, <1>3, <1>8
    <3>2. CASE i > Before(c)
      <4>1. i - Before(c) \in 1 .. c.length /\ Before(c) + (i - Before(c)) = i
        BY <1>0, <1>1, <3>2
      <4>2. d[i - Before(c)] = EntryAt(c, i)
        BY <4>1, <1>3
      <4> QED
        BY <3>2, <4>1, <4>2, <2>1, <1>0, <1>1, <1>3, <1>8
    <3>3. i <= Before(c) \/ i > Before(c)
      BY <1>0
    <3> QED
      BY <3>1, <3>2, <3>3
  <2> QED
    BY <2>1, <2>2, <1>0, <1>1, <1>3, <1>8
<1>11. Fitting(c, 0, h) = c.length
  BY <1>0, <1>1, <1>8 DEF Fitting, Least
<1> QED
  BY <1>9, <1>10, <1>11 DEF h, d

\* The results of the first entries are discarded, and no more than those.
LEMMA BroughtFacts ==
  ASSUME NEW c \in Transfers, NEW k \in 0 .. Total(c)
  PROVE  /\ Brought(c, k) \in Nat
         /\ k >= Before(c) => Brought(c, k) = Discarded(c) + (k - Before(c))
         /\ k < Before(c) => Brought(c, k) < Discarded(c)
         /\ ~(k = Addressed /\ k + 1 < Before(c)) => Brought(c, k + 1) = Brought(c, k) + 1
         /\ k = Addressed /\ k + 1 < Before(c) => Brought(c, k + 1) = Brought(c, k)
<1>0. /\ c.kind \in {"read", "write"}
      /\ c.kind = "read" => c.send_stop \in BOOLEAN
      /\ Before(c) \in Nat /\ Total(c) \in Nat
      /\ Addressed \in Nat \ {0}
      /\ Discarded(c) = Brought(c, Before(c)) /\ Discarded(c) \in Nat
  BY TransferFacts
<1>b. Before(c) = IF c.kind = "read" THEN Addressed + (IF c.send_stop THEN 2 ELSE 1) ELSE Addressed
  BY DEF Before
<1> QED
  BY <1>0, <1>b DEF Brought

-----------------------------------------------------------------------------
\* Register addresses

\* A remainder is determined by the multiple it is above.
LEMMA Remainder ==
  ASSUME NEW d \in Nat \ {0}, NEW q \in Int, NEW r \in 0 .. d - 1
  PROVE  (d * q + r) % d = r
<1> DEFINE n == d * q + r
           k == n \div d
           m == n % d
<1>1. n \in Int /\ k \in Int /\ m \in 0 .. d - 1
  OBVIOUS
<1>2. n = d * k + m
  BY Z3
<1> HIDE DEF k, m
<1>3. d * (q - k) = m - r
  BY <1>1, <1>2
<1> DEFINE x == q - k
<1>4. x \in Int /\ d * x = m - r /\ m - r < d /\ m - r > -d
  BY <1>1, <1>3
<1> HIDE DEF x
<1>5. x < 1
  <2> SUFFICES ASSUME x >= 1 PROVE FALSE
    BY <1>4
  <2>1. d * x >= d
    BY <1>4
  <2> QED
    BY <1>4, <2>1
<1>6. x > -1
  <2> SUFFICES ASSUME x <= -1 PROVE FALSE
    BY <1>4
  <2>1. d * x <= -d
    BY <1>4
  <2> QED
    BY <1>4, <2>1
<1>7. x = 0
  BY <1>4, <1>5, <1>6
<1> QED
  BY <1>1, <1>4, <1>7 DEF m

\* A byte of a register address completes the bytes before it: the device
\* arrives at the address byte by byte.
LEMMA NextByte ==
  ASSUME NEW reg \in Nat, NEW k \in 0 .. reg_addr_size - 1
  PROVE  reg % 256 ^ (k + 1) = (reg % 256 ^ k) + Byte(reg, k) * 256 ^ k
<1> DEFINE p == 256 ^ k
           q == reg \div p
           r == reg % p
           b == q % 256
           t == q \div 256
<1>0. reg_addr_size \in Nat \ {0}
  BY I2CAssumption
<1>1. p \in Nat \ {0} /\ 256 ^ (k + 1) = 256 * p
  BY <1>0, PowersOf256
<1> HIDE DEF p
<1>2. q \in Int /\ r \in 0 .. p - 1
  BY <1>1
<1>3. reg = p * q + r
  BY <1>1, Z3
<1> HIDE DEF q, r
<1>4. b \in 0 .. 255 /\ t \in Int /\ q = 256 * t + b
  BY <1>2, Z3
<1> HIDE DEF b, t
<1>5. reg = (256 * p) * t + (b * p + r)
  <2>1. p * q = p * (256 * t + b)
    BY <1>4
  <2>2. p * (256 * t + b) = (256 * p) * t + b * p
    BY <1>1, <1>4
  <2>3. p * q \in Int /\ (256 * p) * t \in Int /\ b * p \in Int
    BY <1>1, <1>2, <1>4
  <2> QED
    BY <1>1, <1>2, <1>3, <2>1, <2>2, <2>3
<1>6. b * p + r \in 0 .. 256 * p - 1
  <2>1. b * p \in Int /\ b * p >= 0 /\ b * p <= 255 * p
    BY <1>1, <1>4
  <2> QED
    BY <1>1, <1>2, <2>1
<1>7. reg % (256 * p) = b * p + r
  <2>1. 256 * p \in Nat \ {0}
    BY <1>1
  <2> DEFINE x == b * p + r
             y == 256 * p
  <2>2. x \in 0 .. y - 1 /\ y \in Nat \ {0} /\ reg = y * t + x
    BY <1>5, <1>6, <2>1
  <2> HIDE DEF x, y
  <2>3. (y * t + x) % y = x
    BY <2>2, <1>4, Remainder
  <2> QED
    BY <2>2, <2>3 DEF x, y
<1>8. Byte(reg, k) = b /\ b * p \in Int
  BY <1>1, <1>4 DEF Byte, b, q, p
<1> QED
  BY <1>1, <1>2, <1>7, <1>8 DEF r, p

-----------------------------------------------------------------------------
\* Steps of the host

\* The next call begins with empty FIFOs.
LEMMA BeginStep ==
  ASSUME IndInv, pc = "ready", NEW c \in Reads \cup Writes, Begin(c), spd' = spd,
         spd.state = "write" => c = WriteCall(<<spd.page>>),
         spd.state = "read" => c = ReadCall(PageLength, FALSE)
  PROVE  IndInv'
<1>0. TypeOK /\ ReadyInv /\ SpdInv
  BY DEF IndInv
<1>1. c \in Transfers
  BY DEF Begin, Transfers
<1>2. fsm = "idle" /\ wfifo = << >> /\ rfifo = << >>
  BY <1>0 DEF ReadyInv
<1>3. /\ pc' = "loop" /\ call' = c /\ ret' = << >> /\ sent' = c.length
      /\ discard_reads' = Discarded(c) /\ last' = [call |-> NoCall, value |-> << >>]
      /\ ctrl' = 0 /\ fsm' = "run" /\ rfifo' = << >>
      /\ device' = device /\ nacks' = nacks /\ missed' = missed
      /\ wfifo' \in Seq(Entry) /\ Len(wfifo') = Total(c)
      /\ \A i \in 1 .. Total(c) : wfifo'[i] = EntryAt(c, i)
  <2> DEFINE header == << >> \o Header(c)
             w == header \o DataEntries(c, 0, c.length)
  <2>1. /\ Fitting(c, 0, header) = c.length
        /\ w \in Seq(Entry) /\ Len(w) = Total(c)
        /\ \A i \in 1 .. Total(c) : w[i] = EntryAt(c, i)
    BY <1>1, WholeTransfer
  <2>2. /\ pc' = "loop" /\ call' = c /\ ret' = << >> /\ sent' = Fitting(c, 0, header)
        /\ discard_reads' = Discarded(c) /\ last' = [call |-> NoCall, value |-> << >>]
        /\ ctrl' = 0 /\ UNCHANGED deviceVars
        /\ Start(0, header \o DataEntries(c, 0, Fitting(c, 0, header)), rfifo)
    BY <1>2 DEF Begin
  <2>3. Start(0, w, rfifo) /\ sent' = c.length
    BY <2>1, <2>2, Zenon
  <2> HIDE DEF w, header
  <2>4. fsm' = "run" /\ rfifo' = << >> /\ wfifo' = w
    BY <1>2, <2>3 DEF Start
  <2> QED
    BY <2>1, <2>2, <2>3, <2>4 DEF deviceVars
<1>4. /\ Total(c) \in Nat \ {0} /\ Discarded(c) \in Nat /\ Before(c) \in Nat \ {0}
      /\ Addressed \in Nat \ {0} /\ c.length \in Nat \ {0} /\ Total(c) <= Depth
  BY <1>1, TransferFacts DEF Total
<1>5. TypeOK'
  BY <1>0, <1>3, <1>4 DEF TypeOK
<1>6. TransferInv'
  <2>1. Taken' = 0
    BY <1>3, <1>4 DEF Taken
  <2>2. Seen' = 0
    BY <1>3, <1>4 DEF Seen
  <2>3. Brought(c, 0) = 0
    BY <1>4 DEF Brought
  <2>4. wfifo' # << >>
    BY <1>3, <1>4
  <2>5. Progress'
    BY <1>3, <1>4, <2>1, <2>2, <2>3, <2>4 DEF Progress
  <2>6. Understood'
    BY <1>3, <1>4, <2>1 DEF Understood
  <2>7. OwnBytes'
    BY <1>3 DEF OwnBytes
  <2> QED
    BY <1>1, <1>3, <1>4, <2>5, <2>6, <2>7 DEF TransferInv, InTransfer
<1>7. PollInv' /\ ReadyInv'
  BY <1>3 DEF PollInv, InPoll, ReadyInv
<1>8. LastInv'
  BY <1>3 DEF LastInv, NoCall
<1>9. SpdInv'
  <2>1. wfifo' # << >> /\ fsm' # "abort"
    BY <1>3, <1>4
  <2> QED
    BY <1>0, <1>3, <2>1 DEF SpdInv, InTransfer, InPoll, Selected
<1> QED
  BY <1>5, <1>6, <1>7, <1>8, <1>9 DEF IndInv

\* A poll begins as well with empty FIFOs.
LEMMA PollWriteStep ==
  ASSUME IndInv, pc = "ready", PollWrite, spd' = spd, spd.state \notin {"write", "read"}
  PROVE  IndInv'
<1>0. TypeOK /\ ReadyInv /\ SpdInv
  BY DEF IndInv
<1>2. fsm = "idle" /\ wfifo = << >> /\ rfifo = << >>
  BY <1>0 DEF ReadyInv
<1>3. /\ pc' = "poll_write" /\ call' = [kind |-> "poll", refused |-> nacks]
      /\ last' = [call |-> NoCall, value |-> << >>]
      /\ ret' = ret /\ discard_reads' = discard_reads /\ ctrl' = ctrl
      /\ device' = device /\ nacks' = nacks /\ missed' = missed
      /\ fsm' = (IF ctrl = 1 THEN "idle" ELSE "run") /\ rfifo' = << >>
      /\ wfifo' = (IF ctrl = 1 THEN << >> ELSE Append(<< >>, PollLast("write")))
  BY <1>2 DEF PollWrite, Start, deviceVars
<1>4. PollLast("write") \in Entry
  BY AddressFacts DEF PollLast, Entry
<1>5. Append(<< >>, PollLast("write")) = <<PollLast("write")>>
  BY <1>4
<1>6. TypeOK'
  BY <1>0, <1>3, <1>4, <1>5 DEF TypeOK
<1>7. PollInv'
  BY <1>0, <1>3, <1>5 DEF TypeOK, PollInv, InPoll
<1>8. TransferInv' /\ ReadyInv'
  BY <1>3 DEF TransferInv, InTransfer, ReadyInv
<1>9. LastInv'
  BY <1>3 DEF LastInv, NoCall
<1>10. SpdInv'
  BY <1>0, <1>3 DEF SpdInv, InTransfer, InPoll, Selected
<1> QED
  BY <1>6, <1>7, <1>8, <1>9, <1>10 DEF IndInv

\* The console reads, writes, polls or begins to read the SPD.
LEMMA ConsoleStep ==
  ASSUME IndInv, Console
  PROVE  IndInv'
<1>0. pc = "ready" /\ spd.state \notin {"write", "read"}
  BY DEF Console, Busy
<1>1. CASE spd' = spd /\ \E length \in Lengths, stop \in BOOLEAN : Begin(ReadCall(length, stop))
  <2>1. PICK length \in Lengths, stop \in BOOLEAN : Begin(ReadCall(length, stop))
    BY <1>1
  <2>2. ReadCall(length, stop) \in Reads \cup Writes
    BY DEF Reads
  <2> QED
    BY <1>0, <1>1, <2>1, <2>2, BeginStep
<1>2. CASE spd' = spd /\ \E page \in 0 .. Pages - 1 : Begin(WriteCall(<<page>>))
  <2>1. PICK page \in 0 .. Pages - 1 : Begin(WriteCall(<<page>>))
    BY <1>2
  <2>2. WriteCall(<<page>>) \in Reads \cup Writes
    BY DEF Writes
  <2> QED
    BY <1>0, <1>2, <2>1, <2>2, BeginStep
<1>3. CASE spd' = spd /\ PollWrite
  BY <1>0, <1>3, PollWriteStep
<1>4. CASE spd' = spd /\ \E length \in Lengths, stop \in BOOLEAN : Raise(ReadCall(length, stop))
  <2>1. /\ UNCHANGED <<pc, call, sent, discard_reads, ret, ctrl, fsm, wfifo, rfifo, device, nacks, missed>>
        /\ spd' = spd /\ last' = [call |-> NoCall, value |-> << >>]
    BY <1>4 DEF Raise, deviceVars
  <2>2. /\ TypeOK' /\ TransferInv' /\ PollInv' /\ ReadyInv'
    BY <1>0, <2>1 DEF IndInv, TypeOK, TransferInv, PollInv, ReadyInv, InTransfer, InPoll
  <2>3. LastInv'
    BY <2>1 DEF LastInv, NoCall
  <2>4. SpdInv'
    BY <1>0, <2>1 DEF IndInv, SpdInv, Selected, InTransfer, InPoll
  <2> QED
    BY <2>2, <2>3, <2>4 DEF IndInv
<1>5. CASE /\ spd' = [state |-> "write", page |-> 0, data |-> << >>]
           /\ missed' = {}
           /\ UNCHANGED <<pc, call, sent, discard_reads, ret, last, ctrl, worker, fsm,
                          wfifo, rfifo, device, nacks>>
  <2>1. /\ TypeOK' /\ TransferInv' /\ PollInv' /\ ReadyInv' /\ LastInv'
    BY <1>0, <1>5 DEF IndInv, TypeOK, TransferInv, PollInv, ReadyInv, InTransfer, InPoll, LastInv
  <2>2. SpdInv'
    <3>1. 0 \in 0 .. Pages - 1 /\ 0 * PageLength = 0 /\ 0 .. 0 - 1 = {}
      BY I2CAssumption
    <3>2. spd'.state = "write" /\ spd'.page = 0 /\ spd'.data = << >> /\ pc' = "ready"
      BY <1>0, <1>5
    <3>3. spd' \in [state : {"off", "raised", "write", "read", "done"}, page : Nat, data : Seq(Value)]
      BY <1>5
    <3> QED
      BY <3>1, <3>2, <3>3 DEF SpdInv, InTransfer, InPoll
  <2> QED
    BY <2>1, <2>2 DEF IndInv
<1> QED
  BY <1>1, <1>2, <1>3, <1>4, <1>5 DEF Console

\* read_spd_i2c calls for the page it is at.
LEMMA SpdCallStep ==
  ASSUME IndInv, SpdCall
  PROVE  IndInv'
<1>0. pc = "ready" /\ spd' = spd
  BY DEF SpdCall
<1>1. CASE spd.state = "write" /\ Begin(WriteCall(<<spd.page>>))
  <2>1. spd.page \in 0 .. Pages - 1
    BY <1>1 DEF IndInv, SpdInv
  <2>2. WriteCall(<<spd.page>>) \in Reads \cup Writes
    BY <2>1 DEF Writes
  <2> QED
    BY <1>0, <1>1, <2>2, BeginStep
<1>2. CASE spd.state = "read" /\ Begin(ReadCall(PageLength, FALSE))
  <2>1. ReadCall(PageLength, FALSE) \in Reads \cup Writes
    <3>1. PageLength \in Lengths \cup {PageLength} /\ FALSE \in BOOLEAN
      OBVIOUS
    <3>2. \A length \in Lengths \cup {PageLength}, stop \in BOOLEAN : ReadCall(length, stop) \in Reads
      BY DEF Reads
    <3> QED
      BY <3>1, <3>2
  <2> QED
    BY <1>0, <1>2, <2>1, BeginStep
<1> QED
  BY <1>1, <1>2 DEF SpdCall

\* The header refused, nothing is returned yet.
LEMMA NothingYet ==
  ASSUME TypeOK, TransferInv, InTransfer, Refused
  PROVE  ret = << >> /\ Len(ret) = 0
<1>1. /\ discard_reads \in 0 .. Discarded(call) /\ (ret # << >> => discard_reads = 0)
      /\ ret \in Seq(Value) /\ Len(rfifo) \in Nat /\ Discarded(call) \in Nat
  BY TransferFacts DEF TypeOK, TransferInv
<1>2. Discarded(call) - discard_reads + Len(ret) + Len(rfifo) <= Discarded(call)
  BY DEF Refused, Seen
<1>3. Len(ret) \in Nat /\ (ret # << >> => Len(ret) > 0)
  BY <1>1
<1> QED
  BY <1>1, <1>2, <1>3

LEMMA ReadStateStep ==
  ASSUME IndInv, ReadState
  PROVE  IndInv'
<1>0. TypeOK /\ TransferInv /\ SpdInv /\ LastInv
  BY DEF IndInv
<1>1. /\ pc = "loop" /\ InTransfer
      /\ UNCHANGED <<call, sent, discard_reads, ret, last, spd, ctrl, fsm, wfifo, rfifo,
                     device, nacks, missed>>
  BY DEF ReadState, InTransfer, deviceVars
<1>2. pc' = CASE Len(ret) >= call.length -> "wait"
              [] fsm = "abort"           -> "abort"
              [] OTHER                   -> "refill"
  BY DEF ReadState
<1>3. pc' \in {"wait", "abort", "refill"}
  BY <1>2
<1>4. TypeOK' /\ ReadyInv' /\ PollInv'
  BY <1>0, <1>1, <1>3 DEF TypeOK, ReadyInv, PollInv, InPoll
<1>5. TransferInv'
  <2>1. call \in Transfers /\ call.length \in Nat \ {0}
    BY <1>0, <1>1, TransferFacts DEF TransferInv
  <2>2. ~Cleared
    BY <1>1 DEF Cleared
  <2>3. CASE Refused
    <3>1. Len(ret) = 0
      BY <1>0, <1>1, <2>3, NothingYet
    <3>2. fsm = "abort"
      BY <2>3 DEF Refused
    <3>3. pc' = "abort"
      BY <1>2, <2>1, <3>1, <3>2
    <3>4. Refused'
      BY <2>3, <1>1, <3>3 DEF Refused, Seen
    <3> QED
      BY <1>0, <1>1, <3>2, <3>3, <3>4 DEF TransferInv
  <2>4. CASE Progress /\ Understood /\ OwnBytes
    <3>1. fsm # "abort"
      BY <2>4 DEF Progress
    <3>2. pc' = "wait" => Len(ret) >= call.length
      BY <1>2, <3>1
    <3>3. pc' # "abort"
      BY <1>2, <3>1
    <3>4. Progress' /\ Understood' /\ OwnBytes'
      BY <2>4, <1>1 DEF Progress, Understood, OwnBytes, Seen, Taken
    <3> QED
      BY <1>0, <1>1, <3>2, <3>3, <3>4 DEF TransferInv
  <2> QED
    BY <1>0, <1>1, <2>2, <2>3, <2>4 DEF TransferInv
<1>6. LastInv'
  BY <1>0, <1>1 DEF LastInv
<1>7. SpdInv'
  BY <1>0, <1>1, <1>3 DEF SpdInv, InTransfer, InPoll, Selected
<1> QED
  BY <1>4, <1>5, <1>6, <1>7 DEF IndInv

\* The abort leaves nothing behind.
LEMMA AbortStep ==
  ASSUME IndInv, Abort
  PROVE  IndInv'
<1>0. TypeOK /\ TransferInv /\ SpdInv /\ LastInv
  BY DEF IndInv
<1>1. /\ pc = "abort" /\ InTransfer /\ pc' = "wait" /\ ctrl' = 1
      /\ fsm' = "idle" /\ wfifo' = << >> /\ rfifo' = << >>
      /\ UNCHANGED <<call, sent, discard_reads, last, spd, device, nacks, missed>>
  BY DEF Abort, InTransfer, deviceVars, Start, ClearSetup
<1>2. Refused /\ fsm = "abort"
  BY <1>0, <1>1 DEF TransferInv, Progress, Cleared
<1>3. ret = << >>
  BY <1>0, <1>1, <1>2, NothingYet
<1>4. ret' = << >>
  BY <1>3 DEF Abort, None
<1>5. TypeOK' /\ ReadyInv' /\ PollInv'
  BY <1>0, <1>1, <1>4 DEF TypeOK, ReadyInv, PollInv, InPoll
<1>6. TransferInv'
  BY <1>0, <1>1, <1>4 DEF TransferInv, Cleared
<1>7. LastInv'
  BY <1>0, <1>1 DEF LastInv
<1>8. SpdInv'
  BY <1>0, <1>1, <1>2 DEF SpdInv, InTransfer, InPoll, Selected
<1> QED
  BY <1>5, <1>6, <1>7, <1>8 DEF IndInv

\* There is nothing to refill: transfers longer than the FIFO are not begun.
LEMMA RefillStep ==
  ASSUME IndInv, Refill
  PROVE  IndInv'
<1>0. TypeOK /\ TransferInv /\ SpdInv /\ LastInv
  BY DEF IndInv
<1>1. /\ pc = "refill" /\ InTransfer /\ pc' = "collect"
      /\ UNCHANGED <<call, discard_reads, ret, last, spd, ctrl, fsm, rfifo, device, nacks, missed>>
  BY DEF Refill, InTransfer, deviceVars
<1>2. /\ call \in Transfers /\ sent = call.length /\ call.length \in Nat
      /\ Total(call) \in Nat /\ Total(call) <= Depth /\ Depth \in Nat
      /\ Len(wfifo) \in Nat
  <2>1. call \in Transfers /\ sent = call.length
    BY <1>0, <1>1 DEF TransferInv
  <2>2. Depth \in Nat
    BY I2CAssumption
  <2>3. Len(wfifo) \in Nat
    BY <1>0 DEF TypeOK
  <2> QED
    BY <2>1, <2>2, <2>3, TransferFacts
<1>3. Len(wfifo) <= Total(call)
  BY <1>0, <1>1, <1>2 DEF TransferInv, Cleared, Refused, Progress, Taken
<1>4. Fitting(call, sent, wfifo) = 0
  BY <1>2, <1>3 DEF Fitting, Least
<1>5. DataEntries(call, sent, 0) = << >>
  BY DEF DataEntries
<1>6. wfifo' = wfifo \o << >> /\ sent' = sent + 0
  BY <1>4, <1>5, Zenon DEF Refill
<1>7. wfifo' = wfifo /\ sent' = sent
  BY <1>0, <1>2, <1>6, ConcatEmptySeq DEF TypeOK
<1>8. TypeOK' /\ ReadyInv' /\ PollInv'
  BY <1>0, <1>1, <1>7 DEF TypeOK, ReadyInv, PollInv, InPoll
<1>9. TransferInv'
  BY <1>0, <1>1, <1>7 DEF TransferInv, InTransfer, Cleared, Refused, Progress, Understood, OwnBytes,
                         Seen, Taken
<1>10. LastInv'
  BY <1>0, <1>1 DEF LastInv
<1>11. SpdInv'
  BY <1>0, <1>1, <1>7 DEF SpdInv, InTransfer, InPoll, Selected
<1> QED
  BY <1>8, <1>9, <1>10, <1>11 DEF IndInv

\* Results go from the FIFO to the script in order, after the discarded ones.
LEMMA CollectStep ==
  ASSUME IndInv, Collect
  PROVE  IndInv'
<1> DEFINE skip == Least(discard_reads, Len(rfifo))
           new == [i \in 1 .. Len(rfifo) - skip |-> rfifo[i + skip].data]
<1>0. TypeOK /\ TransferInv /\ SpdInv /\ LastInv
  BY DEF IndInv
<1>1. /\ pc = "collect" /\ InTransfer /\ pc' = "loop"
      /\ UNCHANGED <<call, sent, last, spd, ctrl, fsm, wfifo, device, nacks, missed>>
  BY DEF Collect, InTransfer, deviceVars
<1>2. /\ call \in Transfers /\ sent = call.length
      /\ discard_reads \in 0 .. Discarded(call) /\ (ret # << >> => discard_reads = 0)
  BY <1>0, <1>1 DEF TransferInv
<1>3. discard_reads' = discard_reads - skip /\ ret' = ret \o new /\ rfifo' = << >>
  BY <1>2 DEF Collect
<1>4. Len(rfifo) \in Nat /\ Len(ret) \in Nat /\ Discarded(call) \in Nat /\ discard_reads \in Nat
  BY <1>0, <1>2, TransferFacts DEF TypeOK
<1>5. /\ skip \in Nat /\ skip <= Len(rfifo) /\ skip <= discard_reads
      /\ skip = discard_reads \/ skip = Len(rfifo)
  BY <1>4 DEF Least
<1> HIDE DEF skip
<1>6. new \in Seq(Value) /\ Len(new) = Len(rfifo) - skip
  <2>1. \A i \in 1 .. Len(rfifo) - skip : rfifo[i + skip].data \in Value
    <3> SUFFICES ASSUME NEW i \in 1 .. Len(rfifo) - skip
                 PROVE  rfifo[i + skip].data \in Value
      OBVIOUS
    <3>1. i + skip \in 1 .. Len(rfifo)
      BY <1>4, <1>5
    <3>2. rfifo[i + skip] \in Answer
      BY <1>0, <3>1, ElementOfSeq DEF TypeOK
    <3> QED
      BY <3>2 DEF Answer
  <2> QED
    BY <1>4, <1>5, <2>1
<1>7. \A i \in 1 .. Len(new) : new[i] = rfifo[i + skip].data
  BY <1>6
<1> HIDE DEF new
<1>8. /\ ret' \in Seq(Value) /\ Len(ret') = Len(ret) + Len(new)
      /\ \A i \in 1 .. Len(ret) + Len(new) :
           ret'[i] = IF i <= Len(ret) THEN ret[i] ELSE new[i - Len(ret)]
  <2>1. ret \in Seq(Value)
    BY <1>0 DEF TypeOK
  <2> QED
    BY <2>1, <1>3, <1>6, ConcatProperties
<1>9. /\ discard_reads' \in 0 .. Discarded(call)
      /\ ret' # << >> => discard_reads' = 0
  <2>1. ret' # << >> => Len(ret') > 0
    BY <1>8
  <2>2. ret # << >> \/ Len(ret) = 0
    BY <1>0 DEF TypeOK
  <2> QED
    BY <2>1, <2>2, <1>2, <1>3, <1>4, <1>5, <1>6, <1>8
<1>10. Seen' = Seen + Len(rfifo) /\ Seen \in Int
  <2>1. Seen' = Discarded(call) - discard_reads' + Len(ret')
    BY <1>1 DEF Seen
  <2>2. Seen = Discarded(call) - discard_reads + Len(ret)
    BY DEF Seen
  <2> QED
    BY <2>1, <2>2, <1>3, <1>4, <1>5, <1>6, <1>8, SMTT(30)
<1>11. Len(rfifo') = 0 /\ rfifo' \in Seq(Answer)
  BY <1>3
<1>12. TypeOK' /\ ReadyInv' /\ PollInv'
  BY <1>0, <1>1, <1>4, <1>8, <1>9, <1>11 DEF TypeOK, ReadyInv, PollInv, InPoll
<1>13. TransferInv'
  <2>1. CASE Refused
    <3>1. Refused'
      BY <2>1, <1>1, <1>4, <1>10, <1>11 DEF Refused
    <3> QED
      BY <1>1, <1>2, <1>9, <3>1 DEF TransferInv
  <2>2. CASE Progress /\ Understood /\ OwnBytes
    <3>1. Progress'
      BY <2>2, <1>1, <1>4, <1>10, <1>11 DEF Progress, Taken
    <3>2. Understood'
      BY <2>2, <1>1 DEF Understood, Taken
    <3>3. OwnBytes'
      <4> SUFFICES ASSUME call.kind = "read", NEW i \in 1 .. Len(ret')
                   PROVE  ret'[i] = <<device.page, call.reg + i - 1>>
        BY <1>1, <1>11 DEF OwnBytes
      <4>1. CASE i <= Len(ret)
        BY <4>1, <2>2, <1>4, <1>6, <1>8, SMTT(30) DEF OwnBytes
      <4>2. CASE i > Len(ret)
        <5> DEFINE j == i - Len(ret)
        <5>0. Len(new) \in Nat /\ i \in 1 .. Len(ret) + Len(new)
          BY <1>4, <1>5, <1>6, <1>8
        <5>a. j \in 1 .. Len(new)
          BY <4>2, <5>0, <1>4
        <5>b. j + skip \in 1 .. Len(rfifo)
          BY <5>a, <1>4, <1>5, <1>6
        <5>c. ret'[i] = new[j]
          BY <4>2, <5>0, <1>4, <1>8
        <5>1. j \in 1 .. Len(new) /\ j + skip \in 1 .. Len(rfifo) /\ ret'[i] = rfifo[j + skip].data
          <6> HIDE DEF j
          <6> QED
            BY <5>a, <5>b, <5>c, <1>7
        <5>2. skip = discard_reads
          BY <5>1, <1>4, <1>5, <1>6
        <5>3. Seen + (j + skip) = Discarded(call) + i
          BY <5>2, <1>4, <1>5 DEF Seen
        <5> HIDE DEF j
        <5>4. Seen + (j + skip) > Discarded(call)
          BY <5>3, <1>4, <1>6, <1>8
        <5>5. rfifo[j + skip].data =
                <<device.page, call.reg + (Seen + (j + skip) - Discarded(call)) - 1>>
          BY <5>1, <5>4, <2>2 DEF OwnBytes
        <5>6. Seen + (j + skip) - Discarded(call) = i
          <6>1. \A a, b, c, d \in Int : a + b = c + d => a + b - c = d
            OBVIOUS
          <6>2. Seen \in Int /\ j + skip \in Int /\ Discarded(call) \in Int /\ i \in Int
            BY <5>1, <1>4, <1>8, <1>10
          <6> QED
            BY <6>1, <6>2, <5>3
        <5> QED
          BY <5>1, <5>5, <5>6
      <4>3. i <= Len(ret) \/ i > Len(ret)
        BY <1>4, <1>6, <1>8
      <4> QED
        BY <4>1, <4>2, <4>3
    <3> QED
      BY <1>1, <1>2, <1>9, <3>1, <3>2, <3>3 DEF TransferInv
  <2> QED
    BY <1>0, <1>1, <2>1, <2>2 DEF TransferInv, Cleared
<1>14. LastInv'
  BY <1>0, <1>1 DEF LastInv
<1>15. SpdInv'
  BY <1>0, <1>1 DEF SpdInv, InTransfer, InPoll, Selected
<1> QED
  BY <1>12, <1>13, <1>14, <1>15 DEF IndInv

\* A transfer that returns was aborted, or all of its entries were taken and
\* their results read.
LEMMA Complete ==
  ASSUME IndInv, pc = "wait"
  PROVE  \/ Cleared
         \/ /\ Progress /\ Understood /\ OwnBytes
            /\ Len(ret) = call.length /\ wfifo = << >> /\ rfifo = << >>
<1>0. TypeOK /\ TransferInv /\ InTransfer
  BY DEF IndInv, InTransfer
<1>1. SUFFICES ASSUME ~Cleared
               PROVE  /\ Progress /\ Understood /\ OwnBytes
                      /\ Len(ret) = call.length /\ wfifo = << >> /\ rfifo = << >>
  OBVIOUS
<1>2. /\ Progress /\ Understood /\ OwnBytes /\ Len(ret) >= call.length
      /\ call \in Transfers /\ (ret # << >> => discard_reads = 0)
  BY <1>0, <1>1 DEF TransferInv, Refused
<1>3. /\ Len(ret) \in Nat /\ Len(rfifo) \in Nat /\ Len(wfifo) \in Nat
      /\ (Len(rfifo) = 0 => rfifo = << >>) /\ (Len(wfifo) = 0 => wfifo = << >>)
  BY <1>0 DEF TypeOK
<1>4. /\ call.length \in Nat \ {0} /\ Discarded(call) \in Nat
      /\ Total(call) = Before(call) + call.length /\ Before(call) \in Nat
  BY <1>2, TransferFacts DEF Total
<1>5. Seen = Discarded(call) + Len(ret)
  <2>1. ret # << >>
    BY <1>2, <1>3, <1>4
  <2> QED
    BY <2>1, <1>2, <1>3, <1>4 DEF Seen
<1>6. Taken \in 0 .. Total(call) /\ Seen + Len(rfifo) = Brought(call, Taken)
  BY <1>2 DEF Progress
<1>7. /\ Taken >= Before(call) => Brought(call, Taken) = Discarded(call) + (Taken - Before(call))
      /\ Taken < Before(call) => Brought(call, Taken) < Discarded(call)
  BY <1>2, <1>6, BroughtFacts
<1>8. Taken = Total(call) /\ Len(ret) = call.length /\ Len(rfifo) = 0
  BY <1>2, <1>3, <1>4, <1>5, <1>6, <1>7, SMTT(30)
<1>9. Len(wfifo) = 0
  BY <1>3, <1>4, <1>8 DEF Taken
<1> QED
  BY <1>2, <1>3, <1>8, <1>9

\* Pages in a row: the next one begins where the last one ends.
LEMMA PageOffset ==
  ASSUME NEW n \in Nat \ {0}, NEW q \in Nat, NEW p \in 0 .. q, NEW i \in 1 .. n
  PROVE  /\ p * n \in Nat /\ q * n \in Nat /\ (q + 1) * n = q * n + n
         /\ p < q => p * n + i <= q * n
<1>1. p * n \in Nat /\ q * n \in Nat /\ (q + 1) * n = q * n + n
  OBVIOUS
<1>2. ASSUME p < q PROVE p * n + i <= q * n
  <2>1. PICK k \in Nat : q = p + 1 + k
    <3>1. q - p - 1 \in Nat /\ q = p + 1 + (q - p - 1)
      BY <1>2
    <3> QED
      BY <3>1
  <2>2. q * n = p * n + n + k * n /\ k * n \in Nat
    BY <2>1
  <2> QED
    BY <1>1, <2>2
<1> QED
  BY <1>1, <1>2

\* read_spd_i2c goes on to the next page, or to the data of this one.
LEMMA SpdReturn ==
  ASSUME IndInv, Return
  PROVE  SpdInv'
<1>0. TypeOK /\ SpdInv
  BY DEF IndInv
<1>1. /\ pc = "wait" /\ InTransfer /\ pc' = "ready" /\ spd' = SpdAfterCall
      /\ UNCHANGED <<call, ret, fsm, wfifo, rfifo, device, missed>>
  BY DEF Return, InTransfer, deviceVars
<1>2. /\ Cleared \/ (OwnBytes /\ Len(ret) = call.length)
      /\ wfifo = << >>
  BY <1>1, Complete DEF Cleared
<1>3. ~InTransfer' /\ ~InPoll'
  BY <1>1 DEF InTransfer, InPoll
<1>4. CASE spd.state = "write"
  <2>1. spd' = [spd EXCEPT !.state = "read"] /\ Selected
    BY <1>0, <1>1, <1>2, <1>4 DEF SpdInv, SpdAfterCall
  <2>2. spd'.state = "read"
    BY <1>0, <2>1 DEF SpdInv
  <2>3. spd'.page = spd.page /\ spd'.data = spd.data
    BY <2>1
  <2>4. spd' \in [state : {"off", "raised", "write", "read", "done"}, page : Nat, data : Seq(Value)]
    BY <1>0, <2>1 DEF SpdInv
  <2>5. /\ spd.page \in 0 .. Pages - 1 /\ Len(spd.data) = spd.page * PageLength
        /\ \A p \in (0 .. spd.page - 1) \ missed : \A i \in 1 .. PageLength :
             spd.data[p * PageLength + i] = <<p, DataReg + i - 1>>
    BY <1>0, <1>4 DEF SpdInv
  <2>6. Selected'
    BY <1>1, <2>1, <2>3 DEF Selected
  <2> QED
    BY <1>1, <1>3, <2>2, <2>3, <2>4, <2>5, <2>6 DEF SpdInv
<1>5. CASE spd.state = "read" /\ NoData
  <2>1. spd' = [spd EXCEPT !.state = "raised"]
    BY <1>1, <1>5 DEF SpdAfterCall
  <2>2. spd'.state = "raised"
    BY <1>0, <2>1 DEF SpdInv
  <2>3. spd' \in [state : {"off", "raised", "write", "read", "done"}, page : Nat, data : Seq(Value)]
    BY <1>0, <2>1 DEF SpdInv
  <2> QED
    BY <2>2, <2>3 DEF SpdInv
<1>6. CASE spd.state = "read" /\ ~NoData
  <2> DEFINE q == spd.page
             n == PageLength
  <2>0. n \in Nat \ {0} /\ q \in 0 .. Pages - 1 /\ Pages \in Nat \ {0}
    BY <1>0, <1>6, I2CAssumption DEF SpdInv
  <2>1. spd' = [state |-> IF q = Pages - 1 THEN "done" ELSE "write",
                page |-> q + 1, data |-> spd.data \o ret]
    BY <1>1, <1>6 DEF SpdAfterCall
  <2>2. /\ spd'.state = (IF q = Pages - 1 THEN "done" ELSE "write")
        /\ spd'.page = q + 1 /\ spd'.data = spd.data \o ret
    BY <2>1
  <2>3. call = ReadCall(PageLength, FALSE)
    BY <1>0, <1>1, <1>6 DEF SpdInv
  <2>4. OwnBytes /\ Len(ret) = n /\ call.kind = "read" /\ call.reg = DataReg
    BY <1>2, <1>6, <2>3 DEF Cleared, NoData, None, ReadCall
  <2>5. \A i \in 1 .. n : ret[i] = <<device.page, DataReg + i - 1>>
    BY <2>4 DEF OwnBytes
  <2>6. /\ spd.data \in Seq(Value) /\ Len(spd.data) = q * n /\ ret \in Seq(Value)
        /\ \A p \in (0 .. q - 1) \ missed : \A i \in 1 .. n :
             spd.data[p * n + i] = <<p, DataReg + i - 1>>
        /\ Selected
    BY <1>0, <1>6 DEF SpdInv, TypeOK
  <2>7. /\ spd'.data \in Seq(Value) /\ Len(spd'.data) = q * n + n
        /\ \A i \in 1 .. q * n + n :
             spd'.data[i] = IF i <= q * n THEN spd.data[i] ELSE ret[i - q * n]
    <3> DEFINE x == q * n
    <3>1. Len(spd.data) = x
      BY <2>6
    <3> HIDE DEF x
    <3>2. /\ spd'.data \in Seq(Value) /\ Len(spd'.data) = x + n
          /\ \A i \in 1 .. x + n : spd'.data[i] = IF i <= x THEN spd.data[i] ELSE ret[i - x]
      <4>1. spd'.data = spd.data \o ret /\ Len(ret) = n /\ spd.data \in Seq(Value) /\ ret \in Seq(Value)
        BY <2>2, <2>4, <2>6
      <4> HIDE DEF n
      <4> QED
        <5> DEFINE t == spd.data \o ret
        <5>1. /\ t \in Seq(Value) /\ Len(t) = Len(spd.data) + Len(ret)
              /\ \A i \in 1 .. Len(spd.data) + Len(ret) :
                   t[i] = IF i <= Len(spd.data) THEN spd.data[i] ELSE ret[i - Len(spd.data)]
          BY <4>1, ConcatProperties
        <5>2. spd'.data = t
          BY <4>1
        <5> HIDE DEF t
        <5> QED
          BY <3>1, <4>1, <5>1, <5>2
    <3> QED
      BY <3>2 DEF x
  <2>8. q * n \in Nat /\ (q + 1) * n = q * n + n
    BY <2>0
  <2>9. ASSUME NEW p \in (0 .. q) \ missed, NEW i \in 1 .. n
        PROVE  spd'.data[p * n + i] = <<p, DataReg + i - 1>>
    <3>1. CASE p < q
      <4>1. p * n \in Nat /\ p * n + i <= q * n
        BY <2>0, <3>1, PageOffset
      <4>2. p * n + i \in 1 .. q * n + n
        BY <4>1, <2>0, <2>8
      <4>3. spd'.data[p * n + i] = spd.data[p * n + i]
        BY <4>1, <4>2, <2>7
      <4>4. p \in (0 .. q - 1) \ missed
        BY <2>0, <3>1
      <4> QED
        BY <4>3, <4>4, <2>6
    <3>2. CASE p = q
      <4>1. q * n + i \in 1 .. q * n + n /\ ~(q * n + i <= q * n) /\ (q * n + i) - q * n = i
        BY <2>0, <2>8
      <4>2. spd'.data[q * n + i] = ret[i]
        BY <4>1, <2>7
      <4>3. device.page = q
        BY <2>6, <3>2 DEF Selected
      <4> QED
        BY <3>2, <4>2, <4>3, <2>5
    <3> QED
      BY <3>1, <3>2, <2>0
  <2>10. spd'.page = Pages \/ (spd'.state = "write" /\ spd'.page \in 0 .. Pages - 1)
    BY <2>0, <2>2
  <2>11. /\ spd'.state \in {"done", "write"} /\ (spd'.state = "done" => spd'.page = Pages)
         /\ spd'.state = "write" => spd'.page \in 0 .. Pages - 1
    BY <2>0, <2>2
  <2>12. 0 .. spd'.page - 1 = 0 .. q
    BY <2>0, <2>2
  <2>13. Len(spd'.data) = spd'.page * PageLength
    BY <2>2, <2>7, <2>8
  <2>14. \A p \in (0 .. spd'.page - 1) \ missed' : \A i \in 1 .. PageLength :
            spd'.data[p * PageLength + i] = <<p, DataReg + i - 1>>
    BY <2>9, <2>12, <1>1
  <2>15. spd' \in [state : {"off", "raised", "write", "read", "done"}, page : Nat, data : Seq(Value)]
    BY <2>0, <2>1, <2>2, <2>7
  <2> HIDE DEF n, q
  <2> QED
    BY <1>3, <2>11, <2>13, <2>14, <2>15 DEF SpdInv
<1>7. CASE spd.state \notin {"write", "read"}
  <2>1. spd' = spd
    BY <1>1, <1>7 DEF SpdAfterCall
  <2> QED
    BY <1>0, <1>1, <1>3, <1>7, <2>1 DEF SpdInv, Selected
<1> QED
  BY <1>4, <1>5, <1>6, <1>7

LEMMA ReturnStep ==
  ASSUME IndInv, Return
  PROVE  IndInv'
<1>0. TypeOK /\ TransferInv
  BY DEF IndInv
<1>1. /\ pc = "wait" /\ fsm = "idle" /\ InTransfer /\ pc' = "ready"
      /\ last' = [call |-> call, value |-> Returned]
      /\ UNCHANGED <<call, sent, discard_reads, ret, ctrl, fsm, wfifo, rfifo, device, nacks, missed>>
  BY DEF Return, InTransfer, deviceVars, Idle
<1>2. \/ Cleared
      \/ /\ OwnBytes /\ Len(ret) = call.length /\ wfifo = << >> /\ rfifo = << >>
  BY <1>1, Complete
<1>3. wfifo = << >> /\ rfifo = << >>
  BY <1>2 DEF Cleared
<1>4. TypeOK' /\ ReadyInv' /\ PollInv' /\ TransferInv'
  BY <1>0, <1>1, <1>3 DEF TypeOK, ReadyInv, PollInv, InPoll, TransferInv, InTransfer
<1>5. LastInv'
  <2>1. last'.call = call /\ last'.value = Returned
    BY <1>1
  <2>2. call \in Transfers /\ call.kind \in {"read", "write"}
    BY <1>0, <1>1, TransferFacts DEF TransferInv
  <2>3. ASSUME call.kind = "read", ret # << >>
        PROVE  ret = [i \in 1 .. call.length |-> <<device.page, call.reg + i - 1>>]
    <3>1. OwnBytes /\ Len(ret) = call.length
      BY <1>2, <2>3 DEF Cleared
    <3>2. \A i \in 1 .. call.length : ret[i] = <<device.page, call.reg + i - 1>>
      BY <2>3, <3>1 DEF OwnBytes
    <3>3. ret = [i \in 1 .. call.length |-> ret[i]]
      BY <1>0, <3>1 DEF TypeOK
    <3> QED
      BY <3>2, <3>3
  <2> QED
    BY <1>1, <2>1, <2>2, <2>3 DEF LastInv, Returned, None
<1>6. SpdInv'
  BY SpdReturn
<1> QED
  BY <1>4, <1>5, <1>6 DEF IndInv

\* The answer to the first attempt
LEMMA PollWriteDoneStep ==
  ASSUME IndInv, PollWriteDone
  PROVE  IndInv'
<1>0. TypeOK /\ PollInv /\ SpdInv
  BY DEF IndInv
<1>1. /\ pc = "poll_write" /\ fsm = "idle" /\ InPoll
      /\ UNCHANGED <<call, sent, discard_reads, ret, spd, ctrl, device, nacks, missed>>
  BY DEF PollWriteDone, Idle, InPoll, deviceVars
<1>2. /\ call.kind = "poll" /\ call.refused \in Nat /\ wfifo = << >>
      /\ \/ ctrl = 1 /\ rfifo = << >>
         \/ ctrl = 0 /\ Len(rfifo) = 1 /\ nacks = call.refused + rfifo[1].ack
  BY <1>0, <1>1 DEF PollInv
<1>3. Popped(rfifo) = << >> /\ (ctrl = 0 => Result = {rfifo[1].ack} /\ rfifo[1].ack \in {0, 1})
  <2>1. CASE ctrl = 1
    BY <1>2, <2>1 DEF Popped
  <2>2. CASE ctrl = 0
    <3>a. Len(rfifo) = 1
      BY <1>2, <2>2
    <3>0. rfifo \in Seq(Answer) /\ Len(rfifo) = 1 /\ Len(rfifo) >= 1
      BY <1>0, <3>a DEF TypeOK
    <3>1. rfifo # << >> /\ Tail(rfifo) = << >> /\ Head(rfifo) = rfifo[1] /\ rfifo[1] \in Answer
      BY <3>0, FirstEntry
    <3> QED
      BY <2>2, <3>1 DEF Popped, Result, Answer
  <2> QED
    BY <1>2, <2>1, <2>2
<1>4. PICK ack \in Result :
        \/ /\ Answered(ack) /\ PollReturn(ack)
           /\ rfifo' = Popped(rfifo)
           /\ UNCHANGED <<fsm, wfifo>>
        \/ /\ ~Answered(ack)
           /\ pc' = "poll_read" /\ last' = last
           /\ Start(ctrl, wfifo \o <<[Address("read") EXCEPT !.abort_on_nack = FALSE],
                                     [PollLast("byte") EXCEPT !.data = 255]>>,
                    Popped(rfifo))
  BY DEF PollWriteDone
<1>5. CASE Answered(ack)
  <2>1. /\ pc' = "ready" /\ last' = [call |-> call, value |-> TRUE]
        /\ rfifo' = << >> /\ wfifo' = << >> /\ fsm' = "idle"
    BY <1>1, <1>2, <1>3, <1>4, <1>5 DEF PollReturn, Answered
  <2>2. TypeOK' /\ ReadyInv' /\ PollInv' /\ TransferInv'
    BY <1>0, <1>1, <2>1 DEF TypeOK, ReadyInv, PollInv, InPoll, TransferInv, InTransfer
  <2>3. LastInv'
    <3>1. last'.call = call /\ last'.value = TRUE
      BY <2>1
    <3>2. ctrl = 0 => nacks - call.refused < 2
      BY <1>2, <1>3
    <3> QED
      BY <1>1, <1>2, <2>1, <3>1, <3>2 DEF LastInv
  <2>4. SpdInv'
    BY <1>0, <1>1, <2>1 DEF SpdInv, InTransfer, InPoll, Selected
  <2> QED
    BY <2>2, <2>3, <2>4 DEF IndInv
<1>6. CASE ~Answered(ack)
  <2> DEFINE a == [Address("read") EXCEPT !.abort_on_nack = FALSE]
             b == [PollLast("byte") EXCEPT !.data = 255]
  <2>1. pc' = "poll_read" /\ last' = last /\ Start(ctrl, << >> \o <<a, b>>, << >>)
    BY <1>2, <1>3, <1>4, <1>6
  <2>2. a \in Entry /\ b \in Entry
    <3>1. a \in Entry
      BY AddressFacts DEF Entry
    <3>2. PollLast("byte") \in Entry
      BY AddressFacts DEF PollLast, Entry
    <3> QED
      BY <3>1, <3>2 DEF Entry
  <2> HIDE DEF a, b
  <2>3. <<a, b>> \in Seq(Entry) /\ << >> \o <<a, b>> = <<a, b>>
    BY <2>2
  <2>4. /\ fsm' = (IF ctrl = 1 THEN "idle" ELSE "run") /\ rfifo' = << >>
        /\ wfifo' = (IF ctrl = 1 THEN << >> ELSE <<a, b>>)
    BY <2>1, <2>3 DEF Start
  <2>5. ctrl = 0 => nacks = call.refused + 1
    BY <1>2, <1>3, <1>4, <1>6 DEF Answered
  <2>6. TypeOK' /\ ReadyInv' /\ TransferInv'
    BY <1>0, <1>1, <2>1, <2>3, <2>4 DEF TypeOK, ReadyInv, TransferInv, InTransfer
  <2>7. PollInv'
    BY <1>0, <1>1, <1>2, <2>1, <2>4, <2>5 DEF PollInv, a, b, TypeOK
  <2>8. LastInv'
    BY <1>1, <2>1 DEF IndInv, LastInv
  <2>9. SpdInv'
    BY <1>0, <1>1, <2>1 DEF SpdInv, InTransfer, InPoll, Selected
  <2> QED
    BY <2>6, <2>7, <2>8, <2>9 DEF IndInv
<1> QED
  BY <1>5, <1>6

\* The answer to the second attempt
LEMMA PollReadDoneStep ==
  ASSUME IndInv, PollReadDone
  PROVE  IndInv'
<1>0. TypeOK /\ PollInv /\ SpdInv
  BY DEF IndInv
<1>1. /\ pc = "poll_read" /\ fsm = "idle" /\ InPoll
      /\ rfifo' = Popped(Popped(rfifo))
      /\ UNCHANGED <<call, sent, discard_reads, ret, spd, ctrl, fsm, wfifo, device, nacks, missed>>
  BY DEF PollReadDone, Idle, InPoll, deviceVars
<1>2. /\ call.kind = "poll" /\ call.refused \in Nat /\ wfifo = << >>
      /\ \/ ctrl = 1 /\ rfifo = << >>
         \/ ctrl = 0 /\ Len(rfifo) = 2 /\ nacks = call.refused + 1 + rfifo[1].ack
  BY <1>0, <1>1 DEF PollInv
<1>3. /\ rfifo' = << >>
      /\ ctrl = 0 => Result = {rfifo[1].ack} /\ rfifo[1].ack \in {0, 1}
  <2>1. CASE ctrl = 1
    BY <1>1, <1>2, <2>1 DEF Popped
  <2>2. CASE ctrl = 0
    <3>a. Len(rfifo) = 2
      BY <1>2, <2>2
    <3>0. rfifo \in Seq(Answer) /\ Len(rfifo) = 2 /\ Len(rfifo) >= 1
      BY <1>0, <3>a DEF TypeOK
    <3>1. /\ rfifo # << >> /\ Head(rfifo) = rfifo[1] /\ rfifo[1] \in Answer
          /\ Tail(rfifo) \in Seq(Answer) /\ Len(Tail(rfifo)) = Len(rfifo) - 1
      BY <3>0, FirstEntry
    <3>b. Len(Tail(rfifo)) = 1 /\ Len(Tail(rfifo)) >= 1
      BY <3>a, <3>1
    <3>2. Tail(rfifo) # << >> /\ Tail(Tail(rfifo)) = << >>
      BY <3>1, <3>b, FirstEntry
    <3> QED
      BY <1>1, <2>2, <3>1, <3>2 DEF Popped, Result, Answer
  <2> QED
    BY <1>2, <2>1, <2>2
<1>4. PICK ack \in Result : PollReturn(ack)
  BY DEF PollReadDone
<1>5. pc' = "ready" /\ last'.call = call /\ last'.value = (ack = 0)
  BY <1>4 DEF PollReturn, Answered
<1>6. TypeOK' /\ ReadyInv' /\ PollInv' /\ TransferInv'
  BY <1>0, <1>1, <1>2, <1>3, <1>5 DEF TypeOK, ReadyInv, PollInv, InPoll, TransferInv, InTransfer
<1>7. LastInv'
  <2>1. ctrl = 0 => (nacks - call.refused < 2) = (ack = 0)
    BY <1>2, <1>3, <1>4
  <2> QED
    BY <1>1, <1>2, <1>5, <2>1 DEF LastInv
<1>8. SpdInv'
  BY <1>0, <1>1, <1>5 DEF SpdInv, InTransfer, InPoll, Selected
<1> QED
  BY <1>6, <1>7, <1>8 DEF IndInv

-----------------------------------------------------------------------------
\* Steps of the worker

LEMMA StopStep ==
  ASSUME IndInv, Stop
  PROVE  IndInv'
<1>0. TypeOK /\ TransferInv /\ PollInv /\ SpdInv /\ LastInv /\ ReadyInv
  BY DEF IndInv
<1>1. /\ fsm = "stop" /\ fsm' = "idle"
      /\ UNCHANGED <<pc, call, sent, discard_reads, ret, last, spd, ctrl, wfifo, rfifo,
                     device, nacks, missed>>
  BY DEF Stop, hostVars, deviceVars
<1>2. TypeOK' /\ ReadyInv' /\ LastInv'
  BY <1>0, <1>1 DEF TypeOK, ReadyInv, LastInv
<1>3. TransferInv'
  BY <1>0, <1>1 DEF TransferInv, InTransfer, Cleared, Refused, Progress, Understood, OwnBytes,
                   Seen, Taken
<1>4. PollInv'
  BY <1>0, <1>1 DEF PollInv, InPoll
<1>5. SpdInv'
  BY <1>0, <1>1 DEF SpdInv, InTransfer, InPoll, Selected
<1> QED
  BY <1>2, <1>3, <1>4, <1>5 DEF IndInv

\* The worker takes the next entry of a transfer.
LEMMA Took ==
  ASSUME IndInv, Worker, InTransfer
  PROVE  /\ call \in Transfers /\ call' = call /\ pc' = pc /\ spd' = spd
         /\ ctrl' = ctrl /\ ret' = ret /\ discard_reads' = discard_reads /\ sent' = sent
         /\ last' = last /\ pc \notin {"wait", "abort", "ready"}
         /\ Progress /\ Understood /\ OwnBytes /\ fsm = "run"
         /\ Taken \in 0 .. Total(call) - 1 /\ Taken' = Taken + 1
         /\ Head(wfifo) = EntryAt(call, Taken + 1)
         /\ wfifo' \in Seq(Entry) /\ Len(wfifo') = Total(call) - (Taken + 1)
         /\ wfifo' = << >> <=> Taken + 1 = Total(call)
         /\ \A i \in 1 .. Len(wfifo') : wfifo'[i] = EntryAt(call, Taken' + i)
         /\ Seen' = Seen /\ Seen + Len(rfifo) = Brought(call, Taken)
         /\ Seen \in Int /\ rfifo \in Seq(Answer) /\ Len(rfifo) \in Nat
<1>0. TypeOK /\ TransferInv
  BY DEF IndInv
<1>1. /\ call' = call /\ pc' = pc /\ spd' = spd /\ ctrl' = ctrl /\ ret' = ret
      /\ discard_reads' = discard_reads /\ sent' = sent /\ last' = last
      /\ fsm = "run" /\ wfifo # << >> /\ wfifo' = Tail(wfifo)
  BY DEF Worker, hostVars
<1>2. /\ Progress /\ Understood /\ OwnBytes /\ call \in Transfers
      /\ pc # "abort" /\ pc # "ready"
  BY <1>0, <1>1 DEF TransferInv, Cleared, Refused, InTransfer
<1>3. pc # "wait"
  <2> SUFFICES ASSUME pc = "wait" PROVE FALSE
    OBVIOUS
  <2>1. wfifo = << >> \/ Cleared
    BY Complete
  <2> QED
    BY <1>1, <2>1 DEF Cleared
<1>4. /\ Len(wfifo) \in Nat /\ Len(wfifo) >= 1 /\ wfifo \in Seq(Entry)
      /\ rfifo \in Seq(Answer) /\ Len(rfifo) \in Nat /\ Len(ret) \in Nat
  <2>1. wfifo \in Seq(Entry) /\ rfifo \in Seq(Answer) /\ ret \in Seq(Value)
    BY <1>0 DEF TypeOK
  <2> QED
    BY <1>1, <2>1, EmptySeq, LenProperties
<1>5. /\ Head(wfifo) = wfifo[1] /\ wfifo' \in Seq(Entry) /\ Len(wfifo') = Len(wfifo) - 1
      /\ \A i \in 1 .. Len(wfifo) - 1 : wfifo'[i] = wfifo[i + 1]
  BY <1>1, <1>4, FirstEntry
<1>6. Total(call) \in Nat /\ Discarded(call) \in Nat
  BY <1>2, TransferFacts
<1>7. /\ Taken \in 0 .. Total(call) /\ Taken = Total(call) - Len(wfifo)
      /\ \A i \in 1 .. Len(wfifo) : wfifo[i] = EntryAt(call, Taken + i)
      /\ Seen + Len(rfifo) = Brought(call, Taken)
  BY <1>2 DEF Progress, Taken
<1>8. Taken' = Total(call) - Len(wfifo')
  BY <1>1 DEF Taken
<1>9. Taken \in 0 .. Total(call) - 1 /\ Taken' = Taken + 1
  BY <1>4, <1>5, <1>6, <1>7, <1>8
<1>10. Len(wfifo') = Total(call) - (Taken + 1)
  BY <1>4, <1>5, <1>6, <1>7
<1>11. Head(wfifo) = EntryAt(call, Taken + 1)
  BY <1>4, <1>5, <1>7
<1>12. wfifo' = << >> <=> Taken + 1 = Total(call)
  <2>1. wfifo' = << >> <=> Len(wfifo') = 0
    BY <1>5, EmptySeq
  <2> QED
    BY <2>1, <1>6, <1>9, <1>10
<1>13. ASSUME NEW i \in 1 .. Len(wfifo')
       PROVE  wfifo'[i] = EntryAt(call, Taken' + i)
  <2>1. i \in 1 .. Len(wfifo) - 1 /\ i + 1 \in 1 .. Len(wfifo)
    BY <1>4, <1>5
  <2>2. wfifo'[i] = EntryAt(call, Taken + (i + 1))
    BY <2>1, <1>5, <1>7
  <2>3. Taken + (i + 1) = Taken' + i
    BY <1>6, <1>9, <2>1
  <2> QED
    BY <2>2, <2>3
<1>14. Seen' = Seen /\ Seen \in Int
  BY <1>0, <1>1, <1>4, <1>6 DEF Seen, TypeOK
<1> QED
  BY <1>1, <1>2, <1>3, <1>4, <1>5, <1>7, <1>9, <1>10, <1>11, <1>12, <1>13, <1>14

\* What remains to be shown of an entry that was taken
LEMMA TookOn ==
  ASSUME IndInv, Worker, InTransfer,
         fsm' = IF Taken + 1 = Total(call) THEN "stop" ELSE "run",
         rfifo' \in Seq(Answer), Seen + Len(rfifo') = Brought(call, Taken + 1),
         device' \in Device, nacks' \in Nat,
         Understood', OwnBytes'
  PROVE  TypeOK' /\ TransferInv'
<1>1. /\ call \in Transfers /\ call' = call /\ pc' = pc
      /\ ctrl' = ctrl /\ ret' = ret /\ discard_reads' = discard_reads /\ sent' = sent
      /\ pc \notin {"wait", "abort"} /\ Progress
      /\ Taken \in 0 .. Total(call) - 1 /\ Taken' = Taken + 1
      /\ wfifo' \in Seq(Entry)
      /\ wfifo' = << >> <=> Taken + 1 = Total(call)
      /\ \A i \in 1 .. Len(wfifo') : wfifo'[i] = EntryAt(call, Taken' + i)
      /\ Seen' = Seen
  BY Took
<1>2. Total(call) \in Nat
  BY <1>1, TransferFacts
<1>3. TypeOK'
  BY <1>1 DEF IndInv, TypeOK
<1>4. Progress'
  BY <1>1, <1>2 DEF Progress
<1>5. TransferInv'
  BY <1>1, <1>4 DEF IndInv, TransferInv, InTransfer
<1> QED
  BY <1>3, <1>5

\* A result is added behind the others; those of the read are still its own.
LEMMA NewResult ==
  ASSUME IndInv, Worker, InTransfer, NEW r \in Answer, rfifo' = Append(rfifo, r),
         call.kind = "read" => device'.page = device.page,
         call.kind = "read" /\ Taken >= Before(call) =>
           r.data = <<device.page, call.reg + (Taken - Before(call))>>
  PROVE  /\ rfifo' \in Seq(Answer) /\ Len(rfifo') = Len(rfifo) + 1
         /\ OwnBytes'
<1>1. /\ call \in Transfers /\ call' = call /\ ret' = ret /\ OwnBytes
      /\ Taken \in 0 .. Total(call) - 1
      /\ Seen' = Seen /\ Seen + Len(rfifo) = Brought(call, Taken)
      /\ Seen \in Int /\ rfifo \in Seq(Answer) /\ Len(rfifo) \in Nat
  BY Took
<1>2. /\ rfifo' \in Seq(Answer) /\ Len(rfifo') = Len(rfifo) + 1
      /\ \A i \in 1 .. Len(rfifo) : rfifo'[i] = rfifo[i]
      /\ rfifo'[Len(rfifo) + 1] = r
  BY <1>1, AppendProperties
<1>3. /\ Total(call) \in Nat /\ Before(call) \in Nat /\ Discarded(call) \in Nat
      /\ Taken >= Before(call) => Brought(call, Taken) = Discarded(call) + (Taken - Before(call))
      /\ Taken < Before(call) => Brought(call, Taken) < Discarded(call)
  <2>1. Total(call) \in Nat /\ Before(call) \in Nat /\ Discarded(call) \in Nat
    BY <1>1, TransferFacts
  <2>2. Taken \in 0 .. Total(call)
    BY <1>1, <2>1
  <2> QED
    BY <1>1, <2>1, <2>2, BroughtFacts
<1>4. OwnBytes'
  <2> SUFFICES ASSUME call.kind = "read", NEW i \in 1 .. Len(rfifo'), Seen + i > Discarded(call)
               PROVE  rfifo'[i].data =
                        <<device.page, call.reg + (Seen + i - Discarded(call)) - 1>>
    BY <1>1 DEF OwnBytes
  <2>1. CASE i <= Len(rfifo)
    BY <2>1, <1>1, <1>2 DEF OwnBytes
  <2>2. CASE i > Len(rfifo)
    <3>1. i = Len(rfifo) + 1
      BY <2>2, <1>1, <1>2
    <3>2. Seen + i = Brought(call, Taken) + 1 /\ Brought(call, Taken) \in Int
      BY <3>1, <1>1
    <3>3. Taken >= Before(call)
      BY <3>2, <1>1, <1>3
    <3>4. Seen + i - Discarded(call) = Taken - Before(call) + 1
      <4>1. \A a, b, c, d, e \in Int : a + b = c + 1 /\ c = d + e => a + b - d = e + 1
        OBVIOUS
      <4>2. i \in Int /\ Taken - Before(call) \in Int /\ Discarded(call) \in Int
        BY <1>1, <1>2, <1>3
      <4>3. Brought(call, Taken) = Discarded(call) + (Taken - Before(call))
        BY <3>3, <1>3
      <4>4. Seen \in Int
        BY <1>1
      <4> QED
        BY <4>1, <4>2, <4>3, <4>4, <3>2
    <3>5. call.reg \in Int
      BY <1>1, TransferFacts
    <3>6. call.reg + (Seen + i - Discarded(call)) - 1 = call.reg + (Taken - Before(call))
      BY <3>4, <3>5, <1>1, <1>3
    <3> QED
      BY <3>1, <3>3, <3>6, <1>2
  <2>3. i <= Len(rfifo) \/ i > Len(rfifo)
    BY <1>1, <1>2
  <2> QED
    BY <2>1, <2>2, <2>3
<1> QED
  BY <1>2, <1>4

\* A byte of the register address, the data of a write, or a byte to be read
BytePlace(e, i) ==
  \/ i \in 2 .. Addressed /\ device.mode = "write" /\ e.data = Byte(call.reg, i - 2)
  \/ /\ call.kind = "write" /\ i = Before(call) + 1 /\ i = Total(call)
     /\ device.mode = "write" /\ e.data = call.data[1]
  \/ call.kind = "read" /\ i > Before(call) /\ device.mode = "read"

\* What is taken at a place of a transfer
LEMMA Places ==
  ASSUME IndInv, Worker, InTransfer
  PROVE  LET e == Head(wfifo)
             i == Taken + 1
         IN  /\ e \in Entry /\ e.idle = (i = Total(call)) /\ e.abort_on_nack = (i # Total(call))
             /\ e.kind = "write" => i = 1
             /\ e.kind = "read" => call.kind = "read" /\ i = Before(call)
             /\ e.kind = "stop" => /\ call.kind = "read" /\ i = Addressed + 1 /\ i < Before(call)
             /\ e.kind = "byte" => BytePlace(e, i)
             /\ i \in 1 .. Total(call) /\ Total(call) \in Nat /\ Before(call) \in Nat
             /\ Addressed \in Nat /\ Addressed >= 2 /\ Before(call) >= Addressed
             /\ Before(call) < Total(call)
             /\ Brought(call, i) = IF e.kind = "stop" THEN Brought(call, Taken)
                                   ELSE Brought(call, Taken) + 1
             /\ i <= Before(call) => Brought(call, Taken) < Discarded(call)
<1> DEFINE e == Head(wfifo)
           i == Taken + 1
           c == call
<1>1. /\ c \in Transfers /\ Taken \in 0 .. Total(c) - 1 /\ e = EntryAt(c, i) /\ Understood
  BY Took
<1>2. /\ c.kind \in {"read", "write"} /\ (c.kind = "write" => c.length = 1)
      /\ (c.kind = "read" => c.send_stop \in BOOLEAN)
      /\ c.length \in Nat \ {0} /\ reg_addr_size \in Nat \ {0}
      /\ Before(c) \in Nat /\ Total(c) \in Nat
      /\ Before(c) >= Addressed /\ Addressed = 1 + reg_addr_size
  BY <1>1, TransferFacts
<1>3. Total(c) = Before(c) + c.length
  BY DEF Total
<1>4. Before(c) = IF c.kind = "read" THEN Addressed + (IF c.send_stop THEN 2 ELSE 1) ELSE Addressed
  BY DEF Before
<1>5. i \in 1 .. Total(c) /\ Taken \in 0 .. Total(c)
  BY <1>1, <1>2
<1>6. /\ e \in Entry
      /\ i = 1 => e.kind = "write"
      /\ i \in 2 .. Addressed => e.kind = "byte" /\ e.data = Byte(c.reg, i - 2)
      /\ i > Before(c) => e.kind = "byte"
      /\ i > Before(c) /\ c.kind = "write" => e.data = c.data[1]
      /\ c.kind = "read" /\ i = Before(c) => e.kind = "read"
      /\ c.kind = "read" /\ i > Addressed /\ i < Before(c) =>
           e.kind = "stop" /\ c.send_stop /\ i = Addressed + 1
      /\ e.idle = (i = Total(c)) /\ e.abort_on_nack = (i # Total(c))
  BY <1>1, <1>5, EntryFacts
<1>7. /\ ~(Taken = Addressed /\ Taken + 1 < Before(c)) => Brought(c, Taken + 1) = Brought(c, Taken) + 1
      /\ Taken = Addressed /\ Taken + 1 < Before(c) => Brought(c, Taken + 1) = Brought(c, Taken)
      /\ Taken < Before(c) => Brought(c, Taken) < Discarded(c)
  BY <1>1, <1>5, BroughtFacts
<1>8. /\ Taken > 0 /\ (c.kind = "read" => Taken < Before(c)) => device.mode = "write"
      /\ c.kind = "read" /\ Taken >= Before(c) => device.mode = "read"
  BY <1>1 DEF Understood
<1> HIDE DEF e, c
<1>9. \/ i = 1
      \/ i \in 2 .. Addressed
      \/ i > Before(c)
      \/ c.kind = "read" /\ i = Before(c)
      \/ c.kind = "read" /\ i > Addressed /\ i < Before(c)
  BY <1>2, <1>4, <1>5
<1>10. /\ Addressed \in Nat /\ Addressed >= 2 /\ Before(c) < Total(c) /\ i \in Int
  BY <1>2, <1>3, <1>5
<1>11. i <= Before(c) => Brought(c, Taken) < Discarded(c)
  BY <1>2, <1>5, <1>7
<1>12. CASE i = 1
  BY <1>2, <1>5, <1>6, <1>7, <1>10, <1>11, <1>12 DEF e, c
<1>13. CASE i \in 2 .. Addressed
  <2>1. e.kind = "byte" /\ e.data = Byte(c.reg, i - 2)
    BY <1>6, <1>13
  <2>2. device.mode = "write"
    BY <1>2, <1>4, <1>5, <1>8, <1>13
  <2>3. Brought(c, Taken + 1) = Brought(c, Taken) + 1
    BY <1>2, <1>5, <1>7, <1>13
  <2> QED
    BY <2>1, <2>2, <2>3, <1>2, <1>5, <1>6, <1>10, <1>11, <1>13 DEF e, c, BytePlace
<1>14. CASE i > Before(c)
  <2>1. e.kind = "byte" /\ (c.kind = "write" => e.data = c.data[1])
    BY <1>6, <1>14
  <2>2. Brought(c, Taken + 1) = Brought(c, Taken) + 1
    BY <1>2, <1>5, <1>7, <1>14
  <2>3. CASE c.kind = "write"
    <3>1. i = Before(c) + 1 /\ i = Total(c)
      BY <1>2, <1>3, <1>5, <1>14, <2>3
    <3>2. device.mode = "write"
      BY <1>2, <1>5, <1>8, <1>10, <1>14, <2>3
    <3> QED
      BY <2>1, <2>2, <2>3, <3>1, <3>2, <1>2, <1>5, <1>6, <1>10, <1>11 DEF e, c, BytePlace
  <2>4. CASE c.kind = "read"
    <3>1. device.mode = "read"
      BY <1>2, <1>5, <1>8, <1>14, <2>4
    <3> QED
      BY <2>1, <2>2, <2>4, <3>1, <1>2, <1>5, <1>6, <1>10, <1>11, <1>14 DEF e, c, BytePlace
  <2> QED
    BY <1>2, <2>3, <2>4
<1>15. CASE c.kind = "read" /\ i = Before(c)
  <2>1. e.kind = "read"
    BY <1>6, <1>15
  <2>2. Brought(c, Taken + 1) = Brought(c, Taken) + 1
    BY <1>2, <1>5, <1>7, <1>15
  <2> QED
    BY <2>1, <2>2, <1>2, <1>5, <1>6, <1>10, <1>11, <1>15 DEF e, c
<1>16. CASE c.kind = "read" /\ i > Addressed /\ i < Before(c)
  <2>1. e.kind = "stop" /\ i = Addressed + 1
    BY <1>6, <1>16
  <2>2. Brought(c, Taken + 1) = Brought(c, Taken)
    BY <1>2, <1>5, <1>7, <1>16, <2>1
  <2> QED
    BY <2>1, <2>2, <1>2, <1>5, <1>6, <1>10, <1>11, <1>16 DEF e, c
<1> QED
  BY <1>9, <1>12, <1>13, <1>14, <1>15, <1>16

\* A stop condition between the two halves of a read
LEMMA StopEntry ==
  ASSUME IndInv, Worker, InTransfer, Head(wfifo).kind = "stop"
  PROVE  TypeOK' /\ TransferInv' /\ device' = device /\ missed' = missed
         /\ fsm' = "run" /\ wfifo' # << >>
<1>1. fsm' = fsm /\ rfifo' = rfifo /\ device' = device /\ nacks' = nacks /\ missed' = missed
  BY DEF Worker, deviceVars
<1>2. /\ call \in Transfers /\ call' = call /\ ret' = ret /\ fsm = "run"
      /\ Understood /\ OwnBytes /\ Taken' = Taken + 1 /\ Taken \in Int
      /\ wfifo' = << >> <=> Taken + 1 = Total(call)
      /\ Seen' = Seen /\ Seen + Len(rfifo) = Brought(call, Taken) /\ rfifo \in Seq(Answer)
  BY Took
<1>3. /\ call.kind = "read" /\ Taken + 1 = Addressed + 1 /\ Taken + 1 < Before(call)
      /\ Before(call) \in Nat /\ Total(call) \in Nat /\ Addressed \in Nat /\ Addressed >= 2
      /\ Before(call) < Total(call) /\ Brought(call, Taken + 1) = Brought(call, Taken)
  BY Places
<1>4. Taken + 1 # Total(call)
  BY <1>2, <1>3
<1>5. Understood'
  <2>1. Taken = Addressed /\ Taken > 1 /\ Taken < Before(call)
    BY <1>2, <1>3
  <2>2. /\ device.mode = "write" /\ device.got = Taken - 1
        /\ device.at = call.reg % 256 ^ device.got
    BY <2>1, <1>2, <1>3 DEF Understood
  <2>3. Taken - 1 = reg_addr_size
    BY <2>1, I2CAssumption DEF Addressed
  <2> QED
    BY <2>1, <2>2, <2>3, <1>1, <1>2, <1>3 DEF Understood
<1>6. OwnBytes'
  BY <1>1, <1>2 DEF OwnBytes
<1>7. device' \in Device /\ nacks' \in Nat
  BY <1>1 DEF IndInv, TypeOK
<1>8. TypeOK' /\ TransferInv'
  BY <1>1, <1>2, <1>3, <1>4, <1>5, <1>6, <1>7, TookOn
<1> QED
  BY <1>1, <1>2, <1>4, <1>8

\* A byte that is read
LEMMA DeliverEntry ==
  ASSUME IndInv, Worker, InTransfer, Deliver(Head(wfifo)), Head(wfifo).kind = "byte",
         device.mode # "write"
  PROVE  TypeOK' /\ TransferInv' /\ device'.page = device.page /\ missed' = missed
         /\ call.kind = "read" /\ fsm' # "abort"
<1> DEFINE e == Head(wfifo)
<1>1. /\ call \in Transfers /\ call' = call /\ Understood /\ Taken' = Taken + 1
      /\ Taken \in 0 .. Total(call) - 1
      /\ Seen + Len(rfifo) = Brought(call, Taken) /\ Seen \in Int /\ Len(rfifo) \in Nat
  BY Took
<1>2. /\ e \in Entry /\ e.idle = (Taken + 1 = Total(call))
      /\ call.kind = "read" /\ Taken + 1 > Before(call) /\ device.mode = "read"
      /\ Before(call) \in Nat /\ Total(call) \in Nat
      /\ Brought(call, Taken + 1) = Brought(call, Taken) + 1
  BY Places DEF BytePlace
<1>3. Taken >= Before(call) /\ device.at = call.reg + (Taken - Before(call))
  BY <1>1, <1>2 DEF Understood
<1>4. device \in Device /\ nacks \in Nat
  BY DEF IndInv, TypeOK
<1> DEFINE r == [data |-> <<device.page, device.at>>, ack |-> e.ack]
<1>5. /\ device' = [device EXCEPT !.at = device.at + 1]
      /\ rfifo' = Append(rfifo, r) /\ nacks' = nacks /\ missed' = missed
      /\ fsm' = IF Taken + 1 = Total(call) THEN "stop" ELSE "run"
  BY <1>2 DEF Deliver
<1>6. r \in Answer
  BY <1>2, <1>4 DEF Answer, Entry, Device, Value
<1>7. /\ device'.page = device.page /\ device'.mode = "read" /\ device'.at = device.at + 1
      /\ device' \in Device
  BY <1>2, <1>4, <1>5, SMTT(30) DEF Device
<1>8. r.data = <<device.page, call.reg + (Taken - Before(call))>>
  BY <1>3
<1> HIDE DEF r, e
<1>9. rfifo' \in Seq(Answer) /\ Len(rfifo') = Len(rfifo) + 1 /\ OwnBytes'
  BY <1>5, <1>6, <1>7, <1>8, NewResult
<1>10. Understood'
  <2>1. call.reg \in Int
    BY <1>1, TransferFacts
  <2>2. Taken' >= Before(call) /\ device'.at = call.reg + (Taken' - Before(call)) /\ ~(Taken' < Before(call))
    BY <1>1, <1>2, <1>3, <1>7, <2>1
  <2> QED
    BY <1>1, <1>2, <1>7, <2>2 DEF Understood
<1>11. Brought(call, Taken) \in Nat
  BY <1>1, <1>2, BroughtFacts
<1>12. Seen + Len(rfifo') = Brought(call, Taken + 1)
  BY <1>1, <1>2, <1>9
<1>13. TypeOK' /\ TransferInv'
  BY <1>4, <1>5, <1>7, <1>9, <1>10, <1>12, TookOn
<1> QED
  BY <1>2, <1>5, <1>7, <1>13

\* The whole register address is the address.
LEMMA WholeAddress ==
  ASSUME NEW c \in Transfers
  PROVE  c.reg % 256 ^ reg_addr_size = c.reg
<1>1. c.reg \in 0 .. 256 ^ reg_addr_size - 1
  BY TransferFacts
<1> DEFINE n == 256 ^ reg_addr_size
<1>2. n \in Nat \ {0}
  BY PowersOf256, I2CAssumption
<1> HIDE DEF n
<1>3. c.reg \in 0 .. n - 1
  BY <1>1 DEF n
<1>4. c.reg % n = c.reg
  BY <1>2, <1>3
<1> QED
  BY <1>4 DEF n

\* A byte that is written and taken: address bytes lead to the register, a
\* data byte to the page.
LEMMA AcceptEntry ==
  ASSUME IndInv, Worker, InTransfer, Accept(Head(wfifo)), Head(wfifo).kind # "stop",
         Head(wfifo).kind = "byte" => device.mode = "write"
  PROVE  TypeOK' /\ TransferInv' /\ missed' = missed /\ fsm' # "abort"
         /\ (call.kind = "read" => device'.page = device.page)
         /\ (call.kind = "write" /\ call.reg = PageReg /\ wfifo' = << >> =>
               device'.page = call.data[1])
<1> DEFINE e == Head(wfifo)
           k == Taken
           c == call
<1>1. /\ c \in Transfers /\ call' = call /\ Understood /\ Taken' = k + 1
      /\ k \in 0 .. Total(c) - 1 /\ (wfifo' = << >> <=> k + 1 = Total(c))
      /\ Seen + Len(rfifo) = Brought(c, k) /\ Seen \in Int /\ Len(rfifo) \in Nat
  BY Took
<1>2. /\ e \in Entry /\ e.idle = (k + 1 = Total(c))
      /\ e.kind = "write" => k + 1 = 1
      /\ e.kind = "read" => c.kind = "read" /\ k + 1 = Before(c)
      /\ e.kind = "byte" =>
           \/ k + 1 \in 2 .. Addressed /\ e.data = Byte(c.reg, (k + 1) - 2)
           \/ c.kind = "write" /\ k + 1 = Before(c) + 1 /\ k + 1 = Total(c) /\ e.data = c.data[1]
      /\ Before(c) \in Nat /\ Total(c) \in Nat /\ Addressed \in Nat /\ Addressed >= 2
      /\ Before(c) >= Addressed /\ Before(c) < Total(c)
      /\ Brought(c, k + 1) = Brought(c, k) + 1
  <2>1. /\ e \in Entry /\ e.idle = (k + 1 = Total(c))
        /\ e.kind = "write" => k + 1 = 1
        /\ e.kind = "read" => c.kind = "read" /\ k + 1 = Before(c)
        /\ Before(c) \in Nat /\ Total(c) \in Nat /\ Addressed \in Nat /\ Addressed >= 2
        /\ Before(c) >= Addressed /\ Before(c) < Total(c)
    BY Places
  <2>2. e.kind = "byte" =>
          \/ k + 1 \in 2 .. Addressed /\ e.data = Byte(c.reg, (k + 1) - 2)
          \/ c.kind = "write" /\ k + 1 = Before(c) + 1 /\ k + 1 = Total(c) /\ e.data = c.data[1]
          \/ device.mode = "read"
    <3>1. e.kind = "byte" => BytePlace(e, k + 1)
      BY Places
    <3> DEFINE i == k + 1
    <3>2. e.kind = "byte" => BytePlace(e, i)
      BY <3>1
    <3> HIDE DEF e, k, i
    <3>3. e.kind = "byte" =>
            \/ i \in 2 .. Addressed /\ e.data = Byte(call.reg, i - 2)
            \/ call.kind = "write" /\ i = Before(call) + 1 /\ i = Total(call) /\ e.data = call.data[1]
            \/ device.mode = "read"
      BY <3>2, Zenon DEF BytePlace
    <3> QED
      BY <3>3, Zenon DEF i
  <2>3. Brought(c, k + 1) = Brought(c, k) + 1
    <3>1. Brought(c, k + 1) = IF e.kind = "stop" THEN Brought(c, k) ELSE Brought(c, k) + 1
      BY Places, Zenon
    <3> QED
      BY <3>1
  <2>4. "write" # "read"
    OBVIOUS
  <2> QED
    BY <2>1, <2>2, <2>3, <2>4
<1>3. device \in Device /\ nacks \in Nat
  BY DEF IndInv, TypeOK
<1>4. /\ c.kind \in {"read", "write"} /\ c.reg \in Nat /\ (c.kind = "write" => c.data[1] \in Int)
      /\ reg_addr_size \in Nat \ {0} /\ Addressed = 1 + reg_addr_size
      /\ c.kind = "write" => Before(c) = Addressed
      /\ c.kind = "read" => Before(c) > Addressed
  <2>1. /\ c.kind \in {"read", "write"} /\ c.reg \in Nat /\ (c.kind = "write" => c.data[1] \in Int)
        /\ reg_addr_size \in Nat \ {0} /\ Addressed = 1 + reg_addr_size
    BY <1>1, TransferFacts
  <2> HIDE DEF c
  <2>2. (c.kind = "write" => Before(c) = Addressed) /\ (c.kind = "read" => Before(c) > Addressed)
    BY <2>1 DEF Before
  <2> QED
    BY <2>1, <2>2
<1> DEFINE r == [data |-> e.data, ack |-> 0]
<1>5. /\ device' = CASE e.kind = "write" -> [device EXCEPT !.mode = "write", !.got = 0]
                      [] e.kind = "read"  -> [device EXCEPT !.mode = "read"]
                      [] OTHER            -> Written(device, e.data)
      /\ rfifo' = Append(rfifo, r) /\ nacks' = nacks /\ missed' = missed
      /\ fsm' = IF k + 1 = Total(c) THEN "stop" ELSE "run"
  BY <1>2 DEF Accept
<1>6. r \in Answer
  BY <1>2 DEF Answer, Entry, Value
<1>7. /\ k > 0 /\ (c.kind = "read" => k < Before(c)) =>
           /\ device.mode = "write"
           /\ device.got = (IF k <= Addressed THEN k - 1 ELSE reg_addr_size)
           /\ k > 1 => device.at = c.reg % 256 ^ device.got
      /\ c.kind = "read" /\ k >= Before(c) =>
           device.mode = "read" /\ device.at = c.reg + (k - Before(c))
  BY <1>1 DEF Understood
<1> DEFINE Knows ==
             /\ c.kind = "read" => k + 1 <= Before(c)
             /\ device' \in Device
             /\ c.kind = "read" => device'.page = device.page
             /\ c.kind = "write" /\ c.reg = PageReg /\ k + 1 = Total(c) =>
                  device'.page = c.data[1]
             /\ (c.kind = "read" => k + 1 < Before(c)) =>
                  /\ device'.mode = "write"
                  /\ device'.got = (IF k + 1 <= Addressed THEN k ELSE reg_addr_size)
                  /\ k + 1 > 1 => device'.at = c.reg % 256 ^ device'.got
             /\ c.kind = "read" /\ k + 1 = Before(c) =>
                  device'.mode = "read" /\ device'.at = c.reg
<1> HIDE DEF e, k, c, r
<1>8. ASSUME e.kind = "write" PROVE Knows
  <2>1. k = 0
    BY <1>1, <1>2, <1>8
  <2>2. device' = [device EXCEPT !.mode = "write", !.got = 0]
    BY <1>5, <1>8
  <2>3. /\ device' \in Device /\ device'.page = device.page /\ device'.mode = "write"
        /\ device'.got = 0
    <3> DEFINE d == [device EXCEPT !.mode = "write"]
    <3>1. d \in Device /\ d.page = device.page /\ d.mode = "write"
      BY <1>3 DEF Device
    <3>2. device' = [d EXCEPT !.got = 0]
      BY <2>2
    <3> HIDE DEF d
    <3> QED
      BY <1>4, <3>1, <3>2 DEF Device
  <2> QED
    BY <1>2, <1>4, <2>1, <2>3
<1>9. ASSUME e.kind = "read" PROVE Knows
  <2>1. c.kind = "read" /\ k + 1 = Before(c)
    BY <1>2, <1>9
  <2>2. device' = [device EXCEPT !.mode = "read"]
    BY <1>5, <1>9
  <2>3. /\ device' \in Device /\ device'.page = device.page /\ device'.mode = "read"
        /\ device'.at = device.at
    BY <1>3, <2>2 DEF Device
  <2>4. k > 1 /\ k < Before(c) /\ k >= Addressed
    BY <1>1, <1>2, <1>4, <2>1
  <2>5. device.got = reg_addr_size /\ device.at = c.reg % 256 ^ device.got
    BY <1>1, <1>2, <1>4, <1>7, <2>4
  <2>6. device.at = c.reg
    BY <1>1, <2>5, WholeAddress
  <2> QED
    BY <1>1, <1>2, <2>1, <2>3, <2>6
<1>10. ASSUME e.kind = "byte" /\ k + 1 \in 2 .. Addressed PROVE Knows
  <2>1. /\ k \in 1 .. reg_addr_size /\ k > 0 /\ k <= Addressed /\ k < Before(c)
        /\ k - 1 \in 0 .. reg_addr_size - 1 /\ (k + 1) - 2 = k - 1
    <3>1. /\ k \in Int /\ k + 1 >= 2 /\ k + 1 <= 1 + reg_addr_size /\ reg_addr_size \in Int
          /\ Before(c) \in Int /\ Before(c) >= 1 + reg_addr_size /\ Addressed = 1 + reg_addr_size
      <4>1. k \in Int /\ k + 1 \in 2 .. Addressed
        BY <1>1, <1>2, <1>10
      <4> QED
        BY <4>1, <1>2, <1>4
    <3> QED
      BY <3>1
  <2>2. device.mode = "write" /\ device.got = k - 1 /\ (k > 1 => device.at = c.reg % 256 ^ (k - 1))
    BY <1>7, <2>1
  <2>3. e.data = Byte(c.reg, k - 1)
    BY <1>2, <1>10, <2>1
  <2>4. c.reg % 256 ^ (k - 1 + 1) = (c.reg % 256 ^ (k - 1)) + Byte(c.reg, k - 1) * 256 ^ (k - 1)
    BY <1>4, <2>1, NextByte
  <2>5. k = 1 => c.reg % 256 ^ (k - 1) = 0
    BY <1>4, PowersOf256
  <2> DEFINE x == IF device.got = 0 THEN 0 ELSE device.at
  <2>6. x = c.reg % 256 ^ (k - 1)
    BY <2>1, <2>2, <2>5
  <2> HIDE DEF x
  <2>7. x + e.data * 256 ^ (k - 1) = c.reg % 256 ^ k
    BY <2>1, <2>3, <2>4, <2>6
  <2>8. device' = Written(device, e.data) /\ device.got < reg_addr_size
    <3>1. device' = Written(device, e.data)
      BY <1>5, <1>10
    <3> QED
      BY <3>1, <1>4, <2>1, <2>2
  <2>9. device' = [device EXCEPT !.got = device.got + 1, !.at = x + e.data * 256 ^ (k - 1)]
    BY <2>2, <2>8 DEF Written, x
  <2>10. c.reg % 256 ^ k \in Int
    <3>1. 256 ^ k \in Nat \ {0}
      BY <2>1, <1>4, PowersOf256
    <3> QED
      BY <3>1, <1>4
  <2>11. /\ device' \in Device /\ device'.page = device.page /\ device'.mode = "write"
         /\ device'.got = k /\ device'.at = c.reg % 256 ^ k
    <3> DEFINE y == x + e.data * 256 ^ (k - 1)
    <3>1. device' = [device EXCEPT !.got = device.got + 1, !.at = y] /\ y = c.reg % 256 ^ k
      BY <2>7, <2>9
    <3>2. y \in Int /\ device.got + 1 = k /\ k \in 0 .. reg_addr_size
      BY <3>1, <2>1, <2>2, <2>10
    <3> HIDE DEF y
    <3> QED
      <4> DEFINE d == [device EXCEPT !.got = device.got + 1]
      <4>1. d \in Device /\ d.page = device.page /\ d.mode = "write" /\ d.got = k
        BY <1>3, <2>2, <3>2 DEF Device
      <4>2. device' = [d EXCEPT !.at = y]
        BY <3>1
      <4> HIDE DEF d
      <4> QED
        BY <3>1, <3>2, <4>1, <4>2, ZenonT(40) DEF Device
  <2>12. k + 1 <= Addressed /\ k + 1 <= Before(c) /\ k + 1 # Total(c)
         /\ (c.kind = "read" => k + 1 # Before(c))
    <3>1. /\ k \in Int /\ k + 1 <= Addressed /\ Addressed \in Int /\ Before(c) \in Int
          /\ Total(c) \in Int /\ Before(c) >= Addressed /\ Before(c) < Total(c)
      BY <1>2, <1>10, <2>1
    <3>2. c.kind = "read" => Before(c) > Addressed
      BY <1>4
    <3> QED
      BY <3>1, <3>2
  <2> QED
    BY <1>4, <2>11, <2>12
<1>11. ASSUME e.kind = "byte" /\ c.kind = "write" /\ k + 1 = Before(c) + 1 /\ e.data = c.data[1]
       PROVE  Knows
  <2>1. k = Addressed /\ k > 1 /\ k - 1 = reg_addr_size
    BY <1>1, <1>2, <1>4, <1>11
  <2>2. device.mode = "write" /\ device.got = reg_addr_size /\ device.at = c.reg % 256 ^ reg_addr_size
    <3>1. device.mode = "write" /\ device.got = k - 1 /\ device.at = c.reg % 256 ^ device.got
      BY <1>2, <1>7, <1>11, <2>1
    <3> QED
      BY <2>1, <3>1
  <2>3. device.at = c.reg
    BY <1>1, <2>2, WholeAddress
  <2>4. device' = IF c.reg = PageReg THEN [device EXCEPT !.page = c.data[1]] ELSE device
    <3>1. device' = Written(device, e.data) /\ ~(device.got < reg_addr_size)
      BY <1>4, <1>5, <1>11, <2>2
    <3> QED
      BY <3>1, <1>11, <2>3 DEF Written
  <2>5. /\ device' \in Device /\ device'.mode = "write" /\ device'.got = reg_addr_size
        /\ device'.at = c.reg /\ (c.reg = PageReg => device'.page = c.data[1])
    <3>1. CASE c.reg = PageReg
      <4>1. device' = [device EXCEPT !.page = c.data[1]] /\ c.data[1] \in Int
        BY <2>4, <3>1, <1>4, <1>11
      <4> QED
        BY <4>1, <1>3, <2>2, <2>3 DEF Device
    <3>2. CASE c.reg # PageReg
      BY <3>2, <1>3, <2>2, <2>3, <2>4
    <3> QED
      BY <3>1, <3>2
  <2>6. ~(k + 1 <= Addressed)
    BY <2>1, <1>2
  <2> QED
    BY <1>11, <2>2, <2>3, <2>5, <2>6
<1>12. Knows
  <2> HIDE DEF Knows
  <2> QED
    BY <1>2, <1>8, <1>9, <1>10, <1>11 DEF Entry, e
<1>13. rfifo' \in Seq(Answer) /\ Len(rfifo') = Len(rfifo) + 1 /\ OwnBytes'
  <2>1. ~(c.kind = "read" /\ k >= Before(c))
    BY <1>1, <1>2, <1>12
  <2> QED
    BY <1>5, <1>6, <1>12, <2>1, NewResult DEF c, k
<1>14. Understood'
  <2>1. k + 1 > 0 /\ k + 1 - 1 = k
    BY <1>1
  <2>2. c.kind = "read" /\ k + 1 >= Before(c) => k + 1 = Before(c) /\ c.reg + (k + 1 - Before(c)) = c.reg
    BY <1>1, <1>2, <1>4, <1>12
  <2> QED
    BY <1>1, <1>12, <2>1, <2>2 DEF Understood, c
<1>15. Brought(c, k) \in Nat
  BY <1>1, <1>2, BroughtFacts
<1>16. Seen + Len(rfifo') = Brought(c, k + 1)
  BY <1>1, <1>2, <1>13, <1>15
<1>17. TypeOK' /\ TransferInv'
  BY <1>3, <1>5, <1>12, <1>13, <1>14, <1>16, TookOn DEF c, k
<1> QED
  BY <1>1, <1>5, <1>12, <1>17 DEF c, k

\* A byte that is refused: the transfer is aborted, unless it was the last
\* one, and then it ends.
LEMMA RefuseEntry ==
  ASSUME IndInv, Worker, InTransfer, Refuse(Head(wfifo)), Head(wfifo).kind # "stop",
         Head(wfifo).kind = "byte" => device.mode = "write"
  PROVE  TypeOK' /\ TransferInv' /\ device'.page = device.page
         /\ missed' = (IF spd.state = "write" THEN missed \cup {spd.page} ELSE missed)
<1> DEFINE e == Head(wfifo)
           k == Taken
           c == call
<1>0. TypeOK /\ TransferInv
  BY DEF IndInv
<1>1. /\ c \in Transfers /\ call' = call /\ Understood /\ Taken' = k + 1 /\ Progress
      /\ k \in 0 .. Total(c) - 1 /\ Len(wfifo') = Total(c) - (k + 1) /\ wfifo' \in Seq(Entry)
      /\ Seen + Len(rfifo) = Brought(c, k) /\ Seen \in Int /\ Len(rfifo) \in Nat
      /\ rfifo \in Seq(Answer) /\ Seen' = Seen
  BY Took
<1>2. /\ pc' = pc /\ ctrl' = ctrl /\ ret' = ret /\ discard_reads' = discard_reads
      /\ sent' = sent /\ pc \notin {"wait", "abort", "ready"}
  BY Took
<1>3. /\ e \in Entry /\ e.idle = (k + 1 = Total(c)) /\ e.abort_on_nack = (k + 1 # Total(c))
      /\ (e.kind = "write" => k + 1 = 1)
      /\ (e.kind = "read" => c.kind = "read" /\ k + 1 = Before(c))
      /\ Before(c) \in Nat /\ Total(c) \in Nat /\ Addressed \in Nat /\ Addressed >= 2
      /\ Before(c) >= Addressed /\ Before(c) < Total(c)
      /\ (k + 1 <= Before(c) => Brought(c, k) < Discarded(c))
  BY Places
<1>4. Brought(c, k + 1) = Brought(c, k) + 1
  <2>1. Brought(c, k + 1) = IF e.kind = "stop" THEN Brought(c, k) ELSE Brought(c, k) + 1
    BY Places, Zenon
  <2> QED
    BY <2>1
<1>5. e.kind = "byte" => BytePlace(e, k + 1)
  BY Places
<1>6. e.kind = "byte" =>
        \/ k + 1 <= Addressed
        \/ c.kind = "write" /\ k + 1 = Before(c) + 1 /\ k + 1 = Total(c)
  <2>1. e.kind = "byte" =>
          \/ k + 1 \in 2 .. Addressed
          \/ c.kind = "write" /\ k + 1 = Before(c) + 1 /\ k + 1 = Total(c)
    BY <1>5 DEF BytePlace
  <2> HIDE DEF e, k, c
  <2> QED
    BY <1>1, <1>3, <2>1
<1>7. device \in Device /\ nacks \in Nat /\ Discarded(c) \in Nat
  <2>1. device \in Device /\ nacks \in Nat
    BY <1>0 DEF TypeOK
  <2> QED
    BY <1>1, <2>1, TransferFacts
<1> DEFINE r == [data |-> e.data, ack |-> 1]
<1>8. /\ nacks' = nacks + 1
      /\ missed' = IF spd.state = "write" THEN missed \cup {spd.page} ELSE missed
      /\ device' = IF e.kind = "byte" THEN device ELSE [device EXCEPT !.mode = "none"]
      /\ fsm' = CASE e.abort_on_nack -> "abort" [] e.idle -> "stop" [] OTHER -> "run"
      /\ \/ rfifo' = Append(rfifo, r)
         \/ e.abort_on_nack /\ rfifo' = rfifo
  BY DEF Refuse
<1>9. r \in Answer
  BY <1>3 DEF Answer, Entry, Value
<1>10. device' \in Device /\ device'.page = device.page
  BY <1>7, <1>8 DEF Device
<1>11. nacks' \in Nat
  BY <1>7, <1>8
<1> HIDE DEF e, k, c, r
<1>12. rfifo' \in Seq(Answer) /\ Len(rfifo') \in Nat /\ Len(rfifo') <= Len(rfifo) + 1
  <2>1. Append(rfifo, r) \in Seq(Answer) /\ Len(Append(rfifo, r)) = Len(rfifo) + 1
    BY <1>1, <1>9, AppendProperties
  <2>2. CASE rfifo' = Append(rfifo, r)
    BY <1>1, <2>1, <2>2
  <2>3. CASE rfifo' = rfifo
    BY <1>1, <2>3
  <2> QED
    BY <1>8, <2>2, <2>3
<1>13. CASE k + 1 # Total(c)
  <2>1. k + 1 <= Before(c)
    BY <1>1, <1>3, <1>6, <1>13 DEF Entry, e
  <2>2. Brought(c, k) \in Int /\ Brought(c, k) < Discarded(c)
    BY <1>1, <1>3, <2>1
  <2>3. Seen' + Len(rfifo') <= Discarded(c)
    <3>1. \A a, b, x, y, d \in Int : a + b = x /\ x < d /\ y <= b + 1 => a + y <= d
      OBVIOUS
    <3> QED
      BY <1>1, <1>7, <1>12, <2>2, <3>1
  <2>4. Len(wfifo') <= Total(c)
    BY <1>1, <1>3
  <2>5. fsm' = "abort"
    BY <1>3, <1>8, <1>13
  <2>6. TypeOK'
    BY <1>0, <1>1, <1>2, <1>10, <1>11, <1>12, <2>5 DEF TypeOK
  <2>7. Refused'
    BY <1>1, <1>2, <2>3, <2>4, <2>5 DEF Refused, Progress, c
  <2>8. TransferInv'
    BY <1>0, <1>1, <1>2, <2>5, <2>7 DEF TransferInv, InTransfer
  <2> QED
    BY <1>8, <1>10, <2>6, <2>8
<1>14. CASE k + 1 = Total(c)
  <2>1. e.kind = "byte" /\ c.kind = "write" /\ k = Before(c)
    <3>1. e.kind \in {"byte", "write", "read"}
      BY <1>3 DEF Entry, e
    <3> QED
      BY <3>1, <1>1, <1>3, <1>6, <1>14
  <2>2. device' = device /\ fsm' = "stop" /\ rfifo' = Append(rfifo, r)
    BY <1>3, <1>8, <1>14, <2>1
  <2>3. ~(c.kind = "read")
    BY <2>1
  <2>4. Len(rfifo') = Len(rfifo) + 1 /\ OwnBytes'
    BY <1>9, <2>2, <2>3, NewResult DEF c
  <2>5. Brought(c, k) \in Nat
    BY <1>1, <1>3, BroughtFacts
  <2>6. Seen + Len(rfifo') = Brought(c, k + 1)
    BY <1>1, <1>4, <2>4, <2>5
  <2>7. Understood'
    <3>1. k = Addressed /\ k - 1 = reg_addr_size
      <4>1. Before(c) = Addressed
        BY <2>3 DEF Before
      <4>2. Addressed - 1 = reg_addr_size
        BY I2CAssumption DEF Addressed
      <4> QED
        BY <2>1, <4>1, <4>2
    <3>2. k > 0 /\ k > 1 /\ k <= Addressed /\ ~(k + 1 <= Addressed)
      BY <1>3, <3>1
    <3>3. /\ device.mode = "write" /\ device.got = k - 1
          /\ device.at = c.reg % 256 ^ device.got
      BY <1>1, <2>1, <3>2 DEF Understood, c, k
    <3> QED
      BY <1>1, <2>2, <2>3, <3>1, <3>2, <3>3 DEF Understood, c
  <2>8. TypeOK' /\ TransferInv'
    BY <1>10, <1>11, <1>12, <1>14, <2>2, <2>4, <2>6, <2>7, TookOn DEF c, k
  <2> QED
    BY <1>8, <1>10, <2>8
<1> QED
  BY <1>13, <1>14

\* An entry of a transfer
LEMMA WorkerTransferStep ==
  ASSUME IndInv, Worker, InTransfer
  PROVE  IndInv'
<1> DEFINE e == Head(wfifo)
<1>0. TypeOK /\ TransferInv /\ LastInv /\ SpdInv
  BY DEF IndInv
<1>1. /\ call \in Transfers /\ call' = call /\ pc' = pc /\ spd' = spd /\ ctrl' = ctrl
      /\ last' = last /\ pc # "ready" /\ fsm = "run"
  BY Took
<1>2. wfifo # << >>
  BY DEF Worker
<1>3. \/ e.kind = "stop"
      \/ e.kind = "byte" /\ device.mode # "write" /\ Deliver(e)
      \/ e.kind # "stop" /\ (e.kind = "byte" => device.mode = "write") /\ Accept(e)
      \/ e.kind # "stop" /\ (e.kind = "byte" => device.mode = "write") /\ Refuse(e)
  BY DEF Worker
<1>4. /\ TypeOK' /\ TransferInv'
      /\ \/ missed' = missed
         \/ spd.state = "write" /\ missed' = missed \cup {spd.page}
      /\ spd.state = "read" /\ call.kind = "read" => device'.page = device.page
      /\ spd.state = "write" /\ call = WriteCall(<<spd.page>>) /\ (wfifo' = << >> \/ fsm' = "abort") =>
           device'.page = spd.page \/ spd.page \in missed'
  <2>1. CASE e.kind = "stop"
    BY <2>1, StopEntry
  <2>2. CASE e.kind = "byte" /\ device.mode # "write" /\ Deliver(e)
    <3>1. /\ TypeOK' /\ TransferInv' /\ device'.page = device.page /\ missed' = missed
          /\ call.kind = "read"
      BY <2>2, DeliverEntry
    <3>2. call # WriteCall(<<spd.page>>)
      BY <3>1 DEF WriteCall
    <3> QED
      BY <3>1, <3>2
  <2>3. CASE e.kind # "stop" /\ (e.kind = "byte" => device.mode = "write") /\ Accept(e)
    <3>1. /\ TypeOK' /\ TransferInv' /\ missed' = missed /\ fsm' # "abort"
          /\ (call.kind = "read" => device'.page = device.page)
          /\ (call.kind = "write" /\ call.reg = PageReg /\ wfifo' = << >> =>
                device'.page = call.data[1])
      BY <2>3, AcceptEntry
    <3>2. call = WriteCall(<<spd.page>>) =>
            call.kind = "write" /\ call.reg = PageReg /\ call.data[1] = spd.page
      BY DEF WriteCall
    <3> QED
      BY <3>1, <3>2
  <2>4. CASE e.kind # "stop" /\ (e.kind = "byte" => device.mode = "write") /\ Refuse(e)
    <3>1. /\ TypeOK' /\ TransferInv' /\ device'.page = device.page
          /\ missed' = (IF spd.state = "write" THEN missed \cup {spd.page} ELSE missed)
      BY <2>4, RefuseEntry
    <3> QED
      BY <3>1
  <2> QED
    BY <1>3, <2>1, <2>2, <2>3, <2>4
<1>5. PollInv' /\ ReadyInv'
  BY <1>1 DEF PollInv, ReadyInv, InPoll, InTransfer
<1>6. LastInv'
  BY <1>0, <1>1 DEF LastInv
<1>7. SpdInv'
  <2>1. /\ spd' \in [state : {"off", "raised", "write", "read", "done"}, page : Nat,
                     data : Seq(Value)]
        /\ spd'.state \in {"write", "read"} =>
             /\ spd'.page \in 0 .. Pages - 1
             /\ ~InPoll'
             /\ InTransfer' => call' = IF spd'.state = "write" THEN WriteCall(<<spd'.page>>)
                                       ELSE ReadCall(PageLength, FALSE)
        /\ spd'.state = "done" => spd'.page = Pages
    BY <1>0, <1>1 DEF SpdInv, InPoll, InTransfer
  <2>2. missed \subseteq missed'
    BY <1>4
  <2>3. spd'.state \in {"write", "read", "done"} =>
          /\ Len(spd'.data) = spd'.page * PageLength
          /\ \A p \in (0 .. spd'.page - 1) \ missed' : \A i \in 1 .. PageLength :
               spd'.data[p * PageLength + i] = <<p, DataReg + i - 1>>
    <3>1. spd.state \in {"write", "read", "done"} =>
            /\ Len(spd.data) = spd.page * PageLength
            /\ \A p \in (0 .. spd.page - 1) \ missed : \A i \in 1 .. PageLength :
                 spd.data[p * PageLength + i] = <<p, DataReg + i - 1>>
      BY <1>0, Zenon DEF SpdInv
    <3>2. \A p : p \notin missed' => p \notin missed
      BY <2>2
    <3> QED
      BY <1>1, <3>1, <3>2, Zenon
  <2>4. /\ spd.state = "write" => call = WriteCall(<<spd.page>>)
        /\ spd.state = "read" => call = ReadCall(PageLength, FALSE) /\ Selected
    BY <1>0 DEF SpdInv
  <2>5. spd'.state = "write" /\ InTransfer' /\ (wfifo' = << >> \/ fsm' = "abort") => Selected'
    BY <1>1, <1>4, <2>4 DEF Selected
  <2>6. spd'.state = "read" => Selected'
    BY <1>1, <1>4, <2>4 DEF Selected, ReadCall
  <2> QED
    BY <2>1, <2>3, <2>5, <2>6, Zenon DEF SpdInv
<1> QED
  BY <1>4, <1>5, <1>6, <1>7 DEF IndInv

-----------------------------------------------------------------------------
\* The worker and i2c_poll

\* An address of i2c_poll, for a write or a read, brings one result, which
\* counts as a refusal or not.
LEMMA PollAddress ==
  ASSUME IndInv, Worker, InPoll, Head(wfifo).kind \in {"write", "read"},
         Head(wfifo).abort_on_nack = FALSE, Head(wfifo).data = 0
  PROVE  /\ device' \in Device /\ missed' = missed
         /\ Head(wfifo).kind = "read" => device'.mode # "write"
         /\ fsm' = IF Head(wfifo).idle THEN "stop" ELSE "run"
         /\ \E r \in Answer : rfifo' = Append(rfifo, r) /\ nacks' = nacks + r.ack
<1> DEFINE e == Head(wfifo)
<1>1. device \in Device /\ nacks \in Nat /\ spd.state # "write"
  BY DEF IndInv, TypeOK, SpdInv
<1>2. Accept(e) \/ Refuse(e)
  BY DEF Worker
<1>3. CASE Accept(e)
  <2>1. /\ device' = IF e.kind = "write" THEN [device EXCEPT !.mode = "write", !.got = 0]
                     ELSE [device EXCEPT !.mode = "read"]
        /\ missed' = missed /\ nacks' = nacks /\ fsm' = (IF e.idle THEN "stop" ELSE "run")
        /\ rfifo' = Append(rfifo, [data |-> e.data, ack |-> 0])
    BY <1>3 DEF Accept
  <2>2. device' \in Device /\ (e.kind = "read" => device'.mode # "write")
    <3>1. CASE e.kind = "write"
      <4> DEFINE d == [device EXCEPT !.mode = "write"]
      <4>1. d \in Device
        BY <1>1 DEF Device
      <4>2. device' = [d EXCEPT !.got = 0]
        BY <2>1, <3>1
      <4> HIDE DEF d
      <4>3. 0 \in 0 .. reg_addr_size
        BY I2CAssumption
      <4> QED
        BY <3>1, <4>1, <4>2, <4>3 DEF Device
    <3>2. CASE e.kind = "read"
      <4>1. device' = [device EXCEPT !.mode = "read"]
        BY <2>1, <3>2
      <4> QED
        BY <1>1, <4>1 DEF Device
    <3> QED
      BY <3>1, <3>2
  <2>3. [data |-> e.data, ack |-> 0] \in Answer /\ nacks' = nacks + [data |-> e.data, ack |-> 0].ack
    BY <1>1, <2>1 DEF Answer, Value
  <2> QED
    BY <2>1, <2>2, <2>3
<1>4. CASE Refuse(e)
  <2>1. /\ device' = [device EXCEPT !.mode = "none"]
        /\ missed' = missed /\ nacks' = nacks + 1 /\ fsm' = (IF e.idle THEN "stop" ELSE "run")
        /\ rfifo' = Append(rfifo, [data |-> e.data, ack |-> 1])
    BY <1>1, <1>4 DEF Refuse
  <2>2. device' \in Device /\ device'.mode # "write"
    BY <1>1, <2>1 DEF Device
  <2>3. [data |-> e.data, ack |-> 1] \in Answer /\ nacks' = nacks + [data |-> e.data, ack |-> 1].ack
    BY <1>1, <2>1 DEF Answer, Value
  <2> QED
    BY <2>1, <2>2, <2>3
<1> QED
  BY <1>2, <1>3, <1>4

\* The entries of i2c_poll
LEMMA PollEntries ==
  LET a == [Address("read") EXCEPT !.abort_on_nack = FALSE]
      b == [PollLast("byte") EXCEPT !.data = 255]
      w == PollLast("write")
  IN  /\ w.kind = "write" /\ w.abort_on_nack = FALSE /\ w.data = 0 /\ w.idle = TRUE
      /\ a.kind = "read" /\ a.abort_on_nack = FALSE /\ a.data = 0 /\ a.idle = FALSE
      /\ b.kind = "byte" /\ b.ack = 1 /\ b.idle = TRUE
      /\ a \in Entry /\ b \in Entry
<1> DEFINE a == [Address("read") EXCEPT !.abort_on_nack = FALSE]
           b == [PollLast("byte") EXCEPT !.data = 255]
           w == PollLast("write")
<1>1. w.kind = "write" /\ w.abort_on_nack = FALSE /\ w.data = 0 /\ w.idle = TRUE
  BY DEF PollLast, Address, I2CQueueEntry
<1>2. a.kind = "read" /\ a.abort_on_nack = FALSE /\ a.data = 0 /\ a.idle = FALSE
  BY DEF Address, I2CQueueEntry
<1>3. b.kind = "byte" /\ b.ack = 1 /\ b.idle = TRUE
  BY DEF PollLast, Address, I2CQueueEntry
<1>4. a \in Entry
  BY AddressFacts DEF Entry
<1>5. b \in Entry
  <2>1. PollLast("byte") \in Entry
    BY AddressFacts DEF PollLast, Entry
  <2> QED
    BY <2>1 DEF Entry
<1> QED
  BY <1>1, <1>2, <1>3, <1>4, <1>5

\* An entry of i2c_poll
LEMMA WorkerPollStep ==
  ASSUME IndInv, Worker, InPoll
  PROVE  IndInv'
<1> DEFINE e == Head(wfifo)
           a == [Address("read") EXCEPT !.abort_on_nack = FALSE]
           b == [PollLast("byte") EXCEPT !.data = 255]
           w == PollLast("write")
<1>0. TypeOK /\ PollInv /\ LastInv /\ SpdInv
  BY DEF IndInv
<1>1. /\ fsm = "run" /\ wfifo # << >> /\ wfifo' = Tail(wfifo)
      /\ UNCHANGED <<pc, call, sent, discard_reads, ret, last, spd, ctrl>>
  BY DEF Worker, hostVars
<1>2. rfifo \in Seq(Answer) /\ device \in Device /\ nacks \in Nat
  BY <1>0 DEF TypeOK
<1>3. call.kind = "poll" /\ call.refused \in Nat /\ ctrl = 0
  BY <1>0, <1>1 DEF PollInv
<1>4. /\ w.kind = "write" /\ w.abort_on_nack = FALSE /\ w.data = 0 /\ w.idle = TRUE
      /\ a.kind = "read" /\ a.abort_on_nack = FALSE /\ a.data = 0 /\ a.idle = FALSE
      /\ b.kind = "byte" /\ b.ack = 1 /\ b.idle = TRUE
      /\ a \in Entry /\ b \in Entry
  BY PollEntries
<1>5. \/ pc = "poll_write" /\ wfifo = <<w>> /\ rfifo = << >> /\ nacks = call.refused
      \/ pc = "poll_read" /\ wfifo = <<a, b>> /\ rfifo = << >> /\ nacks = call.refused + 1
      \/ /\ pc = "poll_read" /\ wfifo = <<b>> /\ device.mode # "write"
         /\ Len(rfifo) = 1 /\ nacks = call.refused + 1 + rfifo[1].ack
  BY <1>0, <1>1 DEF PollInv
<1>6. spd.state \notin {"write", "read"} /\ last.call.kind = "none"
  BY <1>0 DEF SpdInv, LastInv, InPoll
<1>7. ASSUME device' \in Device, nacks' \in Nat, missed' = missed,
             rfifo' \in Seq(Answer), wfifo' \in Seq(Entry), fsm' \in {"run", "stop"}, PollInv'
      PROVE  IndInv'
  <2>1. TypeOK'
    BY <1>0, <1>1, <1>7 DEF TypeOK
  <2>2. TransferInv' /\ ReadyInv'
    BY <1>1 DEF TransferInv, ReadyInv, InTransfer, InPoll
  <2>3. LastInv'
    BY <1>1, <1>6 DEF LastInv
  <2>4. SpdInv'
    BY <1>0, <1>1, <1>6, <1>7 DEF SpdInv
  <2> QED
    BY <1>7, <2>1, <2>2, <2>3, <2>4 DEF IndInv
<1>8. CASE pc = "poll_write" /\ wfifo = <<w>> /\ rfifo = << >> /\ nacks = call.refused
  <2>1. e = w /\ wfifo' = << >> /\ << >> \in Seq(Entry)
    <3> HIDE DEF w
    <3> QED
      BY <1>1, <1>8
  <2> HIDE DEF e, w, a, b
  <2>2. /\ e.kind \in {"write", "read"} /\ e.abort_on_nack = FALSE /\ e.data = 0 /\ e.idle = TRUE
    BY <1>4, <2>1
  <2>3. /\ device' \in Device /\ missed' = missed /\ fsm' = "stop"
        /\ \E r \in Answer : rfifo' = Append(rfifo, r) /\ nacks' = nacks + r.ack
    BY <2>2, PollAddress DEF e
  <2>4. PICK r \in Answer : rfifo' = Append(rfifo, r) /\ nacks' = nacks + r.ack
    BY <2>3
  <2>5. rfifo' \in Seq(Answer) /\ Len(rfifo') = 1 /\ rfifo'[1] = r /\ r.ack \in {0, 1}
    BY <1>8, <2>4 DEF Answer
  <2>6. nacks' \in Nat /\ nacks' = call.refused + rfifo'[1].ack
    BY <1>2, <1>8, <2>4, <2>5
  <2>7. PollInv'
    BY <1>1, <1>3, <1>8, <2>1, <2>3, <2>5, <2>6 DEF PollInv
  <2> QED
    BY <1>7, <2>1, <2>3, <2>5, <2>6, <2>7
<1>9. CASE pc = "poll_read" /\ wfifo = <<a, b>> /\ rfifo = << >> /\ nacks = call.refused + 1
  <2>1. e = a /\ wfifo' = <<b>> /\ wfifo' \in Seq(Entry)
    <3> HIDE DEF a, b
    <3> QED
      BY <1>1, <1>4, <1>9
  <2> HIDE DEF e, w, a, b
  <2>2. /\ e.kind = "read" /\ e.abort_on_nack = FALSE /\ e.data = 0 /\ e.idle = FALSE
    BY <1>4, <2>1
  <2>3. /\ device' \in Device /\ missed' = missed /\ fsm' = "run" /\ device'.mode # "write"
        /\ \E r \in Answer : rfifo' = Append(rfifo, r) /\ nacks' = nacks + r.ack
    BY <2>2, PollAddress DEF e
  <2>4. PICK r \in Answer : rfifo' = Append(rfifo, r) /\ nacks' = nacks + r.ack
    BY <2>3
  <2>5. rfifo' \in Seq(Answer) /\ Len(rfifo') = 1 /\ rfifo'[1] = r /\ r.ack \in {0, 1}
    BY <1>9, <2>4 DEF Answer
  <2>6. nacks' \in Nat /\ nacks' = call.refused + 1 + rfifo'[1].ack
    BY <1>2, <1>3, <1>9, <2>4, <2>5
  <2>7. PollInv'
    BY <1>1, <1>3, <1>9, <2>1, <2>3, <2>5, <2>6 DEF PollInv, b
  <2> QED
    BY <1>7, <2>1, <2>3, <2>5, <2>6, <2>7
<1>10. CASE /\ pc = "poll_read" /\ wfifo = <<b>> /\ device.mode # "write"
            /\ Len(rfifo) = 1 /\ nacks = call.refused + 1 + rfifo[1].ack
  <2>1. e = b /\ wfifo' = << >> /\ << >> \in Seq(Entry)
    <3> HIDE DEF b
    <3> QED
      BY <1>1, <1>10
  <2> HIDE DEF w, a, b
  <2>2. e.kind = "byte" /\ e.ack = 1 /\ e.idle = TRUE
    BY <1>4, <2>1
  <2>3. Deliver(e)
    BY <1>10, <2>2 DEF Worker
  <2> HIDE DEF e
  <2> DEFINE x == IF device.mode = "read" THEN <<device.page, device.at>> ELSE 255
             y == IF device.mode = "read" THEN device.at + 1 ELSE device.at
             r == [data |-> x, ack |-> 1]
  <2>4. /\ device' = [device EXCEPT !.at = y] /\ fsm' = "stop"
        /\ rfifo' = Append(rfifo, r) /\ nacks' = nacks /\ missed' = missed
    BY <2>2, <2>3 DEF Deliver
  <2>5. y \in Int /\ r \in Answer
    BY <1>2 DEF Device, Answer, Value
  <2> HIDE DEF x, y, r
  <2>6. device' \in Device
    BY <1>2, <2>4, <2>5 DEF Device
  <2>7. rfifo' \in Seq(Answer) /\ Len(rfifo') = 2 /\ rfifo'[1] = rfifo[1]
    <3>1. /\ rfifo' \in Seq(Answer) /\ Len(rfifo') = Len(rfifo) + 1
          /\ \A i \in 1 .. Len(rfifo) : rfifo'[i] = rfifo[i]
      BY <1>2, <2>4, <2>5, AppendProperties
    <3>2. Len(rfifo) = 1 /\ 1 \in 1 .. 1
      BY <1>10
    <3> QED
      BY <3>1, <3>2
  <2>8. PollInv'
    BY <1>1, <1>3, <1>10, <2>1, <2>4, <2>7 DEF PollInv
  <2> QED
    BY <1>2, <1>7, <2>1, <2>4, <2>6, <2>7, <2>8
<1> QED
  BY <1>5, <1>8, <1>9, <1>10

-----------------------------------------------------------------------------
\* The invariant

LEMMA InitIndInv ==
  ASSUME Init
  PROVE  IndInv
<1>1. reg_addr_size \in Nat
  BY I2CAssumption
<1>2. TypeOK
  BY <1>1 DEF Init, TypeOK, Device
<1>3. TransferInv /\ PollInv /\ ReadyInv
  BY DEF Init, TransferInv, PollInv, ReadyInv, InTransfer, InPoll
<1>4. LastInv
  BY DEF Init, LastInv, NoCall
<1>5. SpdInv
  BY DEF Init, SpdInv
<1> QED
  BY <1>2, <1>3, <1>4, <1>5 DEF IndInv

LEMMA NextIndInv ==
  ASSUME IndInv, [Next]_vars
  PROVE  IndInv'
<1>1. CASE Console
  BY <1>1, ConsoleStep
<1>2. CASE ReadState
  BY <1>2, ReadStateStep
<1>3. CASE Abort
  BY <1>3, AbortStep
<1>4. CASE Refill
  BY <1>4, RefillStep
<1>5. CASE Collect
  BY <1>5, CollectStep
<1>6. CASE Return
  BY <1>6, ReturnStep
<1>7. CASE PollWriteDone
  BY <1>7, PollWriteDoneStep
<1>8. CASE PollReadDone
  BY <1>8, PollReadDoneStep
<1>9. CASE SpdCall
  BY <1>9, SpdCallStep
<1>10. CASE Worker
  <2>1. fsm = "run"
    BY <1>10 DEF Worker
  <2>2. InTransfer \/ InPoll
    BY <2>1 DEF IndInv, TypeOK, ReadyInv, InTransfer, InPoll
  <2> QED
    BY <1>10, <2>2, WorkerTransferStep, WorkerPollStep
<1>11. CASE Stop
  BY <1>11, StopStep
<1>12. CASE UNCHANGED vars
  <2>1. UNCHANGED <<pc, call, sent, discard_reads, ret, last, spd, ctrl, fsm, wfifo, rfifo,
                    device, nacks, missed>>
    BY <1>12 DEF vars, hostVars, deviceVars
  <2>2. TypeOK' /\ PollInv' /\ ReadyInv' /\ LastInv'
    BY <2>1 DEF IndInv, TypeOK, PollInv, ReadyInv, LastInv, InPoll
  <2>3. TransferInv'
    BY <2>1 DEF IndInv, TransferInv, InTransfer, Cleared, Refused, Progress, Understood,
                OwnBytes, Seen, Taken
  <2>4. SpdInv'
    BY <2>1 DEF IndInv, SpdInv, InTransfer, InPoll, Selected
  <2> QED
    BY <2>2, <2>3, <2>4 DEF IndInv
<1> QED
  BY <1>1, <1>2, <1>3, <1>4, <1>5, <1>6, <1>7, <1>8, <1>9, <1>10, <1>11, <1>12 DEF Next, Host

LEMMA Invariance == Spec => []IndInv
BY InitIndInv, NextIndInv, PTL DEF Spec

-----------------------------------------------------------------------------
\* Theorems

\* No FIFO gets more than it can hold.
LEMMA FifosFit ==
  ASSUME IndInv
  PROVE  Len(wfifo) <= Depth /\ Len(rfifo) <= Depth
<1>0. TypeOK /\ TransferInv /\ PollInv /\ ReadyInv
  BY DEF IndInv
<1>1. wfifo \in Seq(Entry) /\ rfifo \in Seq(Answer) /\ ret \in Seq(Value)
  BY <1>0 DEF TypeOK
<1>2. Len(wfifo) \in Nat /\ Len(rfifo) \in Nat /\ Len(ret) \in Nat
  BY <1>1, LenProperties
<1>3. Depth \in Nat /\ Depth >= 2 /\ (wfifo = << >> => Len(wfifo) = 0) /\ (rfifo = << >> => Len(rfifo) = 0)
  BY I2CAssumption
<1>4. CASE pc = "ready"
  BY <1>0, <1>2, <1>3, <1>4 DEF ReadyInv
<1>5. CASE InPoll
  <2> DEFINE w == PollLast("write")
             a == [Address("read") EXCEPT !.abort_on_nack = FALSE]
             b == [PollLast("byte") EXCEPT !.data = 255]
  <2>1. /\ \/ wfifo = << >> \/ wfifo = <<w>> \/ wfifo = <<a, b>> \/ wfifo = <<b>>
        /\ \/ rfifo = << >> \/ Len(rfifo) = 1 \/ Len(rfifo) = 2
    BY <1>0, <1>5 DEF PollInv
  <2> HIDE DEF w, a, b
  <2>2. Len(<<w>>) = 1 /\ Len(<<a, b>>) = 2 /\ Len(<<b>>) = 1
    OBVIOUS
  <2>3. Len(wfifo) <= 2 /\ Len(rfifo) <= 2
    <3>1. Len(wfifo) \in {0, 1, 2}
      BY <1>3, <2>1, <2>2, Zenon
    <3>2. Len(rfifo) \in {0, 1, 2}
      BY <1>3, <2>1, Zenon
    <3>3. \A n \in {0, 1, 2} : n <= 2
      OBVIOUS
    <3> QED
      BY <3>1, <3>2, <3>3, Zenon
  <2> QED
    BY <1>2, <1>3, <2>3
<1>6. CASE InTransfer
  <2>1. /\ call \in Transfers /\ discard_reads \in 0 .. Discarded(call)
        /\ Cleared \/ Refused \/ (Progress /\ Understood /\ OwnBytes)
    BY <1>0, <1>6 DEF TransferInv
  <2>2. /\ Total(call) \in Nat /\ Total(call) <= Depth /\ Discarded(call) \in Nat
        /\ Before(call) \in Nat /\ Before(call) <= Total(call)
    <3>1. /\ Total(call) \in Nat /\ Total(call) <= Depth /\ Discarded(call) \in Nat
          /\ Before(call) \in Nat /\ call.length \in Nat
      BY <2>1, TransferFacts
    <3> QED
      BY <3>1 DEF Total
  <2>3. Discarded(call) <= Total(call)
    <3>1. Discarded(call) = Brought(call, Before(call))
      BY <2>1, TransferFacts
    <3>2. Brought(call, Before(call)) <= Before(call)
      BY <2>2 DEF Brought
    <3> QED
      BY <2>2, <3>1, <3>2
  <2>4. Seen \in Nat
    BY <1>2, <2>1, <2>2 DEF Seen
  <2>5. CASE Cleared
    BY <1>2, <1>3, <2>5 DEF Cleared
  <2>6. CASE Refused
    <3>1. Seen + Len(rfifo) <= Discarded(call) /\ Len(wfifo) <= Total(call)
      BY <2>6 DEF Refused
    <3> QED
      BY <3>1, <1>2, <1>3, <2>2, <2>3, <2>4
  <2>7. CASE Progress
    <3>1. Taken \in 0 .. Total(call) /\ Seen + Len(rfifo) = Brought(call, Taken)
      BY <2>7 DEF Progress
    <3>2. Brought(call, Taken) <= Taken
      BY <2>2, <3>1 DEF Brought
    <3>3. Brought(call, Taken) \in Nat
      BY <2>1, <3>1, BroughtFacts
    <3>4. Len(wfifo) <= Total(call)
      BY <1>2, <2>2, <3>1 DEF Taken
    <3> QED
      BY <1>2, <1>3, <2>2, <2>4, <3>1, <3>2, <3>3, <3>4
  <2> QED
    BY <2>1, <2>5, <2>6, <2>7
<1> QED
  BY <1>0, <1>4, <1>5, <1>6 DEF TypeOK, InPoll, InTransfer

\* i2c_read returns the bytes asked for or None, i2c_poll whether the device
\* has answered, and no FIFO overflows, for every FIFO depth, address size and
\* length and however many calls and refusals there are.
THEOREM OwnResults == Spec => []OwnData
<1>1. IndInv => OwnData
  <2> SUFFICES ASSUME IndInv PROVE OwnData
    OBVIOUS
  <2>1. LastInv
    BY DEF IndInv
  <2> QED
    BY <2>1, FifosFit DEF OwnData, LastInv
<1> QED
  BY <1>1, Invariance, PTL

\* read_spd_i2c puts every page in its place, but for those whose selection
\* was refused.
THEOREM SpdIsExact == Spec => []SpdExact
<1>1. IndInv => SpdExact
  <2> SUFFICES ASSUME IndInv, spd.state = "done"
               PROVE  /\ Len(spd.data) = Pages * PageLength
                      /\ \A p \in (0 .. Pages - 1) \ missed : \A i \in 1 .. PageLength :
                           spd.data[p * PageLength + i] = <<p, DataReg + i - 1>>
    BY DEF SpdExact
  <2>1. spd.page = Pages
    BY DEF IndInv, SpdInv
  <2>2. /\ Len(spd.data) = spd.page * PageLength
        /\ \A p \in (0 .. spd.page - 1) \ missed : \A i \in 1 .. PageLength :
             spd.data[p * PageLength + i] = <<p, DataReg + i - 1>>
    BY Zenon DEF IndInv, SpdInv
  <2> QED
    BY <2>1, <2>2, Zenon
<1> QED
  BY <1>1, Invariance, PTL

=============================================================================
