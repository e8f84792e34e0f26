-------------------------- MODULE BistWriterProof --------------------------
(***************************************************************************)
(* The Writer fills memory with the pattern, for every pattern, range, row *)
(* size, inversion and depth of the DMA.                                   *)
(***************************************************************************)
EXTENDS BistWriter, Integers, TLAPS

Words == [address : Nat, data : Data]

-----------------------------------------------------------------------------
\* Which word is the last for an address

\* The last word of s for address a is the k-th one.
LastAt(s, a, k) ==
  /\ k \in 1 .. Len(s) /\ s[k].address = a
  /\ \A j \in 1 .. Len(s) : j > k => s[j].address # a

\* A memory that holds v at address a holds d there after the words of s.
Leaves(s, a, v, d) ==
  \/ d = v /\ \A k \in 1 .. Len(s) : s[k].address # a
  \/ \E k \in 1 .. Len(s) : LastAt(s, a, k) /\ d = s[k].data

LEMMA LeavesAppend ==
  ASSUME NEW s \in Seq(Words), NEW e \in Words, NEW a, NEW v, NEW d, Leaves(s, a, v, d)
  PROVE  Leaves(Append(s, e), a, v, IF e.address = a THEN e.data ELSE d)
<1> DEFINE t == Append(s, e)
           n == Len(s)
<1>1. n \in Nat /\ Len(t) = n + 1 /\ t[n + 1] = e /\ \A k \in 1 .. n : t[k] = s[k]
  OBVIOUS
<1> HIDE DEF t
<1>2. CASE e.address = a
  <2>1. LastAt(t, a, n + 1)
    BY <1>1, <1>2 DEF LastAt
  <2> QED
    BY <1>1, <1>2, <2>1 DEF Leaves, t
<1>3. CASE e.address # a
  <2>1. CASE d = v /\ \A k \in 1 .. Len(s) : s[k].address # a
    <3>1. \A k \in 1 .. Len(t) : t[k].address # a
      BY <1>1, <1>3, <2>1
    <3> QED
      BY <1>3, <2>1, <3>1 DEF Leaves, t
  <2>2. ASSUME NEW k \in 1 .. n, LastAt(s, a, k), d = s[k].data
        PROVE  Leaves(t, a, v, d)
    <3>1. k \in 1 .. Len(t) /\ LastAt(t, a, k) /\ d = t[k].data
      BY <1>1, <1>3, <2>2 DEF LastAt
    <3> QED
      BY <3>1 DEF Leaves
  <2> QED
    BY <1>3, <2>1, <2>2 DEF Leaves, t
<1> QED
  BY <1>2, <1>3

LEMMA LeavesTail ==
  ASSUME NEW s \in Seq(Words), s # <<>>, NEW a, NEW v, NEW d, Leaves(s, a, v, d)
  PROVE  Leaves(Tail(s), a, IF Head(s).address = a THEN Head(s).data ELSE v, d)
<1> DEFINE t == Tail(s)
           n == Len(s)
           w == IF Head(s).address = a THEN Head(s).data ELSE v
<1>1. n \in Nat \ {0} /\ Len(t) = n - 1 /\ Head(s) = s[1]
      /\ \A k \in 1 .. n - 1 : t[k] = s[k + 1]
  OBVIOUS
<1> HIDE DEF t
<1>2. CASE d = v /\ \A k \in 1 .. n : s[k].address # a
  <2>1. \A k \in 1 .. Len(t) : t[k].address # a
    BY <1>1, <1>2
  <2> QED
    BY <1>1, <1>2, <2>1 DEF Leaves, t
<1>3. ASSUME NEW k \in 1 .. n, LastAt(s, a, k), d = s[k].data
      PROVE  Leaves(t, a, w, d)
  <2>1. CASE k = 1
    <3>1. w = d
      BY <1>1, <1>3, <2>1 DEF LastAt
    <3>2. \A j \in 1 .. Len(t) : t[j].address # a
      BY <1>1, <1>3, <2>1 DEF LastAt
    <3> QED
      BY <3>1, <3>2 DEF Leaves
  <2>2. CASE k # 1
    <3>1. k - 1 \in 1 .. Len(t) /\ LastAt(t, a, k - 1) /\ d = t[k - 1].data
      BY <1>1, <1>3, <2>2 DEF LastAt
    <3> QED
      BY <3>1 DEF Leaves
  <2> QED
    BY <2>1, <2>2
<1> QED
  BY <1>2, <1>3 DEF Leaves, t

\* The definitions by CHOOSE of BistWriter pick that word.
LEMMA LastChosen ==
  ASSUME NEW n \in Nat, NEW S \in SUBSET (0 .. n), NEW k \in S, \A j \in S : j <= k
  PROVE  (CHOOSE i \in S : \A j \in S : j <= i) = k
<1> DEFINE c == CHOOSE i \in S : \A j \in S : j <= i
<1>1. c \in S /\ \A j \in S : j <= c
  OBVIOUS
<1> HIDE DEF c
<1>2. c \in 0 .. n /\ k \in 0 .. n
  BY <1>1
<1>3. c <= k /\ k <= c
  BY <1>1
<1>4. c = k
  BY <1>2, <1>3
<1> QED
  BY <1>4 DEF c

LEMMA SettledLeaves ==
  ASSUME dma \in Seq(Words), NEW a \in Addresses, NEW d, Leaves(dma, a, dram[a], d)
  PROVE  Settled[a] = d
<1> DEFINE later == {k \in 1 .. Len(dma) : dma[k].address = a}
           chosen == CHOOSE k \in later : \A j \in later : j <= k
<1>1. Settled[a] = IF later = {} THEN dram[a] ELSE dma[chosen].data
  BY DEF Settled
<1>2. Len(dma) \in Nat /\ later \in SUBSET (0 .. Len(dma))
  OBVIOUS
<1>3. CASE d = dram[a] /\ \A k \in 1 .. Len(dma) : dma[k].address # a
  BY <1>1, <1>3
<1>4. ASSUME NEW k \in 1 .. Len(dma), LastAt(dma, a, k), d = dma[k].data
      PROVE  Settled[a] = d
  <2>1. k \in later /\ \A j \in later : j <= k
    BY <1>2, <1>4 DEF LastAt
  <2>2. chosen = k
    <3> HIDE DEF later
    <3> QED
      BY <1>2, <2>1, LastChosen
  <2> QED
    BY <1>1, <1>4, <2>1, <2>2
<1> QED
  BY <1>3, <1>4 DEF Leaves

-----------------------------------------------------------------------------
\* The inductive invariant

Index(k) == IF csr.modulo THEN k % (csr.data_div + 1) ELSE Masked(k, csr.data_mask)

WriterTypes ==
  /\ csr \in Configs /\ start \in BOOLEAN
  /\ cmd_counter \in Nat /\ dram_addr \in Nat /\ addr_dat_r \in Nat
  /\ mem_addr \in PatternIndices
  /\ data_dat_r \in Data /\ sink_data \in Data
  /\ dma \in Seq(Words) /\ sent \in Seq(Words)
  /\ dram \in [Addresses -> Data] /\ initial \in [Addresses -> Data]
  /\ host \in {"idle", "start", "poll"}
  /\ fsm \in {"READY", "COMPUTE_MEM_ADDR", "WAIT_FOR_DRAM_ADDR", "COMPUTE_DRAM_ADDR",
              "INVERT_COMPUTE", "SEND"}

\* Where the transfer is, and what has reached which register.
Transferring ==
  /\ start => fsm = "READY" /\ host = "poll" /\ sent = <<>>
  /\ host # "poll" => fsm = "READY" /\ ~start
  /\ host = "start" => sent = <<>>
  /\ host = "poll" /\ fsm = "READY" /\ ~start => Len(sent) = csr.count
  /\ host = "idle" => sent = <<>> \/ Len(sent) = csr.count
  /\ fsm # "READY" => Len(sent) = cmd_counter /\ cmd_counter <= csr.count
  /\ fsm = "COMPUTE_MEM_ADDR" /\ csr.modulo => mem_addr = Index(cmd_counter)
  /\ fsm \notin {"READY", "COMPUTE_MEM_ADDR"} =>
       mem_addr = Index(cmd_counter) /\ cmd_counter < csr.count
  /\ fsm = "COMPUTE_DRAM_ADDR" => addr_dat_r = csr.addr[mem_addr]
  /\ fsm \in {"INVERT_COMPUTE", "SEND"} =>
       /\ dram_addr = csr.addr[mem_addr] + Masked(cmd_counter, csr.mem_mask)
       /\ data_dat_r = csr.data[mem_addr]
  /\ fsm = "INVERT_COMPUTE" =>
       /\ wait_counter \in 0 .. 2
       /\ wait_counter >= 1 => decoder_i = RowIndex(dram_addr)
       /\ wait_counter = 2 => selected = (RowIndex(dram_addr) \in Selection)
  /\ fsm = "SEND" =>
       /\ decoder_i = RowIndex(dram_addr)
       /\ selected = (RowIndex(dram_addr) \in Selection)
       /\ sink_data = Expected(dram_addr, csr.data[mem_addr])

\* What is and will be in memory is what the accepted words leave there.
Accounted ==
  \A a \in Addresses :
    \E d \in Data : Leaves(dma, a, dram[a], d) /\ Leaves(sent, a, initial[a], d)

IndInv == WriterTypes /\ Transferring /\ PatternSent /\ Accounted

LEMMA ConfigTypes ==
  ASSUME NEW c \in Configs
  PROVE  /\ c.modulo \in BOOLEAN /\ c.count \in Nat /\ c.mem_mask \in Nat
         /\ c.data_mask \in PatternIndices /\ c.data_div \in PatternIndices
         /\ c.addr \in [PatternIndices -> Nat] /\ c.data \in [PatternIndices -> Data]
         /\ PatternIndices \subseteq Nat
<1>1. /\ c.modulo \in BOOLEAN /\ c.count \in Nat /\ c.mem_mask \in Nat
      /\ c.data_mask \in PatternIndices /\ c.data_div \in PatternIndices
      /\ c.addr \in [PatternIndices -> Addresses] /\ c.data \in [PatternIndices -> Data]
      /\ Addresses \subseteq Nat
  BY WriterAssumption
<1>2. PatternIndices \subseteq Nat
  BY PatternAssumption DEF PatternIndices
<1>3. c.addr \in [PatternIndices -> Nat]
  BY <1>1
<1> QED
  BY <1>1, <1>2, <1>3

\* Remainders, and the next one.
LEMMA Remainder ==
  ASSUME NEW k \in Nat, NEW m \in Nat
  PROVE  /\ k % (m + 1) \in 0 .. m /\ 0 % (m + 1) = 0
         /\ (k + 1) % (m + 1) = IF k % (m + 1) = m THEN 0 ELSE (k % (m + 1)) + 1
<1> DEFINE d == m + 1
<1>0. d \in Nat \ {0} /\ d = m + 1
  OBVIOUS
<1> HIDE DEF d
<1> DEFINE q == k \div d
           r == k % d
<1>1. d \in Nat \ {0} /\ q \in Int /\ r \in 0 .. d - 1
  BY <1>0
<1>2. k = d * q + r
  BY <1>1, Z3
<1>3. 0 % d = 0
  BY <1>1, Z3
<1>4. ASSUME NEW x \in Int, NEW p \in Int, NEW t \in 0 .. d - 1, x = d * p + t
      PROVE  x % d = t
  <2> DEFINE u == x \div d
             v == x % d
  <2>1. u \in Int /\ v \in 0 .. d - 1
    BY <1>1
  <2>2. x = d * u + v
    BY <1>1, Z3
  <2> HIDE DEF u, v
  <2>3. d * (p - u) = v - t
    <3>1. d * (p - u) = d * p - d * u
      BY <1>1, <2>1
    <3> QED
      BY <1>1, <1>4, <2>1, <2>2, <3>1
  <2>4. p - u < 1
    <3> SUFFICES ASSUME p - u >= 1 PROVE FALSE
      BY <2>1
    <3>1. d * (p - u) >= d
      BY <1>1, <2>1
    <3> QED
      BY <1>1, <2>1, <2>3, <3>1
  <2>5. p - u > -1
    <3> SUFFICES ASSUME p - u <= -1 PROVE FALSE
      BY <2>1
    <3>1. d * (p - u) <= -d
      BY <1>1, <2>1
    <3> QED
      BY <1>1, <2>1, <2>3, <3>1
  <2>6. p = u
    BY <2>1, <2>4, <2>5
  <2> QED
    BY <1>1, <2>1, <2>3, <2>6 DEF v
<1> HIDE DEF q, r
<1>5. CASE r = d - 1
  <2>1. d * (q + 1) = d * q + d
    BY <1>1
  <2> DEFINE x == k + 1
             p == q + 1
  <2>2. x \in Int /\ p \in Int /\ 0 \in 0 .. d - 1 /\ x = d * p + 0
    BY <1>1, <1>2, <1>5, <2>1
  <2>3. (k + 1) % d = 0
    <3> HIDE DEF x, p
    <3>1. x % d = 0
      BY <1>4, <2>2
    <3> QED
      BY <3>1 DEF x
  <2> QED
    BY <1>1, <1>3, <1>5, <2>3, <1>0 DEF r
<1>6. CASE r # d - 1
  <2> DEFINE x == k + 1
             t == r + 1
  <2>1. x \in Int /\ t \in 0 .. d - 1 /\ x = d * q + t
    BY <1>1, <1>2, <1>6
  <2>2. (k + 1) % d = r + 1
    <3> HIDE DEF x, t
    <3>1. x % d = t
      BY <1>1, <1>4, <2>1
    <3> QED
      BY <3>1 DEF x, t
  <2> QED
    BY <1>1, <1>3, <1>6, <2>2, <1>0 DEF r
<1> QED
  BY <1>5, <1>6

LEMMA InitInv == Init => IndInv
<1> SUFFICES ASSUME Init PROVE IndInv
  OBVIOUS
<1> USE DEF Init
<1>1. WriterTypes
  <2>1. 0 \in PatternIndices /\ 0 \in Data
    BY PatternAssumption DEF PatternIndices, Data
  <2>2. dram \in [Addresses -> Data] /\ initial \in [Addresses -> Data]
    BY <2>1
  <2>3. <<>> \in Seq(Words)
    OBVIOUS
  <2> QED
    BY <2>1, <2>2, <2>3 DEF WriterTypes
<1>2. Transferring /\ PatternSent
  BY DEF Transferring, PatternSent
<1>3. Accounted
  BY DEF Accounted, Leaves, Data
<1> QED
  BY <1>1, <1>2, <1>3 DEF IndInv

\* The types in a clock cycle.
LEMMA TypesCycle ==
  ASSUME IndInv, NEW dma_ready \in BOOLEAN, Cycle(dma_ready)
  PROVE  WriterTypes'
<1>1. /\ csr.modulo \in BOOLEAN /\ csr.count \in Nat /\ csr.mem_mask \in Nat
      /\ csr.data_mask \in PatternIndices /\ csr.data_div \in PatternIndices
      /\ csr.addr \in [PatternIndices -> Nat] /\ csr.data \in [PatternIndices -> Data]
      /\ PatternIndices \subseteq Nat
  BY ConfigTypes DEF IndInv, WriterTypes
<1>2. /\ cmd_counter \in Nat /\ dram_addr \in Nat /\ addr_dat_r \in Nat
      /\ mem_addr \in PatternIndices /\ data_dat_r \in Data /\ sink_data \in Data
      /\ dma \in Seq(Words) /\ sent \in Seq(Words)
  BY DEF IndInv, WriterTypes
<1>3. /\ \A m \in Nat : Masked(cmd_counter, m) \in 0 .. m
      /\ PatternIndices = 0 .. PatternDepth - 1 /\ PatternDepth \in Nat \ {0}
  BY <1>2, Remainder, PatternAssumption DEF Masked, PatternIndices
<1>4. Masked(cmd_counter, csr.mem_mask) \in Nat /\ Masked(cmd_counter, csr.data_mask) \in PatternIndices
  <2>1. Masked(cmd_counter, csr.mem_mask) \in 0 .. csr.mem_mask
        /\ Masked(cmd_counter, csr.data_mask) \in 0 .. csr.data_mask
    BY <1>1, <1>3
  <2>2. csr.mem_mask \in Nat /\ csr.data_mask \in 0 .. PatternDepth - 1
    BY <1>1, <1>3
  <2> QED
    BY <1>3, <2>1, <2>2
<1>5. cmd_counter' \in Nat /\ dram_addr' \in Nat
  BY <1>2, <1>4 DEF Cycle, Ready, ComputeMemAddr, WaitForDramAddr, ComputeDramAddr, InvertCompute,
     Send
<1>6. addr_dat_r' \in Nat /\ data_dat_r' \in Data /\ sink_data' \in Data
  BY <1>1, <1>2 DEF Cycle, Pipeline, Data, Inverse
<1>7. mem_addr' \in PatternIndices
  <2>1. 0 \in PatternIndices
    BY <1>3
  <2>2. CASE fsm = "SEND" /\ csr.modulo
    <3>1. mem_addr' = NextModulo(mem_addr) \/ mem_addr' = mem_addr
      BY <2>2 DEF Cycle, Ready, ComputeMemAddr, WaitForDramAddr, ComputeDramAddr, InvertCompute, Send
    <3>2. mem_addr <= csr.data_div
      <4> DEFINE m == csr.data_div
      <4>1. mem_addr = cmd_counter % (m + 1) /\ m \in Nat
        BY <1>1, <2>2 DEF IndInv, Transferring, Index
      <4> HIDE DEF m
      <4>2. cmd_counter % (m + 1) \in 0 .. m
        BY <1>2, <4>1, Remainder
      <4>3. mem_addr <= m
        BY <4>1, <4>2
      <4> QED
        BY <4>3 DEF m
    <3>3. csr.data_div \in 0 .. PatternDepth - 1 /\ mem_addr \in 0 .. PatternDepth - 1
      BY <1>1, <1>2, <1>3
    <3>4. NextModulo(mem_addr) \in 0 .. PatternDepth - 1
      BY <1>3, <3>2, <3>3 DEF NextModulo
    <3> QED
      BY <1>2, <1>3, <3>1, <3>4
  <2>3. CASE ~(fsm = "SEND" /\ csr.modulo)
    BY <1>2, <1>4, <2>1, <2>3 DEF Cycle, Ready, ComputeMemAddr, WaitForDramAddr, ComputeDramAddr,
       InvertCompute, Send
  <2> QED
    BY <2>2, <2>3
<1>8. dma' \in Seq(Words) /\ sent' \in Seq(Words)
  <2> DEFINE word == [address |-> dram_addr, data |-> sink_data]
  <2>1. word \in Words
    BY <1>2 DEF Words
  <2>2. \/ dma' = Append(dma, word) /\ sent' = Append(sent, word)
        \/ UNCHANGED <<dma, sent>>
    BY DEF Cycle
  <2> HIDE DEF word
  <2>3. Append(dma, word) \in Seq(Words) /\ Append(sent, word) \in Seq(Words)
    BY <1>2, <2>1
  <2> QED
    BY <1>2, <2>2, <2>3
<1>9. fsm' \in {"READY", "COMPUTE_MEM_ADDR", "WAIT_FOR_DRAM_ADDR", "COMPUTE_DRAM_ADDR",
              "INVERT_COMPUTE", "SEND"}
  BY DEF Cycle, Ready, ComputeMemAddr, WaitForDramAddr, ComputeDramAddr, InvertCompute, Send
<1>10. /\ csr' \in Configs /\ start' \in BOOLEAN /\ dram' \in [Addresses -> Data]
       /\ initial' \in [Addresses -> Data] /\ host' \in {"idle", "start", "poll"}
  BY DEF Cycle, IndInv, WriterTypes
<1> QED
  BY <1>5, <1>6, <1>7, <1>8, <1>9, <1>10 DEF WriterTypes

\* The word that SEND offers to the DMA is the next one of the pattern.
LEMMA WordSent ==
  ASSUME IndInv, fsm = "SEND"
  PROVE  [address |-> dram_addr, data |-> sink_data] = PatternWord(Len(sent))
BY DEF IndInv, Transferring, PatternWord, Index

\* The transfer in a clock cycle.
LEMMA TransferCycle ==
  ASSUME IndInv, NEW dma_ready \in BOOLEAN, Cycle(dma_ready)
  PROVE  Transferring'
<1> USE DEF LastWait
<1>1. /\ cmd_counter \in Nat /\ csr.count \in Nat /\ sent \in Seq(Words) /\ Len(sent) \in Nat
      /\ csr.data_mask \in Nat /\ csr.data_div \in Nat /\ start \in BOOLEAN
      /\ fsm \in {"READY", "COMPUTE_MEM_ADDR", "WAIT_FOR_DRAM_ADDR", "COMPUTE_DRAM_ADDR",
                  "INVERT_COMPUTE", "SEND"}
  BY ConfigTypes DEF IndInv, WriterTypes
<1>2. /\ csr' = csr /\ host' = host /\ start' = FALSE /\ Pipeline
      /\ fsm # "SEND" => sent' = sent
  BY DEF Cycle, Accept
<1>3. \A k \in Nat : Index(k)' = Index(k)
  BY <1>2 DEF Index
<1>4. Transferring
  BY DEF IndInv
<1>5. CASE fsm = "READY"
  <2>1. /\ fsm' = (IF start THEN "COMPUTE_MEM_ADDR" ELSE "READY")
        /\ start => cmd_counter' = 0 /\ mem_addr' = 0
    BY <1>5 DEF Cycle, Ready, ComputeMemAddr, WaitForDramAddr, ComputeDramAddr, InvertCompute, Send
  <2>2. CASE start
    <3>1. sent' = <<>> /\ Len(<<>>) = 0 /\ host = "poll"
      BY <1>2, <1>4, <1>5, <2>2 DEF Transferring
    <3>2. csr.modulo => Index(0) = 0
      <4> DEFINE m == csr.data_div
      <4>1. m \in Nat /\ 0 \in Nat
        BY <1>1
      <4> HIDE DEF m
      <4>2. 0 % (m + 1) = 0
        BY <4>1, Remainder
      <4> QED
        BY <4>2 DEF Index, m
    <3>3. csr.modulo => Index(0)' = 0
      BY <1>3, <3>2
    <3> QED
      BY <1>1, <1>2, <2>1, <2>2, <3>1, <3>3 DEF Transferring
  <2>3. CASE ~start
    BY <1>2, <1>4, <1>5, <2>1, <2>3 DEF Transferring
  <2> QED
    BY <2>2, <2>3
<1>6. CASE fsm = "COMPUTE_MEM_ADDR"
  <2>1. /\ fsm' = (IF cmd_counter >= csr.count THEN "READY" ELSE "WAIT_FOR_DRAM_ADDR")
        /\ cmd_counter' = cmd_counter
        /\ mem_addr' = (IF csr.modulo THEN mem_addr ELSE Masked(cmd_counter, csr.data_mask))
    BY <1>6 DEF Cycle, Ready, ComputeMemAddr, WaitForDramAddr, ComputeDramAddr, InvertCompute, Send
  <2>2. mem_addr' = Index(cmd_counter)
    BY <1>4, <1>6, <2>1 DEF Transferring, Index
  <2>3. mem_addr' = Index(cmd_counter)'
    BY <1>1, <1>3, <2>1, <2>2 DEF Index
  <2> QED
    BY <1>1, <1>2, <1>4, <1>6, <2>1, <2>3 DEF Transferring
<1>7. CASE fsm \in {"WAIT_FOR_DRAM_ADDR", "COMPUTE_DRAM_ADDR", "INVERT_COMPUTE"}
  <2>1. /\ cmd_counter' = cmd_counter /\ mem_addr' = mem_addr
        /\ fsm = "WAIT_FOR_DRAM_ADDR" => fsm' = "COMPUTE_DRAM_ADDR"
        /\ fsm = "COMPUTE_DRAM_ADDR" =>
             /\ fsm' = "INVERT_COMPUTE" /\ wait_counter' = 0
             /\ dram_addr' = addr_dat_r + Masked(cmd_counter, csr.mem_mask)
        /\ fsm = "INVERT_COMPUTE" =>
             /\ fsm' = (IF wait_counter = 2 THEN "SEND" ELSE "INVERT_COMPUTE")
             /\ wait_counter' = (wait_counter + 1) % 4 /\ dram_addr' = dram_addr
    BY <1>7 DEF Cycle, Ready, ComputeMemAddr, WaitForDramAddr, ComputeDramAddr, InvertCompute, Send
  <2>2. mem_addr' = Index(cmd_counter)'
    BY <1>2, <1>4, <1>7, <2>1 DEF Transferring, Index
  <2>3. CASE fsm = "WAIT_FOR_DRAM_ADDR"
    BY <1>1, <1>2, <1>4, <2>1, <2>2, <2>3 DEF Transferring, Pipeline
  <2>4. CASE fsm = "COMPUTE_DRAM_ADDR"
    BY <1>1, <1>2, <1>4, <2>1, <2>2, <2>4 DEF Transferring, Pipeline
  <2>5. CASE fsm = "INVERT_COMPUTE"
    <3>1. /\ wait_counter \in 0 .. 2 /\ wait_counter' = wait_counter + 1
          /\ dram_addr = csr.addr[mem_addr] + Masked(cmd_counter, csr.mem_mask)
          /\ data_dat_r = csr.data[mem_addr] /\ cmd_counter < csr.count
          /\ Len(sent) = cmd_counter /\ host = "poll"
      BY <1>1, <1>4, <2>1, <2>5 DEF Transferring
    <3>2. wait_counter = 2 => sink_data' = Expected(dram_addr, csr.data[mem_addr])
      BY <1>2, <1>4, <2>5, <3>1 DEF Transferring, Pipeline, Expected
    <3>3. wait_counter >= 1 => selected' = (RowIndex(dram_addr) \in Selection)
      BY <1>2, <1>4, <2>5, <3>1 DEF Transferring, Pipeline
    <3>4. decoder_i' = RowIndex(dram_addr) /\ data_dat_r' = csr.data[mem_addr]
      BY <1>2 DEF Pipeline
    <3>5. /\ host' = "poll" /\ ~start' /\ wait_counter' = wait_counter + 1
          /\ fsm' = (IF wait_counter = 2 THEN "SEND" ELSE "INVERT_COMPUTE")
      BY <1>2, <2>1, <2>5, <3>1
    <3>6. Len(sent') = cmd_counter' /\ cmd_counter' < csr'.count /\ cmd_counter' <= csr'.count
      BY <1>1, <1>2, <2>1, <2>5, <3>1
    <3>7. /\ dram_addr' = csr'.addr[mem_addr'] + Masked(cmd_counter', csr'.mem_mask)
          /\ data_dat_r' = csr'.data[mem_addr']
      BY <1>2, <2>1, <2>5, <3>1, <3>4
    <3>8. /\ decoder_i' = RowIndex(dram_addr')
          /\ wait_counter = 2 => sink_data' = Expected(dram_addr', csr'.data[mem_addr'])
      BY <1>2, <2>1, <2>5, <3>2, <3>4
    <3>9. wait_counter >= 1 => selected' = (RowIndex(dram_addr') \in Selection)
      BY <2>1, <2>5, <3>3
    <3> QED
      BY <2>2, <3>1, <3>5, <3>6, <3>7, <3>8, <3>9 DEF Transferring
  <2> QED
    BY <1>7, <2>3, <2>4, <2>5
<1>8. CASE fsm = "SEND"
  <2>1. CASE Accept(dma_ready)
    <3>1. /\ cmd_counter' = cmd_counter + 1 /\ fsm' = "COMPUTE_MEM_ADDR"
          /\ mem_addr' = IF csr.modulo THEN NextModulo(mem_addr) ELSE mem_addr
          /\ \E word : sent' = Append(sent, word)
      BY <1>8, <2>1 DEF Cycle, Ready, ComputeMemAddr, WaitForDramAddr, ComputeDramAddr,
         InvertCompute, Send
    <3>2. /\ mem_addr = Index(cmd_counter) /\ cmd_counter < csr.count
          /\ Len(sent) = cmd_counter /\ host = "poll"
      BY <1>4, <1>8 DEF Transferring
    <3>3. Len(sent') = cmd_counter'
      BY <1>1, <3>1, <3>2
    <3>4. csr.modulo => mem_addr' = Index(cmd_counter + 1)
      <4> DEFINE m == csr.data_div
      <4>1. m \in Nat /\ cmd_counter \in Nat
        BY <1>1
      <4>2. csr.modulo => /\ mem_addr = cmd_counter % (m + 1)
                          /\ mem_addr' = IF mem_addr = m THEN 0 ELSE mem_addr + 1
                          /\ Index(cmd_counter + 1) = (cmd_counter + 1) % (m + 1)
        BY <3>1, <3>2 DEF Index, NextModulo
      <4> HIDE DEF m
      <4>3. (cmd_counter + 1) % (m + 1) =
              IF cmd_counter % (m + 1) = m THEN 0 ELSE (cmd_counter % (m + 1)) + 1
        BY <4>1, Remainder
      <4> QED
        BY <4>2, <4>3
    <3>5. csr.modulo => mem_addr' = Index(cmd_counter)'
      BY <1>1, <1>2, <3>1, <3>4 DEF Index
    <3> QED
      BY <1>1, <1>2, <3>1, <3>2, <3>3, <3>5 DEF Transferring
  <2>2. CASE ~Accept(dma_ready)
    <3>1. UNCHANGED <<fsm, cmd_counter, mem_addr, dram_addr, sent>>
      BY <1>8, <2>2 DEF Cycle, Ready, ComputeMemAddr, WaitForDramAddr, ComputeDramAddr,
         InvertCompute, Send
    <3>2. sink_data' = Expected(dram_addr, csr.data[mem_addr])
      BY <1>2, <1>4, <1>8 DEF Transferring, Pipeline, Expected
    <3>3. mem_addr' = Index(cmd_counter)'
      BY <1>2, <1>4, <1>8, <3>1 DEF Transferring, Index
    <3> QED
      BY <1>1, <1>2, <1>4, <1>8, <3>1, <3>2, <3>3 DEF Transferring, Pipeline
  <2> QED
    BY <2>1, <2>2
<1> QED
  BY <1>1, <1>5, <1>6, <1>7, <1>8

\* A word that is accepted is counted in both.
LEMMA SentCycle ==
  ASSUME IndInv, NEW dma_ready \in BOOLEAN, Cycle(dma_ready)
  PROVE  PatternSent' /\ Accounted'
<1> DEFINE word == [address |-> dram_addr, data |-> sink_data]
<1>1. UNCHANGED <<csr, dram, initial>>
  BY DEF Cycle
<1>2. dma \in Seq(Words) /\ sent \in Seq(Words) /\ word \in Words
  BY DEF IndInv, WriterTypes, Words
<1>3. CASE ~Accept(dma_ready)
  <2>1. UNCHANGED <<dma, sent>>
    BY <1>3 DEF Cycle
  <2> QED
    BY <1>1, <2>1 DEF IndInv, PatternSent, PatternWord, Accounted
<1>4. CASE Accept(dma_ready)
  <2>1. dma' = Append(dma, word) /\ sent' = Append(sent, word) /\ fsm = "SEND"
    BY <1>4 DEF Cycle, Accept
  <2>2. word = PatternWord(Len(sent))
    BY <2>1, WordSent
  <2>3. \A k : PatternWord(k)' = PatternWord(k)
    BY <1>1 DEF PatternWord
  <2> HIDE DEF word
  <2>4. PatternSent'
    <3> DEFINE n == Len(sent)
    <3>1. /\ n \in Nat /\ Len(sent') = n + 1 /\ sent'[n + 1] = word
          /\ \A k \in 1 .. n : sent'[k] = sent[k]
      BY <1>2, <2>1
    <3>2. ASSUME NEW k \in 1 .. (n + 1)
          PROVE  sent'[k] = PatternWord(k - 1)
      <4>1. CASE k = n + 1
        BY <2>2, <3>1, <4>1
      <4>2. CASE k \in 1 .. n
        BY <3>1, <4>2 DEF IndInv, PatternSent
      <4> QED
        BY <3>1, <4>1, <4>2
    <3> QED
      BY <2>3, <3>1, <3>2 DEF PatternSent
  <2>5. Accounted'
    <3> SUFFICES ASSUME NEW a \in Addresses
                 PROVE  \E d \in Data : Leaves(dma', a, dram[a], d) /\ Leaves(sent', a, initial[a], d)
      BY <1>1 DEF Accounted
    <3>1. PICK d \in Data : Leaves(dma, a, dram[a], d) /\ Leaves(sent, a, initial[a], d)
      BY DEF IndInv, Accounted
    <3> DEFINE e == IF word.address = a THEN word.data ELSE d
    <3>2. Leaves(dma', a, dram[a], e) /\ Leaves(sent', a, initial[a], e)
      BY <1>2, <2>1, <3>1, LeavesAppend
    <3>3. e \in Data
      BY <1>2 DEF Words
    <3> HIDE DEF e
    <3> QED
      BY <3>2, <3>3
  <2> QED
    BY <2>4, <2>5
<1> QED
  BY <1>3, <1>4

\* A word that is written back is in memory instead of the DMA.
LEMMA WriteBackInv ==
  ASSUME IndInv, WriteBack
  PROVE  IndInv'
<1>1. /\ dma \in Seq(Words) /\ dma # <<>> /\ dram \in [Addresses -> Data]
      /\ dram' = [dram EXCEPT ![Head(dma).address] = Head(dma).data] /\ dma' = Tail(dma)
      /\ UNCHANGED <<csr, start, registers, pipeline, host, initial, sent>>
  BY DEF IndInv, WriterTypes, WriteBack
<1>2. Head(dma) \in Words /\ Tail(dma) \in Seq(Words)
  BY <1>1
<1>3. Head(dma).data \in Data
  BY <1>2 DEF Words
<1>4. dram' \in [Addresses -> Data]
  BY <1>1, <1>3
<1>5. WriterTypes'
  BY <1>1, <1>2, <1>4 DEF IndInv, WriterTypes, registers, pipeline
<1>6. Transferring' /\ PatternSent'
  BY <1>1 DEF IndInv, Transferring, Index, PatternSent, PatternWord, registers, pipeline
<1>7. Accounted'
  <2> SUFFICES ASSUME NEW a \in Addresses
               PROVE  \E d \in Data : Leaves(dma', a, dram'[a], d) /\ Leaves(sent, a, initial[a], d)
    BY <1>1 DEF Accounted
  <2>1. PICK d \in Data : Leaves(dma, a, dram[a], d) /\ Leaves(sent, a, initial[a], d)
    BY DEF IndInv, Accounted
  <2>2. dram'[a] = IF Head(dma).address = a THEN Head(dma).data ELSE dram[a]
    BY <1>1
  <2>3. Leaves(Tail(dma), a, IF Head(dma).address = a THEN Head(dma).data ELSE dram[a], d)
    BY <1>1, <2>1, LeavesTail
  <2> QED
    BY <1>1, <2>1, <2>2, <2>3
<1> QED
  BY <1>5, <1>6, <1>7 DEF IndInv

\* A new transfer begins with the memory as it will be after the last one.
LEMMA ConfigureInv ==
  ASSUME IndInv, NEW c \in Configs, Configure(c)
  PROVE  IndInv'
<1>1. /\ host = "idle" /\ fsm = "READY" /\ host' = "start" /\ csr' = c /\ sent' = <<>>
      /\ initial' = Settled
      /\ UNCHANGED <<start, registers, pipeline, dma, dram>>
  BY DEF Configure, ready
<1>2. \A a \in Addresses : \E d \in Data : Leaves(dma, a, dram[a], d) /\ Settled[a] = d
  <2> SUFFICES ASSUME NEW a \in Addresses
               PROVE  \E d \in Data : Leaves(dma, a, dram[a], d) /\ Settled[a] = d
    OBVIOUS
  <2>1. PICK d \in Data : Leaves(dma, a, dram[a], d)
    BY DEF IndInv, Accounted
  <2>2. Settled[a] = d
    BY <2>1, SettledLeaves DEF IndInv, WriterTypes
  <2> QED
    BY <2>1, <2>2
<1>3. initial' \in [Addresses -> Data]
  <2>1. Settled = [a \in Addresses |-> Settled[a]]
    BY DEF Settled
  <2>2. \A a \in Addresses : Settled[a] \in Data
    BY <1>2
  <2> HIDE DEF Settled
  <2> QED
    BY <1>1, <2>1, <2>2
<1>4. WriterTypes'
  BY <1>1, <1>3 DEF IndInv, WriterTypes, registers, pipeline
<1>5. Transferring' /\ PatternSent'
  BY <1>1 DEF IndInv, Transferring, PatternSent, registers, pipeline
<1>6. Accounted'
  <2> SUFFICES ASSUME NEW a \in Addresses
               PROVE  \E d \in Data : Leaves(dma, a, dram[a], d) /\ Leaves(<<>>, a, Settled[a], d)
    BY <1>1 DEF Accounted
  <2>1. PICK d \in Data : Leaves(dma, a, dram[a], d) /\ Settled[a] = d
    BY <1>2
  <2>2. Leaves(<<>>, a, d, d)
    BY DEF Leaves
  <2> QED
    BY <2>1, <2>2
<1> QED
  BY <1>4, <1>5, <1>6 DEF IndInv

LEMMA NextInv == IndInv /\ [Next]_vars => IndInv'
<1> SUFFICES ASSUME IndInv, [Next]_vars PROVE IndInv'
  OBVIOUS
<1>1. ASSUME NEW dma_ready \in BOOLEAN, Cycle(dma_ready) PROVE IndInv'
  BY <1>1, TypesCycle, TransferCycle, SentCycle DEF IndInv
<1>2. CASE WriteStart \/ PollReady \/ UNCHANGED vars
  <2>1. UNCHANGED <<csr, registers, pipeline, dma, dram, initial, sent>>
    BY <1>2 DEF WriteStart, PollReady, vars
  <2>2. \/ host = "start" /\ host' = "poll" /\ start' = TRUE
        \/ host = "poll" /\ fsm = "READY" /\ ~start /\ host' = "idle" /\ start' = start
        \/ UNCHANGED <<host, start>>
    BY <1>2 DEF WriteStart, PollReady, vars, ready
  <2> USE DEF registers, pipeline
  <2>3. WriterTypes'
    BY <2>1, <2>2 DEF IndInv, WriterTypes
  <2>4. Transferring'
    BY <2>1, <2>2 DEF IndInv, Transferring, Index
  <2>5. PatternSent' /\ Accounted'
    BY <2>1 DEF IndInv, PatternSent, PatternWord, Accounted
  <2> QED
    BY <2>3, <2>4, <2>5 DEF IndInv
<1> QED
  BY <1>1, <1>2, WriteBackInv, ConfigureInv DEF Next

\* The inductive invariant holds in every reachable state, however LiteDRAM
\* holds up the words it accepts and those it writes.
THEOREM Invariance == Spec => []IndInv
BY InitInv, NextInv, PTL DEF Spec

\* hw_memset has filled its range with the pattern when it returns, for every
\* pattern, mask, divisor, inversion and depth of the DMA: each address holds, or
\* will hold when the DMA has written what it has accepted, the last word the
\* pattern has for it, and no other address has changed.
THEOREM FilledWithPattern == Spec => []Filled
<1>1. IndInv => Filled
  <2> SUFFICES ASSUME IndInv, host = "idle", sent # <<>>
               PROVE  /\ Len(sent) = csr.count
                      /\ \A a \in Addresses :
                           LET ks == {k \in 0 .. csr.count - 1 : PatternWord(k).address = a}
                           IN  IF ks = {} THEN Settled[a] = initial[a]
                               ELSE Settled[a] = PatternWord(CHOOSE k \in ks : \A j \in ks : j <= k).data
    BY DEF IndInv, Filled
  <2> DEFINE n == csr.count
  <2>1. Len(sent) = n /\ n \in Nat
    BY ConfigTypes DEF IndInv, WriterTypes, Transferring
  <2>2. \A k \in 1 .. n : sent[k] = PatternWord(k - 1)
    BY <2>1 DEF IndInv, PatternSent
  <2> HIDE DEF n
  <2>3. ASSUME NEW a \in Addresses
        PROVE  LET ks == {k \in 0 .. n - 1 : PatternWord(k).address = a}
               IN  IF ks = {} THEN Settled[a] = initial[a]
                   ELSE Settled[a] = PatternWord(CHOOSE k \in ks : \A j \in ks : j <= k).data
    <3> DEFINE ks == {k \in 0 .. n - 1 : PatternWord(k).address = a}
               chosen == CHOOSE k \in ks : \A j \in ks : j <= k
    <3>1. PICK d \in Data : Leaves(dma, a, dram[a], d) /\ Leaves(sent, a, initial[a], d)
      BY DEF IndInv, Accounted
    <3>2. Settled[a] = d
      BY <3>1, SettledLeaves DEF IndInv, WriterTypes
    <3>3. CASE d = initial[a] /\ \A k \in 1 .. Len(sent) : sent[k].address # a
      <4>1. ASSUME NEW k \in 0 .. n - 1 PROVE PatternWord(k).address # a
        <5>1. k + 1 \in 1 .. n /\ k + 1 - 1 = k
          BY <2>1
        <5>2. sent[k + 1] = PatternWord(k + 1 - 1)
          BY <2>2, <5>1
        <5> QED
          BY <2>1, <3>3, <5>1, <5>2
      <4>2. ks = {}
        BY <4>1
      <4> QED
        BY <3>2, <3>3, <4>2
    <3>4. ASSUME NEW k \in 1 .. Len(sent), LastAt(sent, a, k), d = sent[k].data
          PROVE  ks # {} /\ Settled[a] = PatternWord(chosen).data
      <4>1. k - 1 \in 0 .. n - 1 /\ sent[k] = PatternWord(k - 1)
        BY <2>1, <2>2
      <4>2. k - 1 \in ks
        BY <3>4, <4>1 DEF LastAt
      <4>3. ASSUME NEW j \in ks PROVE j <= k - 1
        <5>1. j + 1 \in 1 .. n /\ j + 1 - 1 = j
          BY <2>1
        <5>2. sent[j + 1] = PatternWord(j)
          BY <2>2, <5>1
        <5>3. sent[j + 1].address = a
          BY <5>2
        <5> QED
          BY <2>1, <3>4, <5>1, <5>3 DEF LastAt
      <4>4. ks \in SUBSET (0 .. n)
        BY <2>1
      <4>5. chosen = k - 1
        <5> DEFINE p == k - 1
        <5>1. p \in ks /\ \A j \in ks : j <= p
          BY <4>2, <4>3
        <5> HIDE DEF ks, p
        <5>2. (CHOOSE i \in ks : \A j \in ks : j <= i) = p
          BY <2>1, <4>4, <5>1, LastChosen
        <5> QED
          BY <5>2 DEF p
      <4> QED
        BY <3>2, <3>4, <4>1, <4>2, <4>5
    <3> QED
      BY <3>1, <3>3, <3>4 DEF Leaves
  <2> QED
    BY <2>1, <2>3 DEF n
<1> QED
  BY <1>1, Invariance, PTL

=============================================================================
