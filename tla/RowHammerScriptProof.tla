------------------------ MODULE RowHammerScriptProof ------------------------
(***************************************************************************)
(* Proofs about RowHammerScript: for every geometry of the memory, every   *)
(* set of command lines, every width of the counter, any number of scripts *)
(* and of killed ones, the rows asked for are hammered as asked, nothing   *)
(* is left switched on, --exit-on-bit-flip is honoured and the reports of  *)
(* a check are those of the flips there are in the memory.                 *)
(***************************************************************************)
EXTENDS RowHammerScript, FiniteSetTheorems, TLAPS

\* Steps of a script while it attacks, and while run() is between its fill
\* and its check.
Attacking == {"bist", "payload", "reset", "clear", "configure", "poll", "stop", "final"}
Exposed == Attacking \cup {"sleep", "hammer", "refresh_on"}
InRun == Exposed \cup {"fill", "verify", "refresh_off", "check"}
Places == InRun \cup {"off", "count", "runs", "save", "exit"}

RowTuples == Seq(Seq(Int))

Types ==
  /\ pc \in Places
  /\ enabled \in BOOLEAN /\ refresh \in BOOLEAN /\ found \in BOOLEAN
  /\ counter \in 0 .. CountMod - 1 /\ count \in Nat /\ flipRuns \in Nat
  /\ reads \in [1 .. 2 -> Nat]
  /\ pairs \in RowTuples /\ todo \in RowTuples /\ queue \in Seq(RowTuples)
  /\ pc # "off" => args \in Invocations

\* The attack in progress.  The counter of an attacker that a killed script
\* has left on is anything until AttackReset and AttackClear have been there.
Attack ==
  /\ pc \in Attacking => todo # << >>
  /\ pc \in {"clear", "configure", "final"} => ~enabled
  /\ pc = "configure" => counter = 0
  /\ pc \in {"stop", "final"} => reads[1] + reads[2] >= count

\* Refresh is switched off by run() only, which --hammer-only does not call.
Switches ==
  /\ upset = "no" => /\ ~refresh => args.no_refresh /\ pc \in Exposed
                     /\ enabled => pc \in {"poll", "stop"}
  /\ pc # "off" /\ args.mode = "hammer_only" =>
       queue = << >> /\ pc \in Attacking \cup {"hammer", "count", "runs", "save", "exit"}
  /\ upset = "no" /\ ~refresh => args.mode # "hammer_only"

\* Unless all rows are asked for there is one call of run() for a count, and
\* a script that has found flips has no call before it.
OneRun ==
  /\ pc = "off" => flipRuns = 0 /\ queue = << >>
  /\ pc # "off" /\ args.mode # "all_rows" =>
       /\ pc \in InRun => queue = << >>
       /\ pc = "runs" => queue = << >> \/ Tail(queue) = << >>
       /\ args.exit_on_bit_flip /\ flipRuns # 0 =>
            \/ pc \in {"save", "exit"}
            \/ pc = "runs" /\ found /\ queue = << >>

IndInv == Types /\ Attack /\ Switches /\ OneRun /\ HammeredAsAsked

-----------------------------------------------------------------------------
(* Arithmetic *)

\* What a division leaves.
LEMMA DivMod ==
  ASSUME NEW d \in Nat \ {0}, NEW n \in Int
  PROVE  n = d * (n \div d) + (n % d) /\ n \div d \in Int /\ n % d \in 0 .. d - 1
<1>1. n \div d \in Int /\ n % d \in 0 .. d - 1
  OBVIOUS
<1>2. n = d * (n \div d) + (n % d)
  BY Z3
<1> QED
  BY <1>1, <1>2

\* A remainder is no more than the number.
LEMMA RemainderBelow ==
  ASSUME NEW n \in Nat
  PROVE  n % CountMod <= n
<1>1. n \div CountMod \in Nat /\ n = CountMod * (n \div CountMod) + (n % CountMod)
  BY CountModAssumption, DivMod
<1>2. CountMod * (n \div CountMod) \in Nat
  BY <1>1, CountModAssumption
<1> QED
  BY <1>1, <1>2, CountModAssumption

\* Quotient and remainder are determined by what they add up to.
LEMMA Division ==
  ASSUME NEW d \in Nat \ {0}, NEW q \in Int, NEW r \in 0 .. d - 1
  PROVE  (q * d + r) \div d = q /\ (q * d + r) % d = r
<1> DEFINE n == q * d + r
           k == n \div d
<1>a. n \in Int
  OBVIOUS
<1> HIDE DEF n
<1>1. n \in Int /\ k \in Int /\ n = d * k + (n % d) /\ n % d \in 0 .. d - 1
  BY <1>a, DivMod
<1> HIDE DEF k
<1>2. d * (q - k) = (n % d) - r
  <2>1. d * (q - k) = q * d - d * k
    BY <1>1
  <2>2. q * d = n - r
    BY DEF n
  <2> QED
    BY <1>1, <2>1, <2>2
<1>3. q - k < 1
  <2> SUFFICES ASSUME q - k >= 1 PROVE FALSE
    BY <1>1
  <2>1. d * (q - k) >= d
    BY <1>1
  <2> QED
    BY <1>1, <1>2, <2>1
<1>4. q - k > -1
  <2> SUFFICES ASSUME q - k <= -1 PROVE FALSE
    BY <1>1
  <2>1. d * (q - k) <= -d
    BY <1>1
  <2> QED
    BY <1>1, <1>2, <2>1
<1>5. q = k
  BY <1>1, <1>3, <1>4
<1> QED
  BY <1>1, <1>2, <1>5 DEF k, n

\* The counter of an attacker wraps without a change of rows: its modulus is even.
LEMMA Parity ==
  ASSUME NEW n \in Nat
  PROVE  (n % CountMod) % 2 = n % 2
<1> USE CountModAssumption
<1> DEFINE q == n \div CountMod
           r == n % CountMod
           h == CountMod \div 2
<1>1. CountMod = 2 * h /\ h \in Int
  OBVIOUS
<1>2. n = CountMod * q + r /\ q \in Int /\ r \in Nat
  BY Z3
<1>3. n = 2 * (h * q) + r
  BY <1>1, <1>2, SMTT(30)
<1> HIDE DEF q, r, h
<1>4. h * q \in Int
  BY <1>1, <1>2
<1> QED
  BY <1>2, <1>3, <1>4 DEF r

\* Counting reads modulo CountMod counts them.
LEMMA CountUp ==
  ASSUME NEW n \in Nat
  PROVE  ((n % CountMod) + 1) % CountMod = (n + 1) % CountMod
<1> USE CountModAssumption
<1> DEFINE q == n \div CountMod
           r == n % CountMod
<1>1. n = q * CountMod + r /\ q \in Int /\ r \in 0 .. CountMod - 1
  BY Z3
<1> HIDE DEF q, r
<1>2. CASE r + 1 < CountMod
  <2>1. (q * CountMod + (r + 1)) % CountMod = r + 1
    <3>1. r + 1 \in 0 .. CountMod - 1
      BY <1>1, <1>2
    <3> QED
      BY <1>1, <3>1, Division
  <2>2. (r + 1) % CountMod = r + 1
    BY <1>1, <1>2
  <2> QED
    <3>1. n + 1 = q * CountMod + (r + 1)
      BY <1>1
    <3> QED
      BY <2>1, <2>2, <3>1 DEF r
<1>3. CASE r + 1 = CountMod
  <2>1. ((q + 1) * CountMod + 0) % CountMod = 0
    BY <1>1, Division
  <2>2. n + 1 = (q + 1) * CountMod + 0
    BY <1>1, <1>3
  <2>3. CountMod % CountMod = 0
    OBVIOUS
  <2> QED
    BY <1>3, <2>1, <2>2, <2>3 DEF r
<1> QED
  BY <1>1, <1>2, <1>3

\* The controller finds the row and the bank at the address that encode_dma
\* computes for them.
LEMMA DmaTarget ==
  ASSUME NEW bank, NEW row, NEW col, Encodable(bank, row, col)
  PROVE  /\ ControllerRow(EncodeDma(bank, row, col)) = row
         /\ ControllerBank(EncodeDma(bank, row, col)) = bank
<1> DEFINE K == 2^(colbits - address_align)
           A == 2^address_align
           B == 2^bankbits
           C == 2^colbits
           word == EncodeDma(bank, row, col)
<1>1. /\ K \in Nat \ {0} /\ A \in Nat \ {0} /\ B \in Nat \ {0}
      /\ C = K * A /\ 2^(bankbits + colbits) = B * C
  BY PowersOfTwo
<1>2. bank \in 0 .. B - 1 /\ row \in Nat /\ col \in 0 .. C - 1
  <2>1. 2^rowbits \in Nat
    BY PowersOfTwo
  <2> QED
    BY <2>1 DEF Encodable, Banks, RowNumbers, Cols
<1>3. word = (row * (B * C) + bank * C + col) \div A
  BY <1>1 DEF EncodeDma, Encode
<1>4. ControllerRow(word) = word \div (K * B) /\ ControllerBank(word) = (word \div K) % B
  BY DEF ControllerRow, ControllerBank, BurstsPerRow
<1> HIDE DEF K, A, B, C, word
<1>5. PICK burst \in 0 .. K - 1, rest \in 0 .. A - 1 : col = burst * A + rest
  <2> DEFINE b == col \div A
             r == col % A
  <2>1. col = b * A + r /\ b \in Int /\ r \in 0 .. A - 1
    BY <1>1, <1>2, Z3
  <2> HIDE DEF b, r
  <2>2. b >= 0
    <3> SUFFICES ASSUME b <= -1 PROVE FALSE
      BY <2>1
    <3>1. b * A <= -A
      BY <1>1, <2>1
    <3> QED
      BY <1>1, <1>2, <2>1, <3>1
  <2>3. b < K
    <3> SUFFICES ASSUME b >= K PROVE FALSE
      BY <1>1, <2>1
    <3>1. b * A >= K * A
      BY <1>1, <2>1
    <3> QED
      BY <1>1, <1>2, <2>1, <3>1
  <2>4. b \in 0 .. K - 1
    BY <1>1, <2>1, <2>2, <2>3
  <2> QED
    BY <2>1, <2>4
<1> DEFINE page == row * B + bank
<1>6. page \in Int
  BY <1>1, <1>2
<1>7. row * (B * C) + bank * C + col = (page * K + burst) * A + rest
  <2>1. row * (B * C) + bank * C = page * C
    BY <1>1, <1>2
  <2>2. page * C = (page * K) * A
    BY <1>1, <1>6
  <2>3. (page * K + burst) * A = (page * K) * A + burst * A
    BY <1>1, <1>5, <1>6
  <2> QED
    BY <1>5, <2>1, <2>2, <2>3, <1>1, <1>2, <1>6
<1> HIDE DEF page
<1>8. page * K + burst \in Int
  BY <1>1, <1>5, <1>6
<1>9. word = page * K + burst
  BY <1>1, <1>3, <1>5, <1>7, <1>8, Division, ZenonT(40)
<1>10. word \div K = page
  BY <1>1, <1>5, <1>6, <1>9, Division
<1>11. page % B = bank
  <2>1. row \in Int /\ bank \in 0 .. B - 1 /\ B \in Nat \ {0}
    BY <1>1, <1>2
  <2>2. (row * B + bank) % B = bank
    BY <2>1, Division
  <2> QED
    BY <2>2 DEF page
<1>12. word \div (K * B) = row
  <2>1. K * B \in Nat \ {0}
    BY <1>1
  <2>2. word = row * (K * B) + (bank * K + burst)
    BY <1>1, <1>2, <1>5, <1>9 DEF page
  <2>3. bank * K + burst \in 0 .. (K * B) - 1
    <3>1. bank * K >= 0
      BY <1>1, <1>2
    <3>2. bank * K <= (B - 1) * K
      BY <1>1, <1>2
    <3>3. (B - 1) * K = K * B - K
      BY <1>1
    <3> QED
      BY <1>1, <1>2, <1>5, <3>1, <3>2, <3>3
  <2> QED
    BY <1>2, <2>1, <2>2, <2>3, Division
<1> QED
  BY <1>4, <1>10, <1>11, <1>12 DEF word

-----------------------------------------------------------------------------
(* Row tuples *)

\* A function on 1 .. n is a sequence.
LEMMA FunctionIsSeq ==
  ASSUME NEW S, NEW n \in Nat, NEW f \in [1 .. n -> S]
  PROVE  f \in Seq(S)
  OBVIOUS

\* range() yields a sequence of numbers.
LEMMA RangeIsSeq ==
  ASSUME NEW lo \in Int, NEW hi \in Int, NEW step \in Nat \ {0}
  PROVE  PyRange(lo, hi, step) \in Seq(Int)
<1> DEFINE n == IF hi > lo THEN (hi - lo + step - 1) \div step ELSE 0
<1>1. n \in Nat
  <2>1. CASE hi > lo
    <3> DEFINE m == hi - lo + step - 1
    <3>1. m \in Nat
      BY <2>1
    <3> HIDE DEF m
    <3>2. m \div step \in Nat
      BY <3>1
    <3> QED
      BY <2>1, <3>2 DEF m
  <2> QED
    BY <2>1
<1>2. \A k \in 1 .. n : lo + ((k - 1) * step) \in Int
  BY <1>1
<1> HIDE DEF n
<1>3. [k \in 1 .. n |-> lo + ((k - 1) * step)] \in Seq(Int)
  BY <1>1, <1>2
<1> QED
  BY <1>3 DEF PyRange, n

\* Whatever the command line selects, row_pairs is a list of tuples of rows.
LEMMA PairsAreTuples ==
  ASSUME NEW a \in Invocations, ~UsageError(a), NEW p \in RowPairs(a)
  PROVE  p \in RowTuples
<1>1. ParsedArguments(a)
  BY InvocationsAssumption
<1>2. a.nrows \in Int /\ a.distance \in Int /\ a.jump \in Nat \ {0} /\ a.start \in Nat
  BY <1>1 DEF ParsedArguments
<1>3. a.mode \in Modes
  BY <1>1 DEF ParsedArguments
<1>4. CASE a.mode \in {"hammer_only", "const"}
  <2>1. a.rows \in Seq(Int)
    BY <1>1 DEF ParsedArguments
  <2>2. p = <<a.rows>>
    BY <1>4 DEF RowPairs
  <2> QED
    BY <2>1, <2>2 DEF RowTuples
<1>5. CASE a.mode = "all_rows"
  <2> DEFINE first == PyRange(a.start, a.nrows - a.distance, a.jump)
  <2>1. first \in Seq(Int)
    <3>1. a.start \in Int /\ a.nrows - a.distance \in Int
      BY <1>2
    <3> QED
      BY <1>2, <3>1, RangeIsSeq
  <2>2. p = [k \in DOMAIN first |-> <<first[k], first[k] + a.distance>>]
    BY <1>5 DEF RowPairs
  <2> HIDE DEF first
  <2>3. \A k \in DOMAIN first : <<first[k], first[k] + a.distance>> \in Seq(Int)
    BY <1>2, <2>1
  <2>4. DOMAIN first = 1 .. Len(first) /\ Len(first) \in Nat
    BY <2>1
  <2> QED
    BY <2>2, <2>3, <2>4 DEF RowTuples
<1>6. CASE a.mode = "sequential"
  <2>1. a.nrows \in Nat
    BY <1>2, <1>6 DEF UsageError
  <2>2. p = [k \in 1 .. a.nrows |-> <<a.start, a.start + k - 1>>]
    BY <1>6 DEF RowPairs
  <2>3. \A k \in 1 .. a.nrows : <<a.start, a.start + k - 1>> \in Seq(Int)
    BY <1>2, <2>1
  <2>4. p \in [1 .. a.nrows -> Seq(Int)]
    BY <2>2, <2>3
  <2> QED
    BY <2>1, <2>4, FunctionIsSeq DEF RowTuples
<1>7. CASE a.mode = "random"
  <2> DEFINE R == a.start .. (a.start + a.nrows)
  <2>1. a.nrows \in Nat
    BY <1>2, <1>7 DEF UsageError
  <2>2. p \in [1 .. a.nrows -> {<<r, s>> : r, s \in R}]
    BY <1>7 DEF RowPairs
  <2>3. ASSUME NEW t \in {<<r, s>> : r, s \in R}
        PROVE  t \in Seq(Int)
    <3>1. PICK r \in R, s \in R : t = <<r, s>>
      OBVIOUS
    <3>2. r \in Int /\ s \in Int
      BY <1>2, <2>1
    <3> QED
      BY <3>1, <3>2
  <2>4. p \in [1 .. a.nrows -> Seq(Int)]
    BY <2>2, <2>3
  <2> QED
    BY <2>1, <2>4, FunctionIsSeq DEF RowTuples
<1>8. CASE a.mode \in {"no_attack_time", "none"}
  <2>1. p = << >>
    BY <1>8 DEF RowPairs
  <2> QED
    BY <2>1 DEF RowTuples
<1> QED
  BY <1>3, <1>4, <1>5, <1>6, <1>7, <1>8 DEF Modes

\* The calls of run(): lists of tuples, and one call unless all rows are asked for.
LEMMA CallsOfRun ==
  ASSUME pairs \in RowTuples
  PROVE  /\ RunCalls \in Seq(RowTuples)
         /\ args.mode # "all_rows" => Tail(RunCalls) = << >>
<1>1. CASE args.mode = "all_rows"
  <2>1. RunCalls = [k \in DOMAIN pairs |-> <<pairs[k]>>]
    BY <1>1 DEF RunCalls
  <2>2. DOMAIN pairs = 1 .. Len(pairs) /\ Len(pairs) \in Nat
    BY DEF RowTuples
  <2>3. \A k \in DOMAIN pairs : <<pairs[k]>> \in RowTuples
    BY DEF RowTuples
  <2> QED
    BY <1>1, <2>1, <2>2, <2>3
<1>2. CASE args.mode = "no_attack_time"
  <2>1. RunCalls = << << <<0, 0>> >> >>
    BY <1>2 DEF RunCalls
  <2>2. << <<0, 0>> >> \in RowTuples
    BY DEF RowTuples
  <2> QED
    BY <2>1, <2>2
<1>3. CASE args.mode # "all_rows" /\ args.mode # "no_attack_time"
  <2>1. RunCalls = <<pairs>>
    BY <1>3 DEF RunCalls
  <2> QED
    BY <2>1
<1> QED
  BY <1>1, <1>2, <1>3

-----------------------------------------------------------------------------
(* Steps *)

\* A list of tuples that is not empty has a first one, and a list behind it.
LEMMA FirstAndRest ==
  ASSUME NEW S, NEW list \in Seq(S), list # << >>
  PROVE  Head(list) \in S /\ Tail(list) \in Seq(S)
  OBVIOUS

\* Nothing is known yet: the lists are empty and nothing has been read.
LEMMA Blank ==
  /\ << >> \in RowTuples /\ << >> \in Seq(RowTuples)
  /\ <<0, 0>> \in [1 .. 2 -> Nat] /\ [i \in 1 .. 2 |-> 0] \in [1 .. 2 -> Nat]
  /\ 0 \in 0 .. CountMod - 1
  BY CountModAssumption DEF RowTuples

\* The board is ready when a script starts it.
LEMMA InitInv == Init => IndInv
<1> SUFFICES ASSUME Init PROVE IndInv
  OBVIOUS
<1> USE DEF Init, DMAInit
<1>1. Types
  BY Blank DEF Types, Places
<1>2. Attack /\ Switches /\ OneRun
  BY DEF Attack, Switches, OneRun, Attacking, Exposed, InRun
<1>3. HammeredAsAsked
  BY DEF HammeredAsAsked
<1> QED
  BY <1>1, <1>2, <1>3 DEF IndInv

\* main() begins: a script that was not refused knows its rows.
LEMMA LaunchInv ==
  ASSUME IndInv, NEW a \in Invocations, Launch(a)
  PROVE  IndInv'
<1> USE DEF IndInv, Launch, jobVars, logVars, dmaVars, memVars
<1>1. CASE UsageError(a)
  BY <1>1 DEF Types, Attack, Switches, OneRun, HammeredAsAsked
<1>2. CASE ~UsageError(a)
  <2>1. pairs' \in RowTuples
    BY <1>2, PairsAreTuples
  <2>2. count' \in Nat
    BY <1>2, InvocationsAssumption DEF ParsedArguments
  <2>3. pc' = "count" /\ args' = a
    BY <1>2
  <2>4. UNCHANGED <<enabled, counter, refresh, found, flipRuns, reads, todo, queue, upset>>
    BY <1>2
  <2>5. Types'
    BY <2>1, <2>2, <2>3, <2>4 DEF Types, Places
  <2>6. Attack' /\ HammeredAsAsked'
    BY <2>3 DEF Attack, Attacking, HammeredAsAsked
  <2>7. upset = "no" => refresh /\ ~enabled
    BY DEF Switches, Exposed, Attacking, Types
  <2>8. Switches'
    BY <2>3, <2>4, <2>7 DEF Switches, OneRun, Attacking, Exposed
  <2>9. OneRun'
    BY <2>3, <2>4 DEF OneRun, InRun, Exposed, Attacking
  <2> QED
    BY <2>5, <2>6, <2>8, <2>9
<1> QED
  BY <1>1, <1>2

\* Steps of main() and run() around the attacks.
LEMMA ScriptInv ==
  ASSUME IndInv,
         \/ NextCount \/ NextRun \/ HwFill \/ RowFill \/ Verify \/ RefreshOff
         \/ NoAttackSleep \/ NextAttack \/ BoardAttack \/ AttacksDone \/ RefreshOn
         \/ Check \/ CheckRaises \/ Exit
  PROVE  IndInv'
<1> USE DEF IndInv, At, Raise, Gone, jobVars, logVars, lifeVars, memVars, dmaVars,
            Types, Attack, Switches, OneRun, HammeredAsAsked,
            Attacking, Exposed, InRun, Places
<1>1. CASE NextCount
  <2>1. Types'
    BY <1>1, CallsOfRun DEF NextCount
  <2>2. Attack' /\ Switches' /\ HammeredAsAsked'
    BY <1>1 DEF NextCount
  <2>3. OneRun'
    BY <1>1, CallsOfRun DEF NextCount
  <2> QED
    BY <2>1, <2>2, <2>3
<1>2. CASE NextRun
  <2>1. args.step \in Nat
    BY <1>2, InvocationsAssumption DEF NextRun, ParsedArguments
  <2>2. queue # << >> => Head(queue) \in RowTuples /\ Tail(queue) \in Seq(RowTuples)
    BY FirstAndRest
  <2>3. Types'
    <3>1. CASE queue = << >>
      BY <1>2, <2>1, <3>1 DEF NextRun
    <3>2. CASE queue # << >>
      BY <1>2, <2>2, <3>2 DEF NextRun
    <3> QED
      BY <3>1, <3>2
  <2>4. Attack' /\ Switches' /\ HammeredAsAsked'
    BY <1>2 DEF NextRun
  <2>5. OneRun'
    BY <1>2, <2>2 DEF NextRun, Break
  <2> QED
    BY <2>3, <2>4, <2>5
<1>3. CASE HwFill
  BY <1>3 DEF HwFill
<1>4. CASE RowFill
  BY <1>4 DEF RowFill
<1>5. CASE Verify
  BY <1>5 DEF Verify
<1>6. CASE RefreshOff
  BY <1>6 DEF RefreshOff
<1>7. CASE NoAttackSleep
  BY <1>7 DEF NoAttackSleep
<1>8. CASE NextAttack
  BY <1>8 DEF NextAttack
<1>9. CASE BoardAttack
  <2>1. Tail(todo) \in RowTuples
    BY <1>9, FirstAndRest DEF BoardAttack, RowTuples
  <2>2. Types'
    BY <1>9, <2>1 DEF BoardAttack
  <2>3. Attack' /\ Switches' /\ OneRun' /\ HammeredAsAsked'
    BY <1>9 DEF BoardAttack
  <2> QED
    BY <2>2, <2>3
<1>10. CASE AttacksDone
  BY <1>10 DEF AttacksDone
<1>11. CASE RefreshOn
  BY <1>11 DEF RefreshOn
<1>12. CASE Check
  <2>1. Types' /\ Attack' /\ Switches' /\ HammeredAsAsked'
    BY <1>12 DEF Check
  <2>2. OneRun'
    BY <1>12 DEF Check
  <2> QED
    BY <2>1, <2>2
<1>13. CASE Exit
  <2>1. Types'
    BY <1>13, Blank DEF Exit
  <2>2. Attack' /\ Switches' /\ OneRun' /\ HammeredAsAsked'
    BY <1>13 DEF Exit
  <2> QED
    BY <2>1, <2>2
<1>14. CASE CheckRaises
  BY <1>14 DEF CheckRaises
<1> QED
  BY <1>1, <1>2, <1>3, <1>4, <1>5, <1>6, <1>7, <1>8, <1>9, <1>10, <1>11, <1>12, <1>13, <1>14

\* The accesses of RowHammer.attack().
LEMMA AttackInv ==
  ASSUME IndInv,
         \/ AttackReset \/ AttackClear \/ AttackStart \/ AttackPoll \/ AttackStop
         \/ AttackFinalRead
  PROVE  IndInv'
<1> USE DEF IndInv, At, Raise, jobVars, logVars, lifeVars, memVars, dmaVars,
            Types, Attack, Switches, OneRun,
            Attacking, Exposed, InRun, Places
<1>1. CASE AttackReset
  BY <1>1 DEF AttackReset, HammeredAsAsked
<1>2. CASE AttackClear
  <2>1. counter' = 0
    BY <1>2 DEF AttackClear, CounterAfterRead
  <2>2. Types'
    BY <1>2, <2>1, Blank DEF AttackClear
  <2>3. Attack' /\ Switches' /\ OneRun' /\ HammeredAsAsked'
    BY <1>2, <2>1 DEF AttackClear, HammeredAsAsked
  <2> QED
    BY <2>2, <2>3
<1>3. CASE AttackStart
  <2> DEFINE rows == Head(todo)
             refused == \/ Len(rows) # 2
                        \/ \E i \in DOMAIN rows : ~Encodable(args.bank, rows[i], args.column)
  <2>1. CASE refused
    BY <1>3, <2>1 DEF AttackStart, HammeredAsAsked
  <2>2. CASE ~refused
    <3>1. rows \in Seq(Int)
      BY <1>3, FirstAndRest DEF AttackStart, RowTuples
    <3>2. DOMAIN rows = 1 .. 2
      BY <2>2, <3>1
    <3>3. \A i \in 1 .. 2 : Encodable(args.bank, rows[i], args.column)
      BY <2>2, <3>2
    <3>4. /\ pc' = "poll" /\ enabled' = TRUE /\ reads' = [i \in 1 .. 2 |-> 0]
          /\ \A i \in 1 .. 2 : addresses'[i] = EncodeDma(args.bank, rows[i], args.column)
      BY <1>3, <2>2 DEF AttackStart, SwitchOn
    <3>5. /\ UNCHANGED <<counter, todo, args, refresh, count, queue, pairs, flipRuns, found, upset>>
          /\ counter = 0
      BY <1>3, <2>2 DEF AttackStart
    <3>6. Types'
      BY <1>3, <3>4, <3>5, Blank DEF AttackStart
    <3>7. Attack' /\ Switches' /\ OneRun'
      BY <1>3, <3>4, <3>5 DEF AttackStart
    <3>8. \A i \in 1 .. 2 : /\ ControllerRow(addresses'[i]) = rows[i]
                            /\ ControllerBank(addresses'[i]) = args.bank
      BY <3>3, <3>4, DmaTarget
    <3>9. 0 % CountMod = 0
      BY CountModAssumption
    <3>10. HammeredAsAsked'
      BY <3>4, <3>5, <3>8, <3>9 DEF HammeredAsAsked
    <3> QED
      BY <3>6, <3>7, <3>10
  <2> QED
    BY <2>1, <2>2
<1>4. CASE AttackPoll
  <2>1. enabled /\ counter = (reads[1] + reads[2]) % CountMod
    BY <1>4 DEF AttackPoll, HammeredAsAsked
  <2>2. UNCHANGED counter
    BY <1>4, <2>1 DEF AttackPoll, CounterAfterRead
  <2>3. reads[1] + reads[2] \in Nat
    OBVIOUS
  <2>4. counter <= reads[1] + reads[2]
    BY <2>1, <2>3, RemainderBelow
  <2>5. Types' /\ Switches' /\ OneRun'
    BY <1>4, <2>2 DEF AttackPoll
  <2>6. Attack'
    BY <1>4, <2>2, <2>3, <2>4 DEF AttackPoll
  <2>7. HammeredAsAsked'
    BY <1>4, <2>2 DEF AttackPoll, HammeredAsAsked
  <2> QED
    BY <2>5, <2>6, <2>7
<1>5. CASE AttackStop
  BY <1>5 DEF AttackStop, HammeredAsAsked
<1>6. CASE AttackFinalRead
  <2>1. counter' = 0
    BY <1>6 DEF AttackFinalRead, CounterAfterRead
  <2>2. Tail(todo) \in RowTuples
    BY <1>6, FirstAndRest DEF AttackFinalRead, RowTuples
  <2>3. Types'
    BY <1>6, <2>1, <2>2, Blank DEF AttackFinalRead
  <2>4. Attack' /\ Switches' /\ OneRun' /\ HammeredAsAsked'
    BY <1>6 DEF AttackFinalRead, HammeredAsAsked
  <2> QED
    BY <2>3, <2>4
<1> QED
  BY <1>1, <1>2, <1>3, <1>4, <1>5, <1>6

\* A read of the attacker: it is the turn of the row that is one read behind.
LEMMA HammerInv ==
  ASSUME IndInv, Hammer
  PROVE  IndInv'
<1> USE DEF IndInv
<1>1. /\ enabled /\ counter' = (counter + 1) % CountMod
      /\ UNCHANGED <<enabled, addresses, refresh, pc, args, pairs, count, queue, todo,
                     found, upset, flipRuns>>
  BY DEF Hammer, DMARead, hostVars
<1>2. counter' \in 0 .. CountMod - 1
  BY <1>1, CountModAssumption DEF Types
<1>3. pc \notin {"clear", "configure", "final"}
  BY <1>1 DEF Attack
<1>4. CASE pc \notin {"poll", "stop"}
  <2>1. UNCHANGED reads
    BY <1>4 DEF Hammer
  <2>2. Types' /\ Attack' /\ Switches' /\ OneRun'
    BY <1>1, <1>2, <1>3, <2>1 DEF Types, Attack, Switches, OneRun
  <2>3. HammeredAsAsked'
    BY <1>1, <1>3, <1>4 DEF HammeredAsAsked
  <2> QED
    BY <2>2, <2>3
<1>5. CASE pc \in {"poll", "stop"}
  <2> DEFINE sum == reads[1] + reads[2]
  <2>1. reads[1] \in Nat /\ reads[2] \in Nat /\ sum \in Nat
    BY DEF Types
  <2>2. counter = sum % CountMod /\ reads[1] - reads[2] \in {0, 1}
    BY <1>5 DEF HammeredAsAsked
  <2>3. reads' = [reads EXCEPT ![Selected] = @ + 1]
    BY <1>5 DEF Hammer
  <2>4. counter % 2 = sum % 2
    BY <2>1, <2>2, Parity
  <2>5. counter' = (sum + 1) % CountMod
    BY <1>1, <2>1, <2>2, CountUp
  <2>6. /\ reads'[1] \in Nat /\ reads'[2] \in Nat /\ reads'[1] + reads'[2] = sum + 1
        /\ reads'[1] - reads'[2] \in {0, 1} /\ reads' \in [1 .. 2 -> Nat]
    <3>1. CASE reads[1] = reads[2]
      <4>1. Selected = 1
        BY <2>1, <2>4, <3>1 DEF Selected
      <4> QED
        BY <2>1, <2>3, <3>1, <4>1 DEF Types
    <3>2. CASE reads[1] = reads[2] + 1
      <4>1. Selected = 2
        BY <2>1, <2>4, <3>2 DEF Selected
      <4> QED
        BY <2>1, <2>3, <3>2, <4>1 DEF Types
    <3> QED
      BY <2>1, <2>2, <3>1, <3>2
  <2>7. Types' /\ Switches' /\ OneRun'
    BY <1>1, <1>2, <2>6 DEF Types, Switches, OneRun
  <2>8. Attack'
    BY <1>1, <1>3, <2>1, <2>6 DEF Attack, Types
  <2>9. HammeredAsAsked'
    BY <1>1, <1>3, <2>5, <2>6 DEF HammeredAsAsked
  <2> QED
    BY <2>7, <2>8, <2>9
<1> QED
  BY <1>4, <1>5

LEMMA NextInv == IndInv /\ [Next]_vars => IndInv'
<1> SUFFICES ASSUME IndInv, [Next]_vars PROVE IndInv'
  OBVIOUS
<1>1. ASSUME NEW a \in Invocations, Launch(a) PROVE IndInv'
  BY <1>1, LaunchInv
<1>2. CASE Host
  BY <1>2, ScriptInv, AttackInv DEF Host
<1>3. CASE Kill
  <2>1. Types'
    BY <1>3, Blank DEF Kill, Gone, IndInv, Types, Places, dmaVars
  <2>2. Attack' /\ Switches' /\ OneRun' /\ HammeredAsAsked'
    BY <1>3 DEF Kill, Gone, Attack, Switches, OneRun, HammeredAsAsked,
                Attacking, Exposed, InRun
  <2> QED
    BY <2>1, <2>2 DEF IndInv
<1>4. CASE Hammer
  BY <1>4, HammerInv
<1>5. ASSUME NEW x \in Weak, Flip(x) PROVE IndInv'
  BY <1>5 DEF Flip, dmaVars, hostVars, IndInv, Types, Attack, Switches, OneRun,
              HammeredAsAsked
<1>6. CASE UNCHANGED vars
  BY <1>6 DEF vars, dmaVars, hostVars, IndInv, Types, Attack, Switches, OneRun,
              HammeredAsAsked
<1> QED
  BY <1>1, <1>2, <1>3, <1>4, <1>5, <1>6 DEF Next

-----------------------------------------------------------------------------
(* Theorems *)

\* What the script knows of its attack, its switches and its runs is true at
\* every step, however often scripts are killed and started.
THEOREM Invariance == Spec => []IndInv
  BY InitInv, NextInv, PTL DEF Spec

\* RowHammer.attack() reads the two rows it was given in turn, at least
\* read_count times in all, and its counter has been cleared of what an
\* attacker that was left running had counted.
THEOREM AttackIsExact == Spec => []HammeredAsAsked
<1>1. IndInv => HammeredAsAsked
  BY DEF IndInv
<1> QED
  BY <1>1, Invariance, PTL

\* run() switches refresh on again and attack() the attacker off, in every
\* script that reaches its end.
THEOREM SwitchedBack == Spec => []NothingLeftOn
<1>1. IndInv => NothingLeftOn
  BY DEF IndInv, Switches, NothingLeftOn, Exposed, Attacking
<1> QED
  BY <1>1, Invariance, PTL

\* --exit-on-bit-flip: no memory is filled once flips have been found.
THEOREM ExitIsHonoured == Spec => []ExitHonoured
<1>1. IndInv => ExitHonoured
  BY DEF IndInv, OneRun, ExitHonoured, InRun
<1> QED
  BY <1>1, Invariance, PTL

-----------------------------------------------------------------------------
(* Where the bytes of a row are *)

\* Offset of the first byte of a row
Page(row, bank) == row * 2^bankbits + bank
Start(row, bank) == Page(row, bank) * RowBytes

\* The sizes are positive, and whole words.
LEMMA Sizes ==
  /\ PortBytes \in Nat \ {0} /\ PortBytes % 4 = 0
  /\ RowBytes \in Nat \ {0} /\ RowBytes % 4 = 0
  /\ BurstsPerRow \in Nat \ {0} /\ RowBytes = BurstsPerRow * PortBytes
  /\ 2^bankbits \in Nat \ {0} /\ 2^rowbits \in Nat \ {0} /\ 2^colbits \in Nat \ {0}
  /\ 2^(bankbits + colbits) = 2^bankbits * 2^colbits
  /\ MemBytes = RowBytes * (2^rowbits * 2^bankbits)
  /\ base \in Nat /\ BusShift \in Int
<1>1. PortBytes \in Nat \ {0} /\ PortBytes % 4 = 0
  <2>1. dram_port_width \in Nat /\ dram_port_width % 32 = 0
    BY PowersOfTwo, MemoryAssumption
  <2> QED
    BY <2>1, PowersOfTwo DEF PortBytes
<1>2. BurstsPerRow \in Nat \ {0} /\ RowBytes = BurstsPerRow * PortBytes
  BY PowersOfTwo DEF BurstsPerRow, RowBytes
<1>3. RowBytes \in Nat \ {0} /\ RowBytes % 4 = 0
  <2>1. PICK q \in Nat \ {0} : PortBytes = 4 * q
    <3>1. PortBytes = 4 * (PortBytes \div 4) /\ PortBytes \div 4 \in Nat \ {0}
      BY <1>1
    <3> QED
      BY <3>1
  <2>2. RowBytes = 4 * (BurstsPerRow * q) /\ BurstsPerRow * q \in Nat \ {0}
    BY <1>2, <2>1
  <2> DEFINE m == BurstsPerRow * q
  <2> HIDE DEF m
  <2>3. m \in Nat \ {0} => 4 * m \in Nat \ {0} /\ (4 * m) % 4 = 0
    OBVIOUS
  <2> QED
    BY <2>2, <2>3 DEF m
<1>4. 2^bankbits \in Nat \ {0} /\ 2^rowbits \in Nat \ {0} /\ 2^colbits \in Nat \ {0}
  <2> DEFINE a == 2^(colbits - address_align)
             b == 2^address_align
  <2>1. a \in Nat \ {0} /\ b \in Nat \ {0} /\ 2^colbits = a * b
    BY PowersOfTwo
  <2> HIDE DEF a, b
  <2>2. a * b \in Nat \ {0}
    BY <2>1
  <2> QED
    BY <2>1, <2>2, PowersOfTwo
<1>5. MemBytes = RowBytes * (2^rowbits * 2^bankbits)
  <2>1. bankbits + rowbits = rowbits + bankbits
    BY DramAddressAssumption
  <2> QED
    BY <2>1, PowersOfTwo DEF MemBytes
<1> QED
  BY <1>1, <1>2, <1>3, <1>4, <1>5, PowersOfTwo, DramAddressAssumption

\* A number is a quotient and a remainder.
LEMMA Split ==
  ASSUME NEW d \in Nat \ {0}, NEW m \in Nat, NEW n \in 0 .. m * d - 1
  PROVE  \E q \in 0 .. m - 1, r \in 0 .. d - 1 : n = q * d + r
<1> DEFINE q == n \div d
           r == n % d
<1>0. m * d \in Nat
  OBVIOUS
<1>1. n \in Int /\ n >= 0 /\ n < m * d
  BY <1>0
<1>2. n = d * q + r /\ q \in Int /\ r \in 0 .. d - 1
  BY <1>1, DivMod
<1> HIDE DEF q, r
<1>3. q >= 0
  <2> SUFFICES ASSUME q <= -1 PROVE FALSE
    BY <1>2
  <2>1. d * q <= -d
    BY <1>2
  <2>2. d * q \in Int
    BY <1>2
  <2> QED
    BY <1>1, <1>2, <2>1, <2>2
<1>4. q < m
  <2> SUFFICES ASSUME q >= m PROVE FALSE
    BY <1>2
  <2>1. d * q >= d * m
    BY <1>2
  <2>2. d * q \in Int /\ d * m = m * d
    BY <1>2
  <2> QED
    BY <1>0, <1>1, <1>2, <2>1, <2>2
<1>5. d * q = q * d
  BY <1>2
<1> QED
  BY <1>2, <1>3, <1>4, <1>5

\* Two numbers as one, digit by digit
LEMMA Digits ==
  ASSUME NEW d \in Nat \ {0}, NEW m \in Nat, NEW q \in 0 .. m - 1, NEW r \in 0 .. d - 1
  PROVE  q * d + r \in 0 .. m * d - 1
<1>1. q * d >= 0 /\ q * d \in Int /\ m * d \in Int
  OBVIOUS
<1>2. (q + 1) * d <= m * d
  OBVIOUS
<1>3. (q + 1) * d = q * d + d
  OBVIOUS
<1> QED
  BY <1>1, <1>2, <1>3

\* The page of a row is split as the controller does.
LEMMA PageSplit ==
  ASSUME NEW row \in Nat, NEW bank \in Banks, NEW d \in Nat \ {0}, NEW q \in 0 .. d - 1
  PROVE  /\ Page(row, bank) \in Nat
         /\ (Page(row, bank) * d + q) \div d = Page(row, bank)
         /\ Page(row, bank) % 2^bankbits = bank
         /\ (Page(row, bank) * d + q) \div (2^bankbits * d) = row
         /\ (Page(row, bank) * d + q) \div (d * 2^bankbits) = row
<1> DEFINE B == 2^bankbits
<1>1. B \in Nat \ {0} /\ bank \in 0 .. B - 1
  BY Sizes DEF Banks
<1> HIDE DEF B
<1>2. Page(row, bank) = row * B + bank
  BY DEF Page, B
<1>3. Page(row, bank) \in Nat /\ Page(row, bank) \in Int /\ row \in Int
  BY <1>1, <1>2
<1>4. (Page(row, bank) * d + q) \div d = Page(row, bank)
  BY <1>3, Division, Zenon
<1>5. Page(row, bank) % B = bank
  <2>1. (row * B + bank) % B = bank
    BY <1>1, <1>3, Division, Zenon
  <2> QED
    BY <1>2, <2>1
<1>6. Page(row, bank) * d + q = row * (B * d) + (bank * d + q)
  BY <1>1, <1>2
<1>7. bank * d + q \in 0 .. B * d - 1
  BY <1>1, Digits
<1>8. B * d \in Nat \ {0} /\ B * d = d * B
  BY <1>1
<1> DEFINE e == B * d
           r == bank * d + q
<1> HIDE DEF e, r
<1>9. (row * e + r) \div e = row
  <2>1. e \in Nat \ {0} /\ r \in 0 .. e - 1
    BY <1>7, <1>8 DEF e, r
  <2> QED
    BY <1>3, <2>1, Division, Zenon
<1> QED
  BY <1>3, <1>4, <1>5, <1>6, <1>8, <1>9 DEF e, r, B

\* Rows and pages have natural numbers.
LEMMA StartIsNat ==
  ASSUME NEW row \in Nat, NEW bank \in Banks
  PROVE  Page(row, bank) \in Nat /\ Start(row, bank) \in Nat
<1>1. 0 \in 0 .. 1 - 1
  OBVIOUS
<1>2. Page(row, bank) \in Nat
  BY <1>1, PageSplit
<1> QED
  BY <1>2, Sizes DEF Start

\* The controller finds a byte of a row in its row and bank.
LEMMA ByteOfRow ==
  ASSUME NEW row \in Nat, NEW bank \in Banks, NEW off \in 0 .. RowBytes - 1
  PROVE  LET address == base + Start(row, bank) + off
         IN  /\ address \in Nat /\ RowOf(address) = row /\ BankOf(address) = bank
             /\ (address - base) % RowBytes = off
<1> DEFINE P == PortBytes
           C == BurstsPerRow
           page == Page(row, bank)
           address == base + Start(row, bank) + off
           n == Start(row, bank) + off
<1>1. P \in Nat \ {0} /\ C \in Nat \ {0} /\ RowBytes = C * P /\ page \in Nat /\ base \in Nat
      /\ Start(row, bank) \in Nat /\ RowBytes \in Nat \ {0}
  BY Sizes, StartIsNat
<1>2. n \in Nat /\ address \in Nat /\ address - base = n /\ Start(row, bank) = page * RowBytes
  BY <1>1 DEF Start
<1> HIDE DEF P, C, page, address
<1>3. PICK q \in 0 .. C - 1, r \in 0 .. P - 1 : off = q * P + r
  <2>1. off \in 0 .. C * P - 1 /\ C \in Nat
    BY <1>1
  <2> QED
    BY <1>1, <2>1, Split, ZenonT(40)
<1>4. page * (C * P) + (q * P + r) = (page * C + q) * P + r /\ page * C + q \in Int
  BY <1>1, <1>3
<1>5. n = (page * C + q) * P + r
  BY <1>1, <1>2, <1>3, <1>4
<1>6. n \div P = page * C + q
  <2> DEFINE k == page * C + q
  <2> HIDE DEF k, n
  <2>1. k \in Int /\ n = k * P + r
    BY <1>4, <1>5 DEF k
  <2>2. (k * P + r) \div P = k
    BY <1>1, <2>1, Division
  <2> QED
    BY <2>1, <2>2 DEF k
<1>7. PortWordAt(address) = page * C + q
  BY <1>2, <1>6 DEF PortWordAt, P
<1>8. /\ (page * C + q) \div C = page /\ page % 2^bankbits = bank
      /\ (page * C + q) \div (C * 2^bankbits) = row
  BY <1>1, PageSplit DEF page
<1>9. RowOf(address) = row /\ BankOf(address) = bank
  BY <1>7, <1>8 DEF RowOf, BankOf, ControllerRow, ControllerBank, C
<1>10. n % RowBytes = off
  <2>1. page \in Int
    BY <1>1
  <2>2. (page * RowBytes + off) % RowBytes = off
    BY <1>1, <2>1, Division, Zenon
  <2> QED
    BY <1>2, <2>2
<1> QED
  BY <1>2, <1>9, <1>10 DEF address

\* Every word of the memory is a word of a row.
LEMMA Located ==
  ASSUME NEW address \in BusWords
  PROVE  \E row \in RowNumbers, bank \in Banks, off \in 0 .. RowBytes - 1 :
           off % 4 = 0 /\ address = base + Start(row, bank) + off
<1> DEFINE B == 2^bankbits
           N == 2^rowbits
           R == RowBytes
           v == R \div 4
<1>1. /\ B \in Nat \ {0} /\ N \in Nat \ {0} /\ R \in Nat \ {0} /\ R % 4 = 0
      /\ MemBytes = R * (N * B) /\ base \in Nat
  BY Sizes
<1> HIDE DEF B, N, R
<1>2. v \in Nat \ {0} /\ R = 4 * v
  BY <1>1
<1> HIDE DEF v
<1>3. N * B \in Nat
  BY <1>1
<1> DEFINE m == N * B
<1>4. MemBytes \div 4 = m * v
  <2> HIDE DEF m
  <2>1. m \in Nat /\ MemBytes = 4 * (m * v) /\ m * v \in Int
    BY <1>1, <1>2, <1>3 DEF m
  <2> QED
    BY <2>1
<1>5. PICK i \in 0 .. m * v - 1 : address = base + 4 * i
  BY <1>4 DEF BusWords
<1>6. PICK page \in 0 .. m - 1, j \in 0 .. v - 1 : i = page * v + j
  BY <1>2, <1>3, Split, Zenon
<1>7. PICK row \in 0 .. N - 1, bank \in 0 .. B - 1 : page = row * B + bank
  <2>1. N \in Nat
    BY <1>1
  <2> QED
    BY <1>1, <2>1, Split, Zenon DEF m
<1>8. row \in RowNumbers /\ bank \in Banks /\ page = Page(row, bank)
  BY <1>7 DEF RowNumbers, Banks, Page, N, B
<1>9. 4 * i = page * R + 4 * j /\ page * R \in Int
  <2>1. page \in Int
    BY <1>7, <1>1, <1>3
  <2> QED
    BY <1>2, <1>6, <2>1
<1>10. 4 * j \in 0 .. R - 1 /\ (4 * j) % 4 = 0
  BY <1>2
<1>11. address = base + Start(row, bank) + 4 * j
  <2> HIDE DEF m
  <2>1. Start(row, bank) = page * R
    BY <1>8 DEF Start, R
  <2> QED
    BY <1>1, <1>5, <1>9, <1>10, <2>1
<1> QED
  BY <1>8, <1>10, <1>11 DEF R

\* No shift in either direction
LEMMA ZeroShift ==
  ASSUME NEW k \in Int, k = 0
  PROVE  -k = 0 /\ -(-k) = 0 /\ ~(-k > 0)
<1>1. \A j \in Int : j <= 0 /\ j >= 0 => -j = j /\ -(-j) = j /\ ~(-j > 0)
  OBVIOUS
<1>2. k <= 0 /\ k >= 0
  OBVIOUS
<1>3. -k = k /\ -(-k) = k /\ ~(-k > 0)
  BY <1>1, <1>2
<1> QED
  BY <1>3

\* The columns of a row and its bytes differ by the shift of encode_bus.
LEMMA Shifts ==
  \/ /\ BusShift > 0 /\ 2^BusShift \in Nat \ {0} /\ RowBytes = 2^colbits * 2^BusShift
     /\ 2^BusShift = 2 \/ 2^BusShift % 4 = 0
  \/ /\ BusShift <= 0 /\ 2^(-BusShift) \in Nat \ {0}
     /\ 2^colbits = RowBytes * 2^(-BusShift)
     /\ BusShift = 0 => 2^(-BusShift) = 1
<1> DEFINE A == 2^address_align
           C == BurstsPerRow
           P == PortBytes
<1>1. /\ A \in Nat \ {0} /\ C \in Nat \ {0} /\ P \in Nat \ {0} /\ BusShift \in Int
      /\ 2^colbits = C * A /\ RowBytes = C * P
  BY PowersOfTwo, Sizes DEF BurstsPerRow
<1> HIDE DEF A, C, P
<1>2. CASE BusShift > 0
  <2> DEFINE S == 2^BusShift
  <2>1. S \in Nat /\ P = S * A /\ (S = 2 \/ S % 4 = 0)
    BY <1>2, PowersOfTwo DEF A, P
  <2> HIDE DEF S
  <2>2. S # 0 /\ C * P = (C * A) * S
    BY <1>1, <2>1
  <2> QED
    BY <1>1, <1>2, <2>1, <2>2 DEF S
<1>3. CASE BusShift <= 0
  <2> DEFINE S == 2^(-BusShift)
  <2>1. S \in Nat /\ A = S * P
    BY <1>3, PowersOfTwo DEF A, P
  <2>2. BusShift = 0 => S = 1
    <3>1. ASSUME BusShift = 0 PROVE -BusShift = 0
      BY <1>1, <3>1, ZeroShift
    <3> QED
      BY <3>1, PowersOfTwo
  <2> HIDE DEF S
  <2>3. S # 0 /\ C * A = (C * P) * S
    BY <1>1, <2>1
  <2> QED
    BY <1>1, <1>3, <2>1, <2>2, <2>3 DEF S
<1> QED
  BY <1>1, <1>2, <1>3

\* decode_bus finds a byte of a row in its row and bank.
LEMMA DecodedByte ==
  ASSUME NEW row \in RowNumbers, NEW bank \in Banks, NEW off \in 0 .. RowBytes - 1
  PROVE  LET cell == DecodeBus(base + Start(row, bank) + off)
         IN  cell.row = row /\ cell.bank = bank
<1> DEFINE K == 2^colbits
           B == 2^bankbits
           R == RowBytes
           page == Page(row, bank)
           n == Start(row, bank) + off
           a == ShiftLeft(n, -BusShift)
<1>0. row \in Nat /\ row < 2^rowbits
  BY Sizes DEF RowNumbers
<1>1. /\ K \in Nat \ {0} /\ B \in Nat \ {0} /\ R \in Nat \ {0} /\ base \in Nat /\ BusShift \in Int
      /\ page \in Nat /\ 2^(bankbits + colbits) = B * K /\ Start(row, bank) \in Nat
  BY <1>0, Sizes, StartIsNat
<1>2. n = page * R + off /\ n \in Nat /\ (base + Start(row, bank) + off) - base = n
  BY <1>1 DEF Start
<1> HIDE DEF K, B, R, page, n
<1>3. \E q \in 0 .. K - 1 : a = page * K + q
  <2>1. CASE BusShift > 0
    <3> DEFINE S == 2^BusShift
    <3>1. S \in Nat \ {0} /\ R = K * S
      BY <1>1, <2>1, Shifts DEF R, K
    <3>2. -(-BusShift) = BusShift /\ ~(-BusShift > 0)
      BY <1>1, <2>1
    <3>3. a = n \div S
      BY <3>2 DEF ShiftLeft
    <3> HIDE DEF S
    <3>4. PICK q \in 0 .. K - 1, r \in 0 .. S - 1 : off = q * S + r
      <4>1. off \in 0 .. K * S - 1 /\ K \in Nat
        BY <1>1, <3>1 DEF R
      <4> QED
        BY <3>1, <4>1, Split, Zenon
    <3>5. page * (K * S) + (q * S + r) = (page * K + q) * S + r /\ page * K + q \in Int
      BY <1>1, <3>1, <3>4
    <3> DEFINE k == page * K + q
    <3>6. k \in Int /\ n = k * S + r
      BY <1>2, <3>1, <3>4, <3>5
    <3> HIDE DEF k
    <3>7. (k * S + r) \div S = k
      BY <3>1, <3>6, Division, Zenon
    <3> QED
      BY <3>3, <3>6, <3>7 DEF k
  <2>2. CASE BusShift <= 0
    <3> DEFINE S == 2^(-BusShift)
               q == off * S
    <3>1. S \in Nat \ {0} /\ K = R * S /\ (BusShift = 0 => S = 1)
      BY <1>1, <2>2, Shifts DEF R, K
    <3>2. a = n * S
      <4>1. CASE BusShift = 0
        <5>1. -BusShift = 0 /\ -(-BusShift) = 0 /\ ~(-BusShift > 0)
          BY <1>1, <4>1, ZeroShift
        <5>2. a = n \div 1
          BY <5>1, PowersOfTwo DEF ShiftLeft
        <5> HIDE DEF a, S
        <5> QED
          BY <1>2, <3>1, <4>1, <5>2
      <4>2. CASE BusShift < 0
        <5>1. -BusShift > 0
          BY <1>1, <4>2
        <5> QED
          BY <5>1 DEF ShiftLeft
      <4> QED
        BY <1>1, <2>2, <4>1, <4>2
    <3> HIDE DEF S, a
    <3>3. (page * R + off) * S = page * (R * S) + off * S
      BY <1>1, <3>1 DEF R
    <3>4. q \in 0 .. K - 1
      <4>1. off * S \in Int /\ off * S >= 0
        BY <1>1, <3>1 DEF R
      <4>2. (off + 1) * S <= R * S
        BY <1>1, <3>1 DEF R
      <4>3. (off + 1) * S = off * S + S
        BY <1>1, <3>1 DEF R
      <4> QED
        BY <1>1, <3>1, <4>1, <4>2, <4>3
    <3> HIDE DEF q
    <3>5. a = page * K + q
      BY <1>2, <3>1, <3>2, <3>3 DEF q
    <3> QED
      BY <3>4, <3>5
  <2> QED
    BY <1>1, <2>1, <2>2
<1>4. PICK q \in 0 .. K - 1 : a = page * K + q
  BY <1>3
<1> HIDE DEF a
<1>5. a \div K = page /\ page % B = bank /\ a \div (B * K) = row
  BY <1>0, <1>1, <1>4, PageSplit DEF page, B
<1>6. row % 2^rowbits = row
  BY <1>0, Sizes
<1>7. DecodeBus(base + Start(row, bank) + off) = Decode(a)
  BY <1>2 DEF DecodeBus, a
<1> QED
  BY <1>1, <1>5, <1>6, <1>7 DEF Decode, K, B

\* Where a column is in its row, in bytes, and the distance of the last column
\* from the first
Inner(col) == IF BusShift > 0 THEN col * 2^BusShift ELSE col \div 2^(-BusShift)
Span == IF BusShift > 0 THEN RowBytes - 2^BusShift ELSE RowBytes - 1

\* encode_bus puts the columns of a row into its bytes.
LEMMA ColumnAddress ==
  ASSUME NEW row \in RowNumbers, NEW bank \in Banks, NEW col \in Cols
  PROVE  EncodeBus(bank, row, col) = base + Start(row, bank) + Inner(col)
<1> DEFINE K == 2^colbits
           R == RowBytes
           page == Page(row, bank)
           a == page * K + col
<1>0. row \in Nat
  BY Sizes DEF RowNumbers
<1>1. /\ K \in Nat \ {0} /\ R \in Nat \ {0} /\ page \in Nat /\ base \in Nat
      /\ BusShift \in Int /\ col \in 0 .. K - 1
  BY <1>0, Sizes, StartIsNat DEF Cols
<1>2. Encode(bank, row, col) = a
  <2> DEFINE B == 2^bankbits
  <2>1. B \in Nat \ {0} /\ bank \in Nat /\ 2^(bankbits + colbits) = B * K
    BY Sizes DEF Banks
  <2>2. page = row * B + bank
    BY DEF Page
  <2> HIDE DEF B, K, page
  <2>3. row * (B * K) + bank * K = (row * B + bank) * K
    BY <1>0, <1>1, <2>1
  <2>4. Encode(bank, row, col) = row * (B * K) + bank * K + col
    BY <2>1 DEF Encode, K
  <2> QED
    BY <2>2, <2>3, <2>4
<1>3. Start(row, bank) = page * R
  BY DEF Start
<1> HIDE DEF K, R, page
<1>4. ShiftLeft(a, BusShift) = page * R + Inner(col) /\ page * R \in Int /\ Inner(col) \in Int
  <2>1. CASE BusShift > 0
    <3> DEFINE S == 2^BusShift
    <3>1. S \in Nat \ {0} /\ R = K * S
      BY <1>1, <2>1, Shifts DEF R, K
    <3>2. ShiftLeft(a, BusShift) = a * S /\ Inner(col) = col * S
      BY <2>1 DEF ShiftLeft, Inner
    <3> HIDE DEF S
    <3>3. a * S = page * (K * S) + col * S /\ page * R \in Int /\ col * S \in Int
      BY <1>1, <3>1
    <3> QED
      BY <3>1, <3>2, <3>3
  <2>2. CASE BusShift <= 0
    <3> DEFINE S == 2^(-BusShift)
    <3>1. S \in Nat \ {0} /\ K = R * S
      BY <1>1, <2>2, Shifts DEF R, K
    <3>2. ShiftLeft(a, BusShift) = a \div S /\ Inner(col) = col \div S
      BY <1>1, <2>2 DEF ShiftLeft, Inner
    <3> HIDE DEF S, a
    <3> DEFINE q == col \div S
               r == col % S
    <3>3. col = S * q + r /\ q \in Int /\ r \in 0 .. S - 1
      BY <1>1, <3>1, DivMod
    <3> HIDE DEF q, r
    <3>4. page * (R * S) + (S * q + r) = (page * R + q) * S + r /\ page * R \in Int
      BY <1>1, <3>1, <3>3
    <3> DEFINE k == page * R + q
    <3>5. k \in Int /\ a = k * S + r
      BY <3>1, <3>3, <3>4 DEF a
    <3> HIDE DEF k
    <3>6. (k * S + r) \div S = k
      BY <3>1, <3>3, <3>5, Division, Zenon
    <3> QED
      BY <3>2, <3>3, <3>4, <3>5, <3>6 DEF k, q
  <2> QED
    BY <1>1, <2>1, <2>2
<1>5. base + (page * R + Inner(col)) = base + page * R + Inner(col)
  BY <1>1, <1>4
<1> QED
  BY <1>2, <1>3, <1>4, <1>5 DEF EncodeBus, R

\* The first and the last column of a row are the ends of the columns.
LEMMA Columns ==
  /\ \A col \in Cols : Inner(col) \in 0 .. Span
  /\ Span \in Nat /\ \E col \in Cols : Inner(col) = 0
  /\ \E col \in Cols : Inner(col) = Span
<1> DEFINE K == 2^colbits
           R == RowBytes
<1>1. /\ K \in Nat \ {0} /\ R \in Nat \ {0} /\ BusShift \in Int /\ Cols = 0 .. K - 1
  BY Sizes DEF Cols
<1> HIDE DEF K, R
<1>2. CASE BusShift > 0
  <2> DEFINE S == 2^BusShift
  <2>1. S \in Nat \ {0} /\ R = K * S
    BY <1>1, <1>2, Shifts DEF R, K
  <2>2. Span = R - S /\ \A col \in Cols : Inner(col) = col * S
    BY <1>2 DEF Span, Inner, R
  <2> HIDE DEF S
  <2>3. R - S = (K - 1) * S
    BY <1>1, <2>1
  <2>4. (K - 1) * S \in Nat
    BY <1>1, <2>1
  <2>5. ASSUME NEW col \in Cols PROVE col * S \in 0 .. Span
    <3>1. col * S \in Nat /\ col * S <= (K - 1) * S
      BY <1>1, <2>1
    <3> QED
      BY <2>2, <2>3, <2>4, <3>1
  <2>6. 0 \in Cols /\ K - 1 \in Cols /\ 0 * S = 0
    BY <1>1, <2>1
  <2> QED
    BY <2>2, <2>3, <2>4, <2>5, <2>6
<1>3. CASE BusShift <= 0
  <2> DEFINE S == 2^(-BusShift)
  <2>1. S \in Nat \ {0} /\ K = R * S
    BY <1>1, <1>3, Shifts DEF R, K
  <2>2. Span = R - 1 /\ \A col \in Cols : Inner(col) = col \div S
    BY <1>1, <1>3 DEF Span, Inner, R
  <2> HIDE DEF S
  <2>3. ASSUME NEW col \in Cols PROVE col \div S \in 0 .. Span
    <3>1. PICK q \in 0 .. R - 1, r \in 0 .. S - 1 : col = q * S + r
      <4>1. col \in 0 .. R * S - 1 /\ R \in Nat
        BY <1>1, <2>1
      <4> QED
        BY <2>1, <4>1, Split, Zenon
    <3>2. q \in Int
      BY <1>1
    <3>3. (q * S + r) \div S = q
      BY <2>1, <3>2, Division, Zenon
    <3> QED
      BY <2>2, <3>1, <3>3
  <2>4. 0 \in Cols /\ 0 \div S = 0
    BY <1>1, <2>1
  <2>5. K - 1 \in Cols /\ (K - 1) \div S = R - 1
    <3>1. K - 1 = (R - 1) * S + (S - 1)
      BY <1>1, <2>1
    <3>2. R - 1 \in Int /\ S - 1 \in 0 .. S - 1
      BY <1>1, <2>1
    <3>3. ((R - 1) * S + (S - 1)) \div S = R - 1
      BY <2>1, <3>2, Division, Zenon
    <3> QED
      BY <1>1, <3>1, <3>3
  <2>6. R - 1 \in Nat
    BY <1>1
  <2> QED
    BY <2>2, <2>3, <2>4, <2>5, <2>6
<1> QED
  BY <1>1, <1>2, <1>3

\* What row_access_iterator yields
LEMMA RowAccessed ==
  ASSUME NEW row \in RowNumbers, NEW bank \in Banks
  PROVE  /\ RowAccess[bank][row].first = base + Start(row, bank)
         /\ RowAccess[bank][row].n = Span \div 4
<1> DEFINE S == {EncodeBus(bank, row, col) : col \in Cols}
           s == base + Start(row, bank)
<1>1. row \in Nat /\ s \in Nat
  <2>1. row \in Nat
    BY Sizes DEF RowNumbers
  <2>2. Start(row, bank) \in Nat /\ base \in Nat
    BY <2>1, Sizes, StartIsNat
  <2> QED
    BY <2>1, <2>2
<1>2. AddressesPerRow[bank][row] = S
  BY DEF AddressesPerRow
<1> HIDE DEF s
<1>3. \A col \in Cols : EncodeBus(bank, row, col) = s + Inner(col)
  BY ColumnAddress DEF s
<1>4. Span \in Nat /\ \A x \in S : x \in s .. s + Span
  BY <1>1, <1>3, Columns
<1>5. s \in S /\ s + Span \in S
  <2>1. PICK c1 \in Cols : Inner(c1) = 0
    BY Columns
  <2>2. PICK c2 \in Cols : Inner(c2) = Span
    BY Columns
  <2>3. EncodeBus(bank, row, c1) = s /\ EncodeBus(bank, row, c2) = s + Span
    BY <1>1, <1>3, <2>1, <2>2
  <2> QED
    BY <2>3
<1> HIDE DEF S
<1>6. Min(S) = s
  <2> DEFINE m == Min(S)
  <2>1. \A y \in S : s <= y
    BY <1>1, <1>4
  <2>2. m \in S /\ \A y \in S : m <= y
    BY <1>5, <2>1 DEF Min
  <2> HIDE DEF m
  <2>3. m \in Int /\ m <= s /\ s <= m
    BY <1>1, <1>4, <1>5, <2>1, <2>2
  <2>4. m = s
    BY <1>1, <1>4, <2>3
  <2> QED
    BY <2>4 DEF m
<1>7. Max(S) = s + Span
  <2> DEFINE m == Max(S)
  <2>1. \A y \in S : s + Span >= y
    BY <1>1, <1>4
  <2>2. m \in S /\ \A y \in S : m >= y
    BY <1>5, <2>1 DEF Max
  <2> HIDE DEF m
  <2>3. m \in Int /\ m >= s + Span /\ s + Span >= m
    BY <1>1, <1>4, <1>5, <2>1, <2>2
  <2>4. m = s + Span
    BY <1>1, <1>4, <2>3
  <2> QED
    BY <2>4 DEF m
<1>8. RowAccess[bank][row] = [first |-> Min(S), n |-> (Max(S) - Min(S)) \div 4]
  BY <1>2, Zenon DEF RowAccess
<1> QED
  BY <1>1, <1>4, <1>6, <1>7, <1>8 DEF s

\* The words that are left out are those of the last column, or the last one.
LEMMA TailOfRow ==
  LET tail == RowBytes - Max({4, RowBytes \div 2^colbits})
  IN  /\ tail \in Int /\ Span \div 4 \in Nat /\ 4 * (Span \div 4) <= RowBytes
      /\ \A j \in Nat : j < Span \div 4 <=> 4 * j < tail
<1> DEFINE K == 2^colbits
           R == RowBytes
           c == R \div K
<1>1. K \in Nat \ {0} /\ R \in Nat \ {0} /\ R % 4 = 0 /\ BusShift \in Int
  BY Sizes
<1>2. \A x \in Int : Max({4, x}) = IF x > 4 THEN x ELSE 4
  <2> SUFFICES ASSUME NEW x \in Int PROVE Max({4, x}) = IF x > 4 THEN x ELSE 4
    OBVIOUS
  <2>1. Max({4, x}) \in {4, x} /\ \A y \in {4, x} : Max({4, x}) >= y
    <3>1. \E z \in {4, x} : \A y \in {4, x} : z >= y
      OBVIOUS
    <3> QED
      BY <3>1 DEF Max
  <2> QED
    BY <2>1
<1> HIDE DEF K, R
<1>3. CASE BusShift > 0
  <2> DEFINE S == 2^BusShift
  <2>1. S \in Nat \ {0} /\ R = K * S /\ (S = 2 \/ S % 4 = 0)
    BY <1>1, <1>3, Shifts DEF R, K
  <2>2. Span = R - S
    BY <1>3 DEF Span, R
  <2> HIDE DEF S
  <2>3. c = S
    <3>1. R = S * K + 0 /\ 0 \in 0 .. K - 1 /\ S \in Int
      BY <1>1, <2>1
    <3>2. (S * K + 0) \div K = S
      BY <1>1, <3>1, Division, Zenon
    <3> QED
      BY <3>1, <3>2
  <2> HIDE DEF c
  <2>4. S <= R
    <3>1. K * S >= 1 * S
      BY <1>1, <2>1
    <3> QED
      BY <2>1, <3>1
  <2> QED
    BY <1>1, <1>2, <2>1, <2>2, <2>3, <2>4 DEF R, K, c
<1>4. CASE BusShift <= 0
  <2> DEFINE S == 2^(-BusShift)
  <2>1. S \in Nat \ {0} /\ K = R * S
    BY <1>1, <1>4, Shifts DEF R, K
  <2>2. Span = R - 1
    BY <1>1, <1>4 DEF Span, R
  <2> HIDE DEF S
  <2>3. c \in Int /\ c <= 1
    <3>1. R <= K
      BY <1>1, <2>1
    <3>2. R = K * c + (R % K) /\ c \in Int /\ R % K \in 0 .. K - 1
      BY <1>1, DivMod
    <3> HIDE DEF c
    <3>3. c <= 1
      <4> SUFFICES ASSUME c >= 2 PROVE FALSE
        BY <3>2
      <4>1. K * c >= 2 * K
        BY <1>1, <3>2
      <4> QED
        BY <1>1, <3>1, <3>2, <4>1
    <3> QED
      BY <3>2, <3>3
  <2> HIDE DEF c
  <2>4. Max({4, c}) = 4
    BY <1>2, <2>3
  <2> QED
    BY <1>1, <2>2, <2>4 DEF R, K, c
<1> QED
  BY <1>1, <1>3, <1>4, SMTT(30)

\* The memory is so many words of the bus, and of the port.
LEMMA MemoryWords ==
  \E m, u \in Nat \ {0} :
    /\ PortBytes = 4 * u /\ MemBytes \div PortBytes = m /\ MemBytes \div 4 = m * u
<1> DEFINE B == 2^bankbits
           N == 2^rowbits
           C == BurstsPerRow
           P == PortBytes
           m == C * (N * B)
           u == P \div 4
<1>1. /\ B \in Nat \ {0} /\ N \in Nat \ {0} /\ C \in Nat \ {0} /\ P \in Nat \ {0}
      /\ P % 4 = 0 /\ MemBytes = (C * P) * (N * B)
  BY Sizes
<1> HIDE DEF B, N, C, P
<1>2. u \in Nat \ {0} /\ P = 4 * u
  BY <1>1
<1> HIDE DEF u
<1>3. N * B \in Nat \ {0}
  BY <1>1
<1>4. m \in Nat \ {0}
  <2> DEFINE x == N * B
  <2> HIDE DEF x
  <2>1. x \in Nat \ {0} => C * x \in Nat \ {0}
    BY <1>1
  <2> QED
    BY <1>3, <2>1 DEF x
<1>5. (C * P) * (N * B) = m * P
  <2> DEFINE x == N * B
  <2> HIDE DEF x
  <2>1. x \in Nat => (C * P) * x = (C * x) * P
    BY <1>1
  <2> QED
    BY <1>3, <2>1 DEF x
<1> HIDE DEF m
<1>6. MemBytes = m * P
  BY <1>1, <1>5
<1>7. MemBytes \div P = m
  <2>1. m \in Int /\ 0 \in 0 .. P - 1 /\ m * P + 0 = m * P
    BY <1>1, <1>4
  <2>2. (m * P + 0) \div P = m
    BY <1>1, <2>1, Division, Zenon
  <2> QED
    BY <1>6, <2>1, <2>2
<1>8. MemBytes \div 4 = m * u
  <2>1. m * P = 4 * (m * u) /\ m * u \in Int
    BY <1>2, <1>4
  <2> QED
    BY <1>6, <2>1
<1> QED
  BY <1>2, <1>4, <1>7, <1>8 DEF P

\* The words of the bus are those at every fourth byte of a row.
LEMMA WordOfRow ==
  ASSUME NEW row \in RowNumbers, NEW bank \in Banks, NEW off \in 0 .. RowBytes - 1,
         off % 4 = 0
  PROVE  base + Start(row, bank) + off \in BusWords
<1> DEFINE B == 2^bankbits
           N == 2^rowbits
           R == RowBytes
           v == R \div 4
           j == off \div 4
           page == Page(row, bank)
<1>1. /\ B \in Nat \ {0} /\ N \in Nat \ {0} /\ R \in Nat \ {0} /\ R % 4 = 0
      /\ MemBytes = R * (N * B) /\ base \in Nat /\ row \in 0 .. N - 1 /\ bank \in 0 .. B - 1
  BY Sizes DEF RowNumbers, Banks
<1>2. page = row * B + bank /\ Start(row, bank) = page * R
  BY DEF Page, Start
<1> HIDE DEF B, N, R, page
<1>3. v \in Nat \ {0} /\ R = 4 * v /\ j \in 0 .. v - 1 /\ off = 4 * j
  BY <1>1 DEF R
<1> HIDE DEF v, j
<1>4. N * B \in Nat /\ page \in 0 .. N * B - 1
  <2>1. N \in Nat
    BY <1>1
  <2>2. row * B + bank \in 0 .. N * B - 1
    BY <1>1, <2>1, Digits, Zenon
  <2> QED
    BY <1>1, <1>2, <2>2
<1> DEFINE m == N * B
<1> HIDE DEF m
<1>5. m \in Nat /\ page \in 0 .. m - 1 /\ MemBytes = R * m
  BY <1>1, <1>4 DEF m
<1>6. page * v + j \in 0 .. m * v - 1
  BY <1>3, <1>5, Digits, Zenon
<1>7. MemBytes \div 4 = m * v
  <2>1. MemBytes = 4 * (m * v) /\ m * v \in Int
    BY <1>3, <1>5
  <2> QED
    BY <2>1
<1>8. page * R + off = 4 * (page * v + j) /\ page * R \in Int
  <2>1. page \in Int
    BY <1>5
  <2> QED
    BY <1>3, <2>1
<1>9. base + Start(row, bank) + off = base + 4 * (page * v + j)
  <2>1. off \in Int /\ 4 * (page * v + j) \in Int
    BY <1>3, <1>5
  <2> QED
    BY <1>1, <1>2, <1>8, <2>1
<1> QED
  BY <1>6, <1>7, <1>9 DEF BusWords

\* Where a word of the bus is
LEMMA WordFacts ==
  ASSUME NEW address \in BusWords
  PROVE  /\ address \in Nat /\ RowOf(address) \in RowNumbers /\ BankOf(address) \in Banks
         /\ DecodeBus(address).row = RowOf(address)
         /\ DecodeBus(address).bank = BankOf(address)
         /\ \E off \in 0 .. RowBytes - 1 :
              /\ off % 4 = 0 /\ (address - base) % RowBytes = off
              /\ address = base + Start(RowOf(address), BankOf(address)) + off
<1>1. PICK row \in RowNumbers, bank \in Banks, off \in 0 .. RowBytes - 1 :
        off % 4 = 0 /\ address = base + Start(row, bank) + off
  BY Located
<1>2. row \in Nat
  BY Sizes DEF RowNumbers
<1>3. /\ address \in Nat /\ RowOf(address) = row /\ BankOf(address) = bank
      /\ (address - base) % RowBytes = off
  BY <1>1, <1>2, ByteOfRow
<1>4. DecodeBus(address).row = row /\ DecodeBus(address).bank = bank
  BY <1>1, DecodedByte
<1> QED
  BY <1>1, <1>3, <1>4

\* A port word is a word of the bus and those behind it.
LEMMA PortWord ==
  ASSUME NEW p \in PortWords, NEW k \in 0 .. PortBytes - 1, k % 4 = 0
  PROVE  p \in Nat /\ p \in BusWords /\ p + k \in BusWords
         /\ RowOf(p + k) = RowOf(p) /\ BankOf(p + k) = BankOf(p)
         /\ (p - base) % 4 = 0
<1>1. PICK m \in Nat \ {0}, u \in Nat \ {0} :
        /\ PortBytes = 4 * u /\ MemBytes \div PortBytes = m /\ MemBytes \div 4 = m * u
  BY MemoryWords
<1>2. PICK i \in 0 .. m - 1 : p = base + PortBytes * i
  BY <1>1 DEF PortWords
<1>3. base \in Nat /\ PortBytes \in Nat \ {0} /\ PortBytes * i \in Nat /\ p \in Nat /\ i \in Int
  BY <1>2, Sizes
<1>4. \A j \in 0 .. PortBytes - 1 : PortWordAt(p + j) = i
  <2> SUFFICES ASSUME NEW j \in 0 .. PortBytes - 1 PROVE PortWordAt(p + j) = i
    OBVIOUS
  <2>1. (i * PortBytes + j) \div PortBytes = i
    BY <1>3, Division, Zenon
  <2>2. (p + j) - base = i * PortBytes + j
    BY <1>2, <1>3
  <2> QED
    BY <2>1, <2>2 DEF PortWordAt
<1>5. \A j \in 0 .. PortBytes - 1 : j % 4 = 0 => p + j \in BusWords
  <2> SUFFICES ASSUME NEW j \in 0 .. PortBytes - 1, j % 4 = 0 PROVE p + j \in BusWords
    OBVIOUS
  <2> DEFINE d == j \div 4
  <2>1. d \in 0 .. u - 1 /\ j = 4 * d
    BY <1>1, <1>3
  <2> HIDE DEF d
  <2>2. i * u + d \in 0 .. m * u - 1
    <3>1. m \in Nat
      OBVIOUS
    <3> QED
      BY <2>1, <3>1, Digits, Zenon
  <2>3. p + j = base + 4 * (i * u + d)
    <3>1. (4 * u) * i = 4 * (i * u)
      BY <1>3
    <3>2. i * u \in Int /\ d \in Int
      BY <1>3, <2>1
    <3> QED
      BY <1>1, <1>2, <1>3, <2>1, <3>1, <3>2
  <2> QED
    BY <1>1, <2>2, <2>3 DEF BusWords
<1>6. 0 \in 0 .. PortBytes - 1 /\ p + 0 = p
  BY <1>3
<1>7. PortWordAt(p + k) = i /\ PortWordAt(p) = i
  BY <1>4, <1>6
<1>8. (p - base) % 4 = 0
  <2>1. (4 * u) * i = 4 * (i * u) /\ i * u \in Int
    BY <1>3
  <2>2. p - base = 4 * (i * u)
    BY <1>1, <1>2, <1>3, <2>1
  <2> QED
    BY <2>1, <2>2
<1>9. p \in BusWords /\ p + k \in BusWords
  BY <1>5, <1>6
<1> QED
  BY <1>3, <1>7, <1>8, <1>9 DEF RowOf, BankOf

\* Every word of the bus is in a port word.
LEMMA InPortWord ==
  ASSUME NEW address \in BusWords
  PROVE  \E p \in PortWords, k \in 0 .. PortBytes - 1 : k % 4 = 0 /\ address = p + k
<1>1. PICK m \in Nat \ {0}, u \in Nat \ {0} :
        /\ PortBytes = 4 * u /\ MemBytes \div PortBytes = m /\ MemBytes \div 4 = m * u
  BY MemoryWords
<1>2. PICK i \in 0 .. m * u - 1 : address = base + 4 * i
  BY <1>1 DEF BusWords
<1>3. PICK q \in 0 .. m - 1, d \in 0 .. u - 1 : i = q * u + d
  <2>1. m \in Nat
    OBVIOUS
  <2> QED
    BY <2>1, Split, Zenon
<1>4. base + PortBytes * q \in PortWords
  BY <1>1 DEF PortWords
<1>5. 4 * d \in 0 .. PortBytes - 1 /\ (4 * d) % 4 = 0
  BY <1>1
<1>6. address = (base + PortBytes * q) + 4 * d
  <2>1. q \in Int /\ d \in Int /\ base \in Nat /\ u \in Int
    BY Sizes
  <2>2. 4 * (q * u + d) = (4 * u) * q + 4 * d /\ (4 * u) * q \in Int
    BY <2>1
  <2> QED
    BY <1>1, <1>2, <1>3, <2>1, <2>2
<1> QED
  BY <1>4, <1>5, <1>6

\* Port words do not overlap.
LEMMA OnePortWord ==
  ASSUME NEW p \in PortWords, NEW q \in PortWords,
         NEW k \in 0 .. PortBytes - 1, NEW j \in 0 .. PortBytes - 1, p + k = q + j
  PROVE  p = q
<1>0. MemBytes \div PortBytes \in Nat
  BY MemoryWords
<1>1. PICK a \in Nat : p = base + PortBytes * a
  BY <1>0 DEF PortWords
<1>2. PICK b \in Nat : q = base + PortBytes * b
  BY <1>0 DEF PortWords
<1>3. base \in Nat /\ PortBytes \in Nat \ {0} /\ a \in Int /\ b \in Int
  BY Sizes
<1>4. (a * PortBytes + k) \div PortBytes = a /\ (b * PortBytes + j) \div PortBytes = b
  BY <1>3, Division, Zenon
<1>5. a * PortBytes + k = b * PortBytes + j
  <2>1. a * PortBytes = PortBytes * a /\ b * PortBytes = PortBytes * b
        /\ a * PortBytes \in Int /\ b * PortBytes \in Int
    BY <1>3
  <2> QED
    BY <1>1, <1>2, <1>3, <2>1
<1>6. a = b
  BY <1>4, <1>5
<1> QED
  BY <1>1, <1>2, <1>6

\* run() fills and checks the words of a row, but for its tail.
LEMMA CheckedWords ==
  ASSUME NEW row \in RowNumbers, args.bank \in Banks
  PROVE  /\ BaseAddress(row) = base + Start(row, args.bank) /\ BaseAddress(row) \in Nat
         /\ (BaseAddress(row) - base) % 4 = 0
         /\ \A w : w \in RowWords(row) <=>
              w \in BusWords /\ RowOf(w) = row /\ BankOf(w) = args.bank /\ ~InTail(w)
<1> DEFINE s == Start(row, args.bank)
           M == Span \div 4
           R == RowBytes
           tail == R - Max({4, R \div 2^colbits})
<1>1. row \in Nat /\ s \in Nat /\ base \in Nat /\ R \in Nat \ {0}
  <2>1. row \in Nat
    BY Sizes DEF RowNumbers
  <2> QED
    BY <2>1, Sizes, StartIsNat
<1>2. BaseAddress(row) = base + s /\ RowAccess[args.bank][row].n = M
  BY RowAccessed DEF BaseAddress
<1>3. tail \in Int /\ M \in Nat /\ 4 * M <= R /\ \A j \in Nat : j < M <=> 4 * j < tail
  BY TailOfRow
<1>4. s % 4 = 0
  <2> DEFINE page == Page(row, args.bank)
             v == R \div 4
  <2>1. page \in Nat /\ s = page * R /\ v \in Nat /\ R = 4 * v
    BY <1>1, StartIsNat, Sizes DEF Start
  <2> HIDE DEF page, v, s, R
  <2>2. s = 4 * (page * v) /\ page * v \in Int
    BY <2>1
  <2> QED
    BY <2>2
<1> HIDE DEF s, M, R, tail
<1>5. RowWords(row) = {base + s + 4 * i : i \in 0 .. M - 1}
  BY <1>2 DEF RowWords
<1>6. ASSUME NEW w \in RowWords(row)
      PROVE  w \in BusWords /\ RowOf(w) = row /\ BankOf(w) = args.bank /\ ~InTail(w)
  <2>1. PICK i \in 0 .. M - 1 : w = base + s + 4 * i
    BY <1>5, <1>6
  <2>2. i \in Nat /\ 4 * i \in 0 .. R - 1 /\ (4 * i) % 4 = 0 /\ 4 * i < tail
    BY <1>1, <1>3
  <2>3. w \in BusWords
    BY <2>1, <2>2, WordOfRow DEF s, R
  <2>4. RowOf(w) = row /\ BankOf(w) = args.bank /\ (w - base) % R = 4 * i
    BY <1>1, <2>1, <2>2, ByteOfRow DEF s, R
  <2>6. ~InTail(w)
    BY <1>3, <2>2, <2>4 DEF InTail, tail, R
  <2> QED
    BY <2>3, <2>4, <2>6
<1>7. ASSUME NEW w \in BusWords, RowOf(w) = row, BankOf(w) = args.bank, ~InTail(w)
      PROVE  w \in RowWords(row)
  <2>1. PICK off \in 0 .. R - 1 :
          off % 4 = 0 /\ (w - base) % R = off /\ w = base + s + off
    BY <1>7, WordFacts DEF s, R
  <2>2. ~(off >= tail)
    BY <1>7, <2>1 DEF InTail, tail, R
  <2> DEFINE i == off \div 4
  <2>3. i \in Nat /\ off = 4 * i
    BY <1>1, <2>1
  <2> HIDE DEF i
  <2>5. i < M
    BY <1>3, <2>2, <2>3
  <2> QED
    BY <1>3, <1>5, <2>1, <2>3, <2>5
<1>8. (base + s) - base = s /\ base + s \in Nat
  BY <1>1
<1> QED
  BY <1>2, <1>4, <1>6, <1>7, <1>8 DEF s

-----------------------------------------------------------------------------
(* What is in the memory *)

\* Steps of run() behind its fill
Kept == Exposed \cup {"verify", "refresh_off", "check"}

\* The checked memory has been filled with what the check expects.
Contents ==
  /\ args.hw => \A w \in BusWords : written[w] = Expected(0)
  /\ ~args.hw => \A row \in Rows(args) :
       /\ row \in RowNumbers /\ args.bank \in Banks
       /\ \A w \in RowWords(row) : written[w] = Expected(row)

\* Only weak bits have flipped since; nothing has been logged.
Prepared ==
  /\ flipped \subseteq Weak
  /\ pc \in {"fill"} \cup Kept /\ args.mode # "hammer_only" => csv = {}
  /\ pc \in Kept /\ args.mode # "hammer_only" => Contents

\* The contents are those of the same script and run.
LEMMA ContentsKept ==
  ASSUME UNCHANGED <<args, current, written>>
  PROVE  Contents' = Contents
  BY DEF Contents, Expected, RowWords, BaseAddress, Rows

\* Steps that neither write nor log
LEMMA PreparedKept ==
  ASSUME Prepared, UNCHANGED <<args, current, written, csv>>, flipped' \subseteq Weak,
         pc' \in Kept => pc \in Kept \/ args.mode = "hammer_only",
         pc' = "fill" => pc = "fill"
  PROVE  Prepared'
  BY ContentsKept DEF Prepared

\* A fill writes what the check will expect.
LEMMA FillPrepares ==
  ASSUME Prepared, HwFill \/ RowFill
  PROVE  Prepared'
<1>1. /\ UNCHANGED <<args, current, csv>> /\ pc = "fill"
  BY DEF HwFill, RowFill, jobVars, logVars
<1>2. CASE HwFill
  <2>1. pc' = "verify" /\ args.hw
    BY <1>2 DEF HwFill, At
  <2>2. /\ \A w \in BusWords : written'[w] = Expected(0)
        /\ flipped' \subseteq flipped
    BY <1>2 DEF HwFill, Write
  <2>3. Expected(0)' = Expected(0)
    BY <1>1 DEF Expected
  <2>4. Contents'
    BY <1>1, <2>1, <2>2, <2>3 DEF Contents
  <2> QED
    BY <1>1, <2>1, <2>2, <2>4 DEF Prepared, Kept
<1>3. CASE RowFill /\ \E row \in Rows(args) : ~Encodable(args.bank, row, 0)
  <2>1. pc' = "exit" /\ flipped' = flipped
    BY <1>3 DEF RowFill, Raise, memVars
  <2> QED
    BY <2>1 DEF Prepared, Kept, Exposed, Attacking
<1>4. CASE RowFill /\ \A row \in Rows(args) : Encodable(args.bank, row, 0)
  <2> DEFINE words == UNION {RowWords(row) : row \in Rows(args)}
             f == [w \in words |-> Expected(CHOOSE row \in Rows(args) : w \in RowWords(row))]
  <2>1. pc' = "refresh_off" /\ ~args.hw /\ Write(words, f)
    BY <1>4 DEF RowFill, At
  <2>2. \A row \in Rows(args) : row \in RowNumbers /\ args.bank \in Banks
    BY <1>4 DEF Encodable
  <2>3. ASSUME NEW row \in Rows(args), NEW w \in RowWords(row)
        PROVE  w \in BusWords /\ w \in words /\ f[w] = Expected(row)
    <3>1. w \in words
      BY <2>3
    <3>2. w \in BusWords /\ RowOf(w) = row
      BY <2>2, <2>3, CheckedWords
    <3> DEFINE other == CHOOSE r \in Rows(args) : w \in RowWords(r)
    <3>3. other \in Rows(args) /\ w \in RowWords(other)
      BY <2>3
    <3> HIDE DEF other
    <3>4. RowOf(w) = other
      BY <2>2, <3>3, CheckedWords
    <3>5. f[w] = Expected(other)
      BY <3>1 DEF other
    <3> QED
      BY <3>1, <3>2, <3>4, <3>5
  <2> HIDE DEF words, f
  <2>4. /\ \A row \in Rows(args) : \A w \in RowWords(row) : written'[w] = Expected(row)
        /\ flipped' \subseteq flipped
    BY <2>1, <2>3 DEF Write
  <2>5. Rows(args)' = Rows(args) /\ \A row : RowWords(row)' = RowWords(row) /\ Expected(row)' = Expected(row)
    BY <1>1 DEF Rows, RowWords, BaseAddress, Expected
  <2>6. Contents'
    BY <1>1, <2>1, <2>2, <2>4, <2>5 DEF Contents
  <2> QED
    BY <1>1, <2>1, <2>4, <2>6 DEF Prepared, Kept
<1> QED
  BY <1>2, <1>3, <1>4

\* Nothing has flipped at first.
LEMMA InitPrepared == Init => Prepared
  BY DEF Init, Prepared, Kept, Exposed, Attacking

\* Between a fill and its check nothing is written.
LEMMA NextPrepared == Prepared /\ [Next]_vars => Prepared'
<1> SUFFICES ASSUME Prepared, [Next]_vars PROVE Prepared'
  OBVIOUS
<1> USE DEF At, Raise, Gone, jobVars, logVars, lifeVars, memVars, dmaVars, Kept, Exposed, Attacking
<1>0. flipped \subseteq Weak
  BY DEF Prepared
<1>1. CASE \E a \in Invocations : Launch(a)
  <2>1. pc' \in {"count", "off"} /\ flipped' = flipped
    BY <1>1 DEF Launch
  <2> QED
    BY <1>0, <2>1 DEF Prepared
<1>2. CASE HwFill \/ RowFill
  BY <1>2, FillPrepares
<1>3. CASE NextRun
  <2>1. flipped' = flipped /\ pc' \in {"save", "count", "exit", "fill"} /\ (pc' = "fill" => csv' = {})
    BY <1>3 DEF NextRun
  <2> QED
    BY <1>0, <2>1 DEF Prepared
<1>4. CASE Verify \/ Check \/ CheckRaises \/ Exit \/ Kill
  <2>1. CASE Verify
    <3>1. CASE pc' = "refresh_off"
      BY <1>0, <2>1, <3>1, PreparedKept DEF Verify
    <3>2. CASE pc' = "runs"
      BY <1>0, <2>1, <3>2 DEF Verify, Prepared
    <3> QED
      BY <2>1, <3>1, <3>2 DEF Verify
  <2>2. CASE Check \/ CheckRaises
    <3>1. flipped' = flipped /\ pc' \in {"runs", "exit"}
      BY <2>2 DEF Check, CheckRaises
    <3> QED
      BY <1>0, <3>1 DEF Prepared
  <2>3. CASE Exit \/ Kill
    <3>1. flipped' = flipped /\ pc' = "off"
      BY <2>3 DEF Exit, Kill
    <3> QED
      BY <1>0, <3>1 DEF Prepared
  <2> QED
    BY <1>4, <2>1, <2>2, <2>3
<1>5. CASE NextCount
  BY <1>0, <1>5, PreparedKept DEF NextCount
<1>6. CASE RefreshOff \/ NoAttackSleep \/ AttacksDone \/ RefreshOn
  BY <1>0, <1>6, PreparedKept DEF RefreshOff, NoAttackSleep, AttacksDone, RefreshOn
<1>7. CASE NextAttack \/ BoardAttack
  BY <1>0, <1>7, PreparedKept DEF NextAttack, BoardAttack
<1>8. CASE AttackReset \/ AttackClear \/ AttackStop \/ AttackFinalRead
  BY <1>0, <1>8, PreparedKept DEF AttackReset, AttackClear, AttackStop, AttackFinalRead
<1>9. CASE AttackStart \/ AttackPoll
  BY <1>0, <1>9, PreparedKept DEF AttackStart, AttackPoll
<1>10. CASE Hammer
  BY <1>0, <1>10, PreparedKept DEF Hammer, hostVars
<1>11. CASE \E x \in Weak : Flip(x)
  <2>1. flipped' \subseteq Weak /\ UNCHANGED <<args, current, written, csv, pc>>
    BY <1>0, <1>11 DEF Flip, hostVars
  <2> QED
    BY <2>1, PreparedKept
<1>12. CASE UNCHANGED vars
  BY <1>0, <1>12, PreparedKept DEF vars, hostVars
<1> QED
  BY <1>1, <1>2, <1>3, <1>4, <1>5, <1>6, <1>7, <1>8, <1>9, <1>10, <1>11, <1>12 DEF Next, Host

-----------------------------------------------------------------------------
(* What the check finds *)

\* The words that are compared at once: of the port in HwRowHammer, of the bus
\* in RowHammer
Granule == IF args.hw THEN PortBytes ELSE 4
Tested(row) == IF args.hw THEN {p \in PortWords : RowOf(p) = row} ELSE RowWords(row)
Asked(row) == row \in RowNumbers /\ (~args.hw => row \in Rows(args))

\* The bit of the memory at a position behind an address, and the positions of
\* the bits that have flipped
Cell(p, pos) == <<p + 4 * (pos \div 32), pos % 32>>
Flaws(p) == {pos \in 0 .. 8 * Granule - 1 : Cell(p, pos) \in flipped}

\* The bits of a bus word
LEMMA BitsAre == Bits = 0 .. 31
  BY MemoryAssumption DEF Bits

\* In a word that was written as expected, the flipped bits differ.
LEMMA Differs ==
  ASSUME NEW G \in Nat \ {0}, G % 4 = 0, NEW p \in Nat, NEW expected,
         flipped \subseteq BusWords \X Bits,
         \A k \in 0 .. G - 1 : k % 4 = 0 => written[p + k] = expected
  PROVE  Diff(p, G, expected) = {pos \in 0 .. 8 * G - 1 : Cell(p, pos) \in flipped}
<1>1. ASSUME NEW k \in 0 .. G - 1, k % 4 = 0
      PROVE  DiffAt(p + k, expected) = {x[2] : x \in {y \in flipped : y[1] = p + k}}
  BY <1>1 DEF DiffAt
<1>2. ASSUME NEW pos \in Diff(p, G, expected)
      PROVE  pos \in 0 .. 8 * G - 1 /\ Cell(p, pos) \in flipped
  <2>1. PICK k \in 0 .. G - 1 : k % 4 = 0 /\ pos \in {8 * k + b : b \in DiffAt(p + k, expected)}
    BY <1>2 DEF Diff
  <2>2. PICK x \in flipped : x[1] = p + k /\ pos = 8 * k + x[2]
    BY <1>1, <2>1
  <2> DEFINE b == x[2]
  <2>3. x = <<p + k, b>> /\ b \in 0 .. 31
    BY <2>2, BitsAre
  <2> HIDE DEF b
  <2>4. pos = 8 * k + b
    BY <2>2 DEF b
  <2>5. pos \div 32 = k \div 4 /\ pos % 32 = b /\ 4 * (k \div 4) = k /\ pos \in 0 .. 8 * G - 1
    BY <2>1, <2>3, <2>4
  <2> QED
    BY <2>2, <2>3, <2>5 DEF Cell
<1>3. ASSUME NEW pos \in 0 .. 8 * G - 1, Cell(p, pos) \in flipped
      PROVE  pos \in Diff(p, G, expected)
  <2> DEFINE k == 4 * (pos \div 32)
             b == pos % 32
  <2>1. k \in 0 .. G - 1 /\ k % 4 = 0 /\ pos = 8 * k + b
    OBVIOUS
  <2>2. <<p + k, b>> \in flipped
    BY <1>3 DEF Cell
  <2> HIDE DEF k, b
  <2>3. b \in DiffAt(p + k, expected)
    <3>1. <<p + k, b>>[1] = p + k /\ <<p + k, b>>[2] = b
      OBVIOUS
    <3> QED
      BY <1>1, <2>1, <2>2, <3>1
  <2> QED
    BY <2>1, <2>3 DEF Diff
<1> QED
  BY <1>2, <1>3

\* What holds when the check begins
Ready == Contents /\ flipped \subseteq BusWords \X Bits /\ args.hw \in BOOLEAN

\* The pattern the check compares with
Filling(row) == IF args.hw THEN Expected(0) ELSE Expected(row)

\* Whole words are compared.
LEMMA GranuleFacts == Granule \in Nat \ {0} /\ Granule % 4 = 0
  BY Sizes DEF Granule

\* Words that are tested are words of the row, and of what was filled.
LEMMA TestedFacts ==
  ASSUME Ready, NEW row, Asked(row), NEW p \in Tested(row)
  PROVE  /\ p \in Nat /\ p \in BusWords /\ RowOf(p) = row /\ (p - base) % 4 = 0
         /\ \A k \in 0 .. Granule - 1 : k % 4 = 0 =>
              /\ p + k \in BusWords /\ RowOf(p + k) = row /\ BankOf(p + k) = BankOf(p)
              /\ Checked(p + k) /\ written[p + k] = Filling(row)
<1>1. CASE args.hw
  <2>1. p \in PortWords /\ RowOf(p) = row /\ Granule = PortBytes /\ Filling(row) = Expected(0)
    BY <1>1 DEF Tested, Granule, Filling
  <2>2. ASSUME NEW k \in 0 .. Granule - 1, k % 4 = 0
        PROVE  p + k \in BusWords /\ RowOf(p + k) = row /\ BankOf(p + k) = BankOf(p)
               /\ p \in Nat /\ p \in BusWords /\ (p - base) % 4 = 0
    BY <2>1, <2>2, PortWord
  <2>3. 0 \in 0 .. Granule - 1 /\ 0 % 4 = 0
    BY GranuleFacts
  <2>4. \A k \in 0 .. Granule - 1 : k % 4 = 0 => Checked(p + k) /\ written[p + k] = Expected(0)
    BY <1>1, <2>2 DEF Checked, Ready, Contents
  <2> QED
    BY <2>1, <2>2, <2>3, <2>4
<1>2. CASE ~args.hw
  <2>1. p \in RowWords(row) /\ Granule = 4 /\ Filling(row) = Expected(row)
        /\ row \in Rows(args) /\ row \in RowNumbers
    BY <1>2 DEF Tested, Granule, Filling, Asked
  <2>2. args.bank \in Banks /\ written[p] = Expected(row)
    BY <1>2, <2>1 DEF Ready, Contents
  <2>3. p \in BusWords /\ RowOf(p) = row /\ BankOf(p) = args.bank /\ ~InTail(p)
    BY <2>1, <2>2, CheckedWords
  <2>4. p \in Nat /\ (p - base) % 4 = 0
    <3>1. PICK i \in 0 .. (MemBytes \div 4) - 1 : p = base + 4 * i
      BY <2>3 DEF BusWords
    <3>2. base \in Nat /\ MemBytes \div 4 \in Int
      BY Sizes, MemoryWords
    <3>3. i \in Nat
      BY <3>2
    <3> QED
      BY <3>1, <3>2, <3>3
  <2>5. Checked(p)
    BY <2>1, <2>3 DEF Checked
  <2>6. \A k \in 0 .. Granule - 1 : k % 4 = 0 => p + k = p
    BY <2>1, <2>4
  <2> QED
    BY <2>1, <2>2, <2>3, <2>4, <2>5, <2>6
<1> QED
  BY <1>1, <1>2

\* The check sees the flipped bits of a tested word and no others.
LEMMA DiffIsFlaws ==
  ASSUME Ready, NEW row, Asked(row), NEW p \in Tested(row)
  PROVE  Diff(p, Granule, Filling(row)) = Flaws(p)
<1>1. p \in Nat /\ \A k \in 0 .. Granule - 1 : k % 4 = 0 => written[p + k] = Filling(row)
  BY TestedFacts
<1>2. flipped \subseteq BusWords \X Bits
  BY DEF Ready
<1> DEFINE f == Filling(row)
<1> HIDE DEF f
<1>3. Diff(p, Granule, f) = {pos \in 0 .. 8 * Granule - 1 : Cell(p, pos) \in flipped}
  BY <1>1, <1>2, GranuleFacts, Differs DEF f
<1> QED
  BY <1>3 DEF Flaws, f

\* Every flipped bit of the checked memory is found.
LEMMA Finds ==
  ASSUME Ready, NEW x \in flipped, Checked(x[1])
  PROVE  /\ Asked(RowOf(x[1]))
         /\ \E p \in Tested(RowOf(x[1])) : \E pos \in Flaws(p) : Cell(p, pos) = x
<1> DEFINE w == x[1]
           b == x[2]
           row == RowOf(w)
<1>1. w \in BusWords /\ b \in 0 .. 31 /\ x = <<w, b>>
  BY BitsAre DEF Ready
<1>2. row \in RowNumbers /\ w \in Nat
  BY <1>1, WordFacts
<1>3. Asked(row)
  BY <1>2 DEF Asked, Checked
<1>4. \E p \in Tested(row), k \in 0 .. Granule - 1 : k % 4 = 0 /\ w = p + k
  <2>1. CASE args.hw
    <3>1. PICK p \in PortWords, k \in 0 .. PortBytes - 1 : k % 4 = 0 /\ w = p + k
      BY <1>1, InPortWord
    <3>2. RowOf(p) = row
      BY <3>1, PortWord
    <3> QED
      BY <2>1, <3>1, <3>2 DEF Tested, Granule
  <2>2. CASE ~args.hw
    <3>1. row \in Rows(args) /\ BankOf(w) = args.bank /\ ~InTail(w)
      BY <2>2 DEF Checked
    <3>2. args.bank \in Banks
      BY <2>2, <3>1 DEF Ready, Contents
    <3>3. w \in RowWords(row)
      BY <1>1, <1>2, <3>1, <3>2, CheckedWords
    <3>4. w = w + 0 /\ 0 \in 0 .. 3 /\ 0 % 4 = 0
      BY <1>2
    <3> QED
      BY <2>2, <3>3, <3>4 DEF Tested, Granule
  <2> QED
    BY <2>1, <2>2
<1>5. PICK p \in Tested(row), k \in 0 .. Granule - 1 : k % 4 = 0 /\ w = p + k
  BY <1>4
<1> DEFINE pos == 8 * k + b
<1> HIDE DEF w, b, row
<1>6. /\ pos \in 0 .. 8 * Granule - 1 /\ pos % 32 = b /\ 4 * (pos \div 32) = k
  <2>1. Granule \in Nat /\ Granule % 4 = 0
    BY GranuleFacts
  <2> QED
    BY <1>1, <1>5, <2>1
<1> HIDE DEF pos
<1>7. Cell(p, pos) = x
  BY <1>1, <1>5, <1>6 DEF Cell
<1>8. pos \in Flaws(p)
  BY <1>6, <1>7 DEF Flaws
<1> QED
  BY <1>3, <1>5, <1>7, <1>8 DEF row, w

\* The bit of a position is a bit of the tested word.
LEMMA CellFacts ==
  ASSUME NEW p \in Nat, NEW pos \in 0 .. 8 * Granule - 1
  PROVE  /\ Cell(p, pos)[1] = p + 4 * (pos \div 32) /\ Cell(p, pos)[2] = pos % 32
         /\ 4 * (pos \div 32) \in 0 .. Granule - 1 /\ (4 * (pos \div 32)) % 4 = 0
         /\ p + (pos \div 8) = Cell(p, pos)[1] + (Cell(p, pos)[2] \div 8)
         /\ pos % 8 = Cell(p, pos)[2] % 8
<1>1. Granule \in Nat \ {0} /\ Granule % 4 = 0
  BY GranuleFacts
<1>2. Cell(p, pos)[1] = p + 4 * (pos \div 32) /\ Cell(p, pos)[2] = pos % 32
  BY DEF Cell
<1>3. 4 * (pos \div 32) \in 0 .. Granule - 1 /\ (4 * (pos \div 32)) % 4 = 0
  BY <1>1
<1>4. pos \div 8 = 4 * (pos \div 32) + ((pos % 32) \div 8) /\ pos % 8 = (pos % 32) % 8
  BY <1>1
<1>5. p + (pos \div 8) = (p + 4 * (pos \div 32)) + ((pos % 32) \div 8)
  BY <1>1, <1>4
<1> QED
  BY <1>2, <1>3, <1>4, <1>5

\* A bit is found in one place only.
LEMMA OneCell ==
  ASSUME Ready, NEW row, Asked(row), NEW p \in Tested(row), NEW q \in Tested(row),
         NEW i \in 0 .. 8 * Granule - 1, NEW j \in 0 .. 8 * Granule - 1, Cell(p, i) = Cell(q, j)
  PROVE  p = q /\ i = j
<1>1. p \in Nat /\ q \in Nat /\ Granule \in Nat
  BY TestedFacts, GranuleFacts
<1>2. p + 4 * (i \div 32) = q + 4 * (j \div 32) /\ i % 32 = j % 32
  BY DEF Cell
<1>3. p = q
  <2>1. CASE args.hw
    <3>1. p \in PortWords /\ q \in PortWords /\ Granule = PortBytes
      BY <2>1 DEF Tested, Granule
    <3>2. 4 * (i \div 32) \in 0 .. PortBytes - 1 /\ 4 * (j \div 32) \in 0 .. PortBytes - 1
      BY <1>1, <3>1, CellFacts
    <3> QED
      BY <1>2, <3>1, <3>2, OnePortWord
  <2>2. CASE ~args.hw
    <3>1. Granule = 4
      BY <2>2 DEF Granule
    <3> QED
      BY <1>1, <1>2, <3>1
  <2> QED
    BY <2>1, <2>2
<1> QED
  BY <1>1, <1>2, <1>3

\* The entry of a tested word among the errors of its row
Entry(row, p) == [i |-> (p - BaseAddress(row)) \div 4, bits |-> Flaws(p)]
Entries(row) == {Entry(row, p) : p \in {q \in Tested(row) : Flaws(q) # {}}}

\* check_errors lists the flipped bits, row by row.
LEMMA ErrorsAre ==
  ASSUME Ready, ~CheckRefused
  PROVE  /\ \A row \in DOMAIN CheckErrors :
              /\ Asked(row) /\ CheckErrors[row] = Entries(row)
              /\ CheckErrors[row] # {} => args.bank \in Banks
         /\ \A row : \A p \in Tested(row) :
              Asked(row) /\ Flaws(p) # {} => row \in DOMAIN CheckErrors
<1>1. CASE args.hw
  <2>1. CheckErrors = HwCheckErrors
    BY <1>1 DEF CheckErrors
  <2>2. \A p \in PortWords : /\ RowOf(p) \in RowNumbers /\ DecodeBus(p).row = RowOf(p)
                             /\ Diff(p, PortBytes, Expected(0)) = Flaws(p)
    <3> SUFFICES ASSUME NEW p \in PortWords
                 PROVE  /\ RowOf(p) \in RowNumbers /\ DecodeBus(p).row = RowOf(p)
                        /\ Diff(p, PortBytes, Expected(0)) = Flaws(p)
      OBVIOUS
    <3>1. 0 \in 0 .. PortBytes - 1 /\ 0 % 4 = 0
      BY Sizes
    <3>2. p \in BusWords
      BY <3>1, PortWord
    <3>3. RowOf(p) \in RowNumbers /\ DecodeBus(p).row = RowOf(p)
      BY <3>2, WordFacts
    <3>4. Asked(RowOf(p)) /\ p \in Tested(RowOf(p))
      BY <1>1, <3>3 DEF Asked, Tested
    <3>5. Granule = PortBytes /\ Filling(RowOf(p)) = Expected(0)
      BY <1>1 DEF Granule, Filling
    <3>6. Diff(p, Granule, Filling(RowOf(p))) = Flaws(p)
      BY <3>4, DiffIsFlaws
    <3> QED
      BY <3>3, <3>5, <3>6
  <2>3. BadWords = {p \in PortWords : Flaws(p) # {}}
    BY <2>2 DEF BadWords
  <2>4. DOMAIN HwCheckErrors = {RowOf(p) : p \in BadWords}
    <3>1. \A p \in BadWords : DecodeBus(p).row = RowOf(p)
      BY <2>2, <2>3
    <3>2. DOMAIN HwCheckErrors = {DecodeBus(p).row : p \in BadWords}
      BY DEF HwCheckErrors
    <3> QED
      BY <3>1, <3>2
  <2>5. ASSUME NEW row \in DOMAIN HwCheckErrors
        PROVE  Asked(row) /\ HwCheckErrors[row] = Entries(row) /\ args.bank \in Banks
    <3>1. PICK p \in BadWords : row = RowOf(p)
      BY <2>4, <2>5
    <3>2. Asked(row) /\ args.bank \in Banks
      BY <1>1, <2>2, <2>3, <3>1 DEF Asked, CheckRefused
    <3>3. HwCheckErrors[row] =
            {[i |-> (q - BaseAddress(row)) \div 4, bits |-> Diff(q, PortBytes, Expected(0))] :
               q \in {r \in BadWords : DecodeBus(r).row = row}}
      BY <2>5 DEF HwCheckErrors
    <3>4. {r \in BadWords : DecodeBus(r).row = row} = {q \in Tested(row) : Flaws(q) # {}}
      BY <1>1, <2>2, <2>3 DEF Tested
    <3>5. \A q \in {r \in Tested(row) : Flaws(r) # {}} : Diff(q, PortBytes, Expected(0)) = Flaws(q)
      BY <1>1, <2>2 DEF Tested
    <3> DEFINE T == {q \in Tested(row) : Flaws(q) # {}}
    <3> HIDE DEF T
    <3>6. HwCheckErrors[row] = {Entry(row, q) : q \in T}
      <4>1. HwCheckErrors[row] =
              {[i |-> (q - BaseAddress(row)) \div 4, bits |-> Diff(q, PortBytes, Expected(0))] : q \in T}
        BY <3>3, <3>4 DEF T
      <4>2. \A q \in T : Diff(q, PortBytes, Expected(0)) = Flaws(q)
        BY <3>5 DEF T
      <4> QED
        BY <4>1, <4>2 DEF Entry
    <3> QED
      BY <3>2, <3>6 DEF Entries, T
  <2>6. ASSUME NEW row, NEW p \in Tested(row), Flaws(p) # {}
        PROVE  row \in DOMAIN HwCheckErrors
    BY <1>1, <2>3, <2>4, <2>6 DEF Tested
  <2> QED
    BY <2>1, <2>5, <2>6
<1>2. CASE ~args.hw
  <2>1. CheckErrors = RowCheckErrors /\ DOMAIN RowCheckErrors = Rows(args)
    BY <1>2 DEF CheckErrors, RowCheckErrors
  <2>2. \A row \in Rows(args) : Asked(row) /\ args.bank \in Banks
    BY <1>2 DEF Ready, Contents, Asked
  <2>3. ASSUME NEW row \in Rows(args) PROVE RowCheckErrors[row] = Entries(row)
    <3>1. Granule = 4 /\ Filling(row) = Expected(row) /\ Tested(row) = RowWords(row)
      BY <1>2 DEF Granule, Filling, Tested
    <3>2. \A p \in RowWords(row) : Diff(p, 4, Expected(row)) = Flaws(p)
      BY <2>2, <3>1, DiffIsFlaws
    <3>3. RowCheckErrors[row] =
            {[i |-> (p - BaseAddress(row)) \div 4, bits |-> Diff(p, 4, Expected(row))] :
               p \in {q \in RowWords(row) : Diff(q, 4, Expected(row)) # {}}}
      BY DEF RowCheckErrors
    <3> DEFINE T == {q \in RowWords(row) : Flaws(q) # {}}
    <3>4. T = {q \in RowWords(row) : Diff(q, 4, Expected(row)) # {}}
      BY <3>2
    <3>5. \A q \in T : Diff(q, 4, Expected(row)) = Flaws(q)
      BY <3>2
    <3>a. Entries(row) = {Entry(row, q) : q \in T}
      BY <3>1 DEF Entries
    <3> HIDE DEF T
    <3>6. RowCheckErrors[row] =
            {[i |-> (p - BaseAddress(row)) \div 4, bits |-> Diff(p, 4, Expected(row))] : p \in T}
      BY <3>3, <3>4
    <3> QED
      BY <3>5, <3>6, <3>a DEF Entry
  <2> QED
    BY <1>2, <2>1, <2>2, <2>3 DEF Asked
<1> QED
  BY <1>1, <1>2 DEF Ready

\* From an entry back to its word
LEMMA EntryPlace ==
  ASSUME Ready, NEW row, Asked(row), args.bank \in Banks, NEW p \in Tested(row)
  PROVE  BaseAddress(row) + 4 * Entry(row, p).i = p /\ Entry(row, p).bits = Flaws(p)
<1>1. /\ p \in Nat /\ (p - base) % 4 = 0
  BY TestedFacts
<1>2. BaseAddress(row) \in Nat /\ (BaseAddress(row) - base) % 4 = 0 /\ base \in Nat
  BY Sizes, CheckedWords DEF Asked
<1> DEFINE b == BaseAddress(row)
<1> HIDE DEF b
<1>3. b \in Nat /\ (b - base) % 4 = 0
  BY <1>2 DEF b
<1>4. b + 4 * ((p - b) \div 4) = p
  BY <1>1, <1>2, <1>3
<1> QED
  BY <1>4 DEF Entry, b

\* Errors are about flipped bits of the checked memory.
LEMMA ErrorIsFlip ==
  ASSUME Ready, ~CheckRefused, NEW row \in DOMAIN CheckErrors, NEW e \in CheckErrors[row],
         NEW pos \in e.bits
  PROVE  \E p \in Tested(row) :
           /\ e = Entry(row, p) /\ pos \in Flaws(p) /\ BaseAddress(row) + 4 * e.i = p
           /\ Cell(p, pos) \in flipped /\ Checked(Cell(p, pos)[1])
           /\ RowOf(Cell(p, pos)[1]) = row
           /\ DecodeBus(p).bank = BankOf(Cell(p, pos)[1])
<1>1. Asked(row) /\ args.bank \in Banks /\ e \in Entries(row)
  BY ErrorsAre
<1>2. PICK p \in Tested(row) : e = Entry(row, p)
  BY <1>1 DEF Entries
<1>3. BaseAddress(row) + 4 * e.i = p /\ pos \in Flaws(p)
  BY <1>1, <1>2, EntryPlace
<1>4. pos \in 0 .. 8 * Granule - 1 /\ Cell(p, pos) \in flipped
  BY <1>3 DEF Flaws
<1>5. p \in Nat /\ p \in BusWords
  BY <1>1, TestedFacts
<1> DEFINE k == 4 * (pos \div 32)
<1>6. Cell(p, pos)[1] = p + k /\ k \in 0 .. Granule - 1 /\ k % 4 = 0
  BY <1>4, <1>5, CellFacts
<1> HIDE DEF k
<1>7. RowOf(p + k) = row /\ BankOf(p + k) = BankOf(p) /\ Checked(p + k)
  BY <1>1, <1>6, TestedFacts
<1>8. DecodeBus(p).bank = BankOf(p)
  BY <1>5, WordFacts
<1> QED
  BY <1>2, <1>3, <1>4, <1>6, <1>7, <1>8

\* Every flipped bit of the checked memory is in an error.
LEMMA FlipIsError ==
  ASSUME Ready, ~CheckRefused, NEW x \in flipped, Checked(x[1])
  PROVE  /\ RowOf(x[1]) \in DOMAIN CheckErrors
         /\ \E e \in CheckErrors[RowOf(x[1])] : \E pos \in e.bits :
              Cell(BaseAddress(RowOf(x[1])) + 4 * e.i, pos) = x
<1> DEFINE row == RowOf(x[1])
<1>1. PICK p \in Tested(row) : \E pos \in Flaws(p) : Asked(row) /\ Cell(p, pos) = x
  BY Finds
<1>2. PICK pos \in Flaws(p) : Asked(row) /\ Cell(p, pos) = x
  BY <1>1
<1> HIDE DEF row
<1>3. row \in DOMAIN CheckErrors
  BY <1>2, ErrorsAre
<1>4. Entry(row, p) \in Entries(row) /\ CheckErrors[row] = Entries(row)
  BY <1>2, <1>3, ErrorsAre DEF Entries
<1>5. args.bank \in Banks
  BY <1>3, <1>4, ErrorsAre
<1>6. BaseAddress(row) + 4 * Entry(row, p).i = p /\ Entry(row, p).bits = Flaws(p)
  BY <1>2, <1>5, EntryPlace
<1> QED
  BY <1>2, <1>3, <1>4, <1>6 DEF row

\* Every flip is one of the flips that are counted in its row.
LEMMA FlipsCounted ==
  ASSUME Ready, ~CheckRefused, NEW row \in DOMAIN CheckErrors
  PROVE  RowFlips(CheckErrors, row) =
           Cardinality({x \in flipped : Checked(x[1]) /\ RowOf(x[1]) = row})
<1> DEFINE S == {x \in flipped : Checked(x[1]) /\ RowOf(x[1]) = row}
           T == UNION {{<<e, pos>> : pos \in e.bits} : e \in CheckErrors[row]}
           f == [t \in T |-> Cell(BaseAddress(row) + 4 * t[1].i, t[2])]
<1>1. ASSUME NEW t \in T
      PROVE  \E p \in Tested(row) :
               /\ t[1] = Entry(row, p) /\ t[2] \in Flaws(p) /\ t = <<t[1], t[2]>>
               /\ BaseAddress(row) + 4 * t[1].i = p /\ Cell(p, t[2]) \in S
  <2>0. PICK e \in CheckErrors[row] : t \in {<<e, pos>> : pos \in e.bits}
    BY <1>1
  <2>1. PICK pos \in e.bits : t = <<e, pos>>
    BY <2>0
  <2>2. t[1] = e /\ t[2] = pos
    BY <2>1
  <2> QED
    BY <2>1, <2>2, ErrorIsFlip
<1>2. f \in [T -> S]
  <2>1. \A t \in T : Cell(BaseAddress(row) + 4 * t[1].i, t[2]) \in S
    BY <1>1
  <2> HIDE DEF T, S
  <2> QED
    BY <2>1
<1>3. Asked(row)
  BY ErrorsAre
<1>4. ASSUME NEW t \in T, NEW s \in T, f[t] = f[s] PROVE t = s
  <2>1. PICK p \in Tested(row) : /\ t[1] = Entry(row, p) /\ t[2] \in Flaws(p)
                                 /\ t = <<t[1], t[2]>> /\ BaseAddress(row) + 4 * t[1].i = p
    BY <1>1
  <2>2. PICK q \in Tested(row) : /\ s[1] = Entry(row, q) /\ s[2] \in Flaws(q)
                                 /\ s = <<s[1], s[2]>> /\ BaseAddress(row) + 4 * s[1].i = q
    BY <1>1
  <2>3. f[t] = Cell(p, t[2]) /\ f[s] = Cell(q, s[2])
    <3> HIDE DEF T
    <3> QED
      BY <2>1, <2>2
  <2>4. t[2] \in 0 .. 8 * Granule - 1 /\ s[2] \in 0 .. 8 * Granule - 1
    BY <2>1, <2>2 DEF Flaws
  <2> HIDE DEF T, f
  <2>a. Cell(p, t[2]) = Cell(q, s[2])
    BY <1>4, <2>3
  <2>5. p = q /\ t[2] = s[2]
    <3> DEFINE i == t[2]
               j == s[2]
    <3>1. i \in 0 .. 8 * Granule - 1 /\ j \in 0 .. 8 * Granule - 1 /\ Cell(p, i) = Cell(q, j)
      BY <2>4, <2>a
    <3> HIDE DEF i, j
    <3>2. p = q /\ i = j
      BY <1>3, <3>1, OneCell
    <3> QED
      BY <3>2 DEF i, j
  <2> QED
    BY <2>1, <2>2, <2>5
<1>5. ASSUME NEW x \in S PROVE \E t \in T : f[t] = x
  <2>1. PICK e \in CheckErrors[row] : \E pos \in e.bits : Cell(BaseAddress(row) + 4 * e.i, pos) = x
    BY <1>5, FlipIsError
  <2>2. PICK pos \in e.bits : Cell(BaseAddress(row) + 4 * e.i, pos) = x
    BY <2>1
  <2>3. <<e, pos>> \in T /\ <<e, pos>>[1] = e /\ <<e, pos>>[2] = pos
    BY <2>2
  <2> HIDE DEF T
  <2> QED
    BY <2>2, <2>3
<1>6. IsFiniteSet(S)
  <2>1. IsFiniteSet(BusWords \X Bits)
    <3>1. IsFiniteSet(Bits)
      <4>1. 0 \in Int /\ 31 \in Int
        OBVIOUS
      <4> QED
        BY <4>1, FS_Interval, BitsAre, Zenon
    <3>2. IsFiniteSet(BusWords)
      <4> DEFINE I == 0 .. (MemBytes \div 4) - 1
                 g == [i \in I |-> base + 4 * i]
      <4>1. MemBytes \div 4 \in Int
        BY MemoryWords
      <4>2. IsFiniteSet(I)
        BY <4>1, FS_Interval
      <4>3. BusWords = {base + 4 * i : i \in I}
        BY DEF BusWords
      <4>4. g \in Surjection(I, BusWords)
        BY <4>3 DEF Surjection
      <4> HIDE DEF I, g
      <4> QED
        BY <4>2, <4>4, FS_Surjection
    <3> QED
      BY <3>1, <3>2, FS_Product
  <2>2. S \in SUBSET (BusWords \X Bits)
    BY DEF Ready
  <2> HIDE DEF S
  <2> QED
    BY <2>1, <2>2, FS_Subset
<1> HIDE DEF S, T, f
<1>7. f \in Injection(T, S)
  BY <1>2, <1>4 DEF Injection, IsInjective
<1>8. f \in Surjection(T, S)
  BY <1>2, <1>5 DEF Surjection
<1>9. Cardinality(T) = Cardinality(S)
  BY <1>6, <1>7, <1>8, FS_Injection
<1> QED
  BY <1>9 DEF RowFlips, S, T

\* The reports of a check are those of the flips there are.
LEMMA CheckReports ==
  ASSUME IndInv, Prepared, Check, pc' = "runs"
  PROVE  (args.log => LogExact) /\ SummaryExact
<1> DEFINE errors == CheckErrors
           clean == RowsWithErrors(errors) = {}
<1>1. pc = "check" /\ ~CheckRefused /\ found' = ~clean
  BY DEF Check
<1>2. args \in Invocations /\ args.mode # "hammer_only"
  BY <1>1 DEF IndInv, Types, Switches, Attacking
<1>3. args.hw \in BOOLEAN /\ args.log \in BOOLEAN
  BY <1>2, InvocationsAssumption DEF ParsedArguments
<1>4. Ready /\ csv = {}
  BY <1>1, <1>2, <1>3, MemoryAssumption DEF Prepared, Kept, Ready
<1>5. \A row : row \in RowsWithErrors(errors) <=> row \in DOMAIN errors /\ errors[row] # {}
  BY DEF RowsWithErrors
<1>6. ASSUME NEW x \in flipped, Checked(x[1])
      PROVE  RowOf(x[1]) \in RowsWithErrors(errors)
  BY <1>1, <1>4, <1>5, <1>6, FlipIsError
<1>7. ASSUME NEW row \in RowsWithErrors(errors)
      PROVE  \E x \in flipped : Checked(x[1])
  <2>1. Asked(row) /\ errors[row] = Entries(row) /\ row \in DOMAIN errors /\ errors[row] # {}
    BY <1>1, <1>4, <1>5, <1>7, ErrorsAre
  <2>2. PICK p \in Tested(row) : Flaws(p) # {} /\ Entry(row, p) \in errors[row]
    BY <2>1 DEF Entries
  <2>3. PICK pos \in Flaws(p) : TRUE
    BY <2>2
  <2>4. pos \in Entry(row, p).bits
    BY DEF Entry
  <2> QED
    BY <1>1, <1>4, <2>1, <2>2, <2>4, ErrorIsFlip
<1>8. found' <=> \E x \in flipped : Checked(x[1])
  BY <1>1, <1>6, <1>7
<1>9. csv' = IF clean THEN {} ELSE IF args.log /\ DOMAIN errors # {} THEN CsvRows(errors) ELSE {}
  <2>1. CASE clean
    BY <1>4, <2>1 DEF Check
  <2>2. CASE ~clean
    BY <2>2 DEF Check, DumpBitflips, Raise
  <2> QED
    BY <2>1, <2>2
<1> DEFINE result == IF clean THEN {{}} ELSE IF InSummary THEN {ErrorDict(errors)} ELSE {}
           entry == [count |-> ReadCount, rows |-> current, errors |-> result]
<1>10. entry \in summary'
  <2>1. Record(result)
    <3>1. CASE clean
      BY <3>1 DEF Check
    <3>2. CASE ~clean
      BY <3>2 DEF Check, Raise
    <3> QED
      BY <3>1, <3>2
  <2> HIDE DEF result
  <2> QED
    BY <2>1 DEF Record
<1> HIDE DEF errors
<1>11. ASSUME NEW row \in DOMAIN errors, NEW e \in errors[row], NEW pos \in e.bits
       PROVE  \E x \in flipped : Checked(x[1]) /\ About(CsvRow(row, e, pos), x)
  <2>1. PICK p \in Tested(row) :
           /\ e = Entry(row, p) /\ pos \in Flaws(p) /\ BaseAddress(row) + 4 * e.i = p
           /\ Cell(p, pos) \in flipped /\ Checked(Cell(p, pos)[1])
           /\ RowOf(Cell(p, pos)[1]) = row
           /\ DecodeBus(p).bank = BankOf(Cell(p, pos)[1])
    BY <1>1, <1>4, <1>11, ErrorIsFlip DEF errors
  <2>2. pos \in 0 .. 8 * Granule - 1 /\ p \in Nat /\ Asked(row) /\ args.bank \in Banks
    BY <1>1, <1>4, <1>11, <2>1, ErrorsAre, TestedFacts DEF Flaws, errors
  <2> DEFINE c == CsvRow(row, e, pos)
             x == Cell(p, pos)
  <2>3. /\ c.count = ReadCount /\ c.row = row /\ c.bank = DecodeBus(p).bank
        /\ c.bit = pos % 8 /\ c.addr = p + (pos \div 8)
    BY <2>1 DEF CsvRow
  <2>4. p + (pos \div 8) = x[1] + (x[2] \div 8) /\ pos % 8 = x[2] % 8
    BY <2>2, CellFacts
  <2> HIDE DEF c, x
  <2>5. About(c, x)
    BY <2>1, <2>3, <2>4 DEF About, x
  <2> QED
    BY <2>1, <2>5 DEF c, x
<1>12. args.log => LogExact
  <2> SUFFICES ASSUME args.log PROVE LogExact
    OBVIOUS
  <2>1. ASSUME NEW c \in csv' PROVE \E x \in flipped : Checked(x[1]) /\ About(c, x)
    <3>1. c \in CsvRows(errors)
      BY <1>9, <2>1
    <3>2. PICK t \in UNION {UNION {{<<row, e, pos>> : pos \in e.bits} : e \in errors[row]} :
                              row \in DOMAIN errors} : c = CsvRow(t[1], t[2], t[3])
      BY <3>1 DEF CsvRows
    <3>3. PICK row \in DOMAIN errors :
            t \in UNION {{<<row, e, pos>> : pos \in e.bits} : e \in errors[row]}
      BY <3>2
    <3>4. PICK e \in errors[row] : t \in {<<row, e, pos>> : pos \in e.bits}
      BY <3>3
    <3>5. PICK pos \in e.bits : t = <<row, e, pos>>
      BY <3>4
    <3>6. c = CsvRow(row, e, pos)
      BY <3>2, <3>5
    <3> QED
      BY <1>11, <3>6
  <2>2. ASSUME NEW x \in flipped, Checked(x[1]) PROVE \E c \in csv' : About(c, x)
    <3> DEFINE row == RowOf(x[1])
    <3>1. row \in DOMAIN errors /\ ~clean
      BY <1>5, <1>6, <2>2
    <3>2. PICK e \in errors[row] :
            \E pos \in e.bits : Cell(BaseAddress(row) + 4 * e.i, pos) = x
      BY <1>1, <1>4, <2>2, FlipIsError DEF errors
    <3>3. PICK pos \in e.bits : Cell(BaseAddress(row) + 4 * e.i, pos) = x
      BY <3>2
    <3> DEFINE c == CsvRow(row, e, pos)
    <3>4. c \in csv'
      <4>1. csv' = CsvRows(errors)
        BY <1>9, <3>1
      <4> DEFINE t == <<row, e, pos>>
                 A(r, d) == {<<r, d, k>> : k \in d.bits}
      <4>2. t \in UNION {UNION {A(r, d) : d \in errors[r]} : r \in DOMAIN errors}
        <5>1. t \in A(row, e)
          OBVIOUS
        <5> HIDE DEF A, row
        <5>2. t \in UNION {A(row, d) : d \in errors[row]}
          BY <5>1
        <5> QED
          BY <3>1, <5>2
      <4>3. t[1] = row /\ t[2] = e /\ t[3] = pos
        OBVIOUS
      <4> QED
        BY <4>1, <4>2, <4>3 DEF CsvRows
    <3>5. About(c, x)
      <4>1. PICK p \in Tested(row) :
              /\ pos \in Flaws(p) /\ BaseAddress(row) + 4 * e.i = p
              /\ DecodeBus(p).bank = BankOf(Cell(p, pos)[1])
        BY <1>1, <1>4, <3>1, <3>2, <3>3, ErrorIsFlip DEF errors
      <4>2. Cell(p, pos) = x
        BY <3>3, <4>1
      <4>3. pos \in 0 .. 8 * Granule - 1 /\ p \in Nat
        BY <1>1, <1>4, <3>1, <4>1, ErrorsAre, TestedFacts DEF Flaws, errors
      <4>4. /\ c.count = ReadCount /\ c.row = row /\ c.bank = DecodeBus(p).bank
            /\ c.bit = pos % 8 /\ c.addr = p + (pos \div 8)
        BY <4>1 DEF CsvRow
      <4>5. p + (pos \div 8) = x[1] + (x[2] \div 8) /\ pos % 8 = x[2] % 8
        BY <4>2, <4>3, CellFacts
      <4> HIDE DEF c
      <4> QED
        BY <4>1, <4>2, <4>4, <4>5 DEF About
    <3> QED
      BY <3>4, <3>5
  <2> QED
    BY <2>1, <2>2 DEF LogExact
<1>13. SummaryExact
  <2> DEFINE flips(row) == {x \in flipped : Checked(x[1]) /\ RowOf(x[1]) = row}
             rows == {RowOf(x[1]) : x \in {y \in flipped : Checked(y[1])}}
  <2>1. ASSUME found', entry.errors # {}, NEW row \in rows
        PROVE  \E d \in UNION entry.errors : d.key = row /\ d.flips = Cardinality(flips(row))
    <3>1. ~clean /\ row \in RowsWithErrors(errors)
      BY <1>1, <1>6, <2>1 DEF errors
    <3>2. entry.errors = {ErrorDict(errors)}
      BY <2>1, <3>1
    <3>3. row \in LastWithErrors(errors, row)
      <4>1. row \in RowNumbers
        BY <1>1, <1>4, <1>5, <3>1, ErrorsAre DEF Asked, errors
      <4>2. row <= row
        BY <4>1, Sizes DEF RowNumbers
      <4> QED
        BY <3>1, <4>2 DEF LastWithErrors
    <3>4. row \in DOMAIN errors /\ RowFlips(errors, row) = Cardinality(flips(row))
      BY <1>1, <1>4, <1>5, <3>1, FlipsCounted DEF errors
    <3> DEFINE d == [key |-> row, flips |-> RowFlips(errors, row),
                     cols |-> {DecodeBus(BaseAddress(row) + 4 * e.i).col : e \in errors[row]}]
               Y == {y \in (DOMAIN errors) \X RowsWithErrors(errors) :
                       y[2] \in LastWithErrors(errors, y[1])}
    <3>5. <<row, row>> \in Y /\ <<row, row>>[1] = row /\ <<row, row>>[2] = row
      BY <3>1, <3>3, <3>4
    <3>6. d \in ErrorDict(errors)
      BY <3>5, Zenon DEF ErrorDict
    <3>7. d.key = row /\ d.flips = RowFlips(errors, row)
      OBVIOUS
    <3> HIDE DEF d
    <3> QED
      BY <3>2, <3>4, <3>6, <3>7
  <2>2. entry.count = ReadCount /\ entry.rows = current
    OBVIOUS
  <2> HIDE DEF entry
  <2> QED
    BY <1>8, <1>10, <2>1, <2>2 DEF SummaryExact
<1> QED
  BY <1>12, <1>13

\* When the check of a run returns, the bit-flip log has a line for every
\* flipped bit of the checked memory, at the address, row and bank where it
\* is, and no other; the summary counts them row by row, and OK is said only
\* if there are none.  Needed for it: the fill has written what the check
\* expects, and encode_bus, decode_bus and the controller agree on every word.
THEOREM FlipsAreReported == Spec => FlipsReported
<1>1. IndInv /\ Prepared /\ [Next]_vars =>
        [pc = "check" /\ pc' = "runs" => (args.log => LogExact) /\ SummaryExact]_vars
  <2> SUFFICES ASSUME IndInv, Prepared, Next, pc = "check", pc' = "runs"
               PROVE  (args.log => LogExact) /\ SummaryExact
    BY DEF vars
  <2>1. Check
    BY DEF Next, Host, Launch, NextCount, NextRun, HwFill, RowFill, Verify, RefreshOff,
           NoAttackSleep, NextAttack, BoardAttack, AttackReset, AttackClear, AttackStart,
           AttackPoll, AttackStop, AttackFinalRead, AttacksDone, RefreshOn, CheckRaises,
           Exit, Kill, Hammer, Flip, At, Raise, Gone, hostVars
  <2> QED
    BY <2>1, CheckReports
<1>2. Spec => []Prepared
  BY InitPrepared, NextPrepared, PTL DEF Spec
<1> QED
  BY <1>1, <1>2, Invariance, PTL DEF Spec, FlipsReported

=============================================================================
