--------------------------- MODULE RowHammerScript ---------------------------
(***************************************************************************)
(* The attack scripts rowhammer.py (class RowHammer) and hw_rowhammer.py   *)
(* (class HwRowHammer) from the command line to the error summary, over    *)
(* the DMA attacker, the refresh switch of the controller and a DRAM some  *)
(* of whose bits flip while rows are hammered or refresh is off.           *)
(*                                                                         *)
(* A memory word is abstracted to the pattern last written to it and the   *)
(* bits that have flipped since. hw_memset, hw_memtest and the BIST attack *)
(* appear by what BistWriter and HwMemtest show them to do, the payload    *)
(* attack by what HammerPayload shows.                                     *)
(***************************************************************************)
EXTENDS DramAddress, RowHammerDMA, Sequences

CONSTANTS
  Invocations,  \* command lines, see ParsedArguments
  Weak,         \* <<bus word address, bit>> of the bits that may flip
  PollGap,      \* bound: DMA reads between two accesses of the host
  MaxScripts,   \* bound: number of scripts started
  MaxKills      \* bound: number of scripts killed

Modes == {"hammer_only", "all_rows", "sequential", "const", "random",
          "no_attack_time", "none"}

Patterns == {"all_0", "all_1", "01_in_row", "01_per_row", "rand_per_row"}

\* What the argument parser returns, with the class of the script (hw), the
\* exclusive row selectors as one mode and the range of read counts. rows is
\* the list of --hammer-only or --const-rows-pair; jump is the step of a
\* range(), which refuses 0.
ParsedArguments(a) ==
  /\ a.mode \in Modes /\ a.pattern \in Patterns
  /\ {a.nrows, a.distance, a.jump} \subseteq Int
  /\ {a.start, a.bank, a.column, a.first, a.stop, a.step} \subseteq Nat
  /\ a.rows \in Seq(Nat) /\ (a.mode = "const" => Len(a.rows) \in {0, 2})
  /\ a.jump > 0
  /\ {a.hw, a.no_refresh, a.payload, a.log, a.exit_on_bit_flip, a.data_inversion}
       \subseteq BOOLEAN

ASSUME InvocationsAssumption == \A a \in Invocations : ParsedArguments(a)

\* The counter does not wrap before a poll sees that read_count is reached.
ASSUME ReadCountFits ==
  \A a \in Invocations : a.stop + PollGap <= CountMod

VARIABLES
  refresh,      \* CSR controller_settings_refresh
  written,      \* bus word address -> pattern last written there
  flipped,      \* bits that flipped since
  pc,           \* step of the running script, "off" without one
  args,         \* its parsed arguments
  pairs,        \* row_pairs of main
  count,        \* loop variable of main
  queue,        \* calls of run() left for this count
  todo,         \* row tuples left in this run() or attack
  current,      \* the row tuples of this run()
  found,        \* bitflip_found
  summary,      \* err_summary, a set of entries
  csv,          \* rows dump_bitflips wrote in this run()
  upset,        \* whether a script was killed or ended by an exception
  scripts, kills,
  \* history, to state properties
  reads,        \* reads of address1 and address2 in this attack
  gap,          \* DMA reads since the last access of the host
  flipRuns      \* number of run() calls of this script that found flips

hostVars == <<refresh, pc, args, pairs, count, queue, todo, current, found,
              summary, csv, upset, scripts, kills, flipRuns>>
vars == <<dmaVars, hostVars, written, flipped, reads, gap>>

-----------------------------------------------------------------------------
\* Command line

\* Every command line parser.error() refuses.
UsageError(a) ==
  \/ a.mode = "none"
  \/ a.mode \in {"sequential", "random"} /\ a.nrows <= 0
  \/ a.mode = "all_rows" /\ a.distance < 0
  \/ a.mode = "const" /\ a.rows = <<>>

\* range(lo, hi, step) as a sequence, step > 0.
PyRange(lo, hi, step) ==
  [k \in 1..(IF hi > lo THEN (hi - lo + step - 1) \div step ELSE 0) |->
     lo + ((k - 1) * step)]

\* The values row_pairs may get; random.randint includes both bounds.
RowPairs(a) ==
  CASE a.mode \in {"hammer_only", "const"} -> {<<a.rows>>}
    [] a.mode = "all_rows" ->
         LET first == PyRange(a.start, a.nrows - a.distance, a.jump)
         IN  {[k \in DOMAIN first |-> <<first[k], first[k] + a.distance>>]}
    [] a.mode = "sequential" ->
         {[k \in 1..a.nrows |-> <<a.start, a.start + k - 1>>]}
    [] a.mode = "random" ->
         LET R == a.start..(a.start + a.nrows)
         IN  [1..a.nrows -> {<<r, s>> : r, s \in R}]
    [] OTHER -> {<<>>}

\* The calls of run() main makes for one read count, by their row_pairs.
RunCalls ==
  CASE args.mode = "all_rows" -> [k \in DOMAIN pairs |-> <<pairs[k]>>]
    [] args.mode = "no_attack_time" -> << << <<0, 0>> >> >>
    [] OTHER -> <<pairs>>

ReadCount == IF args.mode = "no_attack_time" THEN 0 ELSE count

-----------------------------------------------------------------------------
\* Rows and patterns

Rows(a) == a.start..(a.start + a.nrows - 1)

\* Column addresses of a row, cached by the code too.
AddressesPerRow ==
  [bank \in Banks |-> [row \in RowNumbers |-> {EncodeBus(bank, row, col) : col \in Cols}]]

\* First address and number of words row_access_iterator yields for a row.
RowAccess ==
  [bank \in Banks |-> [row \in RowNumbers |->
     LET columns == AddressesPerRow[bank][row]
     IN  [first |-> Min(columns), n |-> (Max(columns) - Min(columns)) \div 4]]]

BaseAddress(row) == RowAccess[args.bank][row].first

\* The bus words run() fills and checks in a row.
RowWords(row) == {BaseAddress(row) + 4 * i : i \in 0..(RowAccess[args.bank][row].n - 1)}

MemBytes == RowBytes * 2^(bankbits + rowbits)
BusWords == {base + 4 * i : i \in 0..((MemBytes \div 4) - 1)}
PortWords == {base + PortBytes * i : i \in 0..((MemBytes \div PortBytes) - 1)}

PatternOf(name, row) ==
  CASE name = "01_per_row" -> <<IF row % 2 = 0 THEN "all_1" ELSE "all_0", 0>>
    [] name = "rand_per_row" -> <<"rand", row>>
    [] OTHER -> <<name, 0>>

\* HwRowHammer takes the pattern of the first row of the first pair for all.
Expected(row) ==
  PatternOf(args.pattern, IF args.hw THEN current[1][1] ELSE row)

Bits == 0..(bus_width - 1)

\* The scripts access words of four bytes; what flips are bits of the memory.
ASSUME MemoryAssumption == bus_width = 32 /\ Weak \subseteq BusWords \X Bits

\* Differing bits of the bus words from address on, numbered from its bit 0.
DiffAt(address, expected) ==
  IF written[address] # expected THEN Bits
  ELSE {x[2] : x \in {y \in flipped : y[1] = address}}

Diff(address, bytes, expected) ==
  UNION {{8 * k + b : b \in DiffAt(address + k, expected)} :
           k \in {j \in 0..(bytes - 1) : j % 4 = 0}}

\* check_errors: row -> set of [i, bits], i being the word index within a row
\* of args.bank. RowHammer lists all its rows, HwRowHammer, which tests all
\* memory, the rows with errors.
RowCheckErrors ==
  [row \in Rows(args) |->
     {[i |-> (p - BaseAddress(row)) \div 4, bits |-> Diff(p, 4, Expected(row))] :
        p \in {q \in RowWords(row) : Diff(q, 4, Expected(row)) # {}}}]

BadWords == {p \in PortWords : Diff(p, PortBytes, Expected(0)) # {}}

HwCheckErrors ==
  [row \in {DecodeBus(p).row : p \in BadWords} |->
     {[i |-> (p - BaseAddress(row)) \div 4, bits |-> Diff(p, PortBytes, Expected(0))] :
        p \in {q \in BadWords : DecodeBus(q).row = row}}]

CheckErrors == IF args.hw THEN HwCheckErrors ELSE RowCheckErrors

\* HwRowHammer places an error in the row of args.bank, which encode_bus may
\* refuse.
CheckRefused == args.hw /\ args.bank \notin Banks /\ BadWords # {}

RowsWithErrors(errors) == {row \in DOMAIN errors : errors[row] # {}}

\* Count of differing bits of a row.
RowFlips(errors, row) ==
  Cardinality(UNION {{<<e, pos>> : pos \in e.bits} : e \in errors[row]})

\* display_errors goes through the rows in order and keeps _row and flips
\* from one row to the next, so a row without errors is entered with the
\* values of the last row that had some.
LastWithErrors(errors, row) ==
  {r \in RowsWithErrors(errors) :
     /\ r <= row
     /\ \A s \in RowsWithErrors(errors) : s <= row => s <= r}

\* A row without errors before the first row with some: _row is not bound.
DisplayRaises(errors) ==
  \E row \in DOMAIN errors : LastWithErrors(errors, row) = {}

ErrorDict(errors) ==
  {[key |-> x[1], flips |-> RowFlips(errors, x[2]),
    cols |-> {DecodeBus(BaseAddress(x[1]) + 4 * e.i).col : e \in errors[x[1]]}] :
      x \in {y \in (DOMAIN errors) \X RowsWithErrors(errors) :
               y[2] \in LastWithErrors(errors, y[1])}}

\* The coordinates dump_bitflips writes for one flipped bit of error e.
CsvRow(row, e, pos) ==
  LET block == BaseAddress(row) + 4 * e.i
      cell == DecodeBus(block)
  IN  [count |-> ReadCount, row |-> row, bank |-> cell.bank, col |-> cell.col,
       byte |-> (block - BaseAddress(row)) + (pos \div 8),
       bit |-> pos % 8, addr |-> block + (pos \div 8)]

CsvRows(errors) ==
  {CsvRow(x[1], x[2], x[3]) :
     x \in UNION {UNION {{<<row, e, pos>> : pos \in e.bits} : e \in errors[row]} :
                    row \in DOMAIN errors}}

-----------------------------------------------------------------------------
memVars == <<written, flipped>>
jobVars == <<args, pairs, count, queue, todo, current>>
logVars == <<found, summary, csv, flipRuns>>
lifeVars == <<upset, scripts, kills>>

Init ==
  /\ DMAInit
  /\ refresh = TRUE
  /\ written = [w \in BusWords |-> <<"power_up", 0>>]
  /\ flipped = {}
  /\ pc = "off" /\ args = [mode |-> "none"] /\ pairs = <<>> /\ count = 0
  /\ queue = <<>> /\ todo = <<>> /\ current = <<>>
  /\ found = FALSE /\ summary = {} /\ csv = {} /\ flipRuns = 0
  /\ reads = <<0, 0>> /\ gap = 0
  /\ upset = "no" /\ scripts = 0 /\ kills = 0

\* A step of the script from one place to another.
At(from, to) == pc = from /\ pc' = to /\ gap' = 0

\* The process is no more.
Gone ==
  /\ pc' = "off" /\ args' = [mode |-> "none"] /\ pairs' = <<>> /\ count' = 0
  /\ queue' = <<>> /\ todo' = <<>> /\ current' = <<>>
  /\ found' = FALSE /\ summary' = {} /\ csv' = {} /\ flipRuns' = 0
  /\ reads' = <<0, 0>> /\ gap' = 0

\* An exception ends the script where it stands.
Raise == pc' = "exit" /\ upset' = "raised" /\ gap' = 0

\* main() parses the arguments, chooses the row pairs and opens the board.
Launch(a) ==
  /\ pc = "off" /\ scripts < MaxScripts
  /\ scripts' = scripts + 1
  /\ IF UsageError(a)
     THEN UNCHANGED <<pc, jobVars, logVars, gap>>
     ELSE /\ \E p \in RowPairs(a) : pairs' = p
          /\ args' = a /\ count' = a.first /\ pc' = "count"
          /\ UNCHANGED <<queue, todo, current, logVars, gap>>
  /\ UNCHANGED <<dmaVars, memVars, refresh, upset, kills, reads>>

\* Head of the loop over the read counts.
NextCount ==
  /\ pc = "count"
  /\ IF count > args.stop
     THEN At("count", "save") /\ UNCHANGED <<queue, todo>>
     ELSE IF args.mode = "hammer_only"
     THEN At("count", "hammer") /\ todo' = pairs /\ UNCHANGED queue
     ELSE At("count", "runs") /\ queue' = RunCalls /\ UNCHANGED todo
  /\ UNCHANGED <<dmaVars, memVars, refresh, args, pairs, count, current, logVars,
                 lifeVars, reads>>

BreakAtLast == found /\ args.exit_on_bit_flip /\ count >= args.stop

\* The condition of the break.
Break == found /\ args.exit_on_bit_flip

\* The next call of run(), or the end of the loop body with its break.
NextRun ==
  /\ pc = "runs"
  /\ IF queue = <<>>
     THEN /\ IF Break
             THEN At("runs", "save") /\ UNCHANGED count
             ELSE At("runs", "count") /\ count' = count + args.step
          /\ UNCHANGED <<queue, todo, current, upset, csv>>
     ELSE /\ queue' = Tail(queue) /\ todo' = Head(queue) /\ current' = Head(queue)
          /\ csv' = {}
          /\ IF args.data_inversion /\ ~args.hw
             THEN Raise
             ELSE At("runs", "fill") /\ UNCHANGED upset
          /\ UNCHANGED count
  /\ UNCHANGED <<dmaVars, memVars, refresh, args, pairs, found, summary, flipRuns,
                 scripts, kills, reads>>

Write(words, pattern) ==
  /\ written' = [w \in BusWords |-> IF w \in words THEN pattern[w] ELSE written[w]]
  /\ flipped' = {x \in flipped : x[1] \notin words}

\* HwRowHammer: hw_memset() of all memory.
HwFill ==
  /\ pc = "fill" /\ args.hw
  /\ At("fill", "verify")
  /\ Write(BusWords, [w \in BusWords |-> Expected(0)])
  /\ UNCHANGED <<dmaVars, refresh, jobVars, logVars, lifeVars, reads>>

\* RowHammer: prepare_memory() fills the rows of the script.
RowFill ==
  /\ pc = "fill" /\ ~args.hw
  /\ IF \E row \in Rows(args) : ~Encodable(args.bank, row, 0)
     THEN Raise /\ UNCHANGED memVars
     ELSE /\ At("fill", "refresh_off") /\ UNCHANGED upset
          /\ LET words == UNION {RowWords(row) : row \in Rows(args)}
             IN  Write(words, [w \in words |->
                               Expected(CHOOSE row \in Rows(args) : w \in RowWords(row))])
  /\ UNCHANGED <<dmaVars, refresh, jobVars, logVars, scripts, kills, reads>>

DumpBitflips(errors) ==
  csv' = IF args.log /\ DOMAIN errors # {} THEN CsvRows(errors) ELSE {}

\* main() files what run() returned under its read count and rows. The
\* summary of a sleep replaces the whole dictionary. A result is a set with the
\* returned dictionary in it, or empty for None.
Record(result) ==
  LET entry == [count |-> ReadCount, rows |-> current, errors |-> result]
  IN  summary' = IF args.mode = "no_attack_time" THEN {entry} ELSE summary \cup {entry}

\* HwRowHammer.run() returns None when the filled memory does not verify.
Verify ==
  /\ pc = "verify" /\ ~CheckRefused
  /\ IF RowsWithErrors(CheckErrors) = {}
     THEN At("verify", "refresh_off") /\ UNCHANGED <<summary, csv>>
     ELSE At("verify", "runs") /\ DumpBitflips(CheckErrors) /\ Record({})
  /\ UNCHANGED <<dmaVars, memVars, refresh, jobVars, found, flipRuns, lifeVars, reads>>

RefreshOff ==
  /\ At("refresh_off", IF args.mode = "no_attack_time" THEN "sleep" ELSE "hammer")
  /\ refresh' = (refresh /\ ~args.no_refresh)
  /\ UNCHANGED <<dmaVars, memVars, jobVars, logVars, lifeVars, reads>>

NoAttackSleep ==
  /\ At("sleep", "refresh_on")
  /\ UNCHANGED <<dmaVars, memVars, refresh, jobVars, logVars, lifeVars, reads>>

\* The next row tuple to attack. RowHammer.attack() needs two rows, both
\* attack() methods rows the converter accepts.
NextAttack ==
  /\ pc = "hammer" /\ todo # <<>>
  /\ IF args.payload
     THEN At("hammer", "payload") /\ UNCHANGED upset
     ELSE IF args.hw /\ \A i \in DOMAIN Head(todo) :
                           Encodable(args.bank, Head(todo)[i], args.column)
     THEN At("hammer", "bist") /\ UNCHANGED upset
     ELSE IF args.hw
     THEN Raise
     ELSE At("hammer", "reset") /\ UNCHANGED upset
  /\ UNCHANGED <<dmaVars, memVars, refresh, jobVars, logVars, scripts, kills, reads>>

\* HwRowHammer.attack() or payload_executor_attack() of the head of todo.
BoardAttack ==
  /\ pc \in {"bist", "payload"} /\ pc' = "hammer" /\ gap' = 0
  /\ todo' = Tail(todo)
  /\ UNCHANGED <<dmaVars, memVars, refresh, args, pairs, count, queue, current,
                 logVars, lifeVars, reads>>

\* RowHammer.attack(): rowhammer_enabled.write(0)
AttackReset ==
  /\ At("reset", "clear") /\ enabled' = FALSE
  /\ UNCHANGED <<addresses, counter, memVars, refresh, jobVars, logVars, lifeVars, reads>>

AttackClearSkipped ==
  /\ At("clear", "configure")
  /\ UNCHANGED <<dmaVars, memVars, refresh, jobVars, logVars, lifeVars, reads>>

\* rowhammer_count.read()
AttackClear ==
  /\ At("clear", "configure") /\ counter' = CounterAfterRead
  /\ UNCHANGED <<enabled, addresses, memVars, refresh, jobVars, logVars, lifeVars, reads>>

SwitchOnForgotten(rows) ==
  /\ addresses' = [i \in 1..2 |-> EncodeDma(args.bank, rows[i], args.column)]
  /\ reads' = [i \in 1..2 |-> 0]
  /\ UNCHANGED enabled

\* encode_dma(), both addresses and rowhammer_enabled.write(1)
SwitchOn(rows) ==
  /\ addresses' = [i \in 1..2 |-> EncodeDma(args.bank, rows[i], args.column)]
  /\ reads' = [i \in 1..2 |-> 0]
  /\ enabled' = TRUE

\* The assertion and the start of the attacker.
AttackStart ==
  /\ pc = "configure"
  /\ LET rows == Head(todo)
     IN IF Len(rows) # 2 \/ \E i \in DOMAIN rows : ~Encodable(args.bank, rows[i], args.column)
        THEN Raise /\ UNCHANGED <<enabled, addresses, reads>>
        ELSE At("configure", "poll") /\ SwitchOn(rows) /\ UNCHANGED upset
  /\ UNCHANGED <<counter, memVars, refresh, jobVars, logVars, scripts, kills>>

AttackPoll ==
  /\ At("poll", IF counter >= count THEN "stop" ELSE "poll")
  /\ counter' = CounterAfterRead
  /\ UNCHANGED <<enabled, addresses, memVars, refresh, jobVars, logVars, lifeVars, reads>>

AttackStop ==
  /\ At("stop", "final") /\ enabled' = FALSE
  /\ UNCHANGED <<addresses, counter, memVars, refresh, jobVars, logVars, lifeVars, reads>>

AttackFinalRead ==
  /\ At("final", "hammer") /\ counter' = CounterAfterRead
  /\ todo' = Tail(todo) /\ reads' = [i \in 1..2 |-> 0]
  /\ UNCHANGED <<enabled, addresses, memVars, refresh, args, pairs, count, queue,
                 current, logVars, lifeVars>>

\* After the last attack: --hammer-only is done with this count, run()
\* goes on to the check.
AttacksDone ==
  /\ todo = <<>>
  /\ At("hammer", IF args.mode = "hammer_only" THEN "runs" ELSE "refresh_on")
  /\ UNCHANGED <<dmaVars, memVars, refresh, jobVars, logVars, lifeVars, reads>>

RefreshOnForgotten ==
  /\ At("refresh_on", "check")
  /\ UNCHANGED <<dmaVars, memVars, refresh, jobVars, logVars, lifeVars, reads>>

RefreshOn ==
  /\ At("refresh_on", "check")
  /\ refresh' = (refresh \/ args.no_refresh)
  /\ UNCHANGED <<dmaVars, memVars, jobVars, logVars, lifeVars, reads>>

\* Whether display_errors() is asked for a dictionary.
InSummary == args.hw \/ args.log

\* Verification of the attacked memory, report and summary.
Check ==
  LET errors == CheckErrors
      clean == RowsWithErrors(errors) = {}
  IN /\ pc = "check" /\ ~CheckRefused
     /\ found' = ~clean
     /\ IF clean
        THEN At("check", "runs") /\ Record({{}}) /\ UNCHANGED <<csv, upset, flipRuns>>
        ELSE /\ flipRuns' = flipRuns + 1
             /\ IF InSummary /\ DisplayRaises(errors)
                THEN /\ Raise
                     /\ UNCHANGED <<csv, summary>>
                ELSE /\ At("check", "runs") /\ UNCHANGED upset
                     /\ DumpBitflips(errors)
                     /\ Record(IF InSummary THEN {ErrorDict(errors)} ELSE {})
     /\ UNCHANGED <<dmaVars, memVars, refresh, jobVars, scripts, kills, reads>>

\* An error that the converter does not place ends either verification.
CheckRaises ==
  /\ pc \in {"verify", "check"} /\ CheckRefused /\ Raise
  /\ UNCHANGED <<dmaVars, memVars, refresh, jobVars, logVars, scripts, kills, reads>>

\* The end of main(), which writes error_summary.json, or of an exception.
Exit ==
  /\ pc \in {"save", "exit"} /\ Gone
  /\ UNCHANGED <<dmaVars, memVars, refresh, lifeVars>>

Host ==
  \/ NextCount \/ NextRun \/ HwFill \/ RowFill \/ Verify \/ RefreshOff \/ NoAttackSleep
  \/ NextAttack \/ BoardAttack \/ AttackReset \/ AttackClear \/ AttackStart
  \/ AttackPoll \/ AttackStop \/ AttackFinalRead \/ AttacksDone \/ RefreshOn
  \/ Check \/ CheckRaises \/ Exit

\* The user stops the script between two accesses of the board.
Kill ==
  /\ pc # "off" /\ kills < MaxKills
  /\ Gone /\ upset' = "killed" /\ kills' = kills + 1
  /\ UNCHANGED <<dmaVars, memVars, refresh, scripts>>

\* The DMA reads on; a running script is never PollGap reads behind.
Hammer ==
  /\ DMARead
  /\ IF pc = "off"
     THEN UNCHANGED <<gap, reads>>
     ELSE /\ gap < PollGap /\ gap' = gap + 1
          /\ reads' = IF pc \in {"poll", "stop"}
                      THEN [reads EXCEPT ![Selected] = @ + 1] ELSE reads
  /\ UNCHANGED <<hostVars, memVars>>

\* A weak bit flips (external): rows are hammered or not refreshed.
Flip(x) ==
  /\ enabled \/ ~refresh \/ pc \in {"bist", "payload"}
  /\ flipped' = flipped \cup {x}
  /\ x \notin flipped
  /\ UNCHANGED <<dmaVars, hostVars, written, reads, gap>>

Next ==
  \/ \E a \in Invocations : Launch(a)
  \/ Host \/ Kill \/ Hammer
  \/ \E x \in Weak : Flip(x)

Spec == Init /\ [][Next]_vars

\* The script's loops run on, and an enabled DMA keeps reading.
FairSpec == Spec /\ WF_vars(Host) /\ WF_vars(Hammer)

-----------------------------------------------------------------------------
\* The attack of RowHammer.attack reads both rows in turn, the first row
\* first, at least read_count times in all, and the progress it prints is the
\* number of reads: the counter was cleared whatever an earlier script left.
\* The rows are those of the pair, in the bank the user gave, as the
\* controller understands the addresses that encode_dma computed.
HammeredAsAsked ==
  /\ pc \in {"poll", "stop", "final"} =>
       /\ counter = (reads[1] + reads[2]) % CountMod
       /\ reads[1] - reads[2] \in {0, 1}
  /\ pc = "final" => reads[1] + reads[2] >= count
  /\ pc \in {"poll", "stop"} =>
       /\ enabled
       /\ \A i \in 1..2 : /\ ControllerRow(addresses[i]) = Head(todo)[i]
                          /\ ControllerBank(addresses[i]) = args.bank

\* Unless a script was killed or ended with an exception, refresh is off only
\* between the fill and the check of a run with --no-refresh and the DMA
\* attacker is on only while attack() waits for it.
NothingLeftOn ==
  upset = "no" =>
    /\ ~refresh => args.no_refresh /\ pc \notin {"off", "fill", "verify", "check", "save"}
    /\ enabled => pc \in {"poll", "stop"}

\* --exit-on-bit-flip: when every count has one run, no memory is filled for
\* another test once a run has found flips.
ExitHonoured ==
  args.mode # "all_rows" /\ pc = "fill" /\ args.exit_on_bit_flip => flipRuns = 0

\* The bits of the DRAM row of a bus word; the last column of a row is left
\* out by row_access_iterator, the tail of the row from its first word on.
RowOf(address) == ControllerRow(PortWordAt(address))
BankOf(address) == ControllerBank(PortWordAt(address))
InTail(address) ==
  (address - base) % RowBytes >= RowBytes - Max({4, RowBytes \div 2^colbits})

Checked(address) ==
  args.hw \/ /\ RowOf(address) \in Rows(args) /\ BankOf(address) = args.bank
             /\ ~InTail(address)

\* Row c of the bit-flip log is about flipped bit x.
About(c, x) ==
  /\ c.row = RowOf(x[1]) /\ c.bank = BankOf(x[1]) /\ c.count = ReadCount
  /\ c.addr = x[1] + (x[2] \div 8) /\ c.bit = x[2] % 8

\* dump_bitflips has put every flipped bit of the checked memory in the log,
\* with the coordinates it has in the DRAM, and added nothing else.
LogExact ==
  /\ \A x \in flipped : Checked(x[1]) => \E c \in csv' : About(c, x)
  /\ \A c \in csv' : \E x \in flipped : Checked(x[1]) /\ About(c, x)

\* err_summary counts the flipped bits of every row that has some, and run()
\* has said OK only if the checked memory has none.
SummaryExact ==
  LET flips(row) == {x \in flipped : Checked(x[1]) /\ RowOf(x[1]) = row}
  IN  /\ found' <=> \E x \in flipped : Checked(x[1])
      /\ \E e \in summary' :
           /\ e.count = ReadCount /\ e.rows = current
           /\ found' /\ e.errors # {} =>
                \A row \in {RowOf(x[1]) : x \in {y \in flipped : Checked(y[1])}} :
                  \E d \in UNION e.errors : d.key = row /\ d.flips = Cardinality(flips(row))

\* When the check of a run returns, its reports are those of the flips there
\* are in the memory, in the bit-flip log (--log-dir) and in the summary.
FlipsReported ==
  [][pc = "check" /\ pc' = "runs" => (args.log => LogExact) /\ SummaryExact]_vars

\* Every script ends, whatever it finds and however it polls.
ScriptEnds == (pc # "off") ~> (pc = "off")

=============================================================================
