------------------------------ MODULE Leveling ------------------------------
(***************************************************************************)
(* The leveling tools (scripts/read_level.py) and sdram_init: loops of     *)
(* register writes that move delays and bit slips of the PHY step by step  *)
(* for the modules selected, with a test of the memory between them, and   *)
(* the choice of the best setting.  A tool may be killed between any two   *)
(* accesses; the PHY keeps what has been written.                          *)
(* A module of the memory answers a test without errors for the settings   *)
(* of its eye, which nobody knows beforehand.                              *)
(***************************************************************************)
EXTENDS Integers

CONSTANTS
  nmodules, bitslips, delays,    \* as in Settings
  half_sys8x_taps,               \* what the PHY says of its strobe
  ReadConfig, WriteConfig,       \* hardcoded settings, for every module
  Cdly,                          \* hardcoded delay of commands and clock
  Eyes,                          \* the eyes of the modules to choose from
  MaxTools                       \* bound: tools that are started

Modules == 0 .. nmodules - 1

ASSUME LevelingAssumption ==
  /\ {nmodules, bitslips, delays} \subseteq Nat \ {0}
  /\ {half_sys8x_taps, Cdly} \subseteq 0 .. delays - 1
  /\ \A m \in Modules : /\ ReadConfig[m].bitslip \in 0 .. bitslips - 1
                        /\ ReadConfig[m].delay \in 0 .. delays - 1
                        /\ WriteConfig[m] \in 0 .. delays - 1
  /\ \A e \in Eyes : \A m \in Modules :
       e[m] \subseteq (0 .. bitslips - 1) \X (0 .. delays - 1)

VARIABLES
  tool, tools,    \* the tool that runs, and how many have been started
  finished,       \* the tool that has ended last, "" if it was killed (history)
  pc,             \* its next access
  module, bs, dly, left,    \* of its loops
  setting,        \* bit slip and delay to be set
  scores,         \* {bitslip: {delay: errors}} of a module
  control,        \* who drives the memory
  wlevel_en,
  sel,            \* modules selected
  bitslip, delay, dq, dqs,  \* of each module, in the PHY
  cdly,           \* of the commands and the clock
  eye             \* the memory

scriptVars == <<tool, tools, finished>>
readVars == <<bitslip, delay>>
writeVars == <<dq, dqs, cdly, wlevel_en>>
vars == <<scriptVars, pc, module, bs, dly, left, setting, scores, control, sel, readVars,
          writeVars, eye>>

-----------------------------------------------------------------------------
\* read_level_find_best

\* A window of delays without errors, with the delay behind it; a window that
\* is open at the end has the last delay for it.
IsWindow(errors, first, end) ==
  /\ errors[first] = 0 /\ (first > 0 => errors[first - 1] # 0)
  /\ \A d \in first .. end - 1 : errors[d] = 0
  /\ first <= end /\ (first = end => end = delays - 1)
  /\ errors[end] # 0 \/ end = delays - 1

Windows(errors) ==
  {w \in (0 .. delays - 1) \X (0 .. delays - 1) : IsWindow(errors, w[1], w[2])}

Length(window) == window[2] - window[1]

\* The first of the longest windows
BestWindow(windows) ==
  CHOOSE w \in windows :
    \A v \in windows : Length(v) < Length(w) \/ (Length(v) = Length(w) /\ w[1] <= v[1])

\* mutant: the delay at the end of the window
Middle_End(window) == window[2]

Middle(window) == (window[1] + window[2]) \div 2

WithWindow(s) == {b \in DOMAIN s : Windows(s[b]) # {}}
WindowOf(s, b) == BestWindow(Windows(s[b]))

\* The first of the bit slips with the longest window
BestBitslip(s) ==
  CHOOSE b \in WithWindow(s) : \A c \in WithWindow(s) :
    \/ Length(WindowOf(s, c)) < Length(WindowOf(s, b))
    \/ Length(WindowOf(s, c)) = Length(WindowOf(s, b)) /\ b <= c

read_level_find_best(s) ==
  [bitslip |-> BestBitslip(s), delay |-> Middle(WindowOf(s, BestBitslip(s)))]

-----------------------------------------------------------------------------
\* Tools

Tools == {"sdram_init", "read_level", "read_level_hardcoded", "write_level_hardcoded",
          "write_leveling_on"}

\* A delay register of the modules selected is written (external).
Reset(position) == [m \in Modules |-> IF m \in sel THEN 0 ELSE position[m]]
Increment(position, positions) ==
  [m \in Modules |-> IF m \in sel THEN (position[m] + 1) % positions ELSE position[m]]

Init ==
  /\ tool = "" /\ tools = 0 /\ finished = "" /\ pc = "end"
  /\ module = 0 /\ bs = 0 /\ dly = 0 /\ left = 0
  /\ setting = [bitslip |-> 0, delay |-> 0] /\ scores = << >>
  /\ control \in {"software", "hardware"}
  /\ wlevel_en = FALSE
  /\ sel = {}
  /\ bitslip = [m \in Modules |-> 0] /\ delay = [m \in Modules |-> 0]
  /\ dq = [m \in Modules |-> 0] /\ dqs = [m \in Modules |-> 0]
  /\ cdly = 0
  /\ eye \in Eyes

Start(t) ==
  /\ tool = "" /\ tools < MaxTools
  /\ tool' = t /\ tools' = tools + 1
  /\ module' = 0
  /\ pc' = CASE t = "read_level_hardcoded" -> "select"
             [] t = "write_leveling_on"    -> "mode_register"
             [] OTHER                      -> "software"
  /\ UNCHANGED <<finished, bs, dly, left, setting, scores, control, sel, readVars,
                 writeVars, eye>>

\* A tool has done its last access.
Finish ==
  /\ tool # "" /\ pc = "end"
  /\ tool' = "" /\ finished' = tool
  /\ UNCHANGED <<tools, pc, module, bs, dly, left, setting, scores, control, sel, readVars,
                 writeVars, eye>>

Kill ==
  /\ tool # "" /\ pc # "end" /\ tools < MaxTools
  /\ tool' = "" /\ finished' = "" /\ pc' = "end" /\ scores' = << >>
  /\ UNCHANGED <<tools, module, bs, dly, left, setting, control, sel, readVars, writeVars, eye>>

sdram_software_control ==
  /\ pc = "software" /\ control' = "software"
  /\ pc' = CASE tool = "sdram_init"            -> "init"
             [] tool = "read_level"            -> "select"
             [] tool = "write_level_hardcoded" -> "cdly_rst"
  /\ UNCHANGED <<scriptVars, module, bs, dly, left, setting, scores, sel, readVars, writeVars,
                 eye>>

\* The commands of the initialisation, and the way back
sdram_init ==
  /\ \/ pc = "init" /\ pc' = "hardware" /\ control' = control
     \/ pc = "hardware" /\ pc' = "end" /\ control' = "hardware"
  /\ UNCHANGED <<scriptVars, module, bs, dly, left, setting, scores, sel, readVars, writeVars,
                 eye>>

\* The loop over modules of all three leveling tools
delay_select_modules ==
  /\ pc = "select" /\ sel' = {module}
  /\ pc' = CASE tool = "read_level"            -> "level"
             [] tool = "read_level_hardcoded"  -> "set_bitslip"
             [] tool = "write_level_hardcoded" -> "dq_rst"
  /\ setting' = IF tool = "read_level_hardcoded" THEN ReadConfig[module] ELSE setting
  /\ UNCHANGED <<scriptVars, module, bs, dly, left, scores, control, readVars, writeVars, eye>>

NextModule ==
  /\ module' = module + 1
  /\ pc' = IF module + 1 < nmodules THEN "select"
           ELSE IF tool = "write_level_hardcoded" THEN "mode_register" ELSE "end"

-----------------------------------------------------------------------------
\* Read leveling

\* The scan of a module begins.
read_level_module ==
  /\ pc = "level" /\ pc' = "scan"
  /\ bitslip' = Reset(bitslip)
  /\ bs' = 0 /\ scores' = << >>
  /\ UNCHANGED <<scriptVars, module, dly, left, setting, control, sel, delay, writeVars, eye>>

\* mutant: delays are expected to have wrapped around to 0
ScanBitslip_NoReset ==
  /\ pc = "scan" /\ pc' = "test"
  /\ dly' = 0
  /\ UNCHANGED <<scriptVars, module, bs, left, setting, scores, control, sel, readVars,
                 writeVars, eye>>

ScanBitslip ==
  /\ pc = "scan" /\ pc' = "test"
  /\ delay' = Reset(delay)
  /\ dly' = 0
  /\ UNCHANGED <<scriptVars, module, bs, left, setting, scores, control, sel, bitslip,
                 writeVars, eye>>

\* Activate, write, read, compare, precharge: the commands reach the memory
\* under software control only.
read_level_test ==
  IF control = "software" /\ <<bitslip[module], delay[module]>> \in eye[module] THEN 0 ELSE 1

\* A dictionary with a new item
SetItem(dict, key, value) ==
  [k \in DOMAIN dict \cup {key} |-> IF k = key THEN value ELSE dict[k]]

Row == IF bs \in DOMAIN scores THEN scores[bs] ELSE << >>

TestDelay ==
  /\ pc = "test" /\ pc' = "next_delay"
  /\ scores' = SetItem(scores, bs, SetItem(Row, dly, read_level_test))
  /\ UNCHANGED <<scriptVars, module, bs, dly, left, setting, control, sel, readVars,
                 writeVars, eye>>

NextDelay ==
  /\ pc = "next_delay"
  /\ delay' = Increment(delay, delays)
  /\ dly' = dly + 1
  /\ pc' = IF dly + 1 < delays THEN "test" ELSE "next_bitslip"
  /\ UNCHANGED <<scriptVars, module, bs, left, setting, scores, control, sel, bitslip,
                 writeVars, eye>>

NextBitslip ==
  /\ pc = "next_bitslip"
  /\ bitslip' = Increment(bitslip, bitslips)
  /\ bs' = bs + 1
  /\ pc' = IF bs + 1 < bitslips THEN "scan" ELSE "best"
  /\ UNCHANGED <<scriptVars, module, dly, left, setting, scores, control, sel, delay,
                 writeVars, eye>>

\* Nothing is set for a module without a window.
Best ==
  /\ pc = "best"
  /\ \/ WithWindow(scores) = {} /\ NextModule /\ setting' = setting
     \/ /\ WithWindow(scores) # {} /\ pc' = "set_bitslip"
        /\ setting' = read_level_find_best(scores) /\ module' = module
  /\ scores' = << >>
  /\ UNCHANGED <<scriptVars, bs, dly, left, control, sel, readVars, writeVars, eye>>

\* A reset, and as many increments as there are left
read_bitslip_set ==
  /\ \/ pc = "set_bitslip" /\ bitslip' = Reset(bitslip) /\ left' = setting.bitslip
     \/ pc = "inc_bitslip" /\ bitslip' = Increment(bitslip, bitslips) /\ left' = left - 1
  /\ pc' = IF left' > 0 THEN "inc_bitslip" ELSE "set_delay"
  /\ UNCHANGED <<scriptVars, module, bs, dly, setting, scores, control, sel, delay, writeVars,
                 eye>>

read_delay_set ==
  /\ \/ pc = "set_delay" /\ delay' = Reset(delay) /\ left' = setting.delay
     \/ pc = "inc_delay" /\ delay' = Increment(delay, delays) /\ left' = left - 1
  /\ \/ left' > 0 /\ pc' = "inc_delay" /\ module' = module
     \/ left' = 0 /\ NextModule
  /\ UNCHANGED <<scriptVars, bs, dly, setting, scores, control, sel, bitslip, writeVars, eye>>

-----------------------------------------------------------------------------
\* Write leveling

cdly_set ==
  /\ \/ pc = "cdly_rst" /\ cdly' = 0 /\ left' = Cdly
     \/ pc = "cdly_inc" /\ cdly' = (cdly + 1) % delays /\ left' = left - 1
  /\ pc' = IF left' > 0 THEN "cdly_inc" ELSE "select"
  /\ UNCHANGED <<scriptVars, module, bs, dly, setting, scores, control, sel, readVars,
                 dq, dqs, wlevel_en, eye>>

\* mutant: the offset of the strobe is forgotten
Offset_None == 0

Offset == half_sys8x_taps

\* Data and strobe go to 0, the strobe on to its offset.
write_delay_rst ==
  /\ \/ pc = "dq_rst" /\ dq' = Reset(dq) /\ UNCHANGED <<dqs, left>> /\ pc' = "dqs_rst"
     \/ /\ \/ pc = "dqs_rst" /\ dqs' = Reset(dqs) /\ left' = Offset
           \/ pc = "dqs_offset" /\ dqs' = Increment(dqs, delays) /\ left' = left - 1
        /\ dq' = dq
        /\ pc' = IF left' > 0 THEN "dqs_offset" ELSE "write_delay"
  /\ UNCHANGED <<scriptVars, module, bs, dly, setting, scores, control, sel, readVars,
                 cdly, wlevel_en, eye>>

\* The loop of write_delay_set; both are moved together.
write_delay_set ==
  /\ pc = "write_delay"
  /\ \/ WriteConfig[module] > 0 /\ pc' = "dq_inc" /\ left' = WriteConfig[module] /\ module' = module
     \/ WriteConfig[module] = 0 /\ NextModule /\ left' = left
  /\ UNCHANGED <<scriptVars, bs, dly, setting, scores, control, sel, readVars, writeVars, eye>>

write_delay_inc ==
  /\ \/ /\ pc = "dq_inc" /\ pc' = "dqs_inc" /\ dq' = Increment(dq, delays)
        /\ UNCHANGED <<dqs, left, module>>
     \/ /\ pc = "dqs_inc" /\ dqs' = Increment(dqs, delays) /\ dq' = dq
        /\ left' = left - 1
        /\ \/ left' > 0 /\ pc' = "dq_inc" /\ module' = module
           \/ left' = 0 /\ NextModule
  /\ UNCHANGED <<scriptVars, bs, dly, setting, scores, control, sel, readVars,
                 cdly, wlevel_en, eye>>

\* write_leveling_on, and write_leveling_off at the end of write leveling: a
\* mode register of the memory and the PHY, the former under software control
write_leveling ==
  /\ \/ pc = "mode_register" /\ pc' = "wlevel_en" /\ control' = "software" /\ wlevel_en' = wlevel_en
     \/ /\ pc = "wlevel_en" /\ pc' = "end" /\ control' = control
        /\ wlevel_en' = (tool = "write_leveling_on")
  /\ UNCHANGED <<scriptVars, module, bs, dly, left, setting, scores, sel, readVars,
                 dq, dqs, cdly, eye>>

-----------------------------------------------------------------------------

ReadLevel ==
  \/ read_level_module \/ ScanBitslip \/ TestDelay \/ NextDelay \/ NextBitslip \/ Best
  \/ read_bitslip_set \/ read_delay_set

WriteLevel == cdly_set \/ write_delay_rst \/ write_delay_set \/ write_delay_inc \/ write_leveling

Next ==
  \/ \E t \in Tools : Start(t)
  \/ Finish \/ Kill
  \/ sdram_software_control \/ sdram_init \/ delay_select_modules
  \/ ReadLevel \/ WriteLevel

Spec == Init /\ [][Next]_vars

-----------------------------------------------------------------------------
\* Properties

\* The script counts increments where the PHY has positions: wherever an
\* earlier tool has left it, every score is that of the setting it is filed
\* under and of the module it is taken for.
ScoresTrue ==
  \A b \in DOMAIN scores : \A d \in DOMAIN scores[b] :
    (scores[b][d] = 0) = (<<b, d>> \in eye[module])

\* Delays of an eye without a gap
Run(e, b, first, last) == \A d \in first .. last : <<b, d>> \in e

\* Half of the delays of a run, without its ends
Margin(first, last) == IF last > first THEN (last - first - 1) \div 2 ELSE 0

\* Whatever run of delays the eye of a module has, at any bit slip, the setting
\* b, d is inside the eye and as far from its ends as the middle of a run that
\* is one delay shorter.
InTheMiddle(m, b, d) ==
  \A c \in 0 .. bitslips - 1, first, last \in 0 .. delays - 1 :
    first <= last /\ Run(eye[m], c, first, last) =>
      LET margin == Margin(first, last)
      IN  /\ d - margin >= 0 /\ d + margin < delays
          /\ Run(eye[m], b, d - margin, d + margin)

\* After leveling every module that can be read at all is set inside its eye,
\* in the middle of a window that is at most one delay shorter than the
\* longest.
EyeMargin ==
  finished = "read_level" /\ tool = "" =>
    \A m \in Modules : InTheMiddle(m, bitslip[m], delay[m])

\* After write leveling the strobe of every module is half a clock behind its
\* data, and write leveling is off, whatever tool was killed before.
StrobeOffset ==
  finished = "write_level_hardcoded" /\ tool = "" =>
    /\ ~wlevel_en
    /\ cdly = Cdly
    /\ \A m \in Modules : /\ dq[m] = WriteConfig[m]
                          /\ dqs[m] = (dq[m] + half_sys8x_taps) % delays

=============================================================================
