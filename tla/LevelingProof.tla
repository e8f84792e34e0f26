---------------------------- MODULE LevelingProof ----------------------------
(***************************************************************************)
(* Read leveling ends in the middle of every eye and write leveling with   *)
(* every strobe behind its data, for any number of modules, bit slips and  *)
(* delays and whatever tools were killed before.                           *)
(***************************************************************************)
EXTENDS Leveling, WellFoundedInduction, TLAPS

-----------------------------------------------------------------------------
\* The inductive invariant

ReadLevelLabels == {"level", "scan", "test", "next_delay", "next_bitslip", "best"}
SetLabels == {"set_bitslip", "inc_bitslip", "set_delay", "inc_delay"}
WriteLabels == {"dq_rst", "dqs_rst", "dqs_offset", "write_delay", "dq_inc", "dqs_inc"}
EndLabels == {"mode_register", "wlevel_en"}

TypeOK ==
  /\ tool \in Tools \cup {""}
  /\ module \in Nat /\ bs \in Nat /\ dly \in Nat /\ left \in Nat
  /\ setting.bitslip \in 0 .. bitslips - 1 /\ setting.delay \in 0 .. delays - 1
  /\ sel \subseteq Modules
  /\ bitslip \in [Modules -> 0 .. bitslips - 1] /\ delay \in [Modules -> 0 .. delays - 1]
  /\ dq \in [Modules -> 0 .. delays - 1] /\ dqs \in [Modules -> 0 .. delays - 1]
  /\ cdly \in 0 .. delays - 1
  /\ wlevel_en \in BOOLEAN
  /\ eye \in Eyes

\* Where a tool may be, and what its loops over modules have come to
Flow ==
  /\ pc = "software" => tool \in {"sdram_init", "read_level", "write_level_hardcoded"}
  /\ pc \in {"init", "hardware"} => tool = "sdram_init"
  /\ pc = "select" => tool \in {"read_level", "read_level_hardcoded", "write_level_hardcoded"}
  /\ pc \in ReadLevelLabels => tool = "read_level"
  /\ pc \in SetLabels => tool \in {"read_level", "read_level_hardcoded"}
  /\ pc \in {"cdly_rst", "cdly_inc"} \cup WriteLabels => tool = "write_level_hardcoded"
  /\ pc \in EndLabels => tool \in {"write_level_hardcoded", "write_leveling_on"}
  /\ tool = "" => pc = "end"
  /\ pc \in {"software", "cdly_rst", "cdly_inc"} => module = 0
  /\ pc = "select" => module \in Modules
  /\ pc \in ReadLevelLabels \cup SetLabels \cup WriteLabels => module \in Modules /\ sel = {module}
  /\ tool = "read_level" /\ pc = "end" => module = nmodules
  /\ tool = "write_level_hardcoded" /\ pc \in EndLabels \cup {"end"} => module = nmodules
  /\ tool = "read_level" /\ pc # "software" => control = "software"

\* Bit slips with scores, and the delays of a bit slip with a score
Scored ==
  CASE pc \in {"next_delay", "next_bitslip"} -> 0 .. bs
    [] pc = "test"                           -> IF dly > 0 THEN 0 .. bs ELSE 0 .. bs - 1
    [] pc \in {"scan", "best"}               -> 0 .. bs - 1
    [] OTHER                                 -> {}
ScoredDelays(b) ==
  CASE pc = "test" /\ b = bs       -> 0 .. dly - 1
    [] pc = "next_delay" /\ b = bs -> 0 .. dly
    [] OTHER                       -> 0 .. delays - 1

\* The counts of the script are the positions of the PHY.
ScanInv ==
  /\ pc \in {"scan", "test", "next_delay", "next_bitslip"} =>
       bs \in 0 .. bitslips - 1 /\ bitslip[module] = bs
  /\ pc \in {"test", "next_delay"} => dly \in 0 .. delays - 1 /\ delay[module] = dly
  /\ pc = "best" => bs = bitslips
  /\ DOMAIN scores = Scored
  /\ \A b \in DOMAIN scores : DOMAIN scores[b] = ScoredDelays(b)
  /\ ScoresTrue

\* A setting of read leveling is a good one, and what is left of its loops
SetInv ==
  /\ pc \in SetLabels /\ tool = "read_level" => InTheMiddle(module, setting.bitslip, setting.delay)
  /\ pc = "inc_bitslip" =>
       left \in 1 .. setting.bitslip /\ bitslip[module] = setting.bitslip - left
  /\ pc \in {"set_delay", "inc_delay"} => bitslip[module] = setting.bitslip
  /\ pc = "inc_delay" => left \in 1 .. setting.delay /\ delay[module] = setting.delay - left

\* The modules before the current one are leveled.
Leveled(m) == InTheMiddle(m, bitslip[m], delay[m])
ReadInv ==
  /\ tool = "read_level" => \A m \in Modules : m < module => Leveled(m)
  /\ EyeMargin

Strobed(m) == dq[m] = WriteConfig[m] /\ dqs[m] = (dq[m] + half_sys8x_taps) % delays
WriteInv ==
  /\ pc = "cdly_inc" => left \in 1 .. Cdly /\ cdly = Cdly - left
  /\ tool = "write_level_hardcoded" /\ pc \notin {"software", "cdly_rst", "cdly_inc"} =>
       cdly = Cdly
  /\ tool = "write_level_hardcoded" => \A m \in Modules : m < module => Strobed(m)
  /\ pc \in {"dqs_rst", "dqs_offset", "write_delay"} => dq[module] = 0
  /\ pc = "dqs_offset" => left \in 1 .. half_sys8x_taps /\ dqs[module] = half_sys8x_taps - left
  /\ pc = "write_delay" => dqs[module] = half_sys8x_taps
  /\ pc = "dq_inc" =>
       /\ left \in 1 .. WriteConfig[module] /\ dq[module] = WriteConfig[module] - left
       /\ dqs[module] = (dq[module] + half_sys8x_taps) % delays
  /\ pc = "dqs_inc" =>
       /\ left \in 1 .. WriteConfig[module] /\ dq[module] = WriteConfig[module] - left + 1
       /\ dqs[module] = (dq[module] - 1 + half_sys8x_taps) % delays
  /\ tool = "write_level_hardcoded" /\ pc = "end" => ~wlevel_en
  /\ StrobeOffset

IndInv == TypeOK /\ Flow /\ ScanInv /\ SetInv /\ ReadInv /\ WriteInv

-----------------------------------------------------------------------------
\* The choice of a window

\* Sets of numbers have a least element, bounded ones a greatest.
LEMMA Least ==
  ASSUME NEW T \in SUBSET Nat, T # {}
  PROVE  \E x \in T : \A y \in T : x <= y
<1> DEFINE R == OpToRel(<, Nat)
<1>1. IsWellFoundedOn(R, Nat)
  BY NatLessThanWellFounded
<1>2. \A x, y \in Nat : x < y => <<x, y>> \in R
  BY DEF OpToRel
<1> HIDE DEF R
<1>3. PICK x \in T : \A y \in T : ~(<<y, x>> \in R)
  BY <1>1, WFMin
<1>4. ASSUME NEW y \in T PROVE x <= y
  <2>1. x \in Nat /\ y \in Nat
    OBVIOUS
  <2>2. ~(y < x)
    BY <1>2, <1>3, <2>1
  <2> QED
    BY <2>1, <2>2
<1> QED
  BY <1>4

LEMMA Greatest ==
  ASSUME NEW n \in Nat, NEW S \in SUBSET (0 .. n), S # {}
  PROVE  \E x \in S : \A y \in S : y <= x
<1> DEFINE T == {n - x : x \in S}
<1>1. T \in SUBSET Nat /\ T # {}
  <2>1. \A x \in S : x \in 0 .. n /\ n - x \in Nat
    OBVIOUS
  <2> QED
    BY <2>1
<1>2. PICK t \in T : \A y \in T : t <= y
  <2> HIDE DEF T
  <2> QED
    BY <1>1, Least
<1>3. PICK x \in S : t = n - x
  OBVIOUS
<1>4. \A y \in S : y <= x
  BY <1>2, <1>3
<1> QED
  BY <1>4

\* What is known of the sizes
LEMMA Sizes ==
  /\ nmodules \in Nat \ {0} /\ bitslips \in Nat \ {0} /\ delays \in Nat \ {0}
  /\ half_sys8x_taps \in 0 .. delays - 1 /\ Cdly \in 0 .. delays - 1
BY LevelingAssumption

\* A window is inside the scan.
LEMMA WindowFacts ==
  ASSUME NEW errors, NEW w \in Windows(errors)
  PROVE  /\ w[1] \in 0 .. delays - 1 /\ w[2] \in 0 .. delays - 1 /\ w[1] <= w[2]
         /\ w = <<w[1], w[2]>>
         /\ Length(w) \in 0 .. delays - 1 /\ Length(w) = w[2] - w[1]
         /\ errors[w[1]] = 0 /\ \A d \in w[1] .. w[2] - 1 : errors[d] = 0
<1>1. /\ w \in (0 .. delays - 1) \X (0 .. delays - 1)
      /\ IsWindow(errors, w[1], w[2])
  BY DEF Windows
<1>2. w[1] \in 0 .. delays - 1 /\ w[2] \in 0 .. delays - 1 /\ w = <<w[1], w[2]>>
  BY <1>1
<1>3. /\ errors[w[1]] = 0 /\ w[1] <= w[2] /\ \A d \in w[1] .. w[2] - 1 : errors[d] = 0
  BY <1>1 DEF IsWindow
<1>4. Length(w) = w[2] - w[1]
  BY DEF Length
<1>5. Length(w) \in 0 .. delays - 1
  BY <1>2, <1>3, <1>4, Sizes
<1> QED
  BY <1>2, <1>3, <1>4, <1>5

\* The window that is chosen is a longest one.
LEMMA BestWindowFacts ==
  ASSUME NEW errors, Windows(errors) # {}
  PROVE  /\ BestWindow(Windows(errors)) \in Windows(errors)
         /\ \A v \in Windows(errors) : Length(v) <= Length(BestWindow(Windows(errors)))
<1> DEFINE W == Windows(errors)
<1>0. \A w \in W : /\ w[1] \in 0 .. delays - 1 /\ Length(w) \in 0 .. delays - 1
  BY WindowFacts
<1>n. delays - 1 \in Nat
  BY Sizes
<1>w. W # {}
  OBVIOUS
<1> HIDE DEF W
<1>1. PICK w0 \in W : \A v \in W : Length(v) <= Length(w0)
  <2> DEFINE S == {Length(w) : w \in W}
  <2>1. S \in SUBSET (0 .. delays - 1) /\ S # {}
    BY <1>0, <1>w
  <2>2. PICK x \in S : \A y \in S : y <= x
    <3> HIDE DEF S
    <3> QED
      BY <1>n, <2>1, Greatest
  <2> QED
    BY <2>2
<1>2. PICK w1 \in W : Length(w1) = Length(w0) /\ \A v \in W : Length(v) = Length(w0) => w1[1] <= v[1]
  <2> DEFINE S == {w[1] : w \in {u \in W : Length(u) = Length(w0)}}
  <2>1. S \in SUBSET Nat /\ S # {}
    BY <1>0
  <2>2. PICK x \in S : \A y \in S : x <= y
    <3> HIDE DEF S
    <3> QED
      BY <2>1, Least
  <2> QED
    BY <2>2
<1>3. \A v \in W : Length(v) < Length(w1) \/ (Length(v) = Length(w1) /\ w1[1] <= v[1])
  BY <1>0, <1>1, <1>2
<1>4. /\ BestWindow(W) \in W
      /\ \A v \in W : \/ Length(v) < Length(BestWindow(W))
                      \/ Length(v) = Length(BestWindow(W)) /\ BestWindow(W)[1] <= v[1]
  BY <1>3 DEF BestWindow
<1>5. \A v \in W : Length(v) <= Length(BestWindow(W))
  BY <1>0, <1>4
<1> QED
  BY <1>4, <1>5 DEF W

\* The bit slip that is chosen has a longest window of all bit slips.
LEMMA BestBitslipFacts ==
  ASSUME NEW s, DOMAIN s \subseteq Nat, WithWindow(s) # {}
  PROVE  /\ BestBitslip(s) \in WithWindow(s)
         /\ \A c \in WithWindow(s) :
              Length(WindowOf(s, c)) <= Length(WindowOf(s, BestBitslip(s)))
<1> DEFINE W == WithWindow(s)
           len(b) == Length(WindowOf(s, b))
<1>0. \A b \in W : b \in Nat /\ len(b) \in 0 .. delays - 1
  <2> SUFFICES ASSUME NEW b \in W PROVE b \in Nat /\ len(b) \in 0 .. delays - 1
    OBVIOUS
  <2>1. Windows(s[b]) # {} /\ b \in Nat
    BY DEF WithWindow
  <2>2. BestWindow(Windows(s[b])) \in Windows(s[b])
    BY <2>1, BestWindowFacts
  <2> QED
    BY <2>1, <2>2, WindowFacts DEF WindowOf
<1>n. delays - 1 \in Nat
  BY Sizes
<1>w. W # {}
  OBVIOUS
<1>b. BestBitslip(s) = CHOOSE b \in W : \A c \in W : len(c) < len(b) \/ (len(c) = len(b) /\ b <= c)
  BY DEF BestBitslip
<1> HIDE DEF W, len
<1>1. PICK b0 \in W : \A c \in W : len(c) <= len(b0)
  <2> DEFINE S == {len(b) : b \in W}
  <2>1. S \in SUBSET (0 .. delays - 1) /\ S # {}
    BY <1>0, <1>w
  <2>2. PICK x \in S : \A y \in S : y <= x
    <3> HIDE DEF S
    <3> QED
      BY <1>n, <2>1, Greatest
  <2> QED
    BY <2>2
<1>2. PICK b1 \in W : len(b1) = len(b0) /\ \A c \in W : len(c) = len(b0) => b1 <= c
  <2> DEFINE S == {b \in W : len(b) = len(b0)}
  <2>1. S \in SUBSET Nat /\ S # {}
    BY <1>0
  <2>2. PICK x \in S : \A y \in S : x <= y
    <3> HIDE DEF S
    <3> QED
      BY <2>1, Least
  <2> QED
    BY <2>2
<1>3. \A c \in W : len(c) < len(b1) \/ (len(c) = len(b1) /\ b1 <= c)
  BY <1>0, <1>1, <1>2
<1>4. /\ BestBitslip(s) \in W
      /\ \A c \in W : \/ len(c) < len(BestBitslip(s))
                      \/ len(c) = len(BestBitslip(s)) /\ BestBitslip(s) <= c
  BY <1>b, <1>3
<1>5. \A c \in W : len(c) <= len(BestBitslip(s))
  BY <1>0, <1>4
<1> QED
  BY <1>4, <1>5 DEF W, len

\* A run of delays without errors is part of a window, which extends it to
\* both sides.
LEMMA RunInWindow ==
  ASSUME NEW errors, NEW first \in 0 .. delays - 1, NEW last \in 0 .. delays - 1,
         first <= last, \A d \in first .. last : errors[d] = 0
  PROVE  \E w \in Windows(errors) : Length(w) >= last - first
<1>0. delays \in Nat \ {0}
  BY Sizes
<1> DEFINE A == {x \in 0 .. first : \A d \in x .. first : errors[d] = 0}
           T == {x \in 0 .. delays - 1 : x > last /\ errors[x] # 0}
<1>1. first \in A /\ A \in SUBSET Nat
  <2>1. \A d \in first .. first : d = first /\ d \in first .. last
    OBVIOUS
  <2> QED
    BY <2>1
<1>2. PICK a \in A : \A x \in A : a <= x
  <2> HIDE DEF A
  <2> QED
    BY <1>1, Least
<1>3. a \in 0 .. first /\ \A d \in a .. first : errors[d] = 0
  BY <1>2
<1>4. a > 0 => errors[a - 1] # 0
  <2> SUFFICES ASSUME a > 0, errors[a - 1] = 0 PROVE FALSE
    OBVIOUS
  <2>1. a - 1 \in 0 .. first /\ ~(a <= a - 1)
    BY <1>0, <1>3
  <2>2. \A d \in a - 1 .. first : d = a - 1 \/ d \in a .. first
    BY <1>0, <1>3
  <2>3. a - 1 \in A
    BY <1>3, <2>1, <2>2
  <2> QED
    BY <1>2, <2>1, <2>3
<1>5. PICK end \in 0 .. delays - 1 :
        /\ last <= end
        /\ \A d \in 0 .. delays - 1 : d > last /\ d < end => errors[d] = 0
        /\ errors[end] # 0 \/ end = delays - 1
        /\ last = end => end = delays - 1
  <2>1. CASE T = {}
    <3>1. delays - 1 \in 0 .. delays - 1 /\ last <= delays - 1
      BY <1>0
    <3>2. \A d \in 0 .. delays - 1 : d > last => errors[d] = 0
      BY <2>1
    <3> QED
      BY <3>1, <3>2
  <2>2. CASE T # {}
    <3>1. PICK t \in T : \A x \in T : t <= x
      <4>1. T \in SUBSET Nat
        OBVIOUS
      <4> HIDE DEF T
      <4> QED
        BY <2>2, <4>1, Least
    <3>2. t \in 0 .. delays - 1 /\ t > last /\ errors[t] # 0
      BY <3>1
    <3>3. \A d \in 0 .. delays - 1 : d > last /\ d < t => errors[d] = 0
      <4> SUFFICES ASSUME NEW d \in 0 .. delays - 1, d > last, d < t, errors[d] # 0 PROVE FALSE
        OBVIOUS
      <4>1. d \in T
        OBVIOUS
      <4> QED
        BY <3>1, <3>2, <4>1
    <3> QED
      BY <3>2, <3>3
  <2> QED
    BY <2>1, <2>2
<1> HIDE DEF A, T
<1>6. \A d \in a .. end - 1 : errors[d] = 0
  <2> SUFFICES ASSUME NEW d \in a .. end - 1 PROVE errors[d] = 0
    OBVIOUS
  <2>1. d \in a .. first \/ d \in first .. last \/ (d \in 0 .. delays - 1 /\ d > last /\ d < end)
    BY <1>0, <1>3, <1>5
  <2> QED
    BY <1>3, <1>5, <2>1
<1>7. errors[a] = 0 /\ a \in 0 .. delays - 1 /\ a <= end
  <2>1. a \in a .. first /\ a \in 0 .. delays - 1 /\ a <= end
    BY <1>0, <1>3, <1>5
  <2> QED
    BY <1>3, <2>1
<1>8. a = end => end = delays - 1
  BY <1>0, <1>3, <1>5
<1>9. IsWindow(errors, a, end)
  BY <1>4, <1>5, <1>6, <1>7, <1>8 DEF IsWindow
<1>10. <<a, end>> \in Windows(errors)
  <2>1. <<a, end>>[1] = a /\ <<a, end>>[2] = end
    OBVIOUS
  <2> QED
    BY <1>5, <1>7, <1>9, <2>1 DEF Windows
<1>11. Length(<<a, end>>) >= last - first
  BY <1>0, <1>3, <1>5 DEF Length
<1> QED
  BY <1>10, <1>11

\* The margin of a run is less than half of its length.
LEMMA MarginFacts ==
  ASSUME NEW first \in Nat, NEW last \in Nat
  PROVE  /\ Margin(first, last) \in Nat
         /\ last > first => 2 * Margin(first, last) <= last - first - 1
         /\ ~(last > first) => Margin(first, last) = 0
<1> DEFINE h == (last - first - 1) \div 2
<1>1. h \in Int /\ 2 * h <= last - first - 1 /\ last - first - 1 <= 2 * h + 1
  OBVIOUS
<1>2. Margin(first, last) = IF last > first THEN h ELSE 0
  BY DEF Margin
<1> HIDE DEF h
<1> QED
  BY <1>1, <1>2

\* A margin around the middle of a window stays inside the window.
LEMMA AroundTheMiddle ==
  ASSUME NEW n \in Nat, NEW x \in 0 .. n - 1, NEW y \in 0 .. n - 1,
         NEW margin \in Nat, NEW mid \in Nat,
         x <= y, mid - margin >= x,
         x < y => mid + margin <= y - 1,
         x = y => margin = 0 /\ mid = x
  PROVE  \A d \in mid - margin .. mid + margin :
           d \in 0 .. n - 1 /\ (d \in x .. y - 1 \/ d = x)
<1>1. CASE x < y
  BY <1>1
<1>2. CASE x = y
  BY <1>2
<1> QED
  BY <1>1, <1>2

\* What read_level_find_best returns for the scores of a whole scan
LEMMA FindBest ==
  ASSUME NEW s, NEW m \in Modules, DOMAIN s = 0 .. bitslips - 1,
         \A b \in 0 .. bitslips - 1 : \A d \in 0 .. delays - 1 :
           (s[b][d] = 0) = (<<b, d>> \in eye[m])
  PROVE  /\ WithWindow(s) = {} => \A b, d : InTheMiddle(m, b, d)
         /\ WithWindow(s) # {} =>
              LET best == read_level_find_best(s)
              IN  /\ best.bitslip \in 0 .. bitslips - 1 /\ best.delay \in 0 .. delays - 1
                  /\ InTheMiddle(m, best.bitslip, best.delay)
<1>0. delays \in Nat \ {0} /\ bitslips \in Nat \ {0}
  BY Sizes
<1>1. ASSUME NEW c \in 0 .. bitslips - 1, NEW first \in 0 .. delays - 1, NEW last \in 0 .. delays - 1,
             first <= last, Run(eye[m], c, first, last)
      PROVE  c \in WithWindow(s) /\ Length(WindowOf(s, c)) >= last - first
  <2>1. \A d \in first .. last : s[c][d] = 0
    <3> SUFFICES ASSUME NEW d \in first .. last PROVE s[c][d] = 0
      OBVIOUS
    <3>1. d \in 0 .. delays - 1
      BY <1>0
    <3>2. <<c, d>> \in eye[m]
      BY <1>1 DEF Run
    <3> QED
      BY <3>1, <3>2
  <2>2. PICK w \in Windows(s[c]) : Length(w) >= last - first
    BY <1>1, <2>1, RunInWindow
  <2>3. Windows(s[c]) # {}
    BY <2>2
  <2>4. c \in WithWindow(s)
    BY <2>3 DEF WithWindow
  <2>5. /\ WindowOf(s, c) \in Windows(s[c])
        /\ Length(w) <= Length(WindowOf(s, c))
    BY <2>3, BestWindowFacts DEF WindowOf
  <2>6. Length(w) \in Int /\ Length(WindowOf(s, c)) \in Int
    BY <2>5, WindowFacts
  <2> QED
    BY <1>0, <2>2, <2>4, <2>5, <2>6
<1>2. ASSUME WithWindow(s) = {} PROVE \A b, d : InTheMiddle(m, b, d)
  <2> SUFFICES ASSUME NEW b, NEW d PROVE InTheMiddle(m, b, d)
    OBVIOUS
  <2>1. \A c \in 0 .. bitslips - 1, first, last \in 0 .. delays - 1 :
          ~(first <= last /\ Run(eye[m], c, first, last))
    BY <1>1, <1>2
  <2> QED
    BY <2>1 DEF InTheMiddle
<1>3. ASSUME WithWindow(s) # {}
      PROVE  LET best == read_level_find_best(s)
             IN  /\ best.bitslip \in 0 .. bitslips - 1 /\ best.delay \in 0 .. delays - 1
                 /\ InTheMiddle(m, best.bitslip, best.delay)
  <2> DEFINE b == BestBitslip(s)
             w == WindowOf(s, b)
             mid == Middle(w)
  <2>1. /\ b \in WithWindow(s)
        /\ \A c \in WithWindow(s) : Length(WindowOf(s, c)) <= Length(w)
    BY <1>0, <1>3, BestBitslipFacts
  <2>2. b \in 0 .. bitslips - 1 /\ Windows(s[b]) # {}
    BY <2>1 DEF WithWindow
  <2>3. w \in Windows(s[b])
    BY <2>2, BestWindowFacts DEF WindowOf
  <2>4. /\ w[1] \in 0 .. delays - 1 /\ w[2] \in 0 .. delays - 1 /\ w[1] <= w[2]
        /\ Length(w) \in 0 .. delays - 1 /\ Length(w) = w[2] - w[1]
        /\ s[b][w[1]] = 0 /\ \A d \in w[1] .. w[2] - 1 : s[b][d] = 0
    BY <2>3, WindowFacts
  <2>5. read_level_find_best(s).bitslip = b /\ read_level_find_best(s).delay = mid
    BY DEF read_level_find_best
  <2>6. mid = (w[1] + w[2]) \div 2
    BY DEF Middle
  <2> HIDE DEF b, w, mid
  <2>7. mid \in 0 .. delays - 1
    <3>1. 2 * mid <= w[1] + w[2] /\ w[1] + w[2] <= 2 * mid + 1 /\ mid \in Int
      BY <2>4, <2>6
    <3> QED
      BY <1>0, <2>4, <3>1
  <2>8. InTheMiddle(m, b, mid)
    <3> SUFFICES ASSUME NEW c \in 0 .. bitslips - 1, NEW first \in 0 .. delays - 1,
                        NEW last \in 0 .. delays - 1,
                        first <= last, Run(eye[m], c, first, last)
                 PROVE  LET margin == Margin(first, last)
                        IN  /\ mid - margin >= 0 /\ mid + margin < delays
                            /\ Run(eye[m], b, mid - margin, mid + margin)
      BY DEF InTheMiddle
    <3> DEFINE margin == Margin(first, last)
    <3>1. c \in WithWindow(s) /\ Length(WindowOf(s, c)) >= last - first
      BY <1>1
    <3>2. Length(WindowOf(s, c)) \in Int
      <4>1. Windows(s[c]) # {}
        BY <3>1 DEF WithWindow
      <4>2. WindowOf(s, c) \in Windows(s[c])
        BY <4>1, BestWindowFacts DEF WindowOf
      <4> QED
        BY <4>2, WindowFacts
    <3>3. Length(WindowOf(s, c)) <= Length(w)
      BY <2>1, <3>1
    <3>4. w[2] - w[1] >= last - first
      <4>1. \A x, y, z \in Int : x >= z /\ x <= y => y >= z
        OBVIOUS
      <4>2. last - first \in Int
        BY <1>0
      <4> QED
        BY <2>4, <3>1, <3>2, <3>3, <4>1, <4>2
    <3>5. w[1] \in Nat /\ w[2] \in Nat /\ first \in Nat /\ last \in Nat
      BY <2>4
    <3>6. /\ margin \in Nat /\ mid \in Nat
          /\ mid - margin >= w[1]
          /\ w[1] < w[2] => mid + margin <= w[2] - 1
          /\ w[1] = w[2] => margin = 0 /\ mid = w[1]
      <4> DEFINE x == w[1]
                 y == w[2]
      <4>1. /\ x \in Nat /\ y \in Nat /\ x <= y /\ y - x >= last - first
            /\ mid = (x + y) \div 2
        BY <2>4, <2>6, <3>4, <3>5
      <4> HIDE DEF x, y
      <4>2. /\ margin \in Nat /\ mid \in Nat
            /\ mid - margin >= x
            /\ x < y => mid + margin <= y - 1
            /\ x = y => margin = 0 /\ mid = x
        <5>1. mid \in Nat /\ 2 * mid <= x + y /\ x + y <= 2 * mid + 1
          BY <4>1
        <5>2. margin \in Nat /\ (last > first => 2 * margin <= last - first - 1)
              /\ (~(last > first) => margin = 0)
          BY <3>5, MarginFacts
        <5> HIDE DEF margin
        <5>3. CASE last > first
          BY <3>5, <4>1, <5>1, <5>2, <5>3
        <5>4. CASE ~(last > first)
          BY <3>5, <4>1, <5>1, <5>2, <5>4
        <5> QED
          BY <5>3, <5>4
      <4> QED
        BY <4>2 DEF x, y
    <3> HIDE DEF margin
    <3>7. \A d \in mid - margin .. mid + margin :
            d \in 0 .. delays - 1 /\ (d \in w[1] .. w[2] - 1 \/ d = w[1])
      <4>1. w[1] \in 0 .. delays - 1 /\ w[2] \in 0 .. delays - 1 /\ w[1] <= w[2]
        BY <2>4
      <4> QED
        BY <1>0, <3>6, <4>1, AroundTheMiddle, SMTT(30)
    <3>8. Run(eye[m], b, mid - margin, mid + margin)
      <4> SUFFICES ASSUME NEW d \in mid - margin .. mid + margin PROVE <<b, d>> \in eye[m]
        BY DEF Run
      <4>1. d \in 0 .. delays - 1 /\ s[b][d] = 0
        BY <2>4, <3>7
      <4> QED
        BY <2>2, <4>1
    <3>9. mid - margin >= 0 /\ mid + margin < delays
      <4>1. w[1] \in 0 .. delays - 1 /\ w[2] \in 0 .. delays - 1 /\ w[1] <= w[2]
        BY <2>4
      <4> QED
        BY <1>0, <3>6, <4>1, AroundTheMiddle
    <3> QED
      BY <3>8, <3>9 DEF margin
  <2> QED
    BY <2>2, <2>5, <2>7, <2>8
<1> QED
  BY <1>2, <1>3

-----------------------------------------------------------------------------
\* Positions

\* Positions below twice their number wrap around once.
LEMMA Wraps ==
  ASSUME NEW n \in Nat \ {0}, NEW x \in Nat, x < 2 * n
  PROVE  x % n = IF x < n THEN x ELSE x - n
<1> DEFINE q == x \div n
           r == x % n
<1>1. r \in 0 .. n - 1 /\ q \in Int
  OBVIOUS
<1>2. x = n * q + r
  BY Z3
<1> HIDE DEF q, r
<1>3. q = 0 \/ q = 1
  <2>1. q >= 2 => n * q >= n * 2
    BY <1>1
  <2>2. q <= -1 => n * q <= n * (-1)
    BY <1>1
  <2> QED
    BY <1>1, <1>2, <2>1, <2>2
<1>4. r = IF x < n THEN x ELSE x - n
  BY <1>1, <1>2, <1>3
<1> QED
  BY <1>4 DEF r

\* What a write to a delay register does to the modules
LEMMA Positions ==
  ASSUME NEW n \in Nat \ {0}, NEW f \in [Modules -> 0 .. n - 1]
  PROVE  /\ Reset(f) \in [Modules -> 0 .. n - 1] /\ Increment(f, n) \in [Modules -> 0 .. n - 1]
         /\ \A m \in Modules : m \notin sel => Reset(f)[m] = f[m] /\ Increment(f, n)[m] = f[m]
         /\ \A m \in Modules : m \in sel => Reset(f)[m] = 0 /\ Increment(f, n)[m] = (f[m] + 1) % n
         /\ \A m \in Modules : m \in sel /\ f[m] + 1 < n => Increment(f, n)[m] = f[m] + 1
<1>1. \A m \in Modules : f[m] \in 0 .. n - 1
  OBVIOUS
<1>2. \A x \in 0 .. n - 1 : x + 1 \in Nat /\ x + 1 < 2 * n
  OBVIOUS
<1>3. ASSUME NEW x \in 0 .. n - 1
      PROVE  (x + 1) % n = IF x + 1 < n THEN x + 1 ELSE (x + 1) - n
  <2> DEFINE y == x + 1
  <2>1. y \in Nat /\ y < 2 * n
    BY <1>2
  <2> HIDE DEF y
  <2>2. y % n = IF y < n THEN y ELSE y - n
    BY <2>1, Wraps
  <2> QED
    BY <2>2 DEF y
<1>4. \A x \in 0 .. n - 1 : (x + 1) % n \in 0 .. n - 1 /\ (x + 1 < n => (x + 1) % n = x + 1)
  BY <1>3
<1>5. 0 \in 0 .. n - 1
  OBVIOUS
<1>6. Reset(f) \in [Modules -> 0 .. n - 1]
  BY <1>1, <1>5 DEF Reset
<1>7. Increment(f, n) \in [Modules -> 0 .. n - 1]
  BY <1>1, <1>4 DEF Increment
<1>8. \A m \in Modules : m \notin sel => Reset(f)[m] = f[m] /\ Increment(f, n)[m] = f[m]
  BY DEF Reset, Increment
<1>9. \A m \in Modules : m \in sel => Reset(f)[m] = 0 /\ Increment(f, n)[m] = (f[m] + 1) % n
  BY DEF Reset, Increment
<1>10. \A m \in Modules : m \in sel /\ f[m] + 1 < n => Increment(f, n)[m] = f[m] + 1
  BY <1>1, <1>4, <1>9
<1> QED
  BY <1>6, <1>7, <1>8, <1>9, <1>10

-----------------------------------------------------------------------------
\* Parts of the invariant that a step is not about

ScanLabels == {"scan", "test", "next_delay", "next_bitslip", "best"}

LEMMA NoScan ==
  ASSUME ScanInv, pc' \notin ScanLabels,
         scores' = << >> \/ (scores' = scores /\ pc \notin ScanLabels)
  PROVE  ScanInv'
<1>1. DOMAIN scores' = {}
  <2>1. CASE scores' = << >>
    BY <2>1
  <2>2. CASE scores' = scores /\ pc \notin ScanLabels
    <3>1. DOMAIN scores = Scored /\ Scored = {}
      BY <2>2 DEF ScanInv, Scored, ScanLabels
    <3> QED
      BY <2>2, <3>1
  <2> QED
    BY <2>1, <2>2
<1>2. Scored' = {}
  BY DEF Scored, ScanLabels
<1> QED
  BY <1>1, <1>2 DEF ScanInv, ScoresTrue, ScanLabels

LEMMA NotReading ==
  ASSUME tool' # "read_level", tool' # ""
  PROVE  ReadInv'
BY DEF ReadInv, EyeMargin

LEMMA NotWriting ==
  ASSUME tool' # "write_level_hardcoded", tool' # "", pc' \notin {"cdly_inc"} \cup WriteLabels
  PROVE  WriteInv'
BY DEF WriteInv, StrobeOffset, WriteLabels

LEMMA NotSetting ==
  ASSUME pc' \notin SetLabels
  PROVE  SetInv'
BY DEF SetInv, SetLabels

\* A write changes the current module and none before it.
LEMMA OtherPositions ==
  ASSUME sel = {module}, module \in Modules,
         NEW n \in Nat \ {0}, NEW f \in [Modules -> 0 .. n - 1]
  PROVE  /\ \A m \in Modules : m < module => Reset(f)[m] = f[m] /\ Increment(f, n)[m] = f[m]
         /\ Reset(f)[module] = 0 /\ Increment(f, n)[module] = (f[module] + 1) % n
         /\ f[module] + 1 < n => Increment(f, n)[module] = f[module] + 1
         /\ f[module] \in 0 .. n - 1
<1>1. ASSUME NEW m \in Modules, m < module PROVE m \notin sel
  <2>1. m \in Int /\ module \in Int
    BY Sizes DEF Modules
  <2> QED
    BY <1>1, <2>1
<1>2. \A m \in Modules : m \notin sel => Reset(f)[m] = f[m] /\ Increment(f, n)[m] = f[m]
  BY Positions
<1>3. \A m \in Modules : m \in sel => Reset(f)[m] = 0 /\ Increment(f, n)[m] = (f[m] + 1) % n
  BY Positions
<1>4. \A m \in Modules : m \in sel /\ f[m] + 1 < n => Increment(f, n)[m] = f[m] + 1
  BY Positions
<1>5. module \in sel
  OBVIOUS
<1> QED
  BY <1>1, <1>2, <1>3, <1>4, <1>5

\* The steps of read leveling leave the modules before the current one alone.
LEMMA OthersLeveled ==
  ASSUME IndInv, tool' = tool, tool # "", eye' = eye, module' = module,
         \A m \in Modules : m < module => bitslip'[m] = bitslip[m] /\ delay'[m] = delay[m]
  PROVE  ReadInv'
<1>1. EyeMargin'
  BY DEF EyeMargin
<1>2. tool' = "read_level" => \A m \in Modules : m < module' => Leveled(m)'
  <2> SUFFICES ASSUME tool = "read_level", NEW m \in Modules, m < module
               PROVE  Leveled(m)'
    OBVIOUS
  <2>1. Leveled(m)
    BY DEF IndInv, ReadInv
  <2> QED
    BY <2>1 DEF Leveled, InTheMiddle
<1> QED
  BY <1>1, <1>2 DEF ReadInv

-----------------------------------------------------------------------------
\* The steps of a tool outside the leveling of a module

LEMMA FirstModule ==
  0 \in Modules /\ nmodules \notin Modules /\ \A m \in Modules : m \in Nat /\ ~(m < 0) /\ m < nmodules
BY Sizes DEF Modules

LEMMA StartStep ==
  ASSUME IndInv, NEW t \in Tools, Start(t)
  PROVE  IndInv'
<1>1. /\ tool' = t /\ t # "" /\ module' = 0
      /\ pc' \in {"select", "mode_register", "software"}
      /\ pc' = "select" => t = "read_level_hardcoded"
      /\ pc' = "mode_register" => t = "write_leveling_on"
      /\ pc' = "software" => t \in {"sdram_init", "read_level", "write_level_hardcoded"}
      /\ pc = "end"
  BY DEF Start, Tools, IndInv, Flow
<1>2. TypeOK'
  <2>1. UNCHANGED <<bs, dly, left, setting, sel, readVars, writeVars, eye>>
    BY DEF Start
  <2> QED
    BY <1>1, <2>1 DEF IndInv, TypeOK, readVars, writeVars
<1>3. Flow'
  BY <1>1, FirstModule DEF Flow, ReadLevelLabels, SetLabels, WriteLabels, EndLabels
<1>4. ScanInv'
  BY <1>1, NoScan DEF Start, IndInv, ScanLabels
<1>5. SetInv'
  BY <1>1, NotSetting DEF SetLabels
<1>6. ReadInv'
  BY <1>1, FirstModule DEF ReadInv, EyeMargin
<1>7. WriteInv'
  BY <1>1, FirstModule DEF WriteInv, StrobeOffset
<1> QED
  BY <1>2, <1>3, <1>4, <1>5, <1>6, <1>7 DEF IndInv

LEMMA FinishStep ==
  ASSUME IndInv, Finish
  PROVE  IndInv'
<1>1. /\ tool' = "" /\ tool # "" /\ finished' = tool /\ pc = "end" /\ pc' = "end"
      /\ UNCHANGED <<tools, module, bs, dly, left, setting, scores, control, sel, readVars,
                     writeVars, eye>>
  BY DEF Finish
<1>2. TypeOK'
  BY <1>1 DEF IndInv, TypeOK, readVars, writeVars
<1>3. Flow'
  BY <1>1 DEF Flow, ReadLevelLabels, SetLabels, WriteLabels, EndLabels
<1>4. ScanInv'
  BY <1>1, NoScan DEF IndInv, ScanLabels
<1>5. SetInv'
  BY <1>1, NotSetting DEF SetLabels
<1>6. ReadInv'
  <2>1. EyeMargin'
    <3> SUFFICES ASSUME tool = "read_level", NEW m \in Modules
                 PROVE  InTheMiddle(m, bitslip[m], delay[m])'
      BY <1>1 DEF EyeMargin
    <3>1. module = nmodules
      BY <1>1 DEF IndInv, Flow
    <3>2. m < module
      BY <3>1, FirstModule
    <3>3. Leveled(m)
      BY <3>2 DEF IndInv, ReadInv
    <3> QED
      BY <1>1, <3>3 DEF Leveled, InTheMiddle, readVars
  <2> QED
    BY <1>1, <2>1 DEF ReadInv
<1>7. WriteInv'
  <2>1. StrobeOffset'
    <3> SUFFICES ASSUME tool = "write_level_hardcoded"
                 PROVE  /\ ~wlevel_en /\ cdly = Cdly
                        /\ \A m \in Modules : Strobed(m)
      BY <1>1 DEF StrobeOffset, Strobed, writeVars
    <3>1. module = nmodules
      BY <1>1 DEF IndInv, Flow
    <3>2. \A m \in Modules : m < module
      BY <3>1, FirstModule
    <3> QED
      BY <1>1, <3>2 DEF IndInv, WriteInv
  <2> QED
    BY <1>1, <2>1 DEF WriteInv
<1> QED
  BY <1>2, <1>3, <1>4, <1>5, <1>6, <1>7 DEF IndInv

LEMMA KillStep ==
  ASSUME IndInv, Kill
  PROVE  IndInv'
<1>1. /\ tool' = "" /\ finished' = "" /\ pc' = "end" /\ scores' = << >>
      /\ UNCHANGED <<tools, module, bs, dly, left, setting, control, sel, readVars,
                     writeVars, eye>>
  BY DEF Kill
<1>2. TypeOK'
  BY <1>1 DEF IndInv, TypeOK, readVars, writeVars
<1>3. Flow'
  BY <1>1 DEF Flow, ReadLevelLabels, SetLabels, WriteLabels, EndLabels
<1>4. ScanInv'
  BY <1>1, NoScan DEF IndInv, ScanLabels
<1>5. SetInv'
  BY <1>1, NotSetting DEF SetLabels
<1>6. ReadInv'
  BY <1>1 DEF ReadInv, EyeMargin
<1>7. WriteInv'
  BY <1>1 DEF WriteInv, StrobeOffset
<1> QED
  BY <1>2, <1>3, <1>4, <1>5, <1>6, <1>7 DEF IndInv

LEMMA ControlStep ==
  ASSUME IndInv, sdram_software_control
  PROVE  IndInv'
<1>1. /\ tool \in {"sdram_init", "read_level", "write_level_hardcoded"} /\ tool' = tool
      /\ pc = "software" /\ control' = "software" /\ module = 0
      /\ tool = "sdram_init" => pc' = "init"
      /\ tool = "read_level" => pc' = "select"
      /\ tool = "write_level_hardcoded" => pc' = "cdly_rst"
      /\ UNCHANGED <<module, bs, dly, left, setting, scores, sel, readVars, writeVars, eye>>
  BY DEF sdram_software_control, IndInv, Flow, scriptVars
<1>2. TypeOK'
  BY <1>1 DEF IndInv, TypeOK, readVars, writeVars
<1>3. Flow'
  BY <1>1, FirstModule DEF Flow, ReadLevelLabels, SetLabels, WriteLabels, EndLabels
<1>4. ScanInv'
  BY <1>1, NoScan DEF IndInv, ScanLabels
<1>5. SetInv'
  BY <1>1, NotSetting DEF SetLabels
<1>6. ReadInv'
  BY <1>1, FirstModule DEF ReadInv, EyeMargin
<1>7. WriteInv'
  BY <1>1, FirstModule DEF WriteInv, StrobeOffset
<1> QED
  BY <1>2, <1>3, <1>4, <1>5, <1>6, <1>7 DEF IndInv

LEMMA InitialisationStep ==
  ASSUME IndInv, sdram_init
  PROVE  IndInv'
<1>1. /\ tool = "sdram_init" /\ tool' = tool
      /\ pc \in {"init", "hardware"} /\ pc' \in {"hardware", "end"}
      /\ UNCHANGED <<module, bs, dly, left, setting, scores, sel, readVars, writeVars, eye>>
  BY DEF sdram_init, IndInv, Flow, scriptVars
<1>2. TypeOK'
  BY <1>1 DEF IndInv, TypeOK, readVars, writeVars
<1>3. Flow'
  BY <1>1 DEF Flow, ReadLevelLabels, SetLabels, WriteLabels, EndLabels
<1>4. ScanInv'
  BY <1>1, NoScan DEF IndInv, ScanLabels
<1>5. SetInv'
  BY <1>1, NotSetting DEF SetLabels
<1>6. ReadInv'
  BY <1>1, NotReading
<1>7. WriteInv'
  BY <1>1, NotWriting DEF WriteLabels
<1> QED
  BY <1>2, <1>3, <1>4, <1>5, <1>6, <1>7 DEF IndInv

LEMMA SelectStep ==
  ASSUME IndInv, delay_select_modules
  PROVE  IndInv'
<1>1. /\ tool \in {"read_level", "read_level_hardcoded", "write_level_hardcoded"} /\ tool' = tool
      /\ pc = "select" /\ module \in Modules /\ sel' = {module}
      /\ tool = "read_level" => pc' = "level"
      /\ tool = "read_level_hardcoded" => pc' = "set_bitslip"
      /\ tool = "write_level_hardcoded" => pc' = "dq_rst"
      /\ setting' = setting \/ setting' = ReadConfig[module]
      /\ UNCHANGED <<module, bs, dly, left, scores, control, readVars, writeVars, eye>>
  BY DEF delay_select_modules, IndInv, Flow, scriptVars
<1>2. TypeOK'
  <2>1. setting'.bitslip \in 0 .. bitslips - 1 /\ setting'.delay \in 0 .. delays - 1
    BY <1>1, LevelingAssumption DEF IndInv, TypeOK
  <2> QED
    BY <1>1, <2>1 DEF IndInv, TypeOK, readVars, writeVars
<1>3. Flow'
  BY <1>1 DEF IndInv, Flow, ReadLevelLabels, SetLabels, WriteLabels, EndLabels
<1>4. ScanInv'
  BY <1>1, NoScan DEF IndInv, ScanLabels
<1>5. SetInv'
  BY <1>1 DEF SetInv, SetLabels
<1>6. ReadInv'
  BY <1>1, OthersLeveled DEF readVars
<1>7. WriteInv'
  <2>1. tool = "write_level_hardcoded" =>
          cdly = Cdly /\ \A m \in Modules : m < module => Strobed(m)
    BY <1>1 DEF IndInv, WriteInv
  <2> QED
    BY <1>1, <2>1 DEF WriteInv, StrobeOffset, Strobed, writeVars
<1> QED
  BY <1>2, <1>3, <1>4, <1>5, <1>6, <1>7 DEF IndInv

-----------------------------------------------------------------------------
\* The steps of read leveling

\* What a step that stays with its module keeps
LEMMA ReadStep ==
  ASSUME IndInv, pc \in ReadLevelLabels \cup SetLabels,
         UNCHANGED <<scriptVars, module, control, sel, writeVars, eye>>,
         pc' \in ReadLevelLabels \cup SetLabels,
         pc' \in ReadLevelLabels => pc \in ReadLevelLabels,
         bs' \in Nat, dly' \in Nat, left' \in Nat,
         setting'.bitslip \in 0 .. bitslips - 1, setting'.delay \in 0 .. delays - 1,
         \/ bitslip' = bitslip \/ bitslip' = Reset(bitslip)
         \/ bitslip' = Increment(bitslip, bitslips),
         \/ delay' = delay \/ delay' = Reset(delay) \/ delay' = Increment(delay, delays)
  PROVE  TypeOK' /\ Flow' /\ ReadInv' /\ WriteInv'
<1>1. /\ tool \in {"read_level", "read_level_hardcoded"} /\ tool' = tool
      /\ pc \in ReadLevelLabels => tool = "read_level"
      /\ module \in Modules /\ sel = {module}
  BY DEF IndInv, Flow, scriptVars
<1>2. /\ bitslip \in [Modules -> 0 .. bitslips - 1] /\ delay \in [Modules -> 0 .. delays - 1]
      /\ bitslips \in Nat \ {0} /\ delays \in Nat \ {0}
  BY Sizes DEF IndInv, TypeOK
<1>3. /\ bitslip' \in [Modules -> 0 .. bitslips - 1]
      /\ \A m \in Modules : m < module => bitslip'[m] = bitslip[m]
  <2>1. /\ Reset(bitslip) \in [Modules -> 0 .. bitslips - 1]
        /\ Increment(bitslip, bitslips) \in [Modules -> 0 .. bitslips - 1]
    BY <1>2, Positions
  <2>2. \A m \in Modules : m < module =>
          Reset(bitslip)[m] = bitslip[m] /\ Increment(bitslip, bitslips)[m] = bitslip[m]
    BY <1>1, <1>2, OtherPositions
  <2>3. CASE bitslip' = bitslip
    BY <1>2, <2>3
  <2>4. CASE bitslip' = Reset(bitslip)
    BY <2>1, <2>2, <2>4
  <2>5. CASE bitslip' = Increment(bitslip, bitslips)
    BY <2>1, <2>2, <2>5
  <2> QED
    BY <2>3, <2>4, <2>5
<1>4. /\ delay' \in [Modules -> 0 .. delays - 1]
      /\ \A m \in Modules : m < module => delay'[m] = delay[m]
  <2>1. /\ Reset(delay) \in [Modules -> 0 .. delays - 1]
        /\ Increment(delay, delays) \in [Modules -> 0 .. delays - 1]
    BY <1>2, Positions
  <2>2. \A m \in Modules : m < module =>
          Reset(delay)[m] = delay[m] /\ Increment(delay, delays)[m] = delay[m]
    BY <1>1, <1>2, OtherPositions
  <2>3. CASE delay' = delay
    BY <1>2, <2>3
  <2>4. CASE delay' = Reset(delay)
    BY <2>1, <2>2, <2>4
  <2>5. CASE delay' = Increment(delay, delays)
    BY <2>1, <2>2, <2>5
  <2> QED
    BY <2>3, <2>4, <2>5
<1>5. TypeOK'
  BY <1>1, <1>3, <1>4 DEF IndInv, TypeOK, scriptVars, writeVars
<1>6. Flow'
  <2>1. tool = "read_level" => control = "software"
    BY <1>1 DEF IndInv, Flow, ReadLevelLabels, SetLabels
  <2> QED
    BY <1>1, <2>1 DEF Flow, ReadLevelLabels, SetLabels, WriteLabels, EndLabels
<1>7. ReadInv'
  BY <1>1, <1>3, <1>4, OthersLeveled
<1>8. WriteInv'
  BY <1>1, NotWriting DEF ReadLevelLabels, SetLabels, WriteLabels
<1> QED
  BY <1>5, <1>6, <1>7, <1>8

\* What a tool is at while it reads
LEMMA ReadFacts ==
  ASSUME IndInv, pc \in ReadLevelLabels \cup SetLabels
  PROVE  /\ module \in Modules /\ sel = {module}
         /\ bs \in Nat /\ dly \in Nat /\ left \in Nat
         /\ setting.bitslip \in 0 .. bitslips - 1 /\ setting.delay \in 0 .. delays - 1
         /\ bitslips \in Nat \ {0} /\ delays \in Nat \ {0}
         /\ pc \in ReadLevelLabels => tool = "read_level" /\ control = "software"
         /\ bitslip[module] \in 0 .. bitslips - 1 /\ delay[module] \in 0 .. delays - 1
         /\ Reset(bitslip)[module] = 0 /\ Reset(delay)[module] = 0
         /\ bitslip[module] + 1 < bitslips =>
              Increment(bitslip, bitslips)[module] = bitslip[module] + 1
         /\ delay[module] + 1 < delays => Increment(delay, delays)[module] = delay[module] + 1
<1>1. /\ module \in Modules /\ sel = {module}
      /\ pc \in ReadLevelLabels => tool = "read_level"
  BY DEF IndInv, Flow
<1>2. pc \in ReadLevelLabels => control = "software"
  BY <1>1 DEF IndInv, Flow, ReadLevelLabels
<1>3. /\ bitslip \in [Modules -> 0 .. bitslips - 1] /\ delay \in [Modules -> 0 .. delays - 1]
      /\ bitslips \in Nat \ {0} /\ delays \in Nat \ {0}
      /\ bs \in Nat /\ dly \in Nat /\ left \in Nat
      /\ setting.bitslip \in 0 .. bitslips - 1 /\ setting.delay \in 0 .. delays - 1
  BY Sizes DEF IndInv, TypeOK
<1>4. /\ bitslip[module] \in 0 .. bitslips - 1 /\ Reset(bitslip)[module] = 0
      /\ bitslip[module] + 1 < bitslips =>
           Increment(bitslip, bitslips)[module] = bitslip[module] + 1
  BY <1>1, <1>3, OtherPositions
<1>5. /\ delay[module] \in 0 .. delays - 1 /\ Reset(delay)[module] = 0
      /\ delay[module] + 1 < delays => Increment(delay, delays)[module] = delay[module] + 1
  BY <1>1, <1>3, OtherPositions
<1> QED
  BY <1>1, <1>2, <1>3, <1>4, <1>5

LEMMA LevelStep ==
  ASSUME IndInv, read_level_module
  PROVE  IndInv'
<1>1. /\ pc = "level" /\ pc' = "scan" /\ bitslip' = Reset(bitslip) /\ bs' = 0 /\ scores' = << >>
      /\ UNCHANGED <<scriptVars, module, dly, left, setting, control, sel, delay, writeVars, eye>>
  BY DEF read_level_module
<1>2. pc \in ReadLevelLabels /\ pc' \in ReadLevelLabels
  BY <1>1 DEF ReadLevelLabels
<1>3. /\ module \in Modules /\ Reset(bitslip)[module] = 0 /\ bitslips \in Nat \ {0}
      /\ dly \in Nat /\ left \in Nat
      /\ setting.bitslip \in 0 .. bitslips - 1 /\ setting.delay \in 0 .. delays - 1
  BY <1>2, ReadFacts
<1>4. TypeOK' /\ Flow' /\ ReadInv' /\ WriteInv'
  BY <1>1, <1>2, <1>3, ReadStep
<1>5. ScanInv'
  <2>1. DOMAIN scores' = {} /\ Scored' = {}
    BY <1>1 DEF Scored
  <2> QED
    BY <1>1, <1>3, <2>1 DEF ScanInv, ScoresTrue
<1>6. SetInv'
  BY <1>1, NotSetting DEF SetLabels
<1> QED
  BY <1>4, <1>5, <1>6 DEF IndInv

LEMMA ScanStep ==
  ASSUME IndInv, ScanBitslip
  PROVE  IndInv'
<1>1. /\ pc = "scan" /\ pc' = "test" /\ delay' = Reset(delay) /\ dly' = 0
      /\ UNCHANGED <<scriptVars, module, bs, left, setting, scores, control, sel, bitslip,
                     writeVars, eye>>
  BY DEF ScanBitslip
<1>2. pc \in ReadLevelLabels /\ pc' \in ReadLevelLabels
  BY <1>1 DEF ReadLevelLabels
<1>3. /\ module \in Modules /\ Reset(delay)[module] = 0 /\ delays \in Nat \ {0}
      /\ bs \in Nat /\ left \in Nat
      /\ setting.bitslip \in 0 .. bitslips - 1 /\ setting.delay \in 0 .. delays - 1
  BY <1>2, ReadFacts
<1>4. TypeOK' /\ Flow' /\ ReadInv' /\ WriteInv'
  BY <1>1, <1>2, <1>3, ReadStep
<1>5. ScanInv'
  <2>1. DOMAIN scores = 0 .. bs - 1 /\ Scored' = 0 .. bs - 1
    BY <1>1 DEF IndInv, ScanInv, Scored
  <2>2. \A b \in DOMAIN scores : ScoredDelays(b) = 0 .. delays - 1 /\ ScoredDelays(b)' = 0 .. delays - 1
    <3>1. \A b \in 0 .. bs - 1 : b # bs
      BY <1>3
    <3> QED
      BY <1>1, <2>1, <3>1 DEF ScoredDelays
  <2>3. bs \in 0 .. bitslips - 1 /\ bitslip[module] = bs
    BY <1>1 DEF IndInv, ScanInv
  <2>4. \A b \in DOMAIN scores : DOMAIN scores[b] = 0 .. delays - 1
    BY <2>2 DEF IndInv, ScanInv
  <2>5. ScoresTrue'
    BY <1>1 DEF IndInv, ScanInv, ScoresTrue
  <2> QED
    BY <1>1, <1>3, <2>1, <2>2, <2>3, <2>4, <2>5 DEF ScanInv
<1>6. SetInv'
  BY <1>1, NotSetting DEF SetLabels
<1> QED
  BY <1>4, <1>5, <1>6 DEF IndInv

\* A score is taken where the script thinks it is.
LEMMA TestStep ==
  ASSUME IndInv, TestDelay
  PROVE  IndInv'
<1>1. /\ pc = "test" /\ pc' = "next_delay"
      /\ scores' = SetItem(scores, bs, SetItem(Row, dly, read_level_test))
      /\ UNCHANGED <<scriptVars, module, bs, dly, left, setting, control, sel, readVars,
                     writeVars, eye>>
  BY DEF TestDelay
<1>2. pc \in ReadLevelLabels /\ pc' \in ReadLevelLabels
  BY <1>1 DEF ReadLevelLabels
<1>3. /\ module \in Modules /\ delays \in Nat \ {0} /\ control = "software"
      /\ bs \in Nat /\ dly \in Nat /\ left \in Nat
      /\ setting.bitslip \in 0 .. bitslips - 1 /\ setting.delay \in 0 .. delays - 1
  BY <1>2, ReadFacts
<1>4. TypeOK' /\ Flow' /\ ReadInv' /\ WriteInv'
  BY <1>1, <1>2, <1>3, ReadStep DEF readVars
<1>5. /\ bs \in 0 .. bitslips - 1 /\ bitslip[module] = bs
      /\ dly \in 0 .. delays - 1 /\ delay[module] = dly
  BY <1>1 DEF IndInv, ScanInv
<1>6. (read_level_test = 0) = (<<bs, dly>> \in eye[module])
  BY <1>3, <1>5 DEF read_level_test
<1>7. /\ DOMAIN scores = IF dly > 0 THEN 0 .. bs ELSE 0 .. bs - 1
      /\ \A b \in DOMAIN scores : DOMAIN scores[b] = ScoredDelays(b)
      /\ ScoresTrue
  BY <1>1 DEF IndInv, ScanInv, Scored
<1>8. /\ DOMAIN Row = 0 .. dly - 1
      /\ \A d \in 0 .. dly - 1 : (Row[d] = 0) = (<<bs, d>> \in eye[module])
  <2>1. CASE dly > 0
    <3>1. bs \in DOMAIN scores
      BY <1>3, <1>7, <2>1
    <3>2. Row = scores[bs] /\ DOMAIN scores[bs] = 0 .. dly - 1
      BY <1>1, <1>7, <3>1 DEF Row, ScoredDelays
    <3> QED
      BY <1>7, <3>1, <3>2 DEF ScoresTrue
  <2>2. CASE ~(dly > 0)
    <3>1. dly = 0 /\ bs \notin DOMAIN scores
      BY <1>3, <1>7, <2>2
    <3>2. Row = << >> /\ 0 .. dly - 1 = {}
      BY <3>1 DEF Row
    <3> QED
      BY <3>2
  <2> QED
    BY <2>1, <2>2
<1> DEFINE row == SetItem(Row, dly, read_level_test)
<1>9. /\ DOMAIN row = 0 .. dly
      /\ \A d \in 0 .. dly : (row[d] = 0) = (<<bs, d>> \in eye[module])
  <2>1. 0 .. dly - 1 \cup {dly} = 0 .. dly
    BY <1>3
  <2>2. row = [d \in 0 .. dly |-> IF d = dly THEN read_level_test ELSE Row[d]]
    BY <1>8, <2>1 DEF SetItem
  <2> HIDE DEF row
  <2>3. \A d \in 0 .. dly : d = dly \/ d \in 0 .. dly - 1
    BY <1>3
  <2> QED
    BY <1>6, <1>8, <2>2, <2>3
<1> HIDE DEF row
<1>10. scores' = [b \in 0 .. bs |-> IF b = bs THEN row ELSE scores[b]]
  <2>1. DOMAIN scores \cup {bs} = 0 .. bs
    BY <1>3, <1>7
  <2> QED
    BY <1>1, <2>1 DEF SetItem, row
<1>11. \A b \in 0 .. bs : b = bs \/ (b # bs /\ b \in DOMAIN scores)
  BY <1>3, <1>7
<1>12. ScanInv'
  <2>1. DOMAIN scores' = Scored'
    BY <1>1, <1>10 DEF Scored
  <2>2. ASSUME NEW b \in 0 .. bs
        PROVE  DOMAIN scores'[b] = ScoredDelays(b)'
    <3>1. CASE b = bs
      BY <1>1, <1>9, <1>10, <3>1 DEF ScoredDelays
    <3>2. CASE b # bs /\ b \in DOMAIN scores
      <4>1. DOMAIN scores[b] = 0 .. delays - 1
        BY <1>1, <1>7, <3>2 DEF ScoredDelays
      <4> QED
        BY <1>1, <1>10, <3>2, <4>1 DEF ScoredDelays
    <3> QED
      BY <1>11, <3>1, <3>2
  <2>3. ScoresTrue'
    <3> SUFFICES ASSUME NEW b \in 0 .. bs, NEW d \in DOMAIN scores'[b]
                 PROVE  (scores'[b][d] = 0) = (<<b, d>> \in eye[module])
      BY <1>1, <1>10 DEF ScoresTrue
    <3>1. CASE b = bs
      BY <1>9, <1>10, <3>1
    <3>2. CASE b # bs /\ b \in DOMAIN scores
      <4>1. scores'[b] = scores[b]
        BY <1>10, <3>2
      <4> QED
        BY <1>7, <3>2, <4>1 DEF ScoresTrue
    <3> QED
      BY <1>11, <3>1, <3>2
  <2>4. \A b \in DOMAIN scores' : DOMAIN scores'[b] = ScoredDelays(b)'
    BY <1>10, <2>2
  <2> QED
    BY <1>1, <1>5, <2>1, <2>3, <2>4 DEF ScanInv, readVars
<1>13. SetInv'
  BY <1>1, NotSetting DEF SetLabels
<1> QED
  BY <1>4, <1>12, <1>13 DEF IndInv

LEMMA NextDelayStep ==
  ASSUME IndInv, NextDelay
  PROVE  IndInv'
<1>1. /\ pc = "next_delay" /\ delay' = Increment(delay, delays) /\ dly' = dly + 1
      /\ pc' = IF dly + 1 < delays THEN "test" ELSE "next_bitslip"
      /\ UNCHANGED <<scriptVars, module, bs, left, setting, scores, control, sel, bitslip,
                     writeVars, eye>>
  BY DEF NextDelay
<1>2. pc \in ReadLevelLabels /\ pc' \in ReadLevelLabels
  BY <1>1 DEF ReadLevelLabels
<1>3. /\ module \in Modules /\ delays \in Nat \ {0}
      /\ bs \in Nat /\ dly \in Nat /\ left \in Nat
      /\ setting.bitslip \in 0 .. bitslips - 1 /\ setting.delay \in 0 .. delays - 1
      /\ delay[module] + 1 < delays => Increment(delay, delays)[module] = delay[module] + 1
  BY <1>2, ReadFacts
<1>4. TypeOK' /\ Flow' /\ ReadInv' /\ WriteInv'
  <2>1. dly' \in Nat
    BY <1>1, <1>3
  <2> QED
    BY <1>1, <1>2, <1>3, <2>1, ReadStep
<1>5. /\ bs \in 0 .. bitslips - 1 /\ bitslip[module] = bs
      /\ dly \in 0 .. delays - 1 /\ delay[module] = dly
      /\ DOMAIN scores = 0 .. bs
      /\ \A b \in DOMAIN scores : DOMAIN scores[b] = ScoredDelays(b)
      /\ ScoresTrue
  BY <1>1 DEF IndInv, ScanInv, Scored
<1>6. ScanInv'
  <2>1. DOMAIN scores' = Scored'
    <3>1. dly' > 0
      BY <1>1, <1>3
    <3> QED
      BY <1>1, <1>5, <3>1 DEF Scored
  <2>2. ASSUME NEW b \in DOMAIN scores PROVE DOMAIN scores[b] = ScoredDelays(b)'
    <3>1. dly' - 1 = dly /\ (~(dly + 1 < delays) => dly = delays - 1)
      BY <1>1, <1>3, <1>5
    <3>2. DOMAIN scores[b] = IF b = bs THEN 0 .. dly ELSE 0 .. delays - 1
      BY <1>1, <1>5 DEF ScoredDelays
    <3> QED
      BY <1>1, <3>1, <3>2 DEF ScoredDelays
  <2>3. ScoresTrue'
    BY <1>1, <1>5 DEF ScoresTrue
  <2>4. pc' = "test" => dly' \in 0 .. delays - 1 /\ delay'[module] = dly'
    BY <1>1, <1>3, <1>5
  <2> QED
    BY <1>1, <1>5, <2>1, <2>2, <2>3, <2>4 DEF ScanInv
<1>7. SetInv'
  BY <1>1, NotSetting DEF SetLabels
<1> QED
  BY <1>4, <1>6, <1>7 DEF IndInv

LEMMA NextBitslipStep ==
  ASSUME IndInv, NextBitslip
  PROVE  IndInv'
<1>1. /\ pc = "next_bitslip" /\ bitslip' = Increment(bitslip, bitslips) /\ bs' = bs + 1
      /\ pc' = IF bs + 1 < bitslips THEN "scan" ELSE "best"
      /\ UNCHANGED <<scriptVars, module, dly, left, setting, scores, control, sel, delay,
                     writeVars, eye>>
  BY DEF NextBitslip
<1>2. pc \in ReadLevelLabels /\ pc' \in ReadLevelLabels
  BY <1>1 DEF ReadLevelLabels
<1>3. /\ module \in Modules /\ bitslips \in Nat \ {0}
      /\ bs \in Nat /\ dly \in Nat /\ left \in Nat
      /\ setting.bitslip \in 0 .. bitslips - 1 /\ setting.delay \in 0 .. delays - 1
      /\ bitslip[module] + 1 < bitslips =>
           Increment(bitslip, bitslips)[module] = bitslip[module] + 1
  BY <1>2, ReadFacts
<1>4. TypeOK' /\ Flow' /\ ReadInv' /\ WriteInv'
  <2>1. bs' \in Nat
    BY <1>1, <1>3
  <2> QED
    BY <1>1, <1>2, <1>3, <2>1, ReadStep
<1>5. /\ bs \in 0 .. bitslips - 1 /\ bitslip[module] = bs
      /\ DOMAIN scores = 0 .. bs
      /\ \A b \in DOMAIN scores : DOMAIN scores[b] = ScoredDelays(b)
      /\ ScoresTrue
  BY <1>1 DEF IndInv, ScanInv, Scored
<1>6. ScanInv'
  <2>1. DOMAIN scores' = Scored'
    <3>1. bs' - 1 = bs
      BY <1>1, <1>3
    <3> QED
      BY <1>1, <1>5, <3>1 DEF Scored
  <2>2. \A b \in DOMAIN scores : DOMAIN scores[b] = ScoredDelays(b)'
    BY <1>1, <1>5 DEF ScoredDelays
  <2>3. ScoresTrue'
    BY <1>1, <1>5 DEF ScoresTrue
  <2>4. /\ pc' = "scan" => bs' \in 0 .. bitslips - 1 /\ bitslip'[module] = bs'
        /\ pc' = "best" => bs' = bitslips
    BY <1>1, <1>3, <1>5
  <2> QED
    BY <1>1, <2>1, <2>2, <2>3, <2>4 DEF ScanInv
<1>7. SetInv'
  BY <1>1, NotSetting DEF SetLabels
<1> QED
  BY <1>4, <1>6, <1>7 DEF IndInv

\* The module is done and the loop goes on.
LEMMA ModuleDone ==
  ASSUME IndInv, pc \in ReadLevelLabels \cup SetLabels, NextModule,
         UNCHANGED <<scriptVars, bs, dly, setting, control, sel, bitslip, writeVars, eye>>,
         left' \in Nat, scores' = << >> \/ (scores' = scores /\ pc \notin ScanLabels),
         \/ delay' = delay \/ delay' = Reset(delay) \/ delay' = Increment(delay, delays),
         tool = "read_level" => InTheMiddle(module, bitslip[module], delay'[module])
  PROVE  IndInv'
<1>1. /\ tool \in {"read_level", "read_level_hardcoded"} /\ tool' = tool
      /\ module \in Modules /\ sel = {module}
      /\ tool = "read_level" => control = "software"
  BY DEF IndInv, Flow, ReadLevelLabels, SetLabels, scriptVars
<1>2. /\ module' = module + 1 /\ module \in Nat /\ nmodules \in Nat /\ module < nmodules
      /\ pc' = IF module + 1 < nmodules THEN "select" ELSE "end"
  BY <1>1, Sizes, FirstModule DEF NextModule
<1>3. /\ delay' \in [Modules -> 0 .. delays - 1]
      /\ \A m \in Modules : m < module => delay'[m] = delay[m]
  <2>0. delay \in [Modules -> 0 .. delays - 1] /\ delays \in Nat \ {0}
    BY Sizes DEF IndInv, TypeOK
  <2>1. /\ Reset(delay) \in [Modules -> 0 .. delays - 1]
        /\ Increment(delay, delays) \in [Modules -> 0 .. delays - 1]
    BY <2>0, Positions
  <2>2. \A m \in Modules : m < module =>
          Reset(delay)[m] = delay[m] /\ Increment(delay, delays)[m] = delay[m]
    BY <1>1, <2>0, OtherPositions
  <2>3. CASE delay' = delay
    BY <2>0, <2>3
  <2>4. CASE delay' = Reset(delay)
    BY <2>1, <2>2, <2>4
  <2>5. CASE delay' = Increment(delay, delays)
    BY <2>1, <2>2, <2>5
  <2> QED
    BY <2>3, <2>4, <2>5
<1>4. TypeOK'
  <2>1. module' \in Nat
    BY <1>2
  <2> QED
    BY <1>1, <1>3, <2>1 DEF IndInv, TypeOK, scriptVars, writeVars
<1>5. Flow'
  <2>1. /\ pc' \in {"select", "end"}
        /\ pc' = "select" => module' \in Modules
        /\ pc' = "end" => module' = nmodules
    BY <1>2 DEF Modules
  <2> QED
    BY <1>1, <2>1 DEF Flow, ReadLevelLabels, SetLabels, WriteLabels, EndLabels
<1>6. ScanInv'
  BY <1>2, NoScan DEF IndInv, ScanLabels
<1>7. SetInv'
  BY <1>2, NotSetting DEF SetLabels
<1>8. ReadInv'
  <2>1. EyeMargin'
    BY <1>1 DEF EyeMargin
  <2>2. tool' = "read_level" => \A m \in Modules : m < module' => Leveled(m)'
    <3> SUFFICES ASSUME tool = "read_level", NEW m \in Modules, m < module'
                 PROVE  Leveled(m)'
      BY <1>1
    <3>1. m < module \/ m = module
      BY <1>2, FirstModule
    <3>2. CASE m < module
      <4>1. InTheMiddle(m, bitslip[m], delay[m])
        BY <3>2 DEF IndInv, ReadInv, Leveled
      <4> QED
        BY <1>3, <3>2, <4>1 DEF Leveled, InTheMiddle
    <3>3. CASE m = module
      BY <3>3 DEF Leveled, InTheMiddle
    <3> QED
      BY <3>1, <3>2, <3>3
  <2> QED
    BY <2>1, <2>2 DEF ReadInv
<1>9. WriteInv'
  BY <1>1, <1>2, NotWriting DEF WriteLabels
<1> QED
  BY <1>4, <1>5, <1>6, <1>7, <1>8, <1>9 DEF IndInv

\* The setting that is chosen is a good one, and a module for which none is
\* has no eye.
LEMMA BestStep ==
  ASSUME IndInv, Best
  PROVE  IndInv'
<1>1. /\ pc = "best" /\ scores' = << >>
      /\ UNCHANGED <<scriptVars, bs, dly, left, control, sel, readVars, writeVars, eye>>
  BY DEF Best
<1>2. pc \in ReadLevelLabels
  BY <1>1 DEF ReadLevelLabels
<1>3. module \in Modules /\ tool = "read_level" /\ bs \in Nat /\ dly \in Nat /\ left \in Nat
  BY <1>2, ReadFacts
<1>4. /\ DOMAIN scores = 0 .. bitslips - 1
      /\ \A b \in 0 .. bitslips - 1 : \A d \in 0 .. delays - 1 :
           (scores[b][d] = 0) = (<<b, d>> \in eye[module])
  <2>1. bs = bitslips /\ DOMAIN scores = 0 .. bs - 1 /\ ScoresTrue
    BY <1>1 DEF IndInv, ScanInv, Scored
  <2>2. \A b \in DOMAIN scores : DOMAIN scores[b] = 0 .. delays - 1
    BY <1>1 DEF IndInv, ScanInv, ScoredDelays
  <2> QED
    BY <2>1, <2>2 DEF ScoresTrue
<1>5. CASE WithWindow(scores) = {} /\ NextModule /\ setting' = setting
  <2>1. InTheMiddle(module, bitslip[module], delay[module])
    BY <1>3, <1>4, <1>5, FindBest
  <2> QED
    BY <1>1, <1>2, <1>3, <1>5, <2>1, ModuleDone DEF readVars
<1>6. CASE /\ WithWindow(scores) # {} /\ pc' = "set_bitslip"
           /\ setting' = read_level_find_best(scores) /\ module' = module
  <2>1. /\ setting'.bitslip \in 0 .. bitslips - 1 /\ setting'.delay \in 0 .. delays - 1
        /\ InTheMiddle(module, setting'.bitslip, setting'.delay)
    BY <1>3, <1>4, <1>6, FindBest
  <2>2. pc' \in SetLabels /\ pc' \notin ReadLevelLabels
    BY <1>6 DEF SetLabels, ReadLevelLabels
  <2>3. TypeOK' /\ Flow' /\ ReadInv' /\ WriteInv'
    BY <1>1, <1>2, <1>3, <1>6, <2>1, <2>2, ReadStep DEF readVars
  <2>4. ScanInv'
    BY <1>1, <1>6, NoScan DEF IndInv, ScanLabels
  <2>5. SetInv'
    BY <1>1, <1>6, <2>1 DEF SetInv, InTheMiddle
  <2> QED
    BY <2>3, <2>4, <2>5 DEF IndInv
<1> QED
  BY <1>5, <1>6 DEF Best

LEMMA SetBitslipStep ==
  ASSUME IndInv, read_bitslip_set
  PROVE  IndInv'
<1>1. /\ pc \in {"set_bitslip", "inc_bitslip"}
      /\ pc = "set_bitslip" => bitslip' = Reset(bitslip) /\ left' = setting.bitslip
      /\ pc = "inc_bitslip" => bitslip' = Increment(bitslip, bitslips) /\ left' = left - 1
      /\ pc' = IF left' > 0 THEN "inc_bitslip" ELSE "set_delay"
      /\ UNCHANGED <<scriptVars, module, bs, dly, setting, scores, control, sel, delay,
                     writeVars, eye>>
  BY DEF read_bitslip_set
<1>2. /\ pc \in SetLabels /\ pc' \in SetLabels /\ pc' \notin ReadLevelLabels
      /\ pc \notin ScanLabels /\ pc' \notin ScanLabels
  BY <1>1 DEF SetLabels, ReadLevelLabels, ScanLabels
<1>3. /\ bs \in Nat /\ dly \in Nat /\ left \in Nat
      /\ setting.bitslip \in 0 .. bitslips - 1 /\ setting.delay \in 0 .. delays - 1
      /\ bitslips \in Nat \ {0}
      /\ Reset(bitslip)[module] = 0
      /\ bitslip[module] + 1 < bitslips =>
           Increment(bitslip, bitslips)[module] = bitslip[module] + 1
  BY <1>2, ReadFacts
<1>4. /\ left' \in 0 .. setting.bitslip
      /\ bitslip'[module] = setting.bitslip - left'
  <2>1. CASE pc = "set_bitslip"
    BY <1>1, <1>3, <2>1
  <2>2. CASE pc = "inc_bitslip"
    <3>1. left \in 1 .. setting.bitslip /\ bitslip[module] = setting.bitslip - left
      BY <2>2 DEF IndInv, SetInv
    <3>2. bitslip[module] + 1 < bitslips
      BY <1>3, <3>1
    <3>3. bitslip'[module] = bitslip[module] + 1 /\ left' = left - 1
      BY <1>1, <1>3, <2>2, <3>2
    <3> QED
      BY <1>3, <3>1, <3>3
  <2> QED
    BY <1>1, <2>1, <2>2
<1>5. TypeOK' /\ Flow' /\ ReadInv' /\ WriteInv'
  <2>1. left' \in Nat
    BY <1>3, <1>4
  <2>2. /\ bitslip' = Reset(bitslip) \/ bitslip' = Increment(bitslip, bitslips)
    BY <1>1
  <2> QED
    BY <1>1, <1>2, <1>3, <2>1, <2>2, ReadStep
<1>6. ScanInv'
  BY <1>1, <1>2, NoScan DEF IndInv
<1>7. SetInv'
  <2>1. tool = "read_level" => InTheMiddle(module, setting.bitslip, setting.delay)
    BY <1>2 DEF IndInv, SetInv
  <2>2. tool' = "read_level" => InTheMiddle(module, setting.bitslip, setting.delay)'
    BY <1>1, <2>1 DEF InTheMiddle, scriptVars
  <2>3. pc' = "inc_bitslip" => left' \in 1 .. setting.bitslip
    BY <1>1, <1>3, <1>4
  <2>4. pc' = "set_delay" => bitslip'[module] = setting.bitslip
    BY <1>1, <1>3, <1>4
  <2> QED
    BY <1>1, <1>4, <2>2, <2>3, <2>4 DEF SetInv
<1> QED
  BY <1>5, <1>6, <1>7 DEF IndInv

LEMMA SetDelayStep ==
  ASSUME IndInv, read_delay_set
  PROVE  IndInv'
<1>1. /\ pc \in {"set_delay", "inc_delay"}
      /\ pc = "set_delay" => delay' = Reset(delay) /\ left' = setting.delay
      /\ pc = "inc_delay" => delay' = Increment(delay, delays) /\ left' = left - 1
      /\ \/ left' > 0 /\ pc' = "inc_delay" /\ module' = module
         \/ left' = 0 /\ NextModule
      /\ UNCHANGED <<scriptVars, bs, dly, setting, scores, control, sel, bitslip, writeVars, eye>>
  BY DEF read_delay_set
<1>2. pc \in SetLabels /\ pc \notin ScanLabels
  BY <1>1 DEF SetLabels, ScanLabels
<1>3. /\ bs \in Nat /\ dly \in Nat /\ left \in Nat
      /\ setting.bitslip \in 0 .. bitslips - 1 /\ setting.delay \in 0 .. delays - 1
      /\ delays \in Nat \ {0}
      /\ Reset(delay)[module] = 0
      /\ delay[module] + 1 < delays => Increment(delay, delays)[module] = delay[module] + 1
  BY <1>2, ReadFacts
<1>4. /\ left' \in 0 .. setting.delay
      /\ delay'[module] = setting.delay - left'
  <2>1. CASE pc = "set_delay"
    BY <1>1, <1>3, <2>1
  <2>2. CASE pc = "inc_delay"
    <3>1. left \in 1 .. setting.delay /\ delay[module] = setting.delay - left
      BY <2>2 DEF IndInv, SetInv
    <3>2. delay[module] + 1 < delays
      BY <1>3, <3>1
    <3>3. delay'[module] = delay[module] + 1 /\ left' = left - 1
      BY <1>1, <1>3, <2>2, <3>2
    <3> QED
      BY <1>3, <3>1, <3>3
  <2> QED
    BY <1>1, <2>1, <2>2
<1>5. /\ left' \in Nat
      /\ delay' = Reset(delay) \/ delay' = Increment(delay, delays)
      /\ bitslip[module] = setting.bitslip
      /\ tool = "read_level" => InTheMiddle(module, setting.bitslip, setting.delay)
  <2>1. left' \in Nat
    BY <1>3, <1>4
  <2>2. bitslip[module] = setting.bitslip
    BY <1>1 DEF IndInv, SetInv
  <2>3. tool = "read_level" => InTheMiddle(module, setting.bitslip, setting.delay)
    BY <1>2 DEF IndInv, SetInv
  <2> QED
    BY <1>1, <2>1, <2>2, <2>3
<1>6. CASE left' > 0 /\ pc' = "inc_delay" /\ module' = module
  <2>1. pc' \in SetLabels /\ pc' \notin ReadLevelLabels /\ pc' \notin ScanLabels
    BY <1>6 DEF SetLabels, ReadLevelLabels, ScanLabels
  <2>2. TypeOK' /\ Flow' /\ ReadInv' /\ WriteInv'
    BY <1>1, <1>2, <1>3, <1>5, <1>6, <2>1, ReadStep
  <2>3. ScanInv'
    BY <1>1, <1>2, <2>1, NoScan DEF IndInv
  <2>4. SetInv'
    <3>1. tool' = "read_level" => InTheMiddle(module, setting.bitslip, setting.delay)'
      BY <1>1, <1>5, <1>6 DEF InTheMiddle, scriptVars
    <3>2. left' \in 1 .. setting.delay
      BY <1>3, <1>4, <1>6
    <3> QED
      BY <1>1, <1>4, <1>5, <1>6, <3>1, <3>2 DEF SetInv
  <2> QED
    BY <2>2, <2>3, <2>4 DEF IndInv
<1>7. CASE left' = 0 /\ NextModule
  <2>1. delay'[module] = setting.delay
    BY <1>3, <1>4, <1>7
  <2>2. tool = "read_level" => InTheMiddle(module, bitslip[module], delay'[module])
    BY <1>5, <2>1
  <2> QED
    BY <1>1, <1>2, <1>5, <1>7, <2>2, ModuleDone
<1> QED
  BY <1>1, <1>6, <1>7

-----------------------------------------------------------------------------
\* The steps of write leveling

\* An increment of a position that has wrapped around is the increment of the
\* sum it stands for.
LEMMA WrapsNext ==
  ASSUME NEW n \in Nat \ {0}, NEW x \in Nat, x + 1 < 2 * n
  PROVE  ((x % n) + 1) % n = (x + 1) % n
<1> DEFINE r == x % n
           y == x + 1
           z == r + 1
<1>1. x < 2 * n /\ y \in Nat /\ y < 2 * n
  OBVIOUS
<1>2. r = IF x < n THEN x ELSE x - n
  BY <1>1, Wraps
<1> HIDE DEF r
<1>3. z \in Nat /\ z < 2 * n
  BY <1>1, <1>2
<1> HIDE DEF y, z
<1>4. y % n = IF y < n THEN y ELSE y - n
  BY <1>1, Wraps
<1>5. z % n = IF z < n THEN z ELSE z - n
  BY <1>3, Wraps
<1>6. z % n = y % n
  <2>1. y = x + 1 /\ z = r + 1
    BY DEF y, z
  <2> QED
    BY <1>1, <1>2, <1>3, <1>4, <1>5, <2>1
<1> QED
  BY <1>6 DEF y, z, r

\* What a tool is at while it writes
LEMMA WriteFacts ==
  ASSUME IndInv, pc \in WriteLabels
  PROVE  /\ module \in Modules /\ sel = {module} /\ tool = "write_level_hardcoded"
         /\ left \in Nat /\ delays \in Nat \ {0} /\ half_sys8x_taps \in 0 .. delays - 1
         /\ WriteConfig[module] \in 0 .. delays - 1
         /\ dq[module] \in 0 .. delays - 1 /\ dqs[module] \in 0 .. delays - 1
         /\ Reset(dq)[module] = 0 /\ Reset(dqs)[module] = 0
         /\ dq[module] + 1 < delays => Increment(dq, delays)[module] = dq[module] + 1
         /\ dqs[module] + 1 < delays => Increment(dqs, delays)[module] = dqs[module] + 1
         /\ Increment(dqs, delays)[module] = (dqs[module] + 1) % delays
<1>1. /\ module \in Modules /\ sel = {module} /\ tool = "write_level_hardcoded"
  BY DEF IndInv, Flow
<1>2. /\ dq \in [Modules -> 0 .. delays - 1] /\ dqs \in [Modules -> 0 .. delays - 1]
      /\ delays \in Nat \ {0} /\ half_sys8x_taps \in 0 .. delays - 1 /\ left \in Nat
  BY Sizes DEF IndInv, TypeOK
<1>3. WriteConfig[module] \in 0 .. delays - 1
  BY <1>1, LevelingAssumption
<1>4. /\ dq[module] \in 0 .. delays - 1 /\ Reset(dq)[module] = 0
      /\ dq[module] + 1 < delays => Increment(dq, delays)[module] = dq[module] + 1
  BY <1>1, <1>2, OtherPositions
<1>5. /\ dqs[module] \in 0 .. delays - 1 /\ Reset(dqs)[module] = 0
      /\ dqs[module] + 1 < delays => Increment(dqs, delays)[module] = dqs[module] + 1
      /\ Increment(dqs, delays)[module] = (dqs[module] + 1) % delays
  BY <1>1, <1>2, OtherPositions
<1> QED
  BY <1>1, <1>2, <1>3, <1>4, <1>5

\* What a step of the loop over modules keeps, which stays with its module or
\* goes on with the next one
LEMMA WriteStep ==
  ASSUME IndInv, pc \in WriteLabels,
         UNCHANGED <<scriptVars, bs, dly, setting, scores, control, sel, readVars,
                     cdly, wlevel_en, eye>>,
         left' \in Nat,
         dq' = dq \/ dq' = Reset(dq) \/ dq' = Increment(dq, delays),
         dqs' = dqs \/ dqs' = Reset(dqs) \/ dqs' = Increment(dqs, delays),
         \/ pc' \in WriteLabels /\ module' = module
         \/ /\ NextModule /\ dq'[module] = WriteConfig[module]
            /\ dqs'[module] = (dq'[module] + half_sys8x_taps) % delays
  PROVE  /\ TypeOK' /\ Flow' /\ ScanInv' /\ SetInv' /\ ReadInv'
         /\ cdly' = Cdly /\ tool' = "write_level_hardcoded"
         /\ \A m \in Modules : m < module' => Strobed(m)'
         /\ pc' \in WriteLabels \cup {"select", "mode_register"}
<1>1. /\ tool = "write_level_hardcoded" /\ tool' = tool
      /\ module \in Modules /\ sel = {module}
  BY DEF IndInv, Flow, scriptVars
<1>2. /\ dq \in [Modules -> 0 .. delays - 1] /\ dqs \in [Modules -> 0 .. delays - 1]
      /\ delays \in Nat \ {0}
  BY Sizes DEF IndInv, TypeOK
<1>3. /\ module \in Nat /\ nmodules \in Nat /\ module < nmodules
      /\ \/ pc' \in WriteLabels /\ module' = module
         \/ /\ module' = module + 1
            /\ pc' = IF module + 1 < nmodules THEN "select" ELSE "mode_register"
  BY <1>1, Sizes, FirstModule DEF NextModule
<1>4. /\ dq' \in [Modules -> 0 .. delays - 1]
      /\ \A m \in Modules : m < module => dq'[m] = dq[m]
  <2>1. /\ Reset(dq) \in [Modules -> 0 .. delays - 1]
        /\ Increment(dq, delays) \in [Modules -> 0 .. delays - 1]
    BY <1>2, Positions
  <2>2. \A m \in Modules : m < module => Reset(dq)[m] = dq[m] /\ Increment(dq, delays)[m] = dq[m]
    BY <1>1, <1>2, OtherPositions
  <2>3. CASE dq' = dq
    BY <1>2, <2>3
  <2>4. CASE dq' = Reset(dq)
    BY <2>1, <2>2, <2>4
  <2>5. CASE dq' = Increment(dq, delays)
    BY <2>1, <2>2, <2>5
  <2> QED
    BY <2>3, <2>4, <2>5
<1>5. /\ dqs' \in [Modules -> 0 .. delays - 1]
      /\ \A m \in Modules : m < module => dqs'[m] = dqs[m]
  <2>1. /\ Reset(dqs) \in [Modules -> 0 .. delays - 1]
        /\ Increment(dqs, delays) \in [Modules -> 0 .. delays - 1]
    BY <1>2, Positions
  <2>2. \A m \in Modules : m < module =>
          Reset(dqs)[m] = dqs[m] /\ Increment(dqs, delays)[m] = dqs[m]
    BY <1>1, <1>2, OtherPositions
  <2>3. CASE dqs' = dqs
    BY <1>2, <2>3
  <2>4. CASE dqs' = Reset(dqs)
    BY <2>1, <2>2, <2>4
  <2>5. CASE dqs' = Increment(dqs, delays)
    BY <2>1, <2>2, <2>5
  <2> QED
    BY <2>3, <2>4, <2>5
<1>6. module' \in Nat
  BY <1>3
<1>7. TypeOK'
  BY <1>1, <1>4, <1>5, <1>6 DEF IndInv, TypeOK, scriptVars, readVars
<1>8. /\ pc' = "select" => module' \in Modules
      /\ pc' = "mode_register" => module' = nmodules
      /\ pc' \in WriteLabels => module' = module
      /\ pc' \in WriteLabels \cup {"select", "mode_register"}
  BY <1>3 DEF Modules, WriteLabels
<1>9. Flow'
  BY <1>1, <1>8 DEF Flow, ReadLevelLabels, SetLabels, WriteLabels, EndLabels
<1>10. ScanInv'
  BY <1>8, NoScan DEF IndInv, ScanLabels, WriteLabels
<1>11. SetInv'
  BY <1>8, NotSetting DEF SetLabels, WriteLabels
<1>12. ReadInv'
  BY <1>1, NotReading
<1>13. cdly' = Cdly
  BY <1>1 DEF IndInv, WriteInv, WriteLabels
<1>14. ASSUME NEW m \in Modules, m < module' PROVE Strobed(m)'
  <2>1. CASE m < module
    <3>1. Strobed(m)
      BY <1>1, <2>1 DEF IndInv, WriteInv
    <3> QED
      BY <1>4, <1>5, <2>1, <3>1 DEF Strobed
  <2>2. CASE ~(m < module)
    <3>1. m = module /\ module' # module
      BY <1>3, <1>14, <2>2, FirstModule
    <3> QED
      BY <3>1 DEF Strobed
  <2> QED
    BY <2>1, <2>2
<1> QED
  BY <1>1, <1>7, <1>8, <1>9, <1>10, <1>11, <1>12, <1>13, <1>14

\* A module is left behind.
LEMMA WriteDone ==
  ASSUME pc' \in {"select", "mode_register"}, tool' = "write_level_hardcoded", cdly' = Cdly,
         \A m \in Modules : m < module' => Strobed(m)'
  PROVE  WriteInv'
BY DEF WriteInv, StrobeOffset, WriteLabels

LEMMA CdlyStep ==
  ASSUME IndInv, cdly_set
  PROVE  IndInv'
<1>1. /\ pc \in {"cdly_rst", "cdly_inc"}
      /\ pc = "cdly_rst" => cdly' = 0 /\ left' = Cdly
      /\ pc = "cdly_inc" => cdly' = (cdly + 1) % delays /\ left' = left - 1
      /\ pc' = IF left' > 0 THEN "cdly_inc" ELSE "select"
      /\ UNCHANGED <<scriptVars, module, bs, dly, setting, scores, control, sel, readVars,
                     dq, dqs, wlevel_en, eye>>
  BY DEF cdly_set
<1>2. tool = "write_level_hardcoded" /\ tool' = tool /\ module = 0
  BY <1>1 DEF IndInv, Flow, scriptVars
<1>3. delays \in Nat \ {0} /\ Cdly \in 0 .. delays - 1
  BY Sizes
<1>4. left' \in 0 .. Cdly /\ cdly' = Cdly - left'
  <2>1. CASE pc = "cdly_rst"
    BY <1>1, <1>3, <2>1
  <2>2. CASE pc = "cdly_inc"
    <3>1. left \in 1 .. Cdly /\ cdly = Cdly - left
      BY <2>2 DEF IndInv, WriteInv
    <3> DEFINE y == cdly + 1
    <3>2. y \in Nat /\ y < delays /\ y < 2 * delays /\ y = Cdly - (left - 1)
      BY <1>3, <3>1
    <3>3. cdly' = y % delays
      BY <1>1, <2>2
    <3> HIDE DEF y
    <3>4. y % delays = y
      BY <1>3, <3>2, Wraps
    <3>5. left' = left - 1
      BY <1>1, <2>2
    <3> QED
      BY <1>3, <3>1, <3>2, <3>3, <3>4, <3>5
  <2> QED
    BY <1>1, <2>1, <2>2
<1>5. TypeOK'
  <2>1. \A n \in Nat \ {0} : \A c \in 0 .. n - 1 : \A x \in 0 .. c :
          x \in Nat /\ c - x \in 0 .. n - 1
    OBVIOUS
  <2>2. left' \in Nat /\ cdly' \in 0 .. delays - 1
    BY <1>3, <1>4, <2>1, Zenon
  <2> QED
    BY <1>1, <2>2 DEF IndInv, TypeOK, scriptVars, readVars
<1>6. Flow'
  BY <1>1, <1>2, FirstModule DEF Flow, ReadLevelLabels, SetLabels, WriteLabels, EndLabels
<1>7. ScanInv'
  BY <1>1, NoScan DEF IndInv, ScanLabels
<1>8. SetInv'
  BY <1>1, NotSetting DEF SetLabels
<1>9. ReadInv'
  BY <1>2, NotReading
<1>10. WriteInv'
  <2>1. \A m \in Modules : ~(m < module')
    BY <1>1, <1>2, FirstModule
  <2>2. /\ pc' = "cdly_inc" => left' \in 1 .. Cdly
        /\ pc' = "select" => cdly' = Cdly
    <3>1. \A n \in Nat \ {0} : \A c \in 0 .. n - 1 : \A x \in 0 .. c :
            IF x > 0 THEN x \in 1 .. c ELSE c - x = c
      OBVIOUS
    <3>2. IF left' > 0 THEN left' \in 1 .. Cdly ELSE Cdly - left' = Cdly
      BY <1>3, <1>4, <3>1, Zenon
    <3> QED
      BY <1>1, <1>4, <3>2
  <2> QED
    BY <1>1, <1>2, <1>4, <2>1, <2>2 DEF WriteInv, StrobeOffset
<1> QED
  BY <1>5, <1>6, <1>7, <1>8, <1>9, <1>10 DEF IndInv

LEMMA WriteResetStep ==
  ASSUME IndInv, write_delay_rst
  PROVE  IndInv'
<1>1. /\ pc \in {"dq_rst", "dqs_rst", "dqs_offset"}
      /\ pc = "dq_rst" => dq' = Reset(dq) /\ dqs' = dqs /\ left' = left /\ pc' = "dqs_rst"
      /\ pc = "dqs_rst" => dqs' = Reset(dqs) /\ left' = half_sys8x_taps
      /\ pc = "dqs_offset" => dqs' = Increment(dqs, delays) /\ left' = left - 1
      /\ pc # "dq_rst" => dq' = dq /\ pc' = IF left' > 0 THEN "dqs_offset" ELSE "write_delay"
      /\ UNCHANGED <<scriptVars, module, bs, dly, setting, scores, control, sel, readVars,
                     cdly, wlevel_en, eye>>
  BY DEF write_delay_rst, Offset
<1>2. pc \in WriteLabels /\ pc' \in WriteLabels
  BY <1>1 DEF WriteLabels
<1>3. /\ module \in Modules /\ left \in Nat
      /\ delays \in Nat \ {0} /\ half_sys8x_taps \in 0 .. delays - 1
      /\ Reset(dq)[module] = 0 /\ Reset(dqs)[module] = 0
      /\ dqs[module] + 1 < delays => Increment(dqs, delays)[module] = dqs[module] + 1
  BY <1>2, WriteFacts
<1>4. pc # "dq_rst" =>
        left' \in 0 .. half_sys8x_taps /\ dqs'[module] = half_sys8x_taps - left'
  <2>1. CASE pc = "dqs_rst"
    BY <1>1, <1>3, <2>1
  <2>2. CASE pc = "dqs_offset"
    <3>1. left \in 1 .. half_sys8x_taps /\ dqs[module] = half_sys8x_taps - left
      BY <2>2 DEF IndInv, WriteInv
    <3>2. dqs[module] + 1 < delays
      BY <1>3, <3>1
    <3>3. dqs'[module] = dqs[module] + 1 /\ left' = left - 1
      BY <1>1, <1>3, <2>2, <3>2
    <3> QED
      BY <1>3, <3>1, <3>3
  <2> QED
    BY <1>1, <2>1, <2>2
<1>5. dq'[module] = 0
  <2>1. CASE pc = "dq_rst"
    BY <1>1, <1>3, <2>1
  <2>2. CASE pc # "dq_rst"
    <3>1. dq[module] = 0
      BY <1>1, <2>2 DEF IndInv, WriteInv
    <3> QED
      BY <1>1, <2>2, <3>1
  <2> QED
    BY <2>1, <2>2
<1>6. left' \in Nat
  BY <1>1, <1>3, <1>4
<1>7. /\ TypeOK' /\ Flow' /\ ScanInv' /\ SetInv' /\ ReadInv'
      /\ cdly' = Cdly /\ tool' = "write_level_hardcoded"
      /\ \A m \in Modules : m < module' => Strobed(m)'
  <2>1. /\ dq' = dq \/ dq' = Reset(dq)
        /\ dqs' = dqs \/ dqs' = Reset(dqs) \/ dqs' = Increment(dqs, delays)
    BY <1>1
  <2> QED
    BY <1>1, <1>2, <1>6, <2>1, WriteStep
<1>8. WriteInv'
  <2>1. /\ pc' \in {"dqs_rst", "dqs_offset", "write_delay"}
        /\ pc' # "dqs_rst" => pc # "dq_rst"
        /\ pc' = "dqs_offset" => left' > 0
        /\ pc' = "write_delay" => ~(left' > 0)
    BY <1>1
  <2>2. pc' = "dqs_offset" =>
          left' \in 1 .. half_sys8x_taps /\ dqs'[module] = half_sys8x_taps - left'
    BY <1>3, <1>4, <2>1
  <2>3. pc' = "write_delay" => dqs'[module] = half_sys8x_taps
    BY <1>3, <1>4, <2>1
  <2> QED
    BY <1>1, <1>5, <1>7, <2>1, <2>2, <2>3 DEF WriteInv, StrobeOffset
<1> QED
  BY <1>7, <1>8 DEF IndInv

LEMMA WriteSetStep ==
  ASSUME IndInv, write_delay_set
  PROVE  IndInv'
<1>1. /\ pc = "write_delay"
      /\ \/ /\ WriteConfig[module] > 0 /\ pc' = "dq_inc" /\ left' = WriteConfig[module]
            /\ module' = module
         \/ WriteConfig[module] = 0 /\ NextModule /\ left' = left
      /\ UNCHANGED <<scriptVars, bs, dly, setting, scores, control, sel, readVars, writeVars, eye>>
  BY DEF write_delay_set
<1>2. pc \in WriteLabels
  BY <1>1 DEF WriteLabels
<1>3. /\ module \in Modules /\ left \in Nat
      /\ delays \in Nat \ {0} /\ half_sys8x_taps \in 0 .. delays - 1
      /\ WriteConfig[module] \in 0 .. delays - 1
  BY <1>2, WriteFacts
<1>4. dq[module] = 0 /\ dqs[module] = half_sys8x_taps
  BY <1>1 DEF IndInv, WriteInv
<1>5. dqs[module] = (dq[module] + half_sys8x_taps) % delays
  <2>1. half_sys8x_taps % delays = half_sys8x_taps
    <3>1. half_sys8x_taps \in Nat /\ half_sys8x_taps < delays /\ half_sys8x_taps < 2 * delays
      BY <1>3
    <3> QED
      BY <1>3, <3>1, Wraps
  <2>2. 0 + half_sys8x_taps = half_sys8x_taps
    BY <1>3
  <2> QED
    BY <1>4, <2>1, <2>2
<1>6. left' \in Nat
  BY <1>1, <1>3
<1>7. CASE /\ WriteConfig[module] > 0 /\ pc' = "dq_inc" /\ left' = WriteConfig[module]
           /\ module' = module
  <2>1. /\ TypeOK' /\ Flow' /\ ScanInv' /\ SetInv' /\ ReadInv'
        /\ cdly' = Cdly /\ tool' = "write_level_hardcoded"
        /\ \A m \in Modules : m < module' => Strobed(m)'
    <3>1. pc' \in WriteLabels
      BY <1>7 DEF WriteLabels
    <3> QED
      BY <1>1, <1>2, <1>6, <1>7, <3>1, WriteStep DEF writeVars
  <2>2. left' \in 1 .. WriteConfig[module] /\ dq[module] = WriteConfig[module] - left'
    BY <1>3, <1>4, <1>7
  <2>3. WriteInv'
    BY <1>1, <1>5, <1>7, <2>1, <2>2 DEF WriteInv, StrobeOffset, writeVars
  <2> QED
    BY <2>1, <2>3 DEF IndInv
<1>8. CASE WriteConfig[module] = 0 /\ NextModule /\ left' = left
  <2>1. dq'[module] = WriteConfig[module] /\ dqs'[module] = (dq'[module] + half_sys8x_taps) % delays
    BY <1>1, <1>4, <1>5, <1>8 DEF writeVars
  <2>2. /\ TypeOK' /\ Flow' /\ ScanInv' /\ SetInv' /\ ReadInv'
        /\ cdly' = Cdly /\ tool' = "write_level_hardcoded"
        /\ \A m \in Modules : m < module' => Strobed(m)'
    BY <1>1, <1>2, <1>6, <1>8, <2>1, WriteStep DEF writeVars
  <2>3. tool = "write_level_hardcoded"
    BY <1>2, WriteFacts
  <2>4. pc' \in {"select", "mode_register"}
    BY <1>8, <2>3 DEF NextModule
  <2> QED
    BY <2>2, <2>4, WriteDone DEF IndInv
<1> QED
  BY <1>1, <1>7, <1>8

LEMMA WriteIncrementStep ==
  ASSUME IndInv, write_delay_inc
  PROVE  IndInv'
<1>1. /\ pc \in {"dq_inc", "dqs_inc"}
      /\ UNCHANGED <<scriptVars, bs, dly, setting, scores, control, sel, readVars,
                     cdly, wlevel_en, eye>>
  BY DEF write_delay_inc
<1>2. pc \in WriteLabels
  BY <1>1 DEF WriteLabels
<1>3. /\ module \in Modules /\ left \in Nat /\ tool = "write_level_hardcoded"
      /\ delays \in Nat \ {0} /\ half_sys8x_taps \in 0 .. delays - 1
      /\ WriteConfig[module] \in 0 .. delays - 1
      /\ dq[module] \in 0 .. delays - 1
      /\ dq[module] + 1 < delays => Increment(dq, delays)[module] = dq[module] + 1
      /\ Increment(dqs, delays)[module] = (dqs[module] + 1) % delays
  BY <1>2, WriteFacts
<1>4. left \in 1 .. WriteConfig[module]
  BY <1>1 DEF IndInv, WriteInv
<1>5. CASE /\ pc = "dq_inc" /\ pc' = "dqs_inc" /\ dq' = Increment(dq, delays)
           /\ UNCHANGED <<dqs, left, module>>
  <2>1. /\ dq[module] = WriteConfig[module] - left
        /\ dqs[module] = (dq[module] + half_sys8x_taps) % delays
    BY <1>5 DEF IndInv, WriteInv
  <2>2. /\ TypeOK' /\ Flow' /\ ScanInv' /\ SetInv' /\ ReadInv'
        /\ cdly' = Cdly /\ tool' = "write_level_hardcoded"
        /\ \A m \in Modules : m < module' => Strobed(m)'
    <3>1. pc' \in WriteLabels
      BY <1>5 DEF WriteLabels
    <3> QED
      BY <1>1, <1>2, <1>3, <1>5, <3>1, WriteStep
  <2>3. dq[module] + 1 < delays
    BY <1>3, <1>4, <2>1
  <2>4. dq'[module] = dq[module] + 1
    BY <1>3, <1>5, <2>3
  <2>5. dq'[module] = WriteConfig[module] - left + 1
    BY <2>1, <2>4
  <2>6. dq'[module] - 1 = dq[module]
    BY <1>3, <2>4
  <2>7. WriteInv'
    BY <1>4, <1>5, <2>1, <2>2, <2>5, <2>6 DEF WriteInv, StrobeOffset
  <2> QED
    BY <2>2, <2>7 DEF IndInv
<1>6. CASE /\ pc = "dqs_inc" /\ dqs' = Increment(dqs, delays) /\ dq' = dq
           /\ left' = left - 1
           /\ \/ left' > 0 /\ pc' = "dq_inc" /\ module' = module
              \/ left' = 0 /\ NextModule
  <2>1. /\ dq[module] = WriteConfig[module] - left + 1
        /\ dqs[module] = (dq[module] - 1 + half_sys8x_taps) % delays
    BY <1>6 DEF IndInv, WriteInv
  <2>2. dq[module] = WriteConfig[module] - left' /\ left' \in Nat
    BY <1>3, <1>4, <1>6, <2>1
  <2>3. dqs'[module] = (dq[module] + half_sys8x_taps) % delays
    <3> DEFINE x == dq[module] - 1 + half_sys8x_taps
    <3>1. dq[module] >= 1
      BY <1>3, <1>4, <2>1
    <3>2. x \in Nat /\ x + 1 < 2 * delays /\ x + 1 = dq[module] + half_sys8x_taps
      BY <1>3, <3>1
    <3>3. dqs'[module] = ((x % delays) + 1) % delays
      BY <1>3, <1>6, <2>1
    <3> HIDE DEF x
    <3>4. ((x % delays) + 1) % delays = (x + 1) % delays
      BY <1>3, <3>2, WrapsNext
    <3> QED
      BY <3>2, <3>3, <3>4
  <2>4. CASE left' > 0 /\ pc' = "dq_inc" /\ module' = module
    <3>1. /\ TypeOK' /\ Flow' /\ ScanInv' /\ SetInv' /\ ReadInv'
          /\ cdly' = Cdly /\ tool' = "write_level_hardcoded"
          /\ \A m \in Modules : m < module' => Strobed(m)'
      <4>1. pc' \in WriteLabels
        BY <2>4 DEF WriteLabels
      <4> QED
        BY <1>1, <1>2, <1>6, <2>2, <2>4, <4>1, WriteStep
    <3>2. left' \in 1 .. WriteConfig[module]
      BY <1>3, <1>4, <1>6, <2>4
    <3>3. WriteInv'
      BY <1>6, <2>2, <2>3, <2>4, <3>1, <3>2 DEF WriteInv, StrobeOffset
    <3> QED
      BY <3>1, <3>3 DEF IndInv
  <2>5. CASE left' = 0 /\ NextModule
    <3>1. dq'[module] = WriteConfig[module]
      BY <1>3, <1>6, <2>2, <2>5
    <3>2. dqs'[module] = (dq'[module] + half_sys8x_taps) % delays
      BY <1>6, <2>3
    <3>3. /\ TypeOK' /\ Flow' /\ ScanInv' /\ SetInv' /\ ReadInv'
          /\ cdly' = Cdly /\ tool' = "write_level_hardcoded"
          /\ \A m \in Modules : m < module' => Strobed(m)'
      BY <1>1, <1>2, <1>6, <2>2, <2>5, <3>1, <3>2, WriteStep
    <3>4. pc' \in {"select", "mode_register"}
      BY <1>3, <2>5 DEF NextModule
    <3> QED
      BY <3>3, <3>4, WriteDone DEF IndInv
  <2> QED
    BY <1>6, <2>4, <2>5
<1> QED
  BY <1>5, <1>6 DEF write_delay_inc

LEMMA WriteLevelingStep ==
  ASSUME IndInv, write_leveling
  PROVE  IndInv'
<1>1. /\ \/ pc = "mode_register" /\ pc' = "wlevel_en" /\ wlevel_en' = wlevel_en
         \/ pc = "wlevel_en" /\ pc' = "end" /\ wlevel_en' = (tool = "write_leveling_on")
      /\ UNCHANGED <<scriptVars, module, bs, dly, left, setting, scores, sel, readVars,
                     dq, dqs, cdly, eye>>
  BY DEF write_leveling
<1>2. /\ tool \in {"write_level_hardcoded", "write_leveling_on"} /\ tool' = tool
      /\ pc \in EndLabels /\ pc' \in {"wlevel_en", "end"}
  BY <1>1 DEF IndInv, Flow, EndLabels, scriptVars
<1>3. TypeOK'
  <2>1. wlevel_en' \in BOOLEAN
    BY <1>1 DEF IndInv, TypeOK
  <2> QED
    BY <1>1, <2>1 DEF IndInv, TypeOK, scriptVars, readVars
<1>4. Flow'
  <2>1. tool = "write_level_hardcoded" => module = nmodules
    BY <1>2 DEF IndInv, Flow
  <2> QED
    BY <1>1, <1>2, <2>1 DEF Flow, ReadLevelLabels, SetLabels, WriteLabels, EndLabels
<1>5. ScanInv'
  BY <1>1, NoScan DEF IndInv, ScanLabels
<1>6. SetInv'
  BY <1>2, NotSetting DEF SetLabels
<1>7. ReadInv'
  BY <1>2, NotReading
<1>8. WriteInv'
  <2>1. tool = "write_level_hardcoded" =>
          /\ cdly = Cdly /\ \A m \in Modules : m < module => Strobed(m)
    BY <1>2 DEF IndInv, WriteInv, EndLabels
  <2>2. tool = "write_level_hardcoded" =>
          /\ cdly' = Cdly /\ \A m \in Modules : m < module' => Strobed(m)'
    BY <1>1, <2>1 DEF Strobed
  <2>3. tool = "write_level_hardcoded" /\ pc' = "end" => ~wlevel_en'
    BY <1>1
  <2> QED
    BY <1>2, <2>2, <2>3 DEF WriteInv, StrobeOffset
<1> QED
  BY <1>3, <1>4, <1>5, <1>6, <1>7, <1>8 DEF IndInv

-----------------------------------------------------------------------------
\* The theorems

LEMMA InitIndInv == Init => IndInv
<1> SUFFICES ASSUME Init PROVE IndInv
  OBVIOUS
<1>1. /\ tool = "" /\ finished = "" /\ pc = "end" /\ module = 0 /\ scores = << >>
  BY DEF Init
<1>2. TypeOK
  <2>1. /\ 0 \in 0 .. bitslips - 1 /\ 0 \in 0 .. delays - 1 /\ 0 \in Nat
    BY Sizes
  <2>2. setting.bitslip = 0 /\ setting.delay = 0
    BY DEF Init
  <2> QED
    BY <2>1, <2>2 DEF Init, TypeOK
<1>3. Flow
  BY <1>1 DEF Flow, ReadLevelLabels, SetLabels, WriteLabels, EndLabels
<1>4. ScanInv
  <2>1. DOMAIN scores = {}
    <3>1. scores = << >>
      BY DEF Init
    <3> QED
      BY <3>1
  <2>2. Scored = {}
    BY <1>1 DEF Scored
  <2> QED
    BY <1>1, <2>1, <2>2 DEF ScanInv, ScoresTrue
<1>5. SetInv
  BY <1>1 DEF SetInv, SetLabels
<1>6. ReadInv
  BY <1>1 DEF ReadInv, EyeMargin
<1>7. WriteInv
  BY <1>1 DEF WriteInv, StrobeOffset
<1> QED
  BY <1>2, <1>3, <1>4, <1>5, <1>6, <1>7 DEF IndInv

LEMMA StutterStep ==
  ASSUME IndInv, UNCHANGED vars
  PROVE  IndInv'
<1>1. UNCHANGED <<tool, tools, finished, pc, module, bs, dly, left, setting, scores, control,
                  wlevel_en, sel, bitslip, delay, dq, dqs, cdly, eye>>
  BY DEF vars, scriptVars, readVars, writeVars
<1>2. TypeOK'
  BY <1>1 DEF IndInv, TypeOK
<1>3. Flow'
  BY <1>1 DEF IndInv, Flow
<1>4. ScanInv'
  BY <1>1 DEF IndInv, ScanInv, Scored, ScoredDelays, ScoresTrue
<1>5. SetInv'
  BY <1>1 DEF IndInv, SetInv, InTheMiddle
<1>6. ReadInv'
  BY <1>1, ZenonT(40) DEF IndInv, ReadInv, EyeMargin, Leveled, InTheMiddle
<1>7. WriteInv'
  BY <1>1 DEF IndInv, WriteInv, StrobeOffset, Strobed
<1> QED
  BY <1>2, <1>3, <1>4, <1>5, <1>6, <1>7 DEF IndInv

LEMMA NextIndInv == IndInv /\ [Next]_vars => IndInv'
<1> SUFFICES ASSUME IndInv, [Next]_vars PROVE IndInv'
  OBVIOUS
<1>1. CASE \E t \in Tools : Start(t)
  BY <1>1, StartStep
<1>2. CASE Finish
  BY <1>2, FinishStep
<1>3. CASE Kill
  BY <1>3, KillStep
<1>4. CASE sdram_software_control
  BY <1>4, ControlStep
<1>5. CASE sdram_init
  BY <1>5, InitialisationStep
<1>6. CASE delay_select_modules
  BY <1>6, SelectStep
<1>7. CASE ReadLevel
  BY <1>7, LevelStep, ScanStep, TestStep, NextDelayStep, NextBitslipStep, BestStep,
     SetBitslipStep, SetDelayStep DEF ReadLevel
<1>8. CASE WriteLevel
  BY <1>8, CdlyStep, WriteResetStep, WriteSetStep, WriteIncrementStep, WriteLevelingStep
     DEF WriteLevel
<1>9. CASE UNCHANGED vars
  BY <1>9, StutterStep
<1> QED
  BY <1>1, <1>2, <1>3, <1>4, <1>5, <1>6, <1>7, <1>8, <1>9 DEF Next

LEMMA Invariance == Spec => []IndInv
BY InitIndInv, NextIndInv, PTL DEF Spec

\* Every score of read_level_module is that of the setting it is filed under,
\* wherever a tool that was killed has left the delays and bit slips of the
\* PHY: the count of increments of the script is the position of the PHY.
THEOREM ScoresAreTrue == Spec => []ScoresTrue
<1>1. IndInv => ScoresTrue
  BY DEF IndInv, ScanInv
<1> QED
  BY <1>1, Invariance, PTL

\* A read_level tool that ends leaves every module that has an eye inside it,
\* in the middle of a window that is at most one delay shorter than the
\* longest run of its delays at any bit slip.
THEOREM LeveledInTheMiddle == Spec => []EyeMargin
<1>1. IndInv => EyeMargin
  BY DEF IndInv, ReadInv
<1> QED
  BY <1>1, Invariance, PTL

\* write_level_hardcoded leaves every strobe half a clock behind its data,
\* around the end of the delay line too, and write leveling off.
THEOREM StrobesBehind == Spec => []StrobeOffset
<1>1. IndInv => StrobeOffset
  BY DEF IndInv, WriteInv
<1> QED
  BY <1>1, Invariance, PTL

=============================================================================
