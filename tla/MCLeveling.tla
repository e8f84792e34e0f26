------------------------------ MODULE MCLeveling ------------------------------
EXTENDS Leveling, Sequences

Delays == 0 .. 3

\* Any eye at bit slip 0 of the first module, with windows at bit slip 1 that
\* are shorter, as long, or longer; two eyes of the second module.
MCEyes ==
  {[m \in {0, 1} |-> IF m = 0 THEN {<<0, d>> : d \in a} \cup {<<1, d>> : d \in b}
                     ELSE {<<1, d>> : d \in c}] :
     a \in SUBSET Delays, b \in {{}, {2, 3}, {0, 1}}, c \in {{}, {0, 1, 2}}}

MCReadConfig == [m \in {0, 1} |-> [bitslip |-> m, delay |-> 2 + m]]
MCWriteConfig == [m \in {0, 1} |-> 1 + 2 * m]
===============================================================================
