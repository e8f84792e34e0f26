--------------------------- MODULE MCPayloadHost ---------------------------
EXTENDS PayloadHost

Read2 == I("READ", 2)
Stop == I("NOOP", 0)

\* Two reads; as many as fill the scratchpad; four in a loop, which overflow
\* it; a read whose data arrive too late.
MCPrograms ==
  {<<Read2, Read2, I("NOOP", 3), Stop>>,
   <<Read2, I("ACT", 1), Loop(2, 2), I("NOOP", 3), Stop>>,
   <<I("PRE", 1), Read2, Loop(3, 1), I("NOOP", 3), Stop>>,
   <<Read2, Stop>>}

MCResident == {<< >>}

=============================================================================
