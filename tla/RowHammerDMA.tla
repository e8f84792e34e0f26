---------------------------- MODULE RowHammerDMA ----------------------------
(***************************************************************************)
(* The DMA attacker of gateware/rowhammer.py: while enabled it reads       *)
(* address1 and address2 in turn, the lowest bit of its access counter     *)
(* choosing between them. The host reads the counter while it runs and     *)
(* clears it by reading it while it is disabled.                           *)
(***************************************************************************)
EXTENDS Naturals

CONSTANTS
  CountMod      \* modulus of the counter (2^32 in the code)

ASSUME CountModAssumption == CountMod \in Nat \ {0} /\ CountMod % 2 = 0

VARIABLES
  enabled,      \* CSR enabled
  addresses,    \* CSRs address1 and address2
  counter       \* CSR count

dmaVars == <<enabled, addresses, counter>>

DMAInit ==
  /\ enabled = FALSE
  /\ addresses = [i \in 1..2 |-> 0]
  /\ counter = 0

\* The register whose address dma.sink presents.
Selected == 1 + (counter % 2)

\* The DMA accepts a read: dma.sink.valid is enabled.
DMARead ==
  /\ enabled
  /\ counter' = (counter + 1) % CountMod
  /\ UNCHANGED <<enabled, addresses>>

\* The value of count after the host has read it.
CounterAfterRead == IF enabled THEN counter ELSE 0
=============================================================================
