----------------------------- MODULE MCMemtest -----------------------------
EXTENDS HwMemtest
CONSTANT First, Second \* the two hammered DMA addresses
MCRowTuple == <<First, Second>>
=============================================================================
