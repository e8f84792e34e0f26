----------------------------- MODULE DramAddress -----------------------------
(***************************************************************************)
(* DRAMAddressConverter (scripts/utils.py) between the (bank, row, column) *)
(* coordinates of the DRAM, the byte addresses of the Wishbone bus and the *)
(* word addresses of the DMA ports, for the one supported mapping          *)
(* ROW_BANK_COL; and, to compare it with, the mapping the DRAM controller  *)
(* itself applies to a port word (litedram, external).                     *)
(***************************************************************************)
EXTENDS Integers, FiniteSetsExt

CONSTANTS
  colbits, rowbits, bankbits,   \* geometry of the DRAM
  address_align,                \* log2 of the burst length
  dram_port_width,              \* bits of a port word (nphases * dfi_databits)
  bus_width,                    \* bits of a bus word
  base                          \* bus address of main_ram

ASSUME DramAddressAssumption ==
  /\ {colbits, rowbits, bankbits, address_align, base} \subseteq Nat
  /\ address_align <= colbits
  /\ \E k \in 0..10, j \in 0..10 : /\ bus_width = 8 * 2^j
                                   /\ dram_port_width = bus_width * 2^k

Banks == 0..(2^bankbits - 1)
RowNumbers == 0..(2^rowbits - 1)
Cols == 0..(2^colbits - 1)

Log2(n) == CHOOSE k \in 0..n : 2^k = n

ShiftLeft(a, s) == IF s > 0 THEN a * 2^s ELSE a \div 2^(-s)

\* The assertions of _encode.
Encodable(bank, row, col) == bank \in Banks /\ row \in RowNumbers /\ col \in Cols

Encode(bank, row, col) == row * 2^(bankbits + colbits) + bank * 2^colbits + col

BusShift ==
  Log2(dram_port_width \div bus_width) + Log2(bus_width \div 8) - address_align

EncodeBus(bank, row, col) == base + ShiftLeft(Encode(bank, row, col), BusShift)

EncodeDma(bank, row, col) == Encode(bank, row, col) \div 2^address_align

DecodeSwapped(a) == [bank |-> (a \div 2^(rowbits + colbits)) % 2^bankbits,
                     row  |-> (a \div 2^colbits) % 2^rowbits,
                     col  |-> a % 2^colbits]

Decode(a) == [bank |-> (a \div 2^colbits) % 2^bankbits,
              row  |-> (a \div 2^(bankbits + colbits)) % 2^rowbits,
              col  |-> a % 2^colbits]

DecodeBus(address) == Decode(ShiftLeft(address - base, -BusShift))

DecodeDma(address) == Decode(address * 2^address_align)

-----------------------------------------------------------------------------
\* What the controller does with a port word: the low part of its address is
\* the burst within the row, then come the bank and the row.
PortBytes == dram_port_width \div 8
BurstsPerRow == 2^(colbits - address_align)
ControllerBank(portword) == (portword \div BurstsPerRow) % 2^bankbits
ControllerRow(portword) == portword \div (BurstsPerRow * 2^bankbits)
PortWordAt(address) == (address - base) \div PortBytes
RowBytes == BurstsPerRow * PortBytes

\* Laws of powers for these widths, of which the provers know nothing.
ASSUME PowersOfTwo ==
  /\ \A k \in {colbits - address_align, rowbits, bankbits, address_align} :
       2^k \in Nat \ {0}
  /\ 2^colbits = 2^(colbits - address_align) * 2^address_align
  /\ 2^(bankbits + colbits) = 2^bankbits * 2^colbits
  /\ 2^(rowbits + bankbits) = 2^rowbits * 2^bankbits /\ 2^0 = 1
  /\ dram_port_width \in Nat /\ dram_port_width % bus_width = 0
  /\ PortBytes \in Nat \ {0} /\ BusShift \in Int
  /\ BusShift > 0  => 2^BusShift \in Nat /\ PortBytes = 2^BusShift * 2^address_align
  /\ BusShift > 0  => 2^BusShift = 2 \/ 2^BusShift % 4 = 0
  /\ BusShift <= 0 => 2^(-BusShift) \in Nat /\ 2^address_align = 2^(-BusShift) * PortBytes
=============================================================================
