----------------------------- MODULE MCWriter -----------------------------
(* Pattern memories of three words over four DMA words of DRAM. *)
EXTENDS BistWriter

Base == [modulo |-> FALSE, count |-> 3, mem_mask |-> 3, data_mask |-> 0,
         data_div |-> 0, addr |-> [i \in PatternIndices |-> 0],
         data |-> [i \in PatternIndices |-> 0]]

\* hw_memset from address 0 and from address 1, a masked pattern of two
\* entries and a pattern of two entries taken modulo two.
MCConfigs ==
  LET pattern(f) == [i \in PatternIndices |-> f[i + 1]]
  IN  { [Base EXCEPT !.data[0] = 1],
        [Base EXCEPT !.data[0] = 1, !.addr[0] = 1],
        [Base EXCEPT !.count = 3, !.mem_mask = 0, !.data_mask = 1,
                     !.addr = pattern(<<2, 1, 0>>), !.data = pattern(<<1, 0, 1>>)],
        [Base EXCEPT !.count = 4, !.mem_mask = 0, !.modulo = TRUE, !.data_div = 1,
                     !.addr = pattern(<<3, 1, 0>>), !.data = pattern(<<0, 1, 1>>)] }
=============================================================================
