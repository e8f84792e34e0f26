------------------------------ MODULE MCHammer ------------------------------
(* Jobs for generated payloads, with narrow COUNT and TIMESLICE fields. *)
EXTENDS HammerPayload

Job(count, n, trefi, trfc, ref) ==
  [read_count |-> count, rows |-> n, tRAS |-> 2, tRP |-> 2,
   tREFI |-> trefi, tRFC |-> trfc, refresh |-> ref]

\* One to three rows, counts that need up to four loops, one to three
\* activations for each refresh interval.
AllJobs ==
  {Job(c, n, t, 3, r) : c \in 1 .. 13, n \in 1 .. 3, t \in {8, 12, 15}, r \in BOOLEAN}

\* tRFC does not fit TIMESLICE, but only NOOPs are that long without refresh.
LongNoops == {Job(c, n, 16, 6, FALSE) : c \in {3, 7}, n \in {1, 2}}

\* tRFC does not fit TIMESLICE, and no loop body is repeated.
Unrepeated == {Job(3, 1, 16, 6, TRUE), Job(1, 2, 16, 6, TRUE)}

MCJobs == AllJobs \cup LongNoops \cup Unrepeated

\* tRFC does not fit TIMESLICE.
LongRefreshJobs == {Job(6, 3, 13, 5, TRUE)}
=============================================================================
