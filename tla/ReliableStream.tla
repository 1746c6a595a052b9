--------------------------- MODULE ReliableStream ---------------------------
(***************************************************************************)
(* What one direction of a dnscat2 session promises its two drivers: the   *)
(* bytes the writer's driver produces reach the reader's driver in order,  *)
(* each exactly once.  The reader only ever holds a prefix of what was     *)
(* written; nothing is invented, skipped, repeated or reordered.           *)
(***************************************************************************)
EXTENDS Naturals, Sequences

CONSTANT Bytes          \* the values a byte of the stream may take

VARIABLES written,      \* everything the writer's driver produced so far
          read          \* everything handed to the reader's driver so far

Init == written = <<>> /\ read = <<>>

\* The writer's driver produces one more byte.
Write == \E b \in Bytes : written' = Append(written, b) /\ UNCHANGED read

\* The reader is handed the next k bytes, k >= 1, of what was written.
Deliver ==
    /\ \E k \in 1..(Len(written) - Len(read)) :
          read' = SubSeq(written, 1, Len(read) + k)
    /\ UNCHANGED written

Spec == Init /\ [][Write \/ Deliver]_<<written, read>>

\* The reader's stream is always a prefix of the writer's.
ReadIsPrefix == read = SubSeq(written, 1, Len(read))
=============================================================================
