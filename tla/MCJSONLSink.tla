----------------------------- MODULE MCJSONLSink -----------------------------
(* Model-checking instances of JSONLSink: lines of 2 bytes, and a long one *)
(* that is just as long as the limit of JSONLSinkFaults, or longer than    *)
(* that of JSONLSinkRotation.                                              *)
EXTENDS JSONLSink, TLC

MCRecordBytes == [r \in Records |-> IF r = "long" THEN 3 ELSE 2]

MCRecordBytesOversize == [r \in Records |-> IF r = "long" THEN 5 ELSE 2]

WriterSymmetry == Permutations(Writers)

=============================================================================
