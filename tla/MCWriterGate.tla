---------------------------- MODULE MCWriterGate ----------------------------
(* Two tasks of one store for WriterGate. *)
EXTENDS WriterGate
CONSTANTS t1, t2, history
OneStore == [t \in Tasks |-> history]
=============================================================================
