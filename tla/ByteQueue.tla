----------------------------- MODULE ByteQueue ------------------------------
(***************************************************************************)
(* What a pipe promises: a queue of at most PIPESIZE bytes, from which     *)
(* bytes leave in the order in which they came.                            *)
(***************************************************************************)
EXTENDS Naturals, Sequences

CONSTANTS Byte, PIPESIZE

VARIABLE q

QueueInit == q = <<>>

Put == Len(q) < PIPESIZE /\ \E ch \in Byte : q' = Append(q, ch)

Get == q # <<>> /\ q' = Tail(q)

QueueSpec == QueueInit /\ [][Put \/ Get]_q
=============================================================================
