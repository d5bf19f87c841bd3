------------------------------- MODULE ByteFifo -------------------------------
(* What net/Buffer.h promises: bytes come out in the order they went in, none *)
(* lost, none invented, however the storage behind them moves and grows.      *)
EXTENDS Naturals, Sequences

CONSTANT Bytes

VARIABLES
    queue,      \* bytes appended and not yet retrieved
    moved       \* the bytes that the last operation put in or handed out

vars == <<queue, moved>>

Init == queue = << >> /\ moved = << >>

Put == /\ moved' \in Seq(Bytes)
       /\ queue' = queue \o moved'

(* retrieveAsString hands out the first bytes.                                *)
Take(n) == /\ moved' = SubSeq(queue, 1, n)
           /\ queue' = SubSeq(queue, n + 1, Len(queue))

(* retrieve and retrieveAll throw them away.                                  *)
Drop(n) == /\ moved' = << >>
           /\ queue' = SubSeq(queue, n + 1, Len(queue))

Next == \/ Put
        \/ \E n \in 0..Len(queue) : Take(n) \/ Drop(n)

Spec == Init /\ [][Next]_vars
=============================================================================
