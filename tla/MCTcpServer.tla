----------------------------- MODULE MCTcpServer -----------------------------
(* TcpServer for TLC: two connections, all in the base loop, in one loop of   *)
(* the pool, or in two; with descriptors for one of them, or for both.        *)
EXTENDS TcpServer

CONSTANTS io1, io2

MCThreadPools == {<< >>, <<io1>>, <<io1, io2>>}
=============================================================================
