------------------------------- MODULE Acceptor -------------------------------
(* net/Acceptor.cpp over net/Socket.cpp and net/SocketHelper.cpp: the         *)
(* listening socket, whose backlog the kernel fills, and the descriptors      *)
(* accept hands out, of which the process may hold only so many.              *)
EXTENDS Naturals, FiniteSetsExt

VARIABLES
    isListening,
    acceptable,     \* acceptChannel_ has interest in reads
    backlog,        \* how many connections the kernel has completed, not yet accepted
    fdLimit         \* how many connections the process has descriptors for

NoFd == 0

AcceptorTypeOK ==
    /\ isListening \in BOOLEAN /\ acceptable \in BOOLEAN
    /\ backlog \in Nat
    /\ fdLimit \in Nat

AcceptorInit ==
    /\ isListening = FALSE /\ acceptable = FALSE
    /\ backlog = 0

(* A second call returns early.                                               *)
Listen ==
    /\ ~isListening
    /\ isListening' = TRUE /\ acceptable' = TRUE
    /\ UNCHANGED <<backlog, fdLimit>>

(* The kernel completes a peer's connection.                                  *)
Arrive ==
    /\ isListening
    /\ backlog' = backlog + 1
    /\ UNCHANGED <<isListening, acceptable, fdLimit>>

(* The lowest free descriptor, when the ones in open are in use.              *)
Accept(open) ==
    LET free == (1..fdLimit) \ open IN IF free = {} THEN NoFd ELSE Min(free)

Readable == acceptable /\ backlog > 0

(* HandleRead takes the oldest connection, for the new-connection callback.   *)
HandleReadAccepts(open) ==
    /\ Readable
    /\ Accept(open) # NoFd
    /\ backlog' = backlog - 1
    /\ UNCHANGED <<isListening, acceptable, fdLimit>>

(* accept returned -1: nothing is done, and the next poll reports the         *)
(* listening socket again.                                                    *)
HandleReadFails(open) ==
    /\ Readable
    /\ Accept(open) = NoFd
    /\ UNCHANGED <<isListening, acceptable, backlog, fdLimit>>
=============================================================================
