---------------------------- MODULE DefaultPoller ----------------------------
(* Poller::NewDefaultPoller: a loop polls with EpollPoller or, when the       *)
(* environment says so, with PollPoller.  Channels and callers are the same.  *)
EXTENDS EpollPoller, Integers, Sequences

CONSTANT MaxDisabled    \* bound of PollPoller

ASSUME PollAssumption == Fds \subseteq Nat /\ MaxDisabled \in Nat

VARIABLES
    pollerType,     \* the poller that was made
    pollfds, fdIdx  \* PollPoller's array and index

pollVars == <<pollfds, fdIdx>>
epollVars == <<status, epoll, slots>>
pollerVars == <<vars, pollVars, pollerType>>

PP == INSTANCE PollPoller

NewDefaultPoller ==
    /\ pollerType \in {"EpollPoller", "PollPoller"}
    /\ Init
    /\ PP!Init

EpollNext == pollerType = "EpollPoller" /\ Next /\ UNCHANGED pollVars
PollNext == pollerType = "PollPoller" /\ PP!Next /\ UNCHANGED epollVars

PollerNext == (EpollNext \/ PollNext) /\ UNCHANGED pollerType

PollerSpec == NewDefaultPoller /\ [][PollerNext]_pollerVars

-----------------------------------------------------------------------------
(* Properties                                                                 *)

(* EpollPoller keeps status and epoll set in step: see StatusInv.             *)
EpollStatusInv == pollerType = "EpollPoller" => StatusInv

(* PollPoller keeps array and index in step: see IndexInv.                    *)
PollIndexInv == pollerType = "PollPoller" => PP!IndexInv

(* What the kernel watches for the channels, by the poller that was made.     *)
KernelWatch == IF pollerType = "EpollPoller" THEN Watch ELSE PP!Watch

DP == INSTANCE Poller
        WITH Interests <- Events, registered <- channels, watch <- KernelWatch

(* Whichever poller was made, the kernel watches exactly what the channels    *)
(* are interested in, at every moment.                                        *)
ImplementsEitherPoller == DP!Spec
=============================================================================
