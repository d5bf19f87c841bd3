----------------------------- MODULE MCEventLoop -----------------------------
(* A small instance of EventLoop for TLC: two functors, two foreign threads,  *)
(* one channel besides the wakeup channel.                                    *)
EXTENDS EventLoop

CONSTANTS f1, f2, t1, t2, loop, chan, wakeup, none

MCTasks == {f1, f2}
MCThreads == {t1, t2}
MCChannels == {chan}
=============================================================================
