------------------------------- MODULE Channel -------------------------------
(* net/Channel.cpp: the events of interest of one channel, as sets.  A        *)
(* channel tells the poller of every change; its user enables an event first, *)
(* disables what is enabled, and removes the channel when nothing is left.    *)
Events == {"read", "write"}

EnableReadEvent(events) == events \cup {"read"}
DisableReadEvent(events) == events \ {"read"}
EnableWriteEvent(events) == events \cup {"write"}
DisableWriteEvent(events) == events \ {"write"}
DisableAllEvent(events) == {}

IsNoneEvent(events) == events = {}

(* The values events_ may take next, each followed by Channel::update.        *)
Updates(events) ==
    {EnableReadEvent(events), EnableWriteEvent(events)}
        \cup IF IsNoneEvent(events) THEN {}
             ELSE {DisableReadEvent(events), DisableWriteEvent(events), DisableAllEvent(events)}
=============================================================================
