---------------------------- MODULE EPollPoller ----------------------------
(***************************************************************************)
(* net/Channel and net/EPollPoller: how the interest of a channel reaches  *)
(* epoll.  The poller is a value (a record) and the operations of Channel  *)
(* are operators on it, so that a handler that does several of them is one *)
(* step.  Fields:                                                          *)
(*   events    Channel::events_, a subset of {"r", "w"}                    *)
(*   index     Channel::index_                                             *)
(*   channels  Poller::channels_, the channel a descriptor maps to         *)
(*   ptr, mask what the kernel holds: the channel pointer and the event    *)
(*             mask registered for a descriptor                            *)
(*   fatal     epoll_ctl refused an ADD or a MOD: LOG_FATAL ends the       *)
(*             process                                                     *)
(***************************************************************************)
EXTENDS Integers

CONSTANTS
    Channels,    \* channel objects
    Fds,         \* descriptors
    fdOf,        \* Channel::fd_
    NoChannel    \* no channel

ASSUME ChannelAssumption ==
    /\ fdOf \in [Channels -> Fds]
    /\ NoChannel \notin Channels

kNew == -1
kAdded == 1
kDeleted == 2

Interest == {"r", "w"}

NewPoller ==
    [events   |-> [c \in Channels |-> {}],
     index    |-> [c \in Channels |-> kNew],
     channels |-> [f \in Fds |-> NoChannel],
     ptr      |-> [f \in Fds |-> NoChannel],
     mask     |-> [f \in Fds |-> {}],
     fatal    |-> FALSE]

-----------------------------------------------------------------------------
(* EPollPoller::update, one operator per epoll_ctl operation *)

\* EPOLL_CTL_ADD fails when the descriptor is already registered.
CtlAdd(p, c) ==
    [p EXCEPT !.ptr[fdOf[c]] = c,
              !.mask[fdOf[c]] = p.events[c],
              !.fatal = @ \/ p.ptr[fdOf[c]] # NoChannel]

\* EPOLL_CTL_MOD fails when it is not.
CtlMod(p, c) ==
    [p EXCEPT !.ptr[fdOf[c]] = c,
              !.mask[fdOf[c]] = p.events[c],
              !.fatal = @ \/ p.ptr[fdOf[c]] = NoChannel]

\* A failed EPOLL_CTL_DEL is only logged.
CtlDel(p, c) ==
    [p EXCEPT !.ptr[fdOf[c]] = NoChannel,
              !.mask[fdOf[c]] = {}]

UpdateChannel(p, c) ==
    IF p.index[c] # kAdded
    THEN LET q == IF p.index[c] = kNew
                  THEN [p EXCEPT !.channels[fdOf[c]] = c]
                  ELSE p
         IN  CtlAdd([q EXCEPT !.index[c] = kAdded], c)
    ELSE IF p.events[c] = {}
         THEN [CtlDel(p, c) EXCEPT !.index[c] = kDeleted]
         ELSE CtlMod(p, c)

\* Mutant of RemoveChannel: the kernel keeps the registration.
RemoveChannelFromMapOnly(p, c) ==
    [p EXCEPT !.channels[fdOf[c]] = NoChannel, !.index[c] = kNew]

RemoveChannel(p, c) ==
    LET q == [p EXCEPT !.channels[fdOf[c]] = NoChannel]
        r == IF p.index[c] = kAdded THEN CtlDel(q, c) ELSE q
    IN  [r EXCEPT !.index[c] = kNew]

-----------------------------------------------------------------------------
(* The operations of Channel *)

\* Mutant of SetEvents: the new mask is stored and never sent to the poller
\* when the channel is already registered.
SetEventsOnce(p, c, e) ==
    LET q == [p EXCEPT !.events[c] = e]
    IN  IF p.index[c] = kAdded /\ e # {} THEN q ELSE UpdateChannel(q, c)

SetEvents(p, c, e) == UpdateChannel([p EXCEPT !.events[c] = e], c)

EnableReading(p, c)  == SetEvents(p, c, p.events[c] \cup {"r"})
DisableReading(p, c) == SetEvents(p, c, p.events[c] \ {"r"})
EnableWriting(p, c)  == SetEvents(p, c, p.events[c] \cup {"w"})
DisableWriting(p, c) == SetEvents(p, c, p.events[c] \ {"w"})
DisableAll(p, c)     == SetEvents(p, c, {})
Remove(p, c)         == RemoveChannel(p, c)

IsWriting(p, c) == "w" \in p.events[c]

\* What epoll_wait may report for a channel: the events it is registered for,
\* and, asked or not, a hang-up.
Watched(p, c) == p.ptr[fdOf[c]] = c
Reports(p, c, e) == Watched(p, c) /\ e \in p.mask[fdOf[c]]
=============================================================================
