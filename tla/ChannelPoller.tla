--------------------------- MODULE ChannelPoller ---------------------------
(***************************************************************************)
(* Any sequence of Channel operations on one poller.  Two channel objects  *)
(* may exist for one descriptor, as while a Connector hands its socket to  *)
(* a TcpConnection: the second one is used only once the first one has     *)
(* been removed.                                                           *)
(***************************************************************************)
EXTENDS EPollPoller

VARIABLES
    poller,    \* the poller and the channels' fields
    alive      \* channel objects that exist

pvars == <<poller, alive>>

Init ==
    /\ poller = NewPoller
    /\ alive = {}

\* A channel object is made for a descriptor (again).
Create(c) ==
    /\ c \notin alive
    /\ alive' = alive \cup {c}
    /\ poller' = [poller EXCEPT !.events[c] = {}]

\* c may be used: it exists and no other channel of its descriptor is in the
\* poller.
Usable(c) ==
    /\ c \in alive
    /\ \A d \in Channels \ {c} : fdOf[d] = fdOf[c] => poller.index[d] = kNew

\* Channel::~Channel and the close of the descriptor, after remove().
Destroy(c) ==
    /\ c \in alive
    /\ poller.index[c] = kNew
    /\ alive' = alive \ {c}
    /\ UNCHANGED poller

Operate(c) ==
    /\ Usable(c)
    /\ \/ poller' = EnableReading(poller, c)
       \/ poller' = DisableReading(poller, c)
       \/ poller' = EnableWriting(poller, c)
       \/ poller' = DisableWriting(poller, c)
       \/ poller' = DisableAll(poller, c)
       \/ poller' = Remove(poller, c)
    /\ UNCHANGED alive

Next == \E c \in Channels : Create(c) \/ Operate(c) \/ Destroy(c)

Spec == Init /\ [][Next]_pvars

-----------------------------------------------------------------------------
(* Properties *)

\* Types, and the events of an object that does not exist are never looked at.
TypeOK ==
    /\ poller \in [events : [Channels -> SUBSET Interest],
                   index : [Channels -> {kNew, kAdded, kDeleted}],
                   channels : [Fds -> Channels \cup {NoChannel}],
                   ptr : [Fds -> Channels \cup {NoChannel}],
                   mask : [Fds -> SUBSET Interest],
                   fatal : BOOLEAN]
    /\ alive \subseteq Channels

\* The three views of a registration agree: the channel's index_, the poller's
\* channels_ map and the kernel's table.
ViewsAgree ==
    \A c \in Channels :
        /\ (poller.index[c] = kAdded) <=> (poller.ptr[fdOf[c]] = c)
        /\ (poller.index[c] # kNew) <=> (poller.channels[fdOf[c]] = c)
        /\ poller.index[c] = kAdded => poller.mask[fdOf[c]] = poller.events[c]

\* epoll_ctl never refuses an ADD or a MOD, so LOG_FATAL is never reached
\* through updateChannel, whatever the order of the calls.
NeverFatal == ~poller.fatal

\* epoll never holds, and channels_ never maps to, a channel that is no more:
\* the pointer that fillActiveChannels dereferences is valid.
NoDanglingPointer ==
    \A f \in Fds : {poller.ptr[f], poller.channels[f]} \subseteq alive \cup {NoChannel}
=============================================================================
