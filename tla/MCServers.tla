----------------------------- MODULE MCServers -----------------------------
(* Who holds what on the serving side, one part per behaviour: the poller  *)
(* and its channels, a TcpServer and its connections, the service registry *)
(* and its clients.  subject says which; the others stay as they began.    *)
(* Two channels share a descriptor and a third has its own.                *)
EXTENDS ChannelPoller, TcpServer, Registry, TLC

LOCAL INSTANCE FiniteSetsExt

CONSTANTS c1, c2, c3, f1, f2

MCFdOf == (c1 :> f1) @@ (c2 :> f1) @@ (c3 :> f2)

VARIABLE subject

mcVars == <<pvars, vars, registryVars, subject>>

MCInit == /\ subject \in {"poller", "server", "registry"}
          /\ Init /\ ServerInit /\ RegistryInit
          /\ subject # "server" => numThreads = 0

PollerRuns(A) == subject = "poller" /\ A /\ UNCHANGED <<vars, registryVars, subject>>
ServerRuns(A) == subject = "server" /\ A /\ UNCHANGED <<pvars, registryVars, subject>>
RegistryRuns(A) == subject = "registry" /\ A /\ UNCHANGED <<pvars, vars, subject>>

\* The registry may come to rest: its clients are done, its checker is stopped.
Rest == subject = "registry" /\ UNCHANGED mcVars

MCNext == PollerRuns(Next) \/ ServerRuns(ServerNext) \/ RegistryRuns(RegistryNext) \/ Rest

\* FairServerSpec and RegistryFairness, of the part at work
MCSpec ==
    /\ MCInit /\ [][MCNext]_mcVars
    /\ \A l \in 0..Max(PoolSizes) : WF_mcVars(ServerRuns(l \in Loops /\ LoopStep(l)))
    /\ \A c \in Conns : SF_mcVars(ServerRuns(HandleClose(c)))
    /\ WF_mcVars(ServerRuns(DtorStep))
    /\ WF_mcVars(RegistryRuns(Serve)) /\ WF_mcVars(RegistryRuns(CheckerThread))
    /\ WF_mcVars(RegistryRuns(Tick))
    /\ \A c \in Clients : WF_mcVars(RegistryRuns(HeartbeatLoop(c) \/ ClientJoin(c)))

-----------------------------------------------------------------------------
\* A connection whose client left is destroyed, and ~TcpServer returns.
ServerProgress == ClosedIsDestroyed /\ DtorReturns
=============================================================================
