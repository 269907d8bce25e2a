----------------------------- MODULE ServerLife -----------------------------
(***************************************************************************)
(* The life of the server process (cmd/serve.go, pkg/mcp/server.go and     *)
(* transport.go, pkg/oauth/server.go): start-up with its error paths,      *)
(* serving, signals, the shutdown bounded by 30 seconds, the end of the    *)
(* process, and a restart, around the tool calls of ExecTools.             *)
(***************************************************************************)
EXTENDS ExecTools, Naturals

CONSTANTS
    Configs,   \* what the command line and the environment may say
    MaxRuns    \* how often the process is started

Transports == {"stdio", "sse", "streamable-http"}

\* flagsOK: every flag is valid on its own (validateServeFlags).
AllConfigs == [transport : Transports, flagsOK : BOOLEAN, oauth : BOOLEAN, downstream : BOOLEAN]

ASSUME LifeAssumption == Configs \subseteq AllConfigs /\ MaxRuns \in Nat \ {0}

VARIABLES
    config,
    main,       \* what the main goroutine does next
    store,      \* the OAuth token store of this run
    ctxDone,    \* Server.ctx (with stdio, the context of RunStdioServer)
    signalled,  \* a signal has arrived since the handler was installed
    streams,    \* some client keeps a stream of events open
    result,     \* what the main goroutine returned
    runs

vars == <<policy, hostKnown, files, left, calls, config, main, store, ctxDone, signalled,
          streams, result, runs>>

\* "return" is the deferred Shutdown of Server.Run.
MainPCs == {"RunServe", "newServerContext", "newStore", "oauthServer", "Run", "stdio",
            "serve", "shutdown", "return", "ended"}

Init ==
    /\ ExecInit
    /\ config \in Configs
    /\ main = "RunServe"
    /\ store = "none"
    /\ ctxDone = FALSE
    /\ signalled = FALSE
    /\ streams = FALSE
    /\ result = "none"
    /\ runs = 1
-----------------------------------------------------------------------------
(* The main goroutine.                                                     *)

Requests == UNCHANGED <<execVars, streams>>
Same == UNCHANGED <<config, signalled, runs>>
At(pc) == main = pc
GoesTo(pc) == main' = pc /\ UNCHANGED result

\* The process ends: its calls are gone, what is on the disk stays.
Ends(r) ==
    /\ main' = "ended"
    /\ result' = r
    /\ left' = left \cup {calls[c].path : c \in {d \in Calls : Holds(d)}}
    /\ calls' = [c \in Calls |-> NoCall]
    /\ streams' = FALSE
    /\ UNCHANGED <<policy, hostKnown, files>>

\* An error before the server runs.
Fails == Ends("error") /\ Same

\* RunServe and validateOptions: combinations of flags that are refused.
RunServe ==
    /\ At("RunServe")
    /\ \/ /\ config.flagsOK
          /\ config.downstream => config.oauth
          /\ config.oauth => config.transport # "stdio"
          /\ GoesTo("newServerContext")
          /\ Requests /\ Same
       \/ /\ \/ ~config.flagsOK
             \/ config.downstream /\ ~config.oauth
             \/ config.oauth /\ config.transport = "stdio"
          /\ Fails
    /\ UNCHANGED <<store, ctxDone>>

\* newServerContext: the static client or the factory of clients.
newServerContext ==
    /\ At("newServerContext")
    /\ \/ /\ GoesTo(IF config.oauth THEN "newStore" ELSE "Run")
          /\ Requests /\ Same /\ UNCHANGED ctxDone
       \/ /\ Fails
          /\ ctxDone' = TRUE
    /\ UNCHANGED store

\* oauth.NewServer up to newStore: the configuration, the provider and the
\* encryption key may be wrong, Valkey may be away; else the store is open.
newStore ==
    /\ At("newStore")
    /\ \/ /\ GoesTo("oauthServer")
          /\ store' = "open"
          /\ Requests /\ Same /\ UNCHANGED ctxDone
       \/ /\ Fails
          /\ ctxDone' = TRUE
          /\ UNCHANGED store

\* Mutant of oauthServer: an error leaves the store open.
oauthServerLeaks ==
    /\ At("oauthServer")
    /\ \/ GoesTo("Run") /\ Requests /\ Same /\ UNCHANGED ctxDone
       \/ Fails /\ ctxDone' = TRUE
    /\ UNCHANGED store

\* newServerWithProvider: the library's server is built on the store, which is
\* released when that fails.
oauthServer ==
    /\ At("oauthServer")
    /\ \/ /\ GoesTo("Run")
          /\ Requests /\ Same /\ UNCHANGED <<ctxDone, store>>
       \/ /\ Fails
          /\ ctxDone' = TRUE
          /\ store' = "closed"

\* Server.Run installs the signal handler and picks the transport;
\* serveWithShutdown listens first, which may fail.  (RegisterTools does not
\* fail: BuildAllTools has no error.)
Run ==
    /\ At("Run")
    /\ \/ /\ GoesTo(IF config.transport = "stdio" THEN "stdio" ELSE "serve")
       \/ /\ config.transport # "stdio"
          /\ main' = "return" /\ result' = "error"
    /\ Requests /\ Same /\ UNCHANGED <<store, ctxDone>>

\* RunStdioServer: Listen returns when stdin ends, when reading fails, or when
\* the context is done.
ListenReturns ==
    /\ At("stdio")
    /\ main' = "return"
    /\ result' \in {"ok", "error"}
    /\ Requests /\ Same /\ UNCHANGED <<store, ctxDone>>

\* serveWithShutdown's select: srv.Serve has failed.
ServeFails ==
    /\ At("serve")
    /\ main' = "return" /\ result' = "error"
    /\ Requests /\ Same /\ UNCHANGED <<store, ctxDone>>

\* The select's other case: ctx is done, srv.Shutdown begins.  The listener is
\* closed, requests in flight go on.
BeginShutdown ==
    /\ At("serve")
    /\ ctxDone
    /\ GoesTo("shutdown")
    /\ Requests /\ Same /\ UNCHANGED <<store, ctxDone>>

\* A connection is active as long as a handler runs on it.  A call of
\* streamable-http runs in its request's handler; one of SSE does not, its
\* answer goes through the stream.
Active == streams \/ (config.transport = "streamable-http" /\ InFlight # {})

ShutdownDone ==
    /\ At("shutdown")
    /\ ~Active
    /\ main' = "return" /\ result' = "ok"
    /\ Requests /\ Same /\ UNCHANGED <<store, ctxDone>>

\* Mutant of ShutdownTimesOut: Shutdown is given a context without a deadline.
ShutdownUnbounded == FALSE /\ UNCHANGED vars

\* The 30 seconds are over.
ShutdownTimesOut ==
    /\ At("shutdown")
    /\ Active
    /\ main' = "return" /\ result' = "error"
    /\ Requests /\ Same /\ UNCHANGED <<store, ctxDone>>

\* Server.Shutdown: the context is cancelled and the store released, once.
Shutdown ==
    /\ ctxDone' = TRUE
    /\ store' = IF store = "open" THEN "closed" ELSE store

\* The deferred Shutdown, then main returns and the process ends.
Return ==
    /\ At("return")
    /\ Shutdown
    /\ Ends(result)
    /\ Same

\* Mutant of CancelOnSignal: the goroutine shuts the server down.
ShutdownOnSignal ==
    /\ signalled /\ ~ctxDone
    /\ main \in {"stdio", "serve"}
    /\ Shutdown
    /\ Requests /\ Same /\ UNCHANGED <<main, result>>

\* The goroutine that waits for a signal (RunStdioServer has its own).
CancelOnSignal ==
    /\ signalled /\ ~ctxDone
    /\ main \in {"stdio", "serve"}
    /\ ctxDone' = TRUE
    /\ Requests /\ Same /\ UNCHANGED <<main, result, store>>

Main ==
    \/ RunServe \/ newServerContext \/ newStore \/ oauthServer \/ Run
    \/ ServeFails \/ BeginShutdown \/ ShutdownDone \/ ShutdownTimesOut \/ Return
    \/ ListenReturns
-----------------------------------------------------------------------------
(* Clients, signals and the rest of the world.                             *)

Process == UNCHANGED <<config, main, store, ctxDone, signalled, result, runs>>

\* A client opens or drops a stream; none is opened once the listener is closed.
Stream ==
    /\ \/ main = "serve" /\ ~streams
       \/ main \in {"serve", "shutdown"} /\ streams
    /\ streams' = ~streams
    /\ Process /\ UNCHANGED execVars

\* A call of SSE needs a stream, and one whose message was received before the
\* listener was closed may begin while Shutdown waits for the stream.
Accepts ==
    \/ main = "stdio" /\ ~ctxDone
    \/ main = "serve" /\ (config.transport = "sse" => streams)
    \/ main = "shutdown" /\ config.transport = "sse" /\ streams

Begin(c) ==
    /\ Accepts
    /\ BeginCall(c)
    /\ Process /\ UNCHANGED streams

Continue(c) ==
    /\ CallStep(c)
    /\ Process /\ UNCHANGED streams

\* SIGINT or SIGTERM; a second one has no effect.
Signal ==
    /\ main \in {"stdio", "serve", "shutdown"}
    /\ ~signalled
    /\ signalled' = TRUE
    /\ UNCHANGED <<execVars, streams, config, main, store, ctxDone, result, runs>>

\* SIGKILL, a crash, or a signal before the handler is installed.
Killed ==
    /\ main # "ended"
    /\ Ends("killed")
    /\ UNCHANGED <<config, store, ctxDone, signalled, runs>>

\* The process is started again; the temporary directory has survived.
Restart ==
    /\ main = "ended"
    /\ runs < MaxRuns
    /\ runs' = runs + 1
    /\ main' = "RunServe" /\ result' = "none"
    /\ store' = "none" /\ ctxDone' = FALSE /\ signalled' = FALSE
    /\ UNCHANGED <<execVars, streams, config>>

Next ==
    \/ Main \/ CancelOnSignal
    \/ \E c \in Calls : Begin(c) \/ Continue(c)
    \/ Stream \/ Signal \/ Killed \/ Restart

\* The main goroutine and the one that waits for signals go on when they can,
\* Listen returns once its context is done, and timers fire.  Nothing is
\* assumed of calls, children, clients or the start-up.
Fairness ==
    /\ WF_vars(CancelOnSignal)
    /\ WF_vars(ctxDone /\ ListenReturns)
    /\ WF_vars(BeginShutdown) /\ WF_vars(ShutdownDone \/ ShutdownTimesOut) /\ WF_vars(Return)

Spec == Init /\ [][Next]_vars /\ Fairness
-----------------------------------------------------------------------------
\* The type invariant.
TypeOK ==
    /\ ExecTypeOK
    /\ config \in Configs
    /\ main \in MainPCs
    /\ store \in {"none", "open", "closed"}
    /\ ctxDone \in BOOLEAN /\ signalled \in BOOLEAN /\ streams \in BOOLEAN
    /\ result \in {"none", "ok", "error", "killed"}
    /\ runs \in 1 .. MaxRuns

\* No kubeconfig is forgotten on the disk: every file there belongs to a call
\* that will try to remove it, or its process ended under it, or os.Remove failed.
\* In particular no error path of resolveWorkloadKubeconfigFile leaves its file
\* behind without having tried.
FilesAreAccountedFor ==
    \A p \in Paths :
        files[p] # NoFile => p \in left \/ \E c \in Calls : calls[c].path = p

\* The token store is released whenever the server ends by itself, whether it
\* served, failed to listen, or failed half-way through its start-up.
StoreReleased == main = "ended" /\ result # "killed" => store # "open"

\* "Drains connections": a streamable-http server that reports a graceful stop
\* has cut off no call, and the token store, which requests are validated against,
\* is closed under a call only after the server has given up waiting for it; then
\* it says so.
GracefulStopCutsNothing ==
    [][/\ config.transport = "streamable-http"
       /\ \/ Return /\ result = "ok"
          \/ store = "open" /\ store' = "closed" /\ result # "error"
       => InFlight = {}]_vars

\* A signal ends the process, although calls may hang, children may run for
\* hours and clients may keep their streams open.
SignalEnds == signalled ~> main = "ended"
=============================================================================
