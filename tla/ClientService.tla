---------------------------- MODULE ClientService ----------------------------
(***************************************************************************)
(* The life of the client service behind its C interface:                  *)
(* crates/ombrac-client/src/ffi.rs (startup, rebind, shutdown),            *)
(* service.rs (OmbracClient) and logging/ffi.rs.                           *)
(*                                                                         *)
(* Threads of the host call the three functions.  A startup builds its     *)
(* runtime and its service before it looks at SERVICE_HANDLE; rebind and   *)
(* shutdown keep the mutex for as long as they run.  A service has one     *)
(* task per configured endpoint and the detached tasks of the connections  *)
(* they accept; a dropped runtime ends both.                               *)
(*                                                                         *)
(* What the endpoints do with a connection is ProxyConnection and          *)
(* TunEndpoint.  The configuration is valid or not; a build that fails     *)
(* (address, TLS files, handshake, no endpoint) leaves nothing behind.     *)
(***************************************************************************)
EXTENDS Integers

CONSTANTS Thread,       \* threads of the host that call the interface
          Endpoint,     \* endpoints the configuration names
          MaxServices   \* bound: services built

None == 0
Service == 1..MaxServices

ASSUME ServiceAssumption ==
    /\ Endpoint # {}
    /\ MaxServices \in Nat

VARIABLES
    tracing,          \* the library is built with feature "tracing"
    tun_fd,           \* the TUN descriptor each service is given, called after the
                      \* first service that is given it
    SERVICE_HANDLE,   \* the stored service
    call, mine,       \* where the call of a thread stands, the service it holds
    result,           \* how its last call returned
    subscriber,       \* the process has a global tracing subscriber
    LOG_GUARD,        \* the log writer's guard: "none", "held" or "poisoned"
    services,         \* services built so far
    signal,           \* shutdown_tx has sent, or is dropped
    runtime,          \* the runtime of each service
    task,             \* its endpoint tasks
    port,             \* the services that have an endpoint's address or device
    closed,           \* TUN descriptors that have been closed
    connections       \* a detached connection task of the service runs

config == <<tracing, tun_fd>>
logging == <<subscriber, LOG_GUARD>>
calls == <<call, mine, result>>
tasks == <<signal, runtime, task, port, closed, connections>>
vars == <<config, SERVICE_HANDLE, calls, logging, services, tasks>>

\* The mutex is held from its lock to the return of rebind and shutdown.
Locked == \E t \in Thread : call[t] \in {"rebind", "join", "unlog"}

Returns(t, r) ==
    /\ call' = [call EXCEPT ![t] = "idle"]
    /\ mine' = [mine EXCEPT ![t] = None]
    /\ result' = [result EXCEPT ![t] = r]

Goes(t, to) ==
    /\ call' = [call EXCEPT ![t] = to]
    /\ UNCHANGED <<mine, result>>

-----------------------------------------------------------------------------
Init ==
    /\ tracing \in BOOLEAN
    /\ tun_fd \in {fd \in [Service -> Service] : \A i \in Service : fd[i] <= i}
    /\ SERVICE_HANDLE = None
    /\ call = [t \in Thread |-> "idle"]
    /\ mine = [t \in Thread |-> None]
    /\ result = [t \in Thread |-> "none"]
    /\ subscriber = FALSE
    /\ LOG_GUARD = "none"
    /\ services = 0
    /\ signal = [i \in Service |-> FALSE]
    /\ runtime = [i \in Service |-> "none"]
    /\ task = [i \in Service |-> [e \in Endpoint |-> "none"]]
    /\ port = [e \in Endpoint |-> {}]
    /\ closed = {}
    /\ connections = [i \in Service |-> FALSE]

(***************************************************************************)
(* ombrac_client_service_startup: the configuration is parsed first.       *)
(***************************************************************************)
Startup(t) ==
    /\ call[t] = "idle"
    /\ services < MaxServices
    /\ \/ Returns(t, "failed")
       \/ Goes(t, "log")
    /\ UNCHANGED <<config, SERVICE_HANDLE, logging, services, tasks>>

(***************************************************************************)
(* init_for_ffi, in the builds that trace.  The guard is stored before the *)
(* subscriber is installed; a process has one subscriber for ever, and a   *)
(* second init() panics with LOG_GUARD locked, which poisons it.  The      *)
(* unwinding ends at the boundary of the C function.                       *)
(***************************************************************************)
InitLogging(t) ==
    /\ call[t] = "log"
    /\ CASE ~tracing ->
              Goes(t, "build") /\ UNCHANGED logging
         [] tracing /\ LOG_GUARD = "poisoned" ->
              Returns(t, "panic") /\ UNCHANGED logging
         [] tracing /\ LOG_GUARD # "poisoned" /\ subscriber ->
              Returns(t, "panic") /\ LOG_GUARD' = "poisoned" /\ UNCHANGED subscriber
         [] OTHER ->
              Goes(t, "build") /\ LOG_GUARD' = "held" /\ subscriber' = TRUE
    /\ UNCHANGED <<config, SERVICE_HANDLE, services, tasks>>

(***************************************************************************)
(* OmbracClient::build on a new runtime.  Every endpoint subscribes to     *)
(* shutdown_tx before its task is spawned.                                 *)
(***************************************************************************)
BuildFails(t) ==
    /\ call[t] = "build"
    /\ Returns(t, "failed")
    /\ UNCHANGED <<config, SERVICE_HANDLE, logging, services, tasks>>

Build(t, i) ==
    /\ call[t] = "build"
    /\ i = services + 1
    /\ services' = i
    /\ runtime' = [runtime EXCEPT ![i] = "up"]
    /\ task' = [task EXCEPT ![i] = [e \in Endpoint |-> "starting"]]
    /\ call' = [call EXCEPT ![t] = "store"]
    /\ mine' = [mine EXCEPT ![t] = i]
    /\ UNCHANGED <<config, SERVICE_HANDLE, result, logging, signal, port, closed,
                   connections>>

\* Mutant: the service is given up without being dropped.
StoreLeaks(t) ==
    /\ call[t] = "store"
    /\ ~Locked
    /\ IF SERVICE_HANDLE # None
       THEN /\ Returns(t, "failed")
            /\ UNCHANGED SERVICE_HANDLE
       ELSE /\ SERVICE_HANDLE' = mine[t]
            /\ Returns(t, "ok")
    /\ UNCHANGED <<config, logging, services, tasks>>

\* The handle is looked at last; a service that comes second is dropped.
Store(t) ==
    /\ call[t] = "store"
    /\ ~Locked
    /\ IF SERVICE_HANDLE # None
       THEN /\ Goes(t, "drop")
            /\ UNCHANGED SERVICE_HANDLE
       ELSE /\ SERVICE_HANDLE' = mine[t]
            /\ Returns(t, "ok")
    /\ UNCHANGED <<config, logging, services, tasks>>

\* An AsyncDevice owns its descriptor, which from_fd takes as it is: its drop
\* closes it, whoever else has it.
Releases(i, e) == e = "tun" /\ i \in port[e]

\* What a runtime leaves of service i when it is gone: nothing.
TasksDropped(i) ==
    /\ task' = [task EXCEPT ![i] = [e \in Endpoint |-> "done"]]
    /\ port' = [e \in Endpoint |-> port[e] \ {i}]
    /\ closed' = closed \union {tun_fd[i] : e \in {x \in Endpoint : Releases(i, x)}}

\* The service, then the runtime, go with the closure; that drop waits.
DropService(t) ==
    /\ call[t] = "drop"
    /\ Returns(t, "failed")
    /\ signal' = [signal EXCEPT ![mine[t]] = TRUE]
    /\ runtime' = [runtime EXCEPT ![mine[t]] = "down"]
    /\ TasksDropped(mine[t])
    /\ connections' = [connections EXCEPT ![mine[t]] = FALSE]
    /\ UNCHANGED <<config, SERVICE_HANDLE, logging, services>>

-----------------------------------------------------------------------------
\* ombrac_client_service_rebind.
Rebind(t) ==
    /\ call[t] = "idle"
    /\ ~Locked
    /\ IF SERVICE_HANDLE = None THEN Returns(t, "failed") ELSE Goes(t, "rebind")
    /\ UNCHANGED <<config, SERVICE_HANDLE, logging, services, tasks>>

RebindReturns(t) ==
    /\ call[t] = "rebind"
    /\ \E r \in {"ok", "failed"} : Returns(t, r)
    /\ UNCHANGED <<config, SERVICE_HANDLE, logging, services, tasks>>

-----------------------------------------------------------------------------
(***************************************************************************)
(* ombrac_client_service_shutdown and OmbracClient::shutdown: the signal,  *)
(* the joins, then shutdown_background, which does not wait for the tasks  *)
(* that are left.                                                          *)
(***************************************************************************)
Shutdown(t) ==
    LET i == SERVICE_HANDLE IN
    /\ call[t] = "idle"
    /\ ~Locked
    /\ SERVICE_HANDLE' = None
    /\ call' = [call EXCEPT ![t] = IF i = None THEN "unlog" ELSE "join"]
    /\ mine' = [mine EXCEPT ![t] = i]
    /\ signal' = IF i = None THEN signal ELSE [signal EXCEPT ![i] = TRUE]
    /\ UNCHANGED <<config, result, logging, services, runtime, task, port, closed,
                   connections>>

Join(t) ==
    LET i == mine[t] IN
    /\ call[t] = "join"
    /\ \A e \in Endpoint : task[i][e] = "done"
    /\ runtime' = [runtime EXCEPT ![i] = "background"]
    /\ Goes(t, "unlog")
    /\ UNCHANGED <<config, SERVICE_HANDLE, logging, services, signal, task, port, closed,
                   connections>>

\* shutdown_logging; the panic at a poisoned LOG_GUARD is caught, and 0
\* returned.
Unlog(t) ==
    /\ call[t] = "unlog"
    /\ LOG_GUARD' = IF tracing /\ LOG_GUARD = "held" THEN "none" ELSE LOG_GUARD
    /\ Returns(t, "ok")
    /\ UNCHANGED <<config, SERVICE_HANDLE, subscriber, services, tasks>>

-----------------------------------------------------------------------------
(***************************************************************************)
(* The endpoint tasks.  A bind that fails, because another service has the *)
(* address or for any other reason, is only logged.  Nothing keeps two     *)
(* services from a TUN device each, or from the same descriptor.           *)
(***************************************************************************)
\* Mutant: an address in use is bound again.
AvailableAgain(i, e) == e = "tun" => tun_fd[i] \notin closed

Available(i, e) == IF e = "tun" THEN tun_fd[i] \notin closed ELSE port[e] = {}

Bind(i, e) ==
    /\ runtime[i] = "up"
    /\ task[i][e] = "starting"
    /\ \/ /\ Available(i, e)
          /\ port' = [port EXCEPT ![e] = @ \union {i}]
          /\ task' = [task EXCEPT ![i][e] = "run"]
       \/ /\ task' = [task EXCEPT ![i][e] = "done"]
          /\ UNCHANGED port
    /\ UNCHANGED <<config, SERVICE_HANDLE, calls, logging, services, signal,
                   runtime, closed, connections>>

\* A connection gets a task that no one joins.
Accept(i, e) ==
    /\ runtime[i] = "up"
    /\ task[i][e] = "run"
    /\ ~signal[i]
    /\ connections' = [connections EXCEPT ![i] = TRUE]
    /\ UNCHANGED <<config, SERVICE_HANDLE, calls, logging, services, signal,
                   runtime, task, port, closed>>

\* Mutant: only the TUN endpoint ends at the signal.
EndpointIgnoresSignal(i, e) ==
    /\ task[i][e] = "run"
    /\ signal[i]
    /\ e = "tun"
    /\ task' = [task EXCEPT ![i][e] = "done"]
    /\ port' = [port EXCEPT ![e] = @ \ {i}]
    /\ closed' = closed \union {tun_fd[i]}
    /\ UNCHANGED <<config, SERVICE_HANDLE, calls, logging, services, signal,
                   runtime, connections>>

\* The TUN endpoint may not get through its own joins (TunEndpoint).
EndpointEnds(i, e) ==
    /\ task[i][e] = "run"
    /\ signal[i]
    /\ \/ /\ task' = [task EXCEPT ![i][e] = "done"]
          /\ port' = [port EXCEPT ![e] = @ \ {i}]
          /\ closed' = IF e = "tun" THEN closed \union {tun_fd[i]} ELSE closed
       \/ /\ e = "tun"
          /\ task' = [task EXCEPT ![i][e] = "stuck"]
          /\ UNCHANGED <<port, closed>>
    /\ UNCHANGED <<config, SERVICE_HANDLE, calls, logging, services, signal,
                   runtime, connections>>

\* A relay returns, or the runtime drops it when it next yields.
ConnectionEnds(i) ==
    /\ connections[i]
    /\ connections' = [connections EXCEPT ![i] = FALSE]
    /\ UNCHANGED <<config, SERVICE_HANDLE, calls, logging, services, signal,
                   runtime, task, port, closed>>

-----------------------------------------------------------------------------
CallStep(t) ==
    \/ InitLogging(t) \/ BuildFails(t) \/ (\E i \in Service : Build(t, i))
    \/ Store(t) \/ DropService(t)
    \/ RebindReturns(t)
    \/ Join(t) \/ Unlog(t)
TaskStep(i, e) == Bind(i, e) \/ EndpointEnds(i, e)

Next ==
    \/ \E t \in Thread : Startup(t) \/ Rebind(t) \/ Shutdown(t) \/ CallStep(t)
    \/ \E i \in Service, e \in Endpoint : TaskStep(i, e) \/ Accept(i, e)
    \/ \E i \in Service : ConnectionEnds(i)

Spec == Init /\ [][Next]_vars

\* Calls in progress and tasks run; a runtime that is shut down in the
\* background drops its tasks.  The host need not call anything.
FairSpec ==
    /\ Spec
    /\ \A t \in Thread : WF_vars(CallStep(t))
    /\ \A i \in Service, e \in Endpoint : WF_vars(TaskStep(i, e))
    /\ \A i \in Service : WF_vars(runtime[i] = "background" /\ ConnectionEnds(i))

-----------------------------------------------------------------------------
TypeOK ==
    /\ tracing \in BOOLEAN /\ subscriber \in BOOLEAN
    /\ tun_fd \in [Service -> Service]
    /\ LOG_GUARD \in {"none", "held", "poisoned"}
    /\ SERVICE_HANDLE \in Service \union {None}
    /\ call \in [Thread -> {"idle", "log", "build", "store", "drop", "rebind",
                            "join", "unlog"}]
    /\ result \in [Thread -> {"none", "ok", "failed", "panic"}]
    /\ mine \in [Thread -> Service \union {None}]
    /\ services \in 0..MaxServices
    /\ signal \in [Service -> BOOLEAN]
    /\ runtime \in [Service -> {"none", "up", "background", "down"}]
    /\ task \in [Service -> [Endpoint -> {"none", "starting", "run", "stuck", "done"}]]
    /\ port \in [Endpoint -> SUBSET Service]
    /\ closed \subseteq Service
    /\ connections \in [Service -> BOOLEAN]

\* A call that has not returned has service i in hand.
InHand(i) == \E t \in Thread : mine[t] = i

(***************************************************************************)
(* An endpoint task runs, or keeps an address or a device, only for the    *)
(* stored service or for one that a call in progress has in hand: neither  *)
(* a startup that comes second nor a shutdown that has returned leaves one *)
(* behind, in whatever order the calls meet.                               *)
(***************************************************************************)
NoOrphanService ==
    \A i \in Service :
        (\E e \in Endpoint : task[i][e] \in {"starting", "run", "stuck"} \/ i \in port[e])
            => SERVICE_HANDLE = i \/ InHand(i)

(***************************************************************************)
(* A running service leaves SERVICE_HANDLE only into the hands of a        *)
(* shutdown that tells it to stop.  Until then no startup replaces it, and *)
(* no step ends one of its endpoints, takes its address or gives it to     *)
(* another service, or closes its TUN descriptor, unless another service   *)
(* that was given the same descriptor lets go of it (service.rs 298-304).  *)
(***************************************************************************)
EndpointKept(i, e) ==
    task[i][e] = "run" =>
        /\ task'[i][e] = "run"
        /\ i \in port'[e]
        /\ e # "tun" => port'[e] = {i}
        /\ e = "tun" /\ tun_fd[i] \notin closed =>
              \/ tun_fd[i] \notin closed'
              \/ \E j \in Service : tun_fd[j] = tun_fd[i] /\ j \in port[e] \ port'[e]

RunningServiceKept ==
    [][\A i \in Service :
        SERVICE_HANDLE = i =>
            \/ /\ SERVICE_HANDLE' = i /\ ~signal'[i] /\ runtime'[i] = "up"
               /\ \A e \in Endpoint : EndpointKept(i, e)
            \/ SERVICE_HANDLE' = None /\ signal'[i]
                 /\ \E t \in Thread : call'[t] = "join" /\ mine'[t] = i]_vars

(***************************************************************************)
(* A shutdown of a service returns, and the connections it left to the     *)
(* runtime end after it, unless a TUN endpoint never finishes.             *)
(***************************************************************************)
ShutdownCallReturns ==
    \A i \in Service :
        signal[i] ~> \/ ~InHand(i) /\ ~connections[i]
                     \/ \E e \in Endpoint : task[i][e] = "stuck"

(***************************************************************************)
(* "-1 on failure (e.g., [...] service already running [...])" (ffi.rs     *)
(* 75-77): a startup that is refused leaves the running service its TUN    *)
(* device.                                                                 *)
(***************************************************************************)
DeviceStaysOpen ==
    \A i \in Service, e \in Endpoint :
        SERVICE_HANDLE = i /\ task[i][e] = "run" /\ e = "tun" => tun_fd[i] \notin closed

(***************************************************************************)
(* What the comment on init_for_ffi says of a second call: it replaces the *)
(* guard.  A startup then never fails because logging was set up before.   *)
(***************************************************************************)
LoggingSetUpAgain == \A t \in Thread : result[t] # "panic"

=============================================================================
