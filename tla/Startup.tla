------------------------------- MODULE Startup -------------------------------
(***************************************************************************)
(* Application::run before its loop: signal handler, NATS client, stream   *)
(* set-up, state file and listener, each of which may end the process, and *)
(* the supervisor that starts it again.  Several instances (the old and    *)
(* the new one of a deployment) and an administrator meet at one JetStream *)
(* server, which may be away.                                              *)
(***************************************************************************)
EXTENDS Integers

CONSTANTS
  Instances,
  Configs,    \* stream configurations: num_replicas and duplicate_window
  Wanted,     \* Wanted[i]: the one instance i is given
  Placeable,  \* those the cluster has the servers for
  Valid,      \* Valid[i]: what of its settings and permissions is in order
  MaxFaults   \* bound on crashes, signals, outages, administrator's changes
              \* and failed binds

NoStream == [replicas |-> 0, window |-> 0]

\* What a start depends on: that the configuration can be read, the TLS material
\* (if TLS is on), the NATS URLs and the RPC endpoint parse, there is an initial
\* block and a flush interval other than zero, and NATS lets the instance query
\* and create the stream.
Settings ==
  {"config", "tls", "urls", "rpc_endpoint", "initial_block", "flush_interval"}
Permissions == {"query", "create"}

ASSUME StartupAssumption ==
  /\ Configs \subseteq [replicas : Nat \ {0}, window : Nat \ {0}]
  /\ Wanted \in [Instances -> Configs]
  /\ Placeable \subseteq Configs
  /\ Valid \in [Instances -> SUBSET (Settings \union Permissions)]
  /\ MaxFaults \in Nat

VARIABLES
  stream,     \* configuration of the stream on the server, or NoStream
  nats,       \* is JetStream reachable?
  pc,         \* pc[i]: the step instance i is at
  shutdown,   \* shutdown[i]: has its token been cancelled?
  file,       \* file[i]: its state file, "none", "ours" or another chain's
  faults

vars == <<stream, nats, pc, shutdown, file, faults>>

Pcs == {"down", "connect", "query", "create", "load", "bind", "run"}

-----------------------------------------------------------------------------
(* Faulty variants: the bugs the checked properties are meant to catch.    *)

FoundOnlyIfEqual(i) ==
  /\ pc[i] = "query" /\ nats /\ "query" \in Valid[i] /\ stream = Wanted[i]
  /\ pc' = [pc EXCEPT ![i] = "load"]
  /\ UNCHANGED <<stream, nats, shutdown, file, faults>>

FoundAndUpdated(i) ==
  /\ pc[i] = "query" /\ nats /\ "query" \in Valid[i] /\ stream # NoStream
  /\ pc' = [pc EXCEPT ![i] = "load"]
  /\ stream' = Wanted[i]
  /\ UNCHANGED <<nats, shutdown, file, faults>>

SignalOutlivesProcess(i) ==
  /\ ~shutdown[i]
  /\ faults < MaxFaults /\ faults' = faults + 1
  /\ shutdown' = [shutdown EXCEPT ![i] = TRUE]
  /\ UNCHANGED <<stream, nats, pc, file>>

QueryAgain(i) ==
  /\ pc[i] = "query" /\ ~(nats /\ "query" \in Valid[i])
  /\ UNCHANGED vars

QueryFailureIgnored(i) ==
  /\ pc[i] = "query" /\ ~(nats /\ "query" \in Valid[i])
  /\ pc' = [pc EXCEPT ![i] = "load"]
  /\ UNCHANGED <<stream, nats, shutdown, file, faults>>

-----------------------------------------------------------------------------
Fault == faults < MaxFaults /\ faults' = faults + 1

GoTo(i, step) == pc' = [pc EXCEPT ![i] = step] /\ UNCHANGED shutdown

\* The process ends; a cancelled token ends with it.
Exit(i) ==
  /\ pc' = [pc EXCEPT ![i] = "down"]
  /\ shutdown' = [shutdown EXCEPT ![i] = FALSE]

Init ==
  /\ stream \in Placeable \union {NoStream}
  /\ nats \in BOOLEAN
  /\ pc = [i \in Instances |-> "down"]
  /\ shutdown = [i \in Instances |-> FALSE]
  /\ file \in [Instances -> {"none", "ours", "foreign"}]
  /\ faults = 0

-----------------------------------------------------------------------------
(* The steps of a start.                                                   *)

\* main and setup_signal_handler.  Without a configuration the process is down
\* again at once.
Start(i) ==
  /\ pc[i] = "down"
  /\ IF "config" \in Valid[i] THEN GoTo(i, "connect") ELSE Exit(i)
  /\ UNCHANGED <<stream, nats, file, faults>>

\* TLS material that is missing or does not parse is an error.
build_rustls_client_config(i) == "tls" \in Valid[i]

\* NatsClient::connect: with retry_on_initial_connect it does not wait for a
\* connection, and fails for URLs that do not parse only.
Connect(i) ==
  /\ pc[i] = "connect"
  /\ IF build_rustls_client_config(i) /\ "urls" \in Valid[i]
     THEN GoTo(i, "query")
     ELSE Exit(i)
  /\ UNCHANGED <<stream, nats, file, faults>>

\* Does the query of the stream get an answer?
Answered(i) == nats /\ "query" \in Valid[i]

\* setup_stream: a stream that is there is taken as it is; another number of
\* replicas is logged.
StreamFound(i) ==
  /\ pc[i] = "query" /\ Answered(i) /\ stream # NoStream
  /\ GoTo(i, "load")
  /\ UNCHANGED <<stream, nats, file, faults>>

StreamNotFound(i) ==
  /\ pc[i] = "query" /\ Answered(i) /\ stream = NoStream
  /\ GoTo(i, "create")
  /\ UNCHANGED <<stream, nats, file, faults>>

\* The request is refused or times out: any error but STREAM_NOT_FOUND.
QueryFails(i) ==
  /\ pc[i] = "query" /\ ~Answered(i)
  /\ Exit(i)
  /\ UNCHANGED <<stream, nats, file, faults>>

MayBeCreated(i) == "create" \in Valid[i] /\ Wanted[i] \in Placeable

\* The server accepts a request for the stream it already has.  It refuses
\* another configuration under the same name, one it has not the servers for,
\* and whoever may not create.
Accepts(i) ==
  /\ "create" \in Valid[i]
  /\ stream = Wanted[i] \/ (stream = NoStream /\ Wanted[i] \in Placeable)

CreateStream(i) ==
  /\ pc[i] = "create" /\ nats /\ Accepts(i)
  /\ stream' = Wanted[i]
  /\ GoTo(i, "load")
  /\ UNCHANGED <<nats, file, faults>>

\* The request is refused, or the connection is lost under it, when it may have
\* been served.
CreateFails(i) ==
  /\ pc[i] = "create"
  /\ Exit(i)
  /\ \/ ~(nats /\ Accepts(i)) /\ UNCHANGED stream
     \/ ~nats /\ Accepts(i) /\ stream' = Wanted[i]
  /\ UNCHANGED <<nats, file, faults>>

\* The file of another chain is an error.
load_state_store(i) == file[i] # "foreign"

\* No file and no initial block is an error.
determine_start_block(i) == file[i] = "ours" \/ "initial_block" \in Valid[i]

\* The state file, the block reader with its client, and the first block: none
\* of them looks at anything the others or NATS can change meanwhile.
LoadState(i) ==
  /\ pc[i] = "load"
  /\ IF load_state_store(i) /\ "rpc_endpoint" \in Valid[i] /\ determine_start_block(i)
     THEN GoTo(i, "bind")
     ELSE Exit(i)
  /\ UNCHANGED <<stream, nats, file, faults>>

\* The listener is bound, or the address is in use.  Then the flush interval,
\* which panics if it is zero.
Bind(i) ==
  /\ pc[i] = "bind"
  /\ \/ /\ IF "flush_interval" \in Valid[i] THEN GoTo(i, "run") ELSE Exit(i)
        /\ UNCHANGED faults
     \/ Exit(i) /\ Fault
  /\ UNCHANGED <<stream, nats, file>>

Starting(i) ==
  \/ Connect(i) \/ StreamFound(i) \/ StreamNotFound(i) \/ QueryFails(i)
  \/ CreateStream(i) \/ CreateFails(i) \/ LoadState(i) \/ Bind(i)

-----------------------------------------------------------------------------
(* The loop, as far as it matters here, and the end.                       *)

\* Caught by the handler at any time; nothing before the loop looks at it.
Signal(i) ==
  /\ pc[i] # "down" /\ ~shutdown[i]
  /\ Fault
  /\ shutdown' = [shutdown EXCEPT ![i] = TRUE]
  /\ UNCHANGED <<stream, nats, pc, file>>

\* The tick: from the first one on there is a state file.
Persist(i) ==
  /\ pc[i] = "run"
  /\ file' = [file EXCEPT ![i] = "ours"]
  /\ UNCHANGED <<stream, nats, pc, shutdown, faults>>

\* The loop ends and the cursor is persisted.
Stop(i) ==
  /\ pc[i] = "run" /\ shutdown[i]
  /\ Exit(i)
  /\ file' = [file EXCEPT ![i] = "ours"]
  /\ UNCHANGED <<stream, nats, faults>>

Crash(i) ==
  /\ pc[i] # "down"
  /\ Fault
  /\ Exit(i)
  /\ UNCHANGED <<stream, nats, file>>

-----------------------------------------------------------------------------
(* The environment.                                                        *)

NatsUp   == ~nats /\ nats' = TRUE /\ UNCHANGED <<stream, pc, shutdown, file, faults>>
NatsDown == nats /\ Fault /\ nats' = FALSE /\ UNCHANGED <<stream, pc, shutdown, file>>

\* The administrator of the server creates the stream or updates it online.
AdminSets(config) ==
  /\ nats /\ config \in Placeable
  /\ Fault
  /\ stream' = config
  /\ UNCHANGED <<nats, pc, shutdown, file>>

-----------------------------------------------------------------------------
Next ==
  \/ \E i \in Instances : \/ Start(i) \/ Starting(i)
                          \/ Persist(i) \/ Signal(i) \/ Stop(i) \/ Crash(i)
  \/ NatsUp \/ NatsDown
  \/ \E config \in Configs : AdminSets(config)

\* A process runs on, and a supervisor restarts one that ended.  NATS need
\* not come back.
Fairness ==
  \A i \in Instances : WF_vars(Start(i)) /\ WF_vars(Starting(i)) /\ WF_vars(Stop(i))

Spec == Init /\ [][Next]_vars /\ Fairness

-----------------------------------------------------------------------------
\* Among the types: a cancelled token belongs to a process.
TypeOK ==
  /\ stream \in Configs \union {NoStream}
  /\ nats \in BOOLEAN
  /\ pc \in [Instances -> Pcs]
  /\ shutdown \in [Instances -> BOOLEAN]
  /\ \A i \in Instances : shutdown[i] => pc[i] # "down"
  /\ file \in [Instances -> {"none", "ours", "foreign"}]
  /\ faults \in 0 .. MaxFaults

\* Whatever races a set-up loses (to another instance, to the administrator,
\* to an outage), an instance that gets past it has a stream to publish to.
HasStream ==
  \A i \in Instances : pc[i] \in {"load", "bind", "run"} => stream # NoStream

\* An existing stream is never changed by an ingestor, also when it appears
\* between the query that did not find it and the request to create it.
NeverMutated ==
  [][stream' # stream => stream = NoStream \/ \E c \in Configs : AdminSets(c)]_vars

\* An instance that nothing of its own keeps from starting runs in the end, once
\* NATS stays and there is a stream, be it somebody else's with another
\* configuration, or it may create one: no race for the stream keeps it out.
CanStart(i) ==
  /\ (Settings \ {"initial_block"}) \union {"query"} \subseteq Valid[i]
  /\ load_state_store(i) /\ determine_start_block(i)

EventuallyRuns ==
  \A i \in Instances :
    CanStart(i) /\ <>[]nats /\ <>(stream # NoStream \/ MayBeCreated(i))
      => <>[](pc[i] = "run")

\* A signal during the start, which nothing there looks at, is not lost: the
\* process ends, also when NATS never answers.
SignalEnds == \A i \in Instances : shutdown[i] ~> pc[i] = "down"
=============================================================================
