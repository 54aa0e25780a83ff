----------------------------- MODULE StartupProofs -----------------------------
(***************************************************************************)
(* Proofs about Startup, for any number of instances and configurations    *)
(* and any number of faults.                                               *)
(***************************************************************************)
EXTENDS Startup, TLAPS

StartupInv == TypeOK /\ HasStream

-----------------------------------------------------------------------------
\* A configuration is not NoStream.
LEMMA ConfigsAreStreams ==
  /\ \A c \in Configs : c # NoStream
  /\ \A i \in Instances : Wanted[i] \in Configs
<1>1. \A c \in Configs : c.replicas \in Nat \ {0}
  BY StartupAssumption
<1>2. NoStream.replicas = 0
  BY DEF NoStream
<1> QED BY <1>1, <1>2, StartupAssumption

\* Nobody runs at first.
LEMMA StartupInit == Init => StartupInv
BY StartupAssumption DEF Init, StartupInv, TypeOK, HasStream, Pcs

\* A step of instance i that moves it to step, or ends it, and leaves faults
\* and file in their types keeps the types.
LEMMA MoveKeepsTypes ==
  ASSUME TypeOK, NEW i \in Instances, NEW step \in Pcs \ {"down"},
         GoTo(i, step) \/ Exit(i),
         stream' \in Configs \union {NoStream}, UNCHANGED nats,
         file' \in [Instances -> {"none", "ours", "foreign"}],
         faults' \in 0 .. MaxFaults
  PROVE  TypeOK'
<1>1. pc' \in [Instances -> Pcs] /\ shutdown' \in [Instances -> BOOLEAN]
  BY DEF TypeOK, GoTo, Exit, Pcs
<1>2. ASSUME NEW k \in Instances, shutdown'[k] PROVE pc'[k] # "down"
  <2>1. CASE GoTo(i, step)
    BY <1>2, <2>1 DEF TypeOK, GoTo
  <2>2. CASE Exit(i)
    BY <1>2, <2>2 DEF TypeOK, Exit
  <2> QED BY <2>1, <2>2
<1> QED BY <1>1, <1>2 DEF TypeOK

\* The steps of a start, with what they need of the stream.
LEMMA StartingKeeps ==
  ASSUME StartupInv, NEW i \in Instances, Starting(i)
  PROVE  /\ StartupInv'
         /\ stream' # stream => stream = NoStream
<1> USE ConfigsAreStreams
<1>1. /\ stream \in Configs \union {NoStream}
      /\ file \in [Instances -> {"none", "ours", "foreign"}]
      /\ faults \in 0 .. MaxFaults /\ MaxFaults \in Nat
      /\ pc \in [Instances -> Pcs]
  BY StartupAssumption DEF StartupInv, TypeOK
<1>2. \A k \in Instances : pc[k] \in {"load", "bind", "run"} => stream # NoStream
  BY DEF StartupInv, HasStream
<1>3. /\ file' = file /\ nats' = nats /\ faults' \in 0 .. MaxFaults
      /\ stream' \in {stream, Wanted[i]}
      /\ stream' # stream => stream = NoStream
      /\ stream # NoStream => stream' # NoStream
      /\ \E step \in {"query", "load", "create", "bind", "run"} :
           GoTo(i, step) \/ Exit(i)
  BY <1>1 DEF Starting, Connect, StreamFound, StreamNotFound, QueryFails, CreateStream,
              CreateFails, Accepts, LoadState, Bind, Fault
<1>4. pc'[i] \in {"load", "bind", "run"} => stream' # NoStream
  BY <1>1, <1>2 DEF Starting, Connect, StreamFound, StreamNotFound, QueryFails,
     CreateStream, CreateFails, LoadState, Bind, GoTo, Exit
<1>5. TypeOK'
  <2>1. PICK step \in {"query", "load", "create", "bind", "run"} :
          GoTo(i, step) \/ Exit(i)
    BY <1>3
  <2>2. step \in Pcs \ {"down"}
    BY DEF Pcs
  <2> QED BY <1>1, <1>3, <2>1, <2>2, MoveKeepsTypes DEF StartupInv
<1>6. HasStream'
  <2> SUFFICES ASSUME NEW k \in Instances, pc'[k] \in {"load", "bind", "run"}
               PROVE  stream' # NoStream
    BY DEF HasStream
  <2>1. CASE k = i
    BY <1>4, <2>1
  <2>2. CASE k # i
    <3>1. pc'[k] = pc[k]
      BY <1>1, <1>3, <2>2 DEF GoTo, Exit
    <3> QED BY <1>2, <1>3, <3>1
  <2> QED BY <2>1, <2>2
<1> QED BY <1>3, <1>5, <1>6 DEF StartupInv

\* The other steps of an instance.
LEMMA RunningKeeps ==
  ASSUME StartupInv, NEW i \in Instances,
         Start(i) \/ Persist(i) \/ Signal(i) \/ Stop(i) \/ Crash(i)
  PROVE  StartupInv' /\ stream' = stream
<1>1. stream' = stream
  BY DEF Start, Persist, Signal, Stop, Crash
<1>2. HasStream'
  BY <1>1 DEF StartupInv, TypeOK, HasStream, Start, Persist, Signal, Stop, Crash, GoTo, Exit
<1>3. CASE Signal(i)
  BY <1>3, <1>2, StartupAssumption DEF Signal, Fault, StartupInv, TypeOK
<1>4. CASE Persist(i)
  BY <1>4, <1>2 DEF Persist, StartupInv, TypeOK
<1>5. CASE Start(i) \/ Stop(i) \/ Crash(i)
  <2>1. GoTo(i, "connect") \/ Exit(i)
    BY <1>5 DEF Start, Stop, Crash
  <2>2. /\ file' \in [Instances -> {"none", "ours", "foreign"}]
        /\ faults' \in 0 .. MaxFaults /\ nats' = nats
        /\ stream' \in Configs \union {NoStream}
    BY <1>1, <1>5, StartupAssumption DEF Start, Stop, Crash, Fault, StartupInv, TypeOK
  <2>3. "connect" \in Pcs \ {"down"}
    BY DEF Pcs
  <2>4. TypeOK'
    BY <2>1, <2>2, <2>3, MoveKeepsTypes DEF StartupInv
  <2> QED BY <1>1, <1>2, <2>4 DEF StartupInv
<1> QED BY <1>3, <1>4, <1>5

\* The steps of the environment.
LEMMA EnvironmentKeeps ==
  ASSUME StartupInv, NatsUp \/ NatsDown \/ \E c \in Configs : AdminSets(c)
  PROVE  StartupInv'
<1>1. /\ stream' \in Configs \union {NoStream}
      /\ stream # NoStream => stream' # NoStream
  BY ConfigsAreStreams DEF StartupInv, TypeOK, NatsUp, NatsDown, AdminSets
<1>2. UNCHANGED <<pc, shutdown, file>> /\ nats' \in BOOLEAN
  BY DEF StartupInv, TypeOK, NatsUp, NatsDown, AdminSets
<1>3. faults' = faults \/ Fault
  BY DEF NatsUp, NatsDown, AdminSets
<1>4. faults' \in 0 .. MaxFaults
  BY <1>3, StartupAssumption DEF StartupInv, TypeOK, Fault
<1> QED BY <1>1, <1>2, <1>4 DEF StartupInv, TypeOK, HasStream

\* Every step keeps the invariant.
LEMMA StartupNext == StartupInv /\ [Next]_vars => StartupInv'
<1> SUFFICES ASSUME StartupInv, [Next]_vars PROVE StartupInv'
  OBVIOUS
<1>1. CASE UNCHANGED vars
  BY <1>1 DEF vars, StartupInv, TypeOK, HasStream
<1> QED BY <1>1, StartingKeeps, RunningKeeps, EnvironmentKeeps DEF Next

-----------------------------------------------------------------------------
\* A cancelled token belongs to a process.
THEOREM StartupTypes == Spec => []TypeOK
<1>1. StartupInv => TypeOK
  BY DEF StartupInv
<1> QED BY <1>1, StartupInit, StartupNext, PTL DEF Spec

\* However many instances start against one server, and whatever else happens
\* to the stream, one that loads its state has a stream to publish to.
THEOREM StreamIsThere == Spec => []HasStream
<1>1. StartupInv => HasStream
  BY DEF StartupInv
<1> QED BY <1>1, StartupInit, StartupNext, PTL DEF Spec

\* setup_stream never changes a stream that exists: get_stream and
\* create_stream are two requests, but the second is refused or changes
\* nothing when a stream has come between them.
THEOREM StreamsAreKept == Spec => NeverMutated
<1>1. StartupInv /\ [Next]_vars =>
        [stream' # stream => stream = NoStream \/ \E c \in Configs : AdminSets(c)]_vars
  <2> SUFFICES ASSUME StartupInv, [Next]_vars, stream' # stream
               PROVE  stream = NoStream \/ \E c \in Configs : AdminSets(c)
    OBVIOUS
  <2>1. CASE UNCHANGED vars
    BY <2>1 DEF vars
  <2>2. CASE NatsUp \/ NatsDown
    BY <2>2 DEF NatsUp, NatsDown
  <2> QED BY <2>1, <2>2, StartingKeeps, RunningKeeps DEF Next
<1> QED BY <1>1, StartupInit, StartupNext, PTL DEF Spec, NeverMutated
=============================================================================
