-------------------------- MODULE ServerLifeProofs --------------------------
(***************************************************************************)
(* A server's life, proved for any processes, environments, migrations and *)
(* periods.  The life of the processes implements Migrations, so what is   *)
(* proved there holds here; a request's age bounds the age of a shutdown   *)
(* that could cut it off.                                                  *)
(***************************************************************************)
EXTENDS ServerLife, MigrationsProofs

USE LifeAssumption DEF Periods

-----------------------------------------------------------------------------
\* Every step of a server's life is a step of Migrations or leaves it alone.
LEMMA LifeStep ==
  ASSUME [LifeNext]_lifeVars
  PROVE  [Next]_vars
<1>1. CASE UNCHANGED lifeVars  BY <1>1 DEF lifeVars
<1>2. ASSUME NEW s \in Servers, Boot(s) \/ Startup(s)
      PROVE  Next
  BY <1>2 DEF Boot, Startup, Next
<1>3. ASSUME NEW s \in Servers, Main(s)
      PROVE  Next \/ UNCHANGED vars
  BY <1>3 DEF Main, Wire, WireFails, Listen, ListenFails, Serve,
     BeginShutdown, Drained, PeriodOver, PoolClosed, Exit, Next
<1>4. ASSUME NEW s \in Servers, Signal(s) \/ ServeFails(s) \/ Kill(s)
      PROVE  Next \/ UNCHANGED vars
  BY <1>4 DEF Signal, ServeFails, Kill, Exit, Next
<1>5. ASSUME NEW q \in Requests, Accept(q) \/ Receive(q) \/ Answering(q)
      PROVE  UNCHANGED vars
  BY <1>5 DEF Accept, Receive, Answering, HeaderTimesOut, Finish
<1>6. CASE Tick  BY <1>6 DEF Tick
<1> QED  BY <1>1, <1>2, <1>3, <1>4, <1>5, <1>6 DEF LifeNext

-----------------------------------------------------------------------------
\* What the life of the processes adds to the invariant of Migrations.
Alive == LifeTypeOK /\ StageOK /\ ConnOK

\* The periods in use are never zero, so the default is never taken.
LEMMA PeriodFacts ==
  ASSUME LifeTypeOK, NEW s \in Servers
  PROVE  /\ config[s] \in serverConfig
         /\ config[s].shutdown \in Periods /\ config[s].request \in Periods
         /\ requestTimeout(config[s]) = config[s].request
BY DEF LifeTypeOK, serverConfig, requestTimeout

LEMMA ConfigFacts ==
  /\ NoConfig \in serverConfig
  /\ \A e \in Environment : Accepted(e) => loadConfig(e) \in serverConfig
BY DEF NoConfig, serverConfig, Environment, RawInt, Accepted, loadConfig,
       envInt64

\* Before the first start.
LEMMA InitAlive == LifeInit => Alive
<1> SUFFICES ASSUME LifeInit PROVE Alive  OBVIOUS
<1>1. LifeTypeOK
  BY ConfigFacts DEF LifeInit, LifeTypeOK, Stages, Conn, NoConn, ConnSteps
<1>2. StageOK  BY DEF LifeInit, StageOK
<1>3. ConnOK  BY DEF LifeInit, ConnOK, NoConn
<1> QED  BY <1>1, <1>2, <1>3 DEF Alive

\* A process that is gone takes its connections with it.
LEMMA VanishOK ==
  ASSUME Alive, NEW s \in Servers, NEW how \in {"gone", "cut"},
         Vanish(s, how), pc \in [Servers -> Steps],
         \E step \in Steps : pc' = [pc EXCEPT ![s] = step]
  PROVE  Alive'
<1> USE DEF Vanish
<1>1. LifeTypeOK'
  <2>1. config' \in [Servers -> serverConfig]
    BY ConfigFacts DEF Alive, LifeTypeOK
  <2>2. /\ stage' \in [Servers -> Stages]
        /\ since' \in [Servers -> Nat]
    BY DEF Alive, LifeTypeOK, Stages
  <2>3. conn' \in [Requests -> Conn]
    BY DEF Alive, LifeTypeOK, Conn, ConnSteps
  <2> QED  BY <2>1, <2>2, <2>3 DEF LifeTypeOK
<1>2. StageOK'  BY DEF Alive, LifeTypeOK, StageOK
<1>3. ConnOK'
  <2> SUFFICES ASSUME NEW q \in Requests PROVE ConnOK!(q)'  BY DEF ConnOK
  <2>1. CASE q \in Open(s)
    BY <2>1 DEF Alive, LifeTypeOK, Conn, ConnOK
  <2>2. CASE q \notin Open(s)
    <3>1. conn'[q] = conn[q]  BY <2>2
    <3>2. CASE conn[q].server = s
      BY <2>2, <3>1, <3>2 DEF Open
    <3>3. CASE conn[q].server # s
      BY <3>1, <3>3 DEF Alive, LifeTypeOK, ConnOK
    <3> QED  BY <3>2, <3>3
  <2> QED  BY <2>1, <2>2
<1> QED  BY <1>1, <1>2, <1>3 DEF Alive

\* Every kind of exit, and death.
LEMMA EndsOK ==
  ASSUME MInv, Alive, NEW s \in Servers,
         Exit(s, "gone") \/ Exit(s, "cut") \/ Kill(s)
  PROVE  Alive'
<1>1. \E step \in Steps : pc' = [pc EXCEPT ![s] = step]
  BY DEF Exit, Stop, Kill, Die, Goto, Steps
<1>2. pc \in [Servers -> Steps]  BY DEF MInv, TypeOK
<1> QED  BY <1>1, <1>2, VanishOK DEF Exit, Kill

\* Before Migrate has returned a process has no stage; a new process has a
\* new configuration, and no connection yet.
LEMMA StartOK ==
  ASSUME MInv, Alive, NEW s \in Servers, Boot(s) \/ Startup(s)
  PROVE  Alive'
<1>0. pc \in [Servers -> Steps]  BY DEF MInv, TypeOK
<1>1. /\ UNCHANGED <<stage, since, conn>>
      /\ \A t \in Servers : pc[t] = "serving" => pc'[t] = "serving"
  <2>1. CASE Boot(s)  BY <2>1, <1>0 DEF Boot, Start, Goto
  <2>2. CASE Startup(s)
    BY <2>2, <1>0 DEF Startup, life, Proceed, Fail, Lock, Check, Execute,
       Record, Commit, Unlock, SessionEnds, Goto, InTx
  <2> QED  BY <2>1, <2>2
<1>2. StageOK' /\ ConnOK' /\ config' \in [Servers -> serverConfig]
  <2>1. CASE Startup(s)
    BY <2>1, <1>1 DEF Startup, life, Alive, LifeTypeOK, StageOK, ConnOK
  <2>2. CASE Boot(s)
    <3>1. /\ config' \in [Servers -> serverConfig]
          /\ \A t \in Servers \ {s} : config'[t] = config[t]
      BY <2>2, ConfigFacts DEF Boot, Alive, LifeTypeOK
    <3>2. pc[s] # "serving"  BY <2>2 DEF Boot, Start
    <3>3. stage[s] = "off"  BY <3>2 DEF Alive, StageOK
    <3>4. StageOK'  BY <1>1, <3>1, <3>3 DEF Alive, StageOK
    <3>5. ConnOK'
      <4> SUFFICES ASSUME NEW q \in Requests PROVE ConnOK!(q)'  BY DEF ConnOK
      <4>1. conn[q].step \in {"new", "running"} => conn[q].server # s
        BY <3>3 DEF Alive, ConnOK, Handling, Accepting
      <4> QED  BY <4>1, <1>1, <3>1 DEF Alive, ConnOK
    <3> QED  BY <3>1, <3>4, <3>5
  <2> QED  BY <2>1, <2>2
<1>3. LifeTypeOK'  BY <1>1, <1>2 DEF Alive, LifeTypeOK
<1> QED  BY <1>2, <1>3 DEF Alive

\* From one stage of a process to another that is no later than a shutdown.
LEMMA StageStepOK ==
  ASSUME Alive, NEW s \in Servers,
         Wire(s) \/ Listen(s) \/ Serve(s) \/ Signal(s) \/ BeginShutdown(s)
  PROVE  Alive'
<1> USE DEF Wire, Listen, Serve, Signal, BeginShutdown, At
<1>1. /\ UNCHANGED <<vars, config, since, conn>>
      /\ \E to \in Stages \ {"off", "closing"} :
           stage' = [stage EXCEPT ![s] = to]
      /\ pc[s] = "serving" /\ stage[s] # "draining"
      /\ stage[s] \in Accepting => stage'[s] \in Handling
  BY DEF Alive, StageOK, LifeTypeOK, Stages, Accepting, Handling
<1>2. LifeTypeOK'  BY <1>1 DEF Alive, LifeTypeOK
<1>3. StageOK'
  <2>1. since[s] <= config[s].shutdown
    BY <1>1, PeriodFacts DEF Alive, StageOK
  <2> QED  BY <1>1, <2>1 DEF Alive, LifeTypeOK, StageOK, vars
<1>4. ConnOK'
  BY <1>1 DEF Alive, LifeTypeOK, ConnOK, Accepting, Handling
<1> QED  BY <1>2, <1>3, <1>4 DEF Alive

\* A drained process has no open connection.
LEMMA DrainedOK ==
  ASSUME Alive, NEW s \in Servers, Drained(s)
  PROVE  Alive'
<1> USE DEF Drained, At
<1>1. LifeTypeOK'  BY DEF Alive, LifeTypeOK, Stages
<1>2. StageOK'  BY DEF Alive, LifeTypeOK, StageOK, vars
<1>3. ConnOK'
  <2> SUFFICES ASSUME NEW q \in Requests PROVE ConnOK!(q)'  BY DEF ConnOK
  <2>1. conn[q].server = s => conn[q].step \notin {"new", "running"}
    BY DEF Open
  <2> QED  BY <2>1 DEF Alive, LifeTypeOK, ConnOK
<1> QED  BY <1>1, <1>2, <1>3 DEF Alive

\* Requests come, are read and end.
LEMMA RequestStepOK ==
  ASSUME Alive, NEW r \in Requests, Accept(r) \/ Receive(r) \/ Answering(r)
  PROVE  Alive'
<1>0. UNCHANGED <<pc, config, stage, since>>
  BY DEF Accept, Receive, Answering, HeaderTimesOut, Finish, vars
<1>1. StageOK'  BY <1>0 DEF Alive, StageOK
<1>2. CASE Accept(r)
  <2> PICK s \in Servers :
        /\ stage[s] \in Accepting
        /\ conn' = [conn EXCEPT ![r] = [server |-> s, step |-> "new",
                                        age |-> 0, late |-> FALSE]]
    BY <1>2 DEF Accept, Carry
  <2>1. LifeTypeOK'  BY <1>0 DEF Alive, LifeTypeOK, Conn, ConnSteps
  <2>2. since[s] = 0  BY DEF Alive, StageOK, Accepting
  <2>3. ConnOK'
    <3> SUFFICES ASSUME NEW q \in Requests PROVE ConnOK!(q)'  BY DEF ConnOK
    <3>1. CASE q = r
      <4>1. conn'[q] = [server |-> s, step |-> "new", age |-> 0,
                        late |-> FALSE]
        BY <3>1 DEF Alive, LifeTypeOK
      <4> QED  BY <4>1, <1>0, <2>2 DEF Handling
    <3>2. CASE q # r
      BY <3>2, <1>0 DEF Alive, LifeTypeOK, ConnOK
    <3> QED  BY <3>1, <3>2
  <2> QED  BY <1>1, <2>1, <2>3 DEF Alive
<1>3. CASE Receive(r)
  <2> DEFINE s == conn[r].server
  <2>1. /\ conn[r].step = "new" /\ conn[r].age <= HeaderTime
        /\ s \in Servers /\ stage[s] \in Handling
        /\ since[s] <= conn[r].age /\ conn[r].age \in Nat
        /\ since[s] \in Nat
    BY <1>3 DEF Receive, Alive, ConnOK, LifeTypeOK, Conn
  <2>2. PICK l \in BOOLEAN :
          /\ conn' = [conn EXCEPT ![r] = [server |-> s, step |-> "running",
                                          age |-> 0, late |-> l]]
          /\ ~l => stage[s] # "draining"
    <3>1. CASE stage[s] = "draining"
      BY <1>3, <3>1 DEF Receive, Carry
    <3>2. CASE stage[s] # "draining"
      BY <1>3, <3>2 DEF Receive, Carry
    <3> QED  BY <3>1, <3>2
  <2>3. LifeTypeOK'
    BY <1>0, <2>1, <2>2 DEF Alive, LifeTypeOK, Conn, ConnSteps
  <2>4. conn'[r] = [server |-> s, step |-> "running", age |-> 0, late |-> l]
    BY <2>2 DEF Alive, LifeTypeOK
  <2>5. 0 <= requestTimeout(config'[s])
    BY <1>0, <2>1, PeriodFacts DEF Alive
  <2>6. since[s] <= IF l THEN HeaderTime ELSE 0
    BY <2>1, <2>2 DEF Alive, StageOK
  <2>7. ConnOK'
    <3> SUFFICES ASSUME NEW q \in Requests PROVE ConnOK!(q)'  BY DEF ConnOK
    <3>1. CASE q = r
      BY <3>1, <1>0, <2>1, <2>4, <2>5, <2>6
    <3>2. CASE q # r
      BY <3>2, <1>0, <2>2 DEF Alive, LifeTypeOK, ConnOK
    <3> QED  BY <3>1, <3>2
  <2> QED  BY <1>1, <2>3, <2>7 DEF Alive
<1>4. CASE Answering(r)
  <2>1. \E step \in {"refused", "answered", "lost"} :
          conn' = [conn EXCEPT ![r].step = step]
    BY <1>4 DEF Answering, HeaderTimesOut, Finish, Close
  <2>2. LifeTypeOK'  BY <1>0, <2>1 DEF Alive, LifeTypeOK, Conn, ConnSteps
  <2>3. ConnOK'  BY <1>0, <2>1 DEF Alive, LifeTypeOK, ConnOK, Conn
  <2> QED  BY <1>1, <2>2, <2>3 DEF Alive
<1> QED  BY <1>2, <1>3, <1>4

\* A second passes for a shutdown and for its connections alike.
LEMMA TickOK ==
  ASSUME Alive, Tick
  PROVE  Alive'
<1>0. UNCHANGED <<pc, config, stage>>  BY DEF Tick, vars
<1>1. \A s \in Servers : since'[s] =
        IF stage[s] = "draining" THEN since[s] + 1 ELSE since[s]
  BY DEF Tick
<1>2. LifeTypeOK'
  <2>1. since' \in [Servers -> Nat]
    BY DEF Tick, Alive, LifeTypeOK
  <2>2. conn' \in [Requests -> Conn]
    BY DEF Tick, Alive, LifeTypeOK, Conn
  <2> QED  BY <1>0, <2>1, <2>2 DEF Alive, LifeTypeOK
<1>3. StageOK'
  <2> SUFFICES ASSUME NEW s \in Servers PROVE StageOK!(s)'  BY DEF StageOK
  <2>1. since[s] \in Nat /\ config[s].shutdown \in Nat
    BY PeriodFacts DEF Alive, LifeTypeOK
  <2>2. stage[s] = "draining" => since[s] < config[s].shutdown  BY DEF Tick
  <2> QED  BY <1>0, <1>1, <2>1, <2>2 DEF Alive, StageOK
<1>4. ConnOK'
  <2> SUFFICES ASSUME NEW q \in Requests PROVE ConnOK!(q)'  BY DEF ConnOK
  <2>1. CASE conn[q].step \in {"new", "running"}
    <3> DEFINE s == conn[q].server
    <3>1. conn'[q] = [conn[q] EXCEPT !.age = @ + 1]  BY <2>1 DEF Tick
    <3>2. /\ conn[q] \in Conn /\ s \in Servers /\ stage[s] \in Handling
          /\ since[s] \in Nat
      BY <2>1 DEF Alive, LifeTypeOK, ConnOK
    <3>3. /\ conn'[q].age = conn[q].age + 1 /\ conn[q].age \in Nat
          /\ conn'[q].step = conn[q].step /\ conn'[q].late = conn[q].late
          /\ conn'[q].server = s
      BY <3>1, <3>2 DEF Conn
    <3>4. since'[s] <= since[s] + 1  BY <1>1, <3>2
    <3>5. since'[s] \in Nat  BY <3>2, <1>2 DEF LifeTypeOK
    <3>6. CASE conn[q].step = "new"
      <4>1. conn[q].age < HeaderTime  BY <3>6 DEF Tick
      <4>2. since[s] <= conn[q].age  BY <3>6 DEF Alive, ConnOK
      <4> QED  BY <1>0, <3>2, <3>3, <3>4, <3>5, <3>6, <4>1, <4>2
    <3>7. CASE conn[q].step = "running"
      <4>1. conn[q].age < requestTimeout(config[s])  BY <3>7 DEF Tick
      <4>2. since[s] <= conn[q].age + (IF conn[q].late THEN HeaderTime ELSE 0)
        BY <3>7 DEF Alive, ConnOK
      <4>3. requestTimeout(config[s]) \in Nat
        BY <3>2, PeriodFacts DEF Alive
      <4> QED  BY <1>0, <3>2, <3>3, <3>4, <3>5, <3>7, <4>1, <4>2, <4>3
    <3> QED  BY <2>1, <3>6, <3>7
  <2>2. CASE conn[q].step \notin {"new", "running"}
    BY <2>2 DEF Tick
  <2> QED  BY <2>1, <2>2
<1> QED  BY <1>2, <1>3, <1>4 DEF Alive

\* Every step.
LEMMA NextAlive ==
  ASSUME MInv, Alive, [LifeNext]_lifeVars
  PROVE  Alive'
<1>1. CASE UNCHANGED lifeVars
  BY <1>1 DEF lifeVars, life, vars, Alive, LifeTypeOK, StageOK, ConnOK
<1>2. ASSUME NEW s \in Servers, Main(s)
      PROVE  Alive'
  BY <1>2, EndsOK, StageStepOK, DrainedOK
  DEF Main, WireFails, ListenFails, PeriodOver, PoolClosed
<1>3. ASSUME NEW s \in Servers, ServeFails(s)
      PROVE  Alive'
  BY <1>3, EndsOK DEF ServeFails
<1> QED
  BY <1>1, <1>2, <1>3, StartOK, StageStepOK, EndsOK, RequestStepOK, TickOK
  DEF LifeNext

\* The invariant of the processes' lives, for any number of them.
THEOREM LifeInvariant == LifeSpec => []LifeInv
<1>1. LifeInit => LifeInv
  BY InitMInv, InitAlive DEF LifeInit, LifeInv, Alive
<1>2. LifeInv /\ [LifeNext]_lifeVars => LifeInv'
  BY LifeStep, NextMInv, NextAlive DEF LifeInv, Alive
<1> QED  BY <1>1, <1>2, PTL DEF LifeSpec

\* Serving, shutting down and failing add nothing to what processes do to the
\* database: a server's life implements Migrations.
THEOREM LifeImplementsMigrations == LifeSpec => Spec
<1>1. LifeInit => Init  BY DEF LifeInit
<1>2. [LifeNext]_lifeVars => [Next]_vars  BY LifeStep
<1> QED  BY <1>1, <1>2, PTL DEF LifeSpec, Spec

\* No handler runs before its process has migrated, or after it has begun to
\* close the pool.
THEOREM NoHandlerTooEarlyOrLate == LifeSpec => []HandlersRunOnMigrated
<1>1. LifeInv => HandlersRunOnMigrated
  BY DEF LifeInv, MInv, StageOK, ConnOK, HandlersRunOnMigrated,
         ServesMigrated, Handling, Accepting
<1> QED  BY <1>1, LifeInvariant, PTL

\* What Migrations promises holds of servers with a start-up deadline, signals,
\* failures of any step and requests: nothing is migrated twice, the ledger is
\* true, and a server listens only on a migrated database.
THEOREM ServersMigrateOnce ==
  LifeSpec => [](NeverTwice /\ LedgerMatchesSchema /\ ServesMigrated)
<1>1. LifeInv => NeverTwice /\ LedgerMatchesSchema /\ ServesMigrated
  BY DEF LifeInv, MInv
<1> QED  BY <1>1, LifeInvariant, PTL

\* With a request timeout below the write timeout, and a shutdown period above
\* it by the time a silent connection is waited for, every request whose header
\* was read is answered, unless the process dies or its listener fails.
THEOREM ShutdownSparesRequests == LifeSpec => AnswersSurviveShutdown
<1> DEFINE A == \A q \in Requests :
      conn[q].step = "running" /\ conn'[q].step \in {"lost", "cut"} =>
        MayBeHurried(q)
<1>1. LifeInv /\ [LifeNext]_lifeVars => [A]_lifeVars
  <2> SUFFICES ASSUME LifeInv, LifeNext, NEW q \in Requests,
                      conn[q].step = "running",
                      conn'[q].step \in {"lost", "cut"}
               PROVE  MayBeHurried(q)
    OBVIOUS
  <2> DEFINE s == conn[q].server
  <2>1. /\ s \in Servers /\ conn[q] \in Conn
        /\ conn[q].age <= requestTimeout(config[s])
        /\ since[s] <= conn[q].age + (IF conn[q].late THEN HeaderTime ELSE 0)
        /\ since[s] \in Nat
        /\ config[s].shutdown \in Nat /\ requestTimeout(config[s]) \in Nat
    BY PeriodFacts DEF LifeInv, LifeTypeOK, ConnOK
  <2>2. conn[q].age \in Nat /\ conn[q].late \in BOOLEAN  BY <2>1 DEF Conn
  <2>3. \/ conn[q].age >= WriteTimeout
        \/ since[s] >= config[s].shutdown
    <3>1. ASSUME NEW t \in Servers, Boot(t) \/ Startup(t)
          PROVE  UNCHANGED conn
      BY <3>1 DEF Boot, Startup, life
    <3>2. ASSUME NEW t \in Servers, Main(t)
          PROVE  \/ UNCHANGED conn
                 \/ Vanish(t, "gone")
                 \/ Vanish(t, "cut") /\ since[t] >= config[t].shutdown
      BY <3>2 DEF Main, Wire, WireFails, Listen, ListenFails, Serve,
         BeginShutdown, Drained, PeriodOver, PoolClosed, Exit
    <3>3. ASSUME NEW t \in Servers, Signal(t) \/ ServeFails(t) \/ Kill(t)
          PROVE  UNCHANGED conn \/ Vanish(t, "gone")
      BY <3>3 DEF Signal, ServeFails, Kill, Exit
    <3>4. ASSUME NEW t \in Servers, Vanish(t, "gone")
          PROVE  FALSE
      BY <3>4 DEF Vanish, LifeInv, LifeTypeOK, Conn
    <3>5. ASSUME NEW t \in Servers, Vanish(t, "cut")
          PROVE  t = s
      BY <3>5 DEF Vanish, Open
    <3>6. ASSUME NEW r \in Requests, Accept(r) \/ Receive(r) \/ Answering(r)
          PROVE  conn[q].age >= WriteTimeout
      <4>1. r = q
        BY <3>6 DEF Accept, Receive, Answering, HeaderTimesOut, Finish,
                    Carry, Close, LifeInv, LifeTypeOK
      <4>2. Finish(q)
        BY <3>6, <4>1 DEF Accept, Receive, Answering, HeaderTimesOut
      <4> QED
        BY <4>2 DEF Finish, Close, LifeInv, LifeTypeOK, Conn
    <3>7. CASE Tick  BY <3>7 DEF Tick, LifeInv, LifeTypeOK, Conn
    <3> QED
      BY <3>1, <3>2, <3>3, <3>4, <3>5, <3>6, <3>7 DEF LifeNext
  <2> QED  BY <2>1, <2>2, <2>3 DEF MayBeHurried
<1> QED  BY <1>1, LifeInvariant, PTL DEF LifeSpec, AnswersSurviveShutdown

\* Whatever migration files there are, of any length, processes find in them
\* the statements that are written (ParseDBMateUp).
THEOREM FilesAreParsed == LifeSpec => []FilesParse
<1>1. FilesParse  BY FilesParsed DEF FilesParse
<1> QED  BY <1>1, PTL
=============================================================================
