----------------------------- MODULE ServerLife -----------------------------
(***************************************************************************)
(* A notes-server process from its start to its exit (cmd/notes-server):   *)
(* loadConfig, Migrate, the wiring of the module, net.Listen, serving, and *)
(* on SIGINT or SIGTERM a shutdown that waits a bounded time for the       *)
(* requests under way.  The start is Migrations, step by step; this module *)
(* adds the configuration, what follows Migrate, the requests, and time.   *)
(* The program's own steps take no time; clients and handlers do.          *)
(***************************************************************************)
EXTENDS Migrations, MigrationFile

CONSTANTS
  Environments,     \* Environments[s]: those process s may be started in
  Requests,         \* RPCs, each sent once on a connection of its own
  HeaderTime,       \* ReadHeaderTimeout, and Shutdown's patience with a
                    \* connection that has sent nothing yet: 5 s both
  WriteTimeout,     \* the time between a request's header and its answer
  MaxSeconds,       \* the largest period loadConfig accepts
  DefaultShutdown,  \* defaultShutdownPeriod
  DefaultRequest    \* defaultRequestTimeout

\* An integer variable, set or not; for a period, text that is no integer is
\* refused like 0.
RawInt == [set : BOOLEAN, n : Int]

\* wellFormed: loadConfig finds no fault with the database, the addresses, the
\* size of the pool, the log level and the text of the user id.
Environment ==
  [wellFormed : BOOLEAN, mode : {"jwt", "dev", "other"}, token : BOOLEAN,
   secret : BOOLEAN, user : RawInt, shutdown : RawInt, request : RawInt]

Periods == 1 .. MaxSeconds
serverConfig == [mode : {"jwt", "dev"}, secret : BOOLEAN, user : Int,
                 shutdown : Periods, request : Periods]

ASSUME LifeAssumption ==
  /\ Environments \in [Servers -> SUBSET Environment]
  /\ HeaderTime \in Nat /\ WriteTimeout \in Nat /\ MaxSeconds \in Nat
  /\ DefaultShutdown \in Periods /\ DefaultRequest \in Periods

VARIABLES
  config,  \* config[s]: what s loaded, NoConfig if it has not
  stage,   \* stage[s]: where s is after Migrate
  since,   \* since[s]: the time since its shutdown began
  conn     \* conn[q]: the connection that carries request q

life == <<config, stage, since, conn>>
lifeVars == <<vars, life>>

Stages == {"off", "wired", "listening", "serving", "signalled", "draining",
           "closing"}
Accepting == {"serving", "signalled"}
Handling == Accepting \cup {"draining"}

\* "gone": the process died; "cut": it closed the connection on purpose;
\* "lost": the answer came too late to be written; "late": the header was
\* read only while the server was shutting down.
ConnSteps == {"none", "new", "running", "answered", "refused",
              "lost", "cut", "gone"}
Conn == [server : Servers \cup {Nobody}, step : ConnSteps, age : Nat,
         late : BOOLEAN]
NoConn == [server |-> Nobody, step |-> "none", age |-> 0, late |-> FALSE]

At(s, from, to) == stage[s] = from /\ stage' = [stage EXCEPT ![s] = to]

Open(s) == {q \in Requests : conn[q].server = s
                             /\ conn[q].step \in {"new", "running"}}

-----------------------------------------------------------------------------
\* Configuration.

envInt64(raw, fallback) == IF raw.set THEN raw.n ELSE fallback

\* loadConfig finds nothing wrong.
Accepted(e) ==
  /\ e.wellFormed /\ e.mode \in {"jwt", "dev"}
  /\ envInt64(e.shutdown, DefaultShutdown) \in Periods
  /\ envInt64(e.request, DefaultRequest) \in Periods
  /\ e.mode = "dev" => e.token

loadConfig(e) ==
  [mode |-> e.mode, secret |-> e.secret, user |-> envInt64(e.user, 1),
   shutdown |-> envInt64(e.shutdown, DefaultShutdown),
   request |-> envInt64(e.request, DefaultRequest)]

NoConfig == [mode |-> "jwt", secret |-> FALSE, user |-> 0,
             shutdown |-> DefaultShutdown, request |-> DefaultRequest]

\* Module.Config.requestTimeout.
requestTimeout(c) == IF c.request <= 0 THEN DefaultRequest ELSE c.request

\* buildTokenVerifier: in jwt mode the shared secret is read from the
\* environment only here, after the database was migrated.
VerifierOK(c) == IF c.mode = "dev" THEN c.user > 0 ELSE c.secret

-----------------------------------------------------------------------------
\* The start.

Boot(s) == \E e \in Environments[s] :
  /\ Accepted(e) /\ Start(s)
  /\ config' = [config EXCEPT ![s] = loadConfig(e)]
  /\ UNCHANGED <<stage, since, conn>>

Startup(s) == (Proceed(s) \/ Fail(s)) /\ UNCHANGED life

\* A process is gone, and the kernel closes what it still had open.
Vanish(s, how) ==
  /\ config' = [config EXCEPT ![s] = NoConfig]
  /\ stage' = [stage EXCEPT ![s] = "off"]
  /\ since' = [since EXCEPT ![s] = 0]
  /\ conn' = [q \in Requests |-> IF q \in Open(s)
                THEN [conn[q] EXCEPT !.step = how] ELSE conn[q]]

\* main returns or calls os.Exit.
Exit(s, how) == Stop(s) /\ Vanish(s, how)

\* The rest of newApplication, from buildTokenVerifier to the mux.
Wire(s) ==
  /\ pc[s] = "serving" /\ At(s, "off", "wired")
  /\ VerifierOK(config[s])
  /\ UNCHANGED <<vars, config, since, conn>>

WireFails(s) ==
  /\ pc[s] = "serving" /\ stage[s] = "off"
  /\ ~VerifierOK(config[s])
  /\ Exit(s, "gone")

\* Variant: the listener is opened before the database is migrated.
ListenFirst(s) ==
  /\ At(s, "off", "listening") /\ pc[s] # "down"
  /\ UNCHANGED <<vars, config, since, conn>>

Listen(s) == At(s, "wired", "listening") /\ UNCHANGED <<vars, config, since, conn>>

\* net.Listen refuses: main exits with an error.
ListenFails(s) == stage[s] = "wired" /\ Exit(s, "gone")

\* signal.NotifyContext, then the goroutine with server.Serve.
Serve(s) == At(s, "listening", "serving") /\ UNCHANGED <<vars, config, since, conn>>

-----------------------------------------------------------------------------
\* Requests.

Carry(q, s, step, late) ==
  conn' = [conn EXCEPT ![q] =
             [server |-> s, step |-> step, age |-> 0, late |-> late]]
Close(q, step) == conn' = [conn EXCEPT ![q].step = step]

\* Server.Serve accepts a connection.
Accept(q) == \E s \in Servers :
  /\ conn[q].step = "none" /\ stage[s] \in Accepting
  /\ Carry(q, s, "new", FALSE)
  /\ UNCHANGED <<vars, config, stage, since>>

\* The request's header is read and its handler begins, also when the
\* connection was accepted before a shutdown and speaks only now.
Receive(q) == LET s == conn[q].server IN
  /\ conn[q].step = "new"
  /\ Carry(q, s, "running", stage[s] = "draining")
  /\ UNCHANGED <<vars, config, stage, since>>

\* A connection whose header does not come is closed.
HeaderTimesOut(q) ==
  /\ conn[q].step = "new" /\ conn[q].age >= HeaderTime
  /\ Close(q, "refused")
  /\ UNCHANGED <<vars, config, stage, since>>

\* The handler returns and its answer is written before the deadline, or not.
Finish(q) ==
  /\ conn[q].step = "running"
  /\ \/ conn[q].age <= WriteTimeout /\ Close(q, "answered")
     \/ conn[q].age >= WriteTimeout /\ Close(q, "lost")
  /\ UNCHANGED <<vars, config, stage, since>>

-----------------------------------------------------------------------------
\* The end.

\* SIGINT or SIGTERM cancels serve's context; a second one changes nothing.
Signal(s) == At(s, "serving", "signalled") /\ UNCHANGED <<vars, config, since, conn>>

\* Variant: serve waits only for the server to fail.
BeginShutdownNever(s) == FALSE /\ UNCHANGED lifeVars

\* server.Shutdown closes the listener and begins to wait.
BeginShutdown(s) ==
  At(s, "signalled", "draining") /\ UNCHANGED <<vars, config, since, conn>>

\* Variant: Shutdown does not wait for connections that have sent nothing.
DrainedOfRunning(s) ==
  /\ At(s, "draining", "closing")
  /\ \A q \in Open(s) : conn[q].step = "new"
  /\ since' = [since EXCEPT ![s] = 0]
  /\ UNCHANGED <<vars, config, conn>>

\* No request is under way and no connection is still expected to send one.
Drained(s) ==
  /\ At(s, "draining", "closing") /\ Open(s) = {}
  /\ since' = [since EXCEPT ![s] = 0]
  /\ UNCHANGED <<vars, config, conn>>

\* Variant: Shutdown gives up at once.
PeriodOverAtOnce(s) == stage[s] = "draining" /\ Exit(s, "cut")

\* Shutdown gives up: server.Close, and main exits without closing the pool.
PeriodOver(s) ==
  /\ stage[s] = "draining" /\ since[s] >= config[s].shutdown
  /\ Exit(s, "cut")

\* The deferred close of the pool, and main returns.
PoolClosed(s) == stage[s] = "closing" /\ Exit(s, "gone")

\* Serve fails by itself: main exits without a shutdown, also if the signal
\* came at the same time.
ServeFails(s) == stage[s] \in Accepting /\ Exit(s, "gone")

\* The process dies.
Kill(s) == Die(s) /\ Vanish(s, "gone")

\* Time passes, no further than to the next deadline: handlers return when
\* NewTimeoutInterceptor cancels them.
Tick ==
  /\ \A s \in Servers :
       stage[s] = "draining" => since[s] < config[s].shutdown
  /\ \A q \in Requests :
       /\ conn[q].step = "new" => conn[q].age < HeaderTime
       /\ conn[q].step = "running" =>
            conn[q].age < requestTimeout(config[conn[q].server])
  /\ since' = [s \in Servers |->
       IF stage[s] = "draining" THEN since[s] + 1 ELSE since[s]]
  /\ conn' = [q \in Requests |-> IF conn[q].step \in {"new", "running"}
       THEN [conn[q] EXCEPT !.age = @ + 1] ELSE conn[q]]
  /\ UNCHANGED <<vars, config, stage>>

-----------------------------------------------------------------------------
LifeInit ==
  /\ Init
  /\ config = [s \in Servers |-> NoConfig]
  /\ stage = [s \in Servers |-> "off"]
  /\ since = [s \in Servers |-> 0]
  /\ conn = [q \in Requests |-> NoConn]

\* What main of s does next once Migrate has returned.
Main(s) ==
  \/ Wire(s) \/ WireFails(s) \/ Listen(s) \/ ListenFails(s) \/ Serve(s)
  \/ BeginShutdown(s) \/ Drained(s) \/ PeriodOver(s) \/ PoolClosed(s)

Answering(q) == HeaderTimesOut(q) \/ Finish(q)

LifeNext ==
  \/ \E s \in Servers :
       Boot(s) \/ Startup(s) \/ Main(s) \/ Signal(s) \/ ServeFails(s) \/ Kill(s)
  \/ \E q \in Requests : Accept(q) \/ Receive(q) \/ Answering(q)
  \/ Tick

LifeSpec == LifeInit /\ [][LifeNext]_lifeVars

\* Processes run, time passes, and PostgreSQL ends dead sessions and hands
\* the lock on in the order in which it was asked for.  Nothing forces anyone
\* to start or to signal a process or to send a request, nor faults.
FairLife ==
  /\ LifeSpec /\ WF_lifeVars(Tick)
  /\ \A s \in Servers :
       /\ WF_lifeVars(Proceed(s) /\ UNCHANGED life)
       /\ SF_lifeVars(Lock(s) /\ UNCHANGED life)
       /\ WF_lifeVars(Main(s))
  /\ \A q \in Requests : WF_lifeVars(Answering(q))
-----------------------------------------------------------------------------
LifeTypeOK ==
  /\ config \in [Servers -> serverConfig]
  /\ stage \in [Servers -> Stages]
  /\ since \in [Servers -> Nat]
  /\ conn \in [Requests -> Conn]

\* A handler runs only on a database that has every migration its process
\* knows, with the pool open, whatever other processes start and stop.
HandlersRunOnMigrated == \A q \in Requests :
  conn[q].step = "running" => LET s == conn[q].server IN
    /\ stage[s] \in Handling
    /\ 1 .. Embedded[s] \subseteq ledger

\* The configuration of q's process can cost a request its answer: the
\* handler may outlast the write deadline, or outlast the shutdown.
MayBeHurried(q) == LET c == config[conn[q].server] IN
  \/ requestTimeout(c) >= WriteTimeout
  \/ requestTimeout(c) + (IF conn[q].late THEN HeaderTime ELSE 0) >= c.shutdown

\* An orderly shutdown and the write deadline take the answer from no request
\* whose header was read, unless the configured periods leave too little room.
AnswersSurviveShutdown ==
  [][\A q \in Requests :
       conn[q].step = "running" /\ conn'[q].step \in {"lost", "cut"} =>
         MayBeHurried(q)]_lifeVars

\* A signalled process comes to its end, whatever its clients do.
SignalEnds == \A s \in Servers : stage[s] = "signalled" ~> stage[s] = "off"

\* Before anything has happened, the files that processes will read are parsed
\* as they are written: ParsesAsWritten, looked at in the first state.
FilesParse == LifeInit => ParsesAsWritten

-----------------------------------------------------------------------------
\* The inductive invariant behind the safety properties.

\* What follows Migrate happens only in a process that has migrated.
StageOK == \A s \in Servers :
  /\ stage[s] # "off" => pc[s] = "serving"
  /\ stage[s] = "draining" => since[s] <= config[s].shutdown
  /\ stage[s] # "draining" => since[s] = 0

\* Connections are open at processes that handle them, for a bounded time; a
\* shutdown that began after a connection is not older than the connection.
ConnOK == \A q \in Requests :
  LET c == conn[q]  s == conn[q].server IN
  /\ c.step \in {"new", "running"} => s \in Servers /\ stage[s] \in Handling
  /\ c.step = "new" => c.age <= HeaderTime /\ since[s] <= c.age
  /\ c.step = "running" =>
       /\ c.age <= requestTimeout(config[s])
       /\ since[s] <= c.age + (IF c.late THEN HeaderTime ELSE 0)

LifeInv == MInv /\ LifeTypeOK /\ StageOK /\ ConnOK
=============================================================================
