------------------------------- MODULE Service -------------------------------
(***************************************************************************)
(* The server process (cmd/server/main.go): its start and its exit, the    *)
(* two HTTP listeners (lib/httpserver), the MQTT subscriber with its       *)
(* callbacks (frigate/mqtt.go), and the database with its background setup *)
(* and detached audit writes (db/db.go, postgres.go, mongo.go).            *)
(*                                                                         *)
(* The MQTT client runs each callback in a goroutine of its own and        *)
(* reconnects by itself; the broker, the database and SIGTERM are the      *)
(* environment.                                                            *)
(***************************************************************************)
EXTENDS Integers, FiniteSets

CONSTANTS Topics,        \* what the subscriber subscribes to
          MaxSessions,   \* bound: connections to the broker
          MaxRequests,   \* bound: requests in flight on a listener
          MaxWrites      \* bound: audit writes in flight

ASSUME ServiceAssumption ==
  MaxSessions \in Nat /\ MaxRequests \in Nat /\ MaxWrites \in Nat

VARIABLES
  config,     \* what the configuration asks for; a database URL no driver takes is none
  canceled,   \* whether SIGTERM has ended the context
  main,       \* where main is, and its exit code
  servers,    \* each listener
  session,    \* the connection to the broker: its number, whether it is up, its topics
  callbacks,  \* the client's callbacks that run
  ready,      \* what /readyz says
  mixed,      \* whether the callbacks that ran last overlapped
  database,   \* whether it answers, its schema, its pool, and the writes in flight
  janitor     \* the background setup and sweep
vars == <<config, canceled, main, servers, session, callbacks, ready, mixed, database, janitor>>

Servers == {"internal", "media"}
Configs == [valid : BOOLEAN, media : {"none", "good", "bad"}, db : {"none", "url"}]

Off == [at |-> "off", requests |-> 0, cut |-> "no"]
At(p) == main.at = p
GoTo(p) == main' = [main EXCEPT !.at = p]
Exited == main.at = "exited"

\* The process ends and takes with it whatever still runs.
Exit(code) ==
  /\ main' = [at |-> "exited", code |-> code]
  /\ servers' = [s \in Servers |->
       IF servers[s].requests > 0 THEN [servers[s] EXCEPT !.requests = 0, !.cut = "exit"]
       ELSE servers[s]]
Fatal == Exit(1)

-----------------------------------------------------------------------------
\* main, up to the listeners.
ReadConfig ==
  /\ At("config")
  /\ IF config.valid THEN GoTo("open") /\ UNCHANGED servers ELSE Fatal
  /\ UNCHANGED <<config, canceled, session, callbacks, ready, mixed, database, janitor>>

\* Postgres has no TTL indexes, so its janitor goes on to sweep; MongoDB's ends.
AfterSetUp == {"sweeping", "done"}

\* db.Open: a database that does not answer yet is set up in the background.
OpenDatabase ==
  /\ At("open") /\ GoTo("listen")
  /\ IF config.db = "url"
     THEN \E ok \in {FALSE} \cup {database.up} :
            /\ database' = [database EXCEPT !.pool = "open", !.schema = ok]
            /\ IF ok THEN janitor' \in AfterSetUp ELSE janitor' = "retrying"
     ELSE UNCHANGED <<database, janitor>>
  /\ UNCHANGED <<config, canceled, servers, session, callbacks, ready, mixed>>

Listen ==
  /\ At("listen")
  /\ IF config.media = "bad" THEN Fatal
     ELSE /\ GoTo("connect")
          /\ servers' = [s \in Servers |->
               IF s = "internal" \/ config.media = "good" THEN [Off EXCEPT !.at = "up"] ELSE Off]
  /\ UNCHANGED <<config, canceled, session, callbacks, ready, mixed, database, janitor>>

\* NewSubscriber waits for the first connection or the signal.
Connected ==
  /\ At("connect") /\ session.number > 0 /\ GoTo("serve")
  /\ UNCHANGED <<config, canceled, servers, session, callbacks, ready, mixed, database, janitor>>

NotConnected ==
  /\ At("connect") /\ canceled /\ Fatal
  /\ UNCHANGED <<config, canceled, session, callbacks, ready, mixed, database, janitor>>

\* Fault: main waits for one listener only.
AwaitsFirst == \E s \in Servers : servers[s].at = "returned"

\* Every listener that was started has returned.
AllReturned == \A s \in Servers : servers[s].at \in {"off", "returned"}

\* One returned an error.
OneFailed == \E s \in Servers : servers[s].at = "failed"

Served ==
  /\ At("serve")
  /\ \/ OneFailed /\ Fatal
     \/ AllReturned /\ GoTo("closeSubscriber") /\ UNCHANGED servers
  /\ UNCHANGED <<config, canceled, session, callbacks, ready, mixed, database, janitor>>

\* The deferred calls, last first.  Disconnect raises no callback.
CloseSubscriber ==
  /\ At("closeSubscriber") /\ GoTo("closeDatabase")
  /\ session' = [session EXCEPT !.up = FALSE, !.topics = {}]
  /\ UNCHANGED <<config, canceled, servers, callbacks, ready, mixed, database, janitor>>

\* The janitor has ended, if there was one.
JanitorDone == janitor \in {"off", "done"}

\* A pool waits for what uses it; the janitor is waited for first.
CloseDatabase ==
  /\ At("closeDatabase")
  /\ database.pool = "open" => JanitorDone /\ database.writes = 0
  /\ database' = [database EXCEPT !.pool = IF @ = "open" THEN "closed" ELSE @]
  /\ Exit(0)
  /\ UNCHANGED <<config, canceled, session, callbacks, ready, mixed, janitor>>

-----------------------------------------------------------------------------
\* RunGraceful of one listener.
ListenFails(s) ==
  /\ ~Exited /\ servers[s].at = "up"
  /\ servers' = [servers EXCEPT ![s].at = "failed"]
  /\ UNCHANGED <<config, canceled, main, session, callbacks, ready, mixed, database, janitor>>

\* A phone asks for a clip; the probes of the internal listener end at once.
Request(s) ==
  /\ ~Exited /\ s = "media" /\ servers[s].at = "up" /\ servers[s].requests < MaxRequests
  /\ servers' = [servers EXCEPT ![s].requests = @ + 1]
  /\ UNCHANGED <<config, canceled, main, session, callbacks, ready, mixed, database, janitor>>

RequestEnds(s) ==
  /\ ~Exited /\ servers[s].requests > 0
  /\ servers' = [servers EXCEPT ![s].requests = @ - 1]
  /\ UNCHANGED <<config, canceled, main, session, callbacks, ready, mixed, database, janitor>>

Shutdown(s) ==
  /\ ~Exited /\ servers[s].at = "up" /\ canceled
  /\ servers' = [servers EXCEPT ![s].at = "draining"]
  /\ UNCHANGED <<config, canceled, main, session, callbacks, ready, mixed, database, janitor>>

\* It returns when its requests are done, or cuts them off at the deadline.
ServerReturns(s) ==
  /\ ~Exited /\ servers[s].at = "draining"
  /\ servers' = [servers EXCEPT ![s] =
       [at |-> "returned", requests |-> 0, cut |-> IF @.requests > 0 THEN "deadline" ELSE @.cut]]
  /\ UNCHANGED <<config, canceled, main, session, callbacks, ready, mixed, database, janitor>>

-----------------------------------------------------------------------------
\* The client's callbacks, each for one event.
OnConnect(n) == [kind |-> "connect", number |-> n, left |-> Topics]
OnLost(n) == [kind |-> "lost", number |-> n, left |-> {}]
Starts(cb) == /\ callbacks' = callbacks \cup {cb}
              /\ mixed' = (callbacks # {})

ClientRuns == main.at \in {"connect", "serve"}

Connect ==
  /\ ClientRuns /\ ~session.up /\ session.number < MaxSessions
  /\ session' = [number |-> session.number + 1, up |-> TRUE, topics |-> {}]
  /\ Starts(OnConnect(session'.number))
  /\ UNCHANGED <<config, canceled, main, servers, ready, database, janitor>>

Disconnect ==
  /\ ClientRuns /\ session.up
  /\ session' = [session EXCEPT !.up = FALSE, !.topics = {}]
  /\ Starts(OnLost(session.number))
  /\ UNCHANGED <<config, canceled, main, servers, ready, database, janitor>>

\* One subscription, on whichever connection is up by now.
Subscribe(cb, topic) ==
  /\ ~Exited /\ cb \in callbacks /\ topic \in cb.left
  /\ session.up
  /\ session' = [session EXCEPT !.topics = @ \cup {topic}]
  /\ callbacks' = (callbacks \ {cb}) \cup {[cb EXCEPT !.left = @ \ {topic}]}
  /\ UNCHANGED <<config, canceled, main, servers, ready, mixed, database, janitor>>

SubscribeFails(cb) ==
  /\ ~Exited /\ cb \in callbacks /\ cb.kind = "connect" /\ cb.left # {}
  /\ ready' = FALSE /\ callbacks' = callbacks \ {cb}
  /\ UNCHANGED <<config, canceled, main, servers, session, mixed, database, janitor>>

\* Fault: a lost connection is only logged.
ReadyOnceConnected(cb) == ready \/ cb.kind = "connect"

\* What a callback reports in the end.
Reports(cb) == cb.kind = "connect"

CallbackEnds(cb) ==
  /\ ~Exited /\ cb \in callbacks /\ cb.left = {}
  /\ ready' = Reports(cb)
  /\ callbacks' = callbacks \ {cb}
  /\ UNCHANGED <<config, canceled, main, servers, session, mixed, database, janitor>>

-----------------------------------------------------------------------------
\* A message is dispatched, and written to the audit trail by a goroutine of its
\* own.
Dispatch ==
  /\ ~Exited /\ session.up /\ session.topics # {}
  /\ database.pool = "open" /\ database.writes < MaxWrites
  /\ database' = [database EXCEPT !.writes = @ + 1]
  /\ UNCHANGED <<config, canceled, main, servers, session, callbacks, ready, mixed, janitor>>

Writes == database.writes > 0

WriteEnds ==
  /\ ~Exited /\ Writes
  /\ database' = [database EXCEPT !.writes = @ - 1]
  /\ UNCHANGED <<config, canceled, main, servers, session, callbacks, ready, mixed, janitor>>

\* Fault: Close waits for the janitor without telling it to stop.
StopsOnSignal == FALSE

\* Close has told the janitor to stop.
Stopping == At("closeDatabase")

\* Fault: the schema is only tried while the process starts.
RetriesAtStart == janitor = "retrying" /\ main.at \in {"listen", "connect"}

\* retryUntil tries until it succeeds or is told to stop.
Retries == janitor = "retrying" /\ ~Stopping

SetUp ==
  /\ ~Exited /\ Retries /\ database.up
  /\ database' = [database EXCEPT !.schema = TRUE] /\ janitor' \in AfterSetUp
  /\ UNCHANGED <<config, canceled, main, servers, session, callbacks, ready, mixed>>

JanitorEnds ==
  /\ ~Exited /\ janitor \in {"retrying", "sweeping"} /\ Stopping
  /\ janitor' = "done"
  /\ UNCHANGED <<config, canceled, main, servers, session, callbacks, ready, mixed, database>>

\* The environment: SIGTERM, and a database that comes up.
Terminate ==
  /\ ~Exited /\ ~canceled /\ canceled' = TRUE
  /\ UNCHANGED <<config, main, servers, session, callbacks, ready, mixed, database, janitor>>

DatabaseUp ==
  /\ ~Exited /\ ~database.up /\ database' = [database EXCEPT !.up = TRUE]
  /\ UNCHANGED <<config, canceled, main, servers, session, callbacks, ready, mixed, janitor>>

Init ==
  /\ config \in Configs
  /\ canceled = FALSE
  /\ main = [at |-> "config", code |-> 0]
  /\ servers = [s \in Servers |-> Off]
  /\ session = [number |-> 0, up |-> FALSE, topics |-> {}]
  /\ callbacks = {} /\ ready = FALSE /\ mixed = FALSE
  /\ database = [up |-> FALSE, schema |-> FALSE, pool |-> "none", writes |-> 0]
  /\ janitor = "off"

Main == \/ ReadConfig \/ OpenDatabase \/ Listen \/ Connected \/ NotConnected \/ Served
        \/ CloseSubscriber \/ CloseDatabase
Listener(s) == Shutdown(s) \/ ServerReturns(s)
Callback == \E cb \in callbacks :
  (\E topic \in Topics : Subscribe(cb, topic)) \/ SubscribeFails(cb) \/ CallbackEnds(cb)

Next ==
  \/ Main
  \/ \E s \in Servers : ListenFails(s) \/ Request(s) \/ RequestEnds(s) \/ Listener(s)
  \/ Connect \/ Disconnect \/ Callback
  \/ Dispatch \/ WriteEnds \/ SetUp \/ JanitorEnds
  \/ Terminate \/ DatabaseUp

\* Goroutines run, a listener's deadline and a write's timeout come; nothing makes
\* the broker connect, a client finish or the database answer.
Fairness ==
  /\ WF_vars(Main) /\ \A s \in Servers : WF_vars(Listener(s))
  /\ WF_vars(WriteEnds) /\ WF_vars(SetUp) /\ WF_vars(JanitorEnds)
Spec == Init /\ [][Next]_vars /\ Fairness

-----------------------------------------------------------------------------
\* Every variable holds what its declaration says.
TypeOK ==
  /\ config \in Configs /\ canceled \in BOOLEAN /\ ready \in BOOLEAN /\ mixed \in BOOLEAN
  /\ main \in [at : {"config", "open", "listen", "connect", "serve", "closeSubscriber",
                      "closeDatabase", "exited"}, code : {0, 1}]
  /\ servers \in [Servers -> [at : {"off", "up", "draining", "returned", "failed"},
                              requests : 0..MaxRequests, cut : {"no", "deadline", "exit"}]]
  /\ session \in [number : 0..MaxSessions, up : BOOLEAN, topics : SUBSET Topics]
  /\ callbacks \subseteq [kind : {"connect", "lost"}, number : 1..MaxSessions,
                          left : SUBSET Topics]
  /\ database \in [up : BOOLEAN, schema : BOOLEAN, pool : {"none", "open", "closed"},
                   writes : 0..MaxWrites]
  /\ janitor \in {"off", "retrying", "sweeping", "done"}

\* /readyz says whether the subscriber is connected and subscribed, once its
\* callbacks have run and unless the last ones overlapped (main.go: ready "mirrors
\* the Frigate MQTT connection state").
ReadyMirrorsBroker ==
  ClientRuns /\ callbacks = {} /\ ~mixed => (ready <=> session.up /\ session.topics = Topics)

\* A process that exits well has let every request finish or had its deadline
\* (main.go: "the process must wait for all of them").  One that is told to stop
\* before it reached the broker exits with an error and cuts them off.
CleanExitCutsNothing ==
  Exited /\ main.code = 0 => \A s \in Servers : servers[s].cut # "exit"

\* SIGTERM ends the process, whatever the broker, the database and the clients do,
\* because no wait of the shutdown is for one that never ends; and so does a
\* listener that fails once main is past the broker's first connection, until
\* when nobody reads its error.
EndsWhenItShould ==
  /\ canceled ~> Exited
  /\ OneFailed ~> Exited \/ At("connect")

\* A database that answers at last gets its schema, however late it came.
SchemaComes ==
  database.up /\ database.pool = "open" ~> database.schema \/ Stopping \/ Exited
=============================================================================
