---------------------------- MODULE ServiceProofs ----------------------------
(***************************************************************************)
(* The exit of the process cuts nothing off unless it is an error, and     *)
(* readiness mirrors the broker while the callbacks do not overlap, for    *)
(* any topics, any number of connections, requests and writes.             *)
(*                                                                         *)
(* TypeOK is proved in three parts, of main and its listeners, of the      *)
(* broker and its callbacks, and of the database.                          *)
(***************************************************************************)
EXTENDS Service, TLAPS

Listeners == [Servers -> [at : {"off", "up", "draining", "returned", "failed"},
                          requests : 0..MaxRequests, cut : {"no", "deadline", "exit"}]]
Callbacks == [kind : {"connect", "lost"}, number : 1..MaxSessions, left : SUBSET Topics]

MainTypes ==
  /\ config \in Configs /\ canceled \in BOOLEAN
  /\ main \in [at : {"config", "open", "listen", "connect", "serve", "closeSubscriber",
                      "closeDatabase", "exited"}, code : {0, 1}]
  /\ servers \in Listeners

\* A connection that is up has a number.
BrokerTypes ==
  /\ session \in [number : 0..MaxSessions, up : BOOLEAN, topics : SUBSET Topics]
  /\ session.up => session.number > 0
  /\ callbacks \subseteq Callbacks /\ ready \in BOOLEAN /\ mixed \in BOOLEAN

DatabaseTypes ==
  /\ database \in [up : BOOLEAN, schema : BOOLEAN, pool : {"none", "open", "closed"},
                   writes : 0..MaxWrites]
  /\ janitor \in {"off", "retrying", "sweeping", "done"}

Types == MainTypes /\ BrokerTypes /\ DatabaseTypes

LEMMA TypesAreTypeOK == Types => TypeOK
  BY DEF Types, MainTypes, BrokerTypes, DatabaseTypes, TypeOK, Listeners, Callbacks

forMain == <<config, canceled, main, servers>>
forBroker == <<session, callbacks, ready, mixed>>
forDatabase == <<database, janitor>>

-----------------------------------------------------------------------------
LEMMA ExitType ==
  ASSUME MainTypes, ServiceAssumption, NEW code \in {0, 1}, Exit(code),
         UNCHANGED <<config, canceled>>
  PROVE  MainTypes'
<1>1. servers' \in Listeners
  <2> DEFINE R == [at : {"off", "up", "draining", "returned", "failed"},
                   requests : 0..MaxRequests, cut : {"no", "deadline", "exit"}]
             Cut(s) == [servers[s] EXCEPT !.requests = 0, !.cut = "exit"]
  <2>1. \A s \in Servers : servers[s] \in R
    BY DEF MainTypes, Listeners
  <2>2. 0 \in 0..MaxRequests
    BY DEF ServiceAssumption
  <2>3. \A s \in Servers : Cut(s) \in R
    BY <2>1, <2>2
  <2>4. servers' = [s \in Servers |-> IF servers[s].requests > 0 THEN Cut(s) ELSE servers[s]]
    BY DEF Exit
  <2> HIDE DEF R, Cut
  <2>5. servers' \in [Servers -> R]
    BY <2>1, <2>3, <2>4
  <2> QED BY <2>5 DEF R, Listeners
<1>2. main' = [at |-> "exited", code |-> code]
  BY DEF Exit
<1> QED BY <1>1, <1>2 DEF MainTypes

LEMMA MainStep ==
  ASSUME ServiceAssumption, MainTypes, Main
  PROVE  MainTypes'
<1>1. CASE ReadConfig
  BY <1>1, ExitType DEF ReadConfig, GoTo, Fatal, MainTypes
<1>2. CASE OpenDatabase
  BY <1>2 DEF OpenDatabase, GoTo, MainTypes
<1>3. CASE Listen
  <2>1. CASE Fatal
    BY <1>3, <2>1, ExitType DEF Listen, Fatal
  <2>2. CASE ~Fatal
    BY <1>3, <2>2 DEF Listen, GoTo, Off, MainTypes, Listeners, ServiceAssumption
  <2> QED BY <2>1, <2>2
<1>4. CASE Connected
  BY <1>4 DEF Connected, GoTo, MainTypes
<1>5. CASE NotConnected
  BY <1>5, ExitType DEF NotConnected, Fatal
<1>6. CASE Served
  <2>1. CASE Fatal
    BY <1>6, <2>1, ExitType DEF Served, Fatal
  <2>2. CASE ~Fatal
    BY <1>6, <2>2 DEF Served, GoTo, MainTypes
  <2> QED BY <2>1, <2>2
<1>7. CASE CloseSubscriber
  BY <1>7 DEF CloseSubscriber, GoTo, MainTypes
<1>8. CASE CloseDatabase
  BY <1>8, ExitType DEF CloseDatabase
<1> QED BY <1>1, <1>2, <1>3, <1>4, <1>5, <1>6, <1>7, <1>8 DEF Main

LEMMA ListenerStep ==
  ASSUME ServiceAssumption, MainTypes, NEW s \in Servers,
         ListenFails(s) \/ Request(s) \/ RequestEnds(s) \/ Listener(s)
  PROVE  MainTypes' /\ UNCHANGED forBroker /\ UNCHANGED forDatabase
<1>1. CASE ListenFails(s)
  BY <1>1 DEF ListenFails, MainTypes, Listeners, forBroker, forDatabase
<1>2. CASE Request(s)
  BY <1>2 DEF Request, MainTypes, Listeners, forBroker, forDatabase, ServiceAssumption
<1>3. CASE RequestEnds(s)
  BY <1>3 DEF RequestEnds, MainTypes, Listeners, forBroker, forDatabase, ServiceAssumption
<1>4. CASE Shutdown(s)
  BY <1>4 DEF Shutdown, MainTypes, Listeners, forBroker, forDatabase
<1>5. CASE ServerReturns(s)
  BY <1>5 DEF ServerReturns, MainTypes, Listeners, forBroker, forDatabase, ServiceAssumption
<1> QED BY <1>1, <1>2, <1>3, <1>4, <1>5 DEF Listener

LEMMA BrokerStep ==
  ASSUME ServiceAssumption, BrokerTypes, Connect \/ Disconnect \/ Callback
  PROVE  BrokerTypes' /\ UNCHANGED forMain /\ UNCHANGED forDatabase
<1>1. CASE Connect
  <2>1. session' = [number |-> session.number + 1, up |-> TRUE, topics |-> {}]
          /\ session.number < MaxSessions /\ UNCHANGED ready
    BY <1>1 DEF Connect
  <2>2. session'.number \in 1..MaxSessions
    BY <2>1 DEF BrokerTypes, ServiceAssumption
  <2>3. OnConnect(session'.number) \in Callbacks
    BY <2>2 DEF OnConnect, Callbacks
  <2>4. callbacks' \subseteq Callbacks /\ mixed' \in BOOLEAN
    BY <1>1, <2>3 DEF Connect, Starts, BrokerTypes
  <2> QED BY <1>1, <2>1, <2>2, <2>4
         DEF Connect, BrokerTypes, forMain, forDatabase, ServiceAssumption
<1>2. CASE Disconnect
  <2>1. OnLost(session.number) \in Callbacks
    BY <1>2 DEF Disconnect, OnLost, Callbacks, BrokerTypes, ServiceAssumption
  <2>2. callbacks' \subseteq Callbacks /\ mixed' \in BOOLEAN
    BY <1>2, <2>1 DEF Disconnect, Starts, BrokerTypes
  <2> QED BY <1>2, <2>2 DEF Disconnect, BrokerTypes, forMain, forDatabase
<1>3. ASSUME NEW cb \in callbacks, NEW topic \in Topics, Subscribe(cb, topic)
      PROVE  BrokerTypes' /\ UNCHANGED forMain /\ UNCHANGED forDatabase
  <2>1. [cb EXCEPT !.left = @ \ {topic}] \in Callbacks
    BY DEF BrokerTypes, Callbacks
  <2> QED BY <1>3, <2>1 DEF Subscribe, BrokerTypes, forMain, forDatabase
<1>4. ASSUME NEW cb \in callbacks, SubscribeFails(cb) \/ CallbackEnds(cb)
      PROVE  BrokerTypes' /\ UNCHANGED forMain /\ UNCHANGED forDatabase
  <2>1. ready' \in BOOLEAN
    BY <1>4 DEF SubscribeFails, CallbackEnds, Reports
  <2>2. callbacks' \subseteq callbacks /\ UNCHANGED <<session, mixed>>
    BY <1>4 DEF SubscribeFails, CallbackEnds
  <2> QED BY <1>4, <2>1, <2>2
         DEF SubscribeFails, CallbackEnds, BrokerTypes, forMain, forDatabase
<1> QED BY <1>1, <1>2, <1>3, <1>4 DEF Callback

LEMMA DatabaseStep ==
  ASSUME ServiceAssumption, DatabaseTypes, Dispatch \/ WriteEnds \/ SetUp \/ JanitorEnds \/ DatabaseUp
  PROVE  DatabaseTypes' /\ UNCHANGED forMain /\ UNCHANGED forBroker
<1>1. CASE Dispatch
  BY <1>1 DEF Dispatch, DatabaseTypes, ServiceAssumption, forMain, forBroker
<1>2. CASE WriteEnds
  BY <1>2 DEF WriteEnds, Writes, DatabaseTypes, ServiceAssumption, forMain, forBroker
<1>3. CASE SetUp
  BY <1>3 DEF SetUp, AfterSetUp, DatabaseTypes, forMain, forBroker
<1>4. CASE JanitorEnds
  BY <1>4 DEF JanitorEnds, DatabaseTypes, forMain, forBroker
<1>5. CASE DatabaseUp
  BY <1>5 DEF DatabaseUp, DatabaseTypes, forMain, forBroker
<1> QED BY <1>1, <1>2, <1>3, <1>4, <1>5

\* What main does to the broker's and the database's variables.
LEMMA MainLeaves ==
  ASSUME ServiceAssumption, BrokerTypes, DatabaseTypes, Main
  PROVE  BrokerTypes' /\ DatabaseTypes'
<1>1. CASE OpenDatabase
  BY <1>1 DEF OpenDatabase, AfterSetUp, BrokerTypes, DatabaseTypes
<1>2. CASE CloseSubscriber
  BY <1>2 DEF CloseSubscriber, BrokerTypes, DatabaseTypes
<1>3. CASE CloseDatabase
  BY <1>3 DEF CloseDatabase, BrokerTypes, DatabaseTypes
<1>4. CASE ReadConfig \/ Listen \/ Connected \/ NotConnected \/ Served
  BY <1>4 DEF ReadConfig, Listen, Connected, NotConnected, Served, BrokerTypes, DatabaseTypes
<1> QED BY <1>1, <1>2, <1>3, <1>4 DEF Main

-----------------------------------------------------------------------------
(***************************************************************************)
(* A clean exit.  A listener that is off or has returned serves nobody,    *)
(* and main goes on to the deferred calls only when all of them are.       *)
(***************************************************************************)
Resting(s) == servers[s].at \in {"off", "returned"} => servers[s].requests = 0
Past == At("closeSubscriber") \/ At("closeDatabase")

Drained ==
  /\ \A s \in Servers : ~Exited => Resting(s) /\ servers[s].cut # "exit"
  /\ Past => AllReturned
  /\ CleanExitCutsNothing

LEMMA DrainedKept == ASSUME Drained, UNCHANGED <<main, servers>> PROVE Drained'
  BY DEF Drained, Resting, Past, At, Exited, AllReturned, CleanExitCutsNothing

LEMMA DrainedAtExit ==
  ASSUME MainTypes, Drained, NEW code \in {0, 1}, Exit(code), ~Exited,
         code = 0 => AllReturned
  PROVE  Drained'
<1>1. Exited' /\ main'.code = code
  BY DEF Exit, Exited
<1>2. ASSUME code = 0, NEW s \in Servers PROVE servers'[s].cut # "exit"
  <2>1. servers[s].requests = 0 /\ servers[s].cut # "exit"
    BY <1>2 DEF Drained, Resting, AllReturned
  <2>2. ~(servers[s].requests > 0)
    BY <2>1
  <2>3. servers'[s] = servers[s]
    BY <1>2, <2>2 DEF Exit
  <2> QED BY <2>1, <2>3
<1> QED BY <1>1, <1>2 DEF Drained, CleanExitCutsNothing, Exited, Past, At, Exit

LEMMA DrainedByMain ==
  ASSUME ServiceAssumption, MainTypes, Drained, Main
  PROVE  Drained'
<1> USE DEF Exited, At, Past, GoTo
<1>1. CASE ReadConfig
  BY <1>1, DrainedAtExit DEF ReadConfig, Fatal, Drained, CleanExitCutsNothing, Resting,
                             AllReturned, MainTypes
<1>2. CASE OpenDatabase
  BY <1>2 DEF OpenDatabase, Drained, CleanExitCutsNothing, Resting, AllReturned, MainTypes
<1>3. CASE Listen
  <2>1. CASE config.media = "bad"
    BY <1>3, <2>1, DrainedAtExit DEF Listen, Fatal
  <2>2. CASE config.media # "bad"
    <3>1. \A s \in Servers : servers'[s].requests = 0 /\ servers'[s].cut = "no"
      BY <1>3, <2>2 DEF Listen, Off
    <3>2. main'.at = "connect"
      BY <1>3, <2>2 DEF Listen, MainTypes
    <3> QED BY <3>1, <3>2 DEF Drained, CleanExitCutsNothing, Resting
  <2> QED BY <2>1, <2>2
<1>4. CASE Connected
  BY <1>4 DEF Connected, Drained, CleanExitCutsNothing, Resting, AllReturned, MainTypes
<1>5. CASE NotConnected
  BY <1>5, DrainedAtExit DEF NotConnected, Fatal
<1>6. CASE Served
  <2>1. CASE Fatal
    BY <1>6, <2>1, DrainedAtExit DEF Served, Fatal
  <2>2. CASE ~Fatal
    BY <1>6, <2>2 DEF Served, Drained, CleanExitCutsNothing, Resting, AllReturned, MainTypes
  <2> QED BY <2>1, <2>2
<1>7. CASE CloseSubscriber
  BY <1>7 DEF CloseSubscriber, Drained, CleanExitCutsNothing, Resting, AllReturned, MainTypes
<1>8. CASE CloseDatabase
  BY <1>8, DrainedAtExit DEF CloseDatabase, Drained
<1> QED BY <1>1, <1>2, <1>3, <1>4, <1>5, <1>6, <1>7, <1>8 DEF Main

LEMMA DrainedByListener ==
  ASSUME MainTypes, Drained, NEW s \in Servers,
         ListenFails(s) \/ Request(s) \/ RequestEnds(s) \/ Listener(s)
  PROVE  Drained'
<1>1. ~Exited /\ UNCHANGED main
  BY DEF ListenFails, Request, RequestEnds, Listener, Shutdown, ServerReturns
<1>2. servers[s].requests \in Nat
  BY DEF MainTypes, Listeners
<1>3. \A q \in Servers : q # s => servers'[q] = servers[q]
  BY DEF ListenFails, Request, RequestEnds, Listener, Shutdown, ServerReturns, MainTypes, Listeners
<1>4. Resting(s)' /\ servers'[s].cut # "exit"
      /\ (servers[s].at \in {"off", "returned"} => servers'[s].at = servers[s].at)
  <2>1. Resting(s) /\ servers[s].cut # "exit"
    BY <1>1 DEF Drained
  <2>2. CASE ListenFails(s) \/ Shutdown(s)
    BY <2>1, <2>2 DEF ListenFails, Shutdown, Resting, MainTypes, Listeners
  <2>3. CASE Request(s) \/ RequestEnds(s)
    BY <1>2, <2>1, <2>3 DEF Request, RequestEnds, Resting, MainTypes, Listeners
  <2>4. CASE ServerReturns(s)
    BY <2>1, <2>4 DEF ServerReturns, Resting, MainTypes, Listeners
  <2> QED BY <2>2, <2>3, <2>4 DEF Listener
<1> QED BY <1>1, <1>3, <1>4
       DEF Drained, Resting, Past, At, Exited, AllReturned, CleanExitCutsNothing

-----------------------------------------------------------------------------
(***************************************************************************)
(* Readiness.  While the callbacks do not overlap at most one runs, and it *)
(* was started by the broker's last event: a connection whose              *)
(* subscriptions it makes one by one, or a loss.                           *)
(***************************************************************************)
Before == main.at \in {"config", "open", "listen"}

Follows(cb) ==
  CASE cb.kind = "connect" -> session.up /\ session.topics = Topics \ cb.left
    [] cb.kind = "lost" -> ~session.up /\ cb.left = {}

Following ==
  ~mixed =>
    /\ callbacks = {} => (ready <=> session.up /\ session.topics = Topics)
    /\ callbacks # {} => \E cb \in callbacks : callbacks = {cb} /\ Follows(cb)

Mirrors ==
  /\ Before => session.number = 0 /\ ~session.up /\ ~ready /\ callbacks = {}
  /\ Before \/ ClientRuns => Following

LEMMA MirrorsKept ==
  ASSUME Mirrors, UNCHANGED <<session, callbacks, ready, mixed>>,
         Before' => Before, (Before \/ ClientRuns)' => Before \/ ClientRuns
  PROVE  Mirrors'
  BY DEF Mirrors, Following, Follows

LEMMA MirrorsByMain ==
  ASSUME MainTypes, BrokerTypes, Mirrors, Main
  PROVE  Mirrors'
<1> USE DEF At, GoTo, Before, ClientRuns
<1>1. CASE CloseSubscriber
  BY <1>1 DEF CloseSubscriber, Mirrors, MainTypes
<1>2. ASSUME NEW code, Exit(code), UNCHANGED <<session, callbacks, ready, mixed>>
      PROVE  Mirrors'
  BY <1>2 DEF Exit, Mirrors
<1>3. CASE CloseDatabase
  BY <1>2, <1>3 DEF CloseDatabase
<1>4. CASE ReadConfig \/ OpenDatabase \/ Listen \/ Connected \/ NotConnected \/ Served
  <2>1. UNCHANGED <<session, callbacks, ready, mixed>>
    BY <1>4 DEF ReadConfig, OpenDatabase, Listen, Connected, NotConnected, Served
  <2>2. CASE Fatal
    BY <1>2, <2>1, <2>2 DEF Fatal
  <2>3. CASE ~Fatal
    <3>1. (Before' => Before) /\ ((Before \/ ClientRuns)' => Before \/ ClientRuns)
      BY <1>4, <2>3 DEF ReadConfig, OpenDatabase, Listen, Connected, NotConnected, Served,
                        MainTypes
    <3> QED BY <2>1, <3>1, MirrorsKept
  <2> QED BY <2>2, <2>3
<1> QED BY <1>1, <1>3, <1>4 DEF Main

\* An event while nothing runs starts the one callback; any other mixes them.
LEMMA MirrorsByEvent ==
  ASSUME BrokerTypes, Mirrors, Connect \/ Disconnect
  PROVE  Mirrors'
<1>1. ~Before' /\ ClientRuns
  BY DEF Connect, Disconnect, ClientRuns, Before
<1>2. CASE Connect
  <2>0. PICK cb : cb = OnConnect(session'.number)
    OBVIOUS
  <2>1. /\ session' = [number |-> session.number + 1, up |-> TRUE, topics |-> {}]
        /\ mixed' = (callbacks # {})
        /\ callbacks' = callbacks \cup {cb}
    BY <1>2, <2>0 DEF Connect, Starts
  <2>2. Follows(cb)'
    BY <2>0, <2>1 DEF Follows, OnConnect
  <2>3. Following'
    <3>1. CASE callbacks = {}
      <4>1. callbacks' = {cb}
        BY <2>1, <3>1
      <4> QED BY <2>2, <4>1 DEF Following
    <3>2. CASE callbacks # {}
      BY <2>1, <3>2 DEF Following
    <3> QED BY <3>1, <3>2
  <2> QED BY <1>1, <2>3 DEF Mirrors
<1>3. CASE Disconnect
  <2>0. PICK cb : cb = OnLost(session.number)
    OBVIOUS
  <2>1. /\ session'.up = FALSE
        /\ mixed' = (callbacks # {})
        /\ callbacks' = callbacks \cup {cb}
    BY <1>3, <2>0 DEF Disconnect, Starts, BrokerTypes
  <2>2. Follows(cb)'
    BY <2>0, <2>1 DEF Follows, OnLost
  <2>3. Following'
    <3>1. CASE callbacks = {}
      <4>1. callbacks' = {cb}
        BY <2>1, <3>1
      <4> QED BY <2>2, <4>1 DEF Following
    <3>2. CASE callbacks # {}
      BY <2>1, <3>2 DEF Following
    <3> QED BY <3>1, <3>2
  <2> QED BY <1>1, <2>3 DEF Mirrors
<1> QED BY <1>2, <1>3

\* The one callback takes a topic, or is done.
LEMMA MirrorsByCallback ==
  ASSUME MainTypes, BrokerTypes, Mirrors, Callback
  PROVE  Mirrors'
<1>1. PICK cb \in callbacks :
        (\E topic \in Topics : Subscribe(cb, topic)) \/ SubscribeFails(cb) \/ CallbackEnds(cb)
  BY DEF Callback
<1>2. UNCHANGED <<main, mixed>> /\ ~Before /\ ~Before' /\ (ClientRuns' => ClientRuns)
  BY <1>1 DEF Mirrors, Subscribe, SubscribeFails, CallbackEnds, Before, ClientRuns
<1>3. cb.left \subseteq Topics /\ cb.kind \in {"connect", "lost"}
  BY DEF BrokerTypes, Callbacks
<1>4. SUFFICES ASSUME ClientRuns, ~mixed PROVE Following'
  BY <1>2 DEF Mirrors, Following
<1>5. callbacks = {cb} /\ Follows(cb)
  BY <1>4 DEF Mirrors, Following
<1>6. ASSUME NEW topic \in Topics, Subscribe(cb, topic) PROVE Following'
  <2> DEFINE d == [cb EXCEPT !.left = @ \ {topic}]
  <2>1. /\ session' = [session EXCEPT !.topics = @ \cup {topic}] /\ topic \in cb.left
        /\ callbacks' = {d}
    BY <1>5, <1>6 DEF Subscribe
  <2>2. d.left = cb.left \ {topic} /\ d.kind = cb.kind
    BY DEF BrokerTypes, Callbacks
  <2>3. cb.kind = "connect" /\ session.up /\ session.topics = Topics \ cb.left
    BY <1>3, <1>5, <2>1 DEF Follows
  <2>4. session'.up = session.up /\ session'.topics = Topics \ d.left
    BY <1>3, <2>1, <2>2, <2>3 DEF BrokerTypes
  <2> HIDE DEF d
  <2>5. Follows(d)'
    BY <2>2, <2>3, <2>4 DEF Follows
  <2> QED BY <2>1, <2>5 DEF Following
<1>7. CASE SubscribeFails(cb)
  <2>1. callbacks' = {} /\ ready' = FALSE /\ UNCHANGED session /\ cb.left # {}
          /\ cb.kind = "connect"
    BY <1>5, <1>7 DEF SubscribeFails
  <2>2. session.topics # Topics
    BY <1>3, <1>5, <2>1 DEF Follows
  <2> QED BY <2>1, <2>2 DEF Following
<1>8. CASE CallbackEnds(cb)
  <2>1. callbacks' = {} /\ ready' = (cb.kind = "connect") /\ UNCHANGED session /\ cb.left = {}
    BY <1>5, <1>8 DEF CallbackEnds, Reports
  <2>2. ready' <=> session.up /\ session.topics = Topics
    BY <1>3, <1>5, <2>1 DEF Follows
  <2> QED BY <2>1, <2>2 DEF Following
<1> QED BY <1>1, <1>6, <1>7, <1>8

-----------------------------------------------------------------------------
IInv == Types /\ Drained /\ Mirrors

LEMMA Start == ASSUME ServiceAssumption, Init PROVE IInv
<1>1. Off \in [at : {"off", "up", "draining", "returned", "failed"},
               requests : 0..MaxRequests, cut : {"no", "deadline", "exit"}]
  BY DEF Off, ServiceAssumption
<1>2. MainTypes
  BY <1>1 DEF Init, MainTypes, Listeners
<1>3. BrokerTypes
  <2>1. 0 \in 0..MaxSessions
    BY DEF ServiceAssumption
  <2>2. session \in [number : 0..MaxSessions, up : BOOLEAN, topics : SUBSET Topics]
          /\ ~session.up
    BY <2>1 DEF Init
  <2> QED BY <2>2 DEF Init, BrokerTypes
<1>4. DatabaseTypes
  BY DEF Init, DatabaseTypes, ServiceAssumption
<1>5. Drained
  BY DEF Init, Drained, Off, Resting, Past, At, Exited, CleanExitCutsNothing
<1>6. Mirrors
  BY DEF Init, Mirrors, Following
<1> QED BY <1>2, <1>3, <1>4, <1>5, <1>6 DEF IInv, Types

LEMMA Step == ASSUME ServiceAssumption, IInv, [Next]_vars PROVE IInv'
<1>1. CASE Main
  BY <1>1, MainStep, MainLeaves, DrainedByMain, MirrorsByMain DEF IInv, Types
<1>2. ASSUME NEW s \in Servers, ListenFails(s) \/ Request(s) \/ RequestEnds(s) \/ Listener(s)
      PROVE  IInv'
  <2>1. MainTypes' /\ UNCHANGED <<session, callbacks, ready, mixed, database, janitor>>
    BY <1>2, ListenerStep DEF IInv, Types, forBroker, forDatabase
  <2>2. UNCHANGED main
    BY <1>2 DEF ListenFails, Request, RequestEnds, Listener, Shutdown, ServerReturns
  <2>3. Mirrors'
    BY <2>1, <2>2, MirrorsKept DEF IInv, Before, ClientRuns
  <2>4. BrokerTypes' /\ DatabaseTypes'
    BY <2>1 DEF IInv, Types, BrokerTypes, DatabaseTypes
  <2> QED BY <1>2, <2>1, <2>3, <2>4, DrainedByListener DEF IInv, Types
<1>3. CASE Connect \/ Disconnect \/ Callback
  <2>1. BrokerTypes' /\ UNCHANGED <<config, canceled, main, servers, database, janitor>>
    BY <1>3, BrokerStep DEF IInv, Types, forMain, forDatabase
  <2>2. Mirrors'
    BY <1>3, MirrorsByEvent, MirrorsByCallback DEF IInv, Types
  <2> QED BY <2>1, <2>2, DrainedKept DEF IInv, Types, MainTypes, DatabaseTypes
<1>4. CASE Dispatch \/ WriteEnds \/ SetUp \/ JanitorEnds \/ DatabaseUp
  <2>1. DatabaseTypes' /\ UNCHANGED <<config, canceled, main, servers>>
          /\ UNCHANGED <<session, callbacks, ready, mixed>>
    BY <1>4, DatabaseStep DEF IInv, Types, forMain, forBroker
  <2>2. Mirrors'
    BY <2>1, MirrorsKept DEF IInv, Before, ClientRuns
  <2> QED BY <2>1, <2>2, DrainedKept DEF IInv, Types, MainTypes, BrokerTypes
<1>5. CASE Terminate \/ UNCHANGED vars
  <2>1. UNCHANGED <<config, main, servers, session, callbacks, ready, mixed, database, janitor>>
          /\ canceled' \in {canceled, TRUE}
    BY <1>5 DEF Terminate, vars
  <2>2. Mirrors'
    BY <2>1, MirrorsKept DEF IInv, Before, ClientRuns
  <2>3. Drained'
    BY <2>1, DrainedKept DEF IInv
  <2>4. MainTypes'
    BY <2>1 DEF IInv, Types, MainTypes
  <2>5. BrokerTypes' /\ DatabaseTypes'
    BY <2>1 DEF IInv, Types, BrokerTypes, DatabaseTypes
  <2> QED BY <2>2, <2>3, <2>4, <2>5 DEF IInv, Types
<1> QED BY <1>1, <1>2, <1>3, <1>4, <1>5 DEF Next

LEMMA Invariant == Spec => []IInv
<1>1. Init => IInv
  BY ServiceAssumption, Start
<1>2. IInv /\ [Next]_vars => IInv'
  BY ServiceAssumption, Step
<1> QED BY <1>1, <1>2, PTL DEF Spec

\* Every variable keeps its type.
THEOREM ServiceTypeCorrect == Spec => []TypeOK
<1>1. IInv => TypeOK
  BY TypesAreTypeOK DEF IInv
<1> QED BY <1>1, Invariant, PTL

\* Once its callbacks have run without overlapping, /readyz says whether the
\* subscriber is connected and subscribed.
THEOREM ReadyIsTrue == Spec => []ReadyMirrorsBroker
<1>1. IInv => ReadyMirrorsBroker
  BY DEF IInv, Mirrors, Following, ReadyMirrorsBroker
<1> QED BY <1>1, Invariant, PTL

\* An exit without an error cuts no request off.
THEOREM CleanExit == Spec => []CleanExitCutsNothing
<1>1. IInv => CleanExitCutsNothing
  BY DEF IInv, Drained
<1> QED BY <1>1, Invariant, PTL
=============================================================================
