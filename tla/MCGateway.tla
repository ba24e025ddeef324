------------------------------ MODULE MCGateway ------------------------------
(***************************************************************************)
(* The parts of the gateway around its core, each on a small instance of   *)
(* its own.  They share no state: a behaviour is one of one part, chosen   *)
(* in the initial state, while the others stay as they began.              *)
(***************************************************************************)
EXTENDS ResourceFile, LifeCycle, CloudConnection, CloudTransfer,
        FileService, FirmwareService, RemoteConfig

CONSTANT r1     \* a request of the cloud, whose answer has two blocks

VARIABLE part

gatewayVars == <<part, resVars, lifeVars, connectionVars, transferVars,
                 fileVars, fwVars, rciVars>>

Parts == {"file", "life", "connection", "transfer", "service", "firmware",
          "config"}

GatewayInit ==
    /\ part \in Parts
    /\ ResInit /\ LifeInit /\ ConnectionInit /\ TransferInit /\ FileInit
    /\ FirmwareInit /\ RciInit
    /\ part # "connection" => ~got_device_id
    /\ zs = {}

GatewayNext ==
    \/ /\ part = "file" /\ ResNext
       /\ UNCHANGED <<part, lifeVars, connectionVars, transferVars, fileVars,
                      fwVars, rciVars>>
    \/ /\ part = "life" /\ LifeNext
       /\ UNCHANGED <<part, resVars, connectionVars, transferVars, fileVars,
                      fwVars, rciVars>>
    \/ /\ part = "connection" /\ ConnectionNext
       /\ UNCHANGED <<part, resVars, lifeVars, transferVars, fileVars,
                      fwVars, rciVars>>
    \/ /\ part = "transfer" /\ TransferNext
       /\ UNCHANGED <<part, resVars, lifeVars, connectionVars, fileVars,
                      fwVars, rciVars>>
    \/ /\ part = "service" /\ FileNext
       /\ UNCHANGED <<part, resVars, lifeVars, connectionVars, transferVars,
                      fwVars, rciVars>>
    \/ /\ part = "firmware" /\ FirmwareNext
       /\ UNCHANGED <<part, resVars, lifeVars, connectionVars, transferVars,
                      fileVars, rciVars>>
    \/ /\ part = "config" /\ RciNext
       /\ UNCHANGED <<part, resVars, lifeVars, connectionVars, transferVars,
                      fileVars, fwVars>>

\* The fairness of the part at hand.
GatewayFairness ==
    /\ \A c \in Callers : WF_resVars(part = "file" /\ Request(c))
    /\ \A s \in Senders : WF_resVars(part = "file" /\ Sender(s))
    /\ WF_resVars(part = "file" /\ ConnectorSteps)
    /\ WF_lifeVars(part = "life" /\ (StartSteps \/ StopSteps))
    /\ SF_lifeVars(part = "life" /\ StopResObserver)
    /\ \A w \in Setters \cup {Observer} :
           SF_lifeVars(part = "life" /\ Locking(w))
    /\ \A w \in Workers : WF_lifeVars(part = "life" /\ ThreadSteps(w))
    /\ WF_connectionVars(part = "connection" /\ ConnectionSteps)
    /\ WF_connectionVars(part = "connection" /\ Answers)
    /\ WF_transferVars(part = "transfer" /\ TransferSteps)
    /\ WF_rciVars(part = "config" /\ RciWork)

GatewaySpec == GatewayInit /\ [][GatewayNext]_gatewayVars /\ GatewayFairness

-----------------------------------------------------------------------------
MCBlocks == [t \in Transactions |-> IF t = r1 THEN 2 ELSE 1]

\* serial, with two instances; an address and a text; a password.
MCInstances == <<2, 1, 1>>
MCKinds == <<<<"number">>, <<"address", "text">>, <<"number", "password">>>>

GroupOf(g, i, fields, v) == [id |-> g, index |-> i, fields |-> fields, value |-> v]
Command(do, gs) == [do |-> do, groups |-> gs]

MCRequests ==
    {<<Command("query", <<>>)>>,
     <<Command("query", <<GroupOf(1, 0, <<>>, "old"),
                        GroupOf(2, 0, <<2, 1>>, "old")>>)>>,
     <<Command("set", <<GroupOf(1, 2, <<1>>, "new"),
                        GroupOf(2, 0, <<1, 2>>, "new")>>),
       Command("query", <<GroupOf(1, 0, <<>>, "old"),
                          GroupOf(1, 1, <<>>, "old")>>)>>,
     <<Command("set", <<GroupOf(1, 2, <<1>>, "new")>>),
       Command("query", <<GroupOf(1, 2, <<>>, "old")>>)>>,
     <<Command("set", <<GroupOf(1, 0, <<1>>, "bad")>>)>>,
     <<Command("set", <<GroupOf(2, 0, <<2, 1>>, "bad")>>)>>,
     <<Command("set", <<GroupOf(3, 0, <<>>, "new")>>)>>,
     <<Command("set", <<>>)>>,
     <<Command("query", <<GroupOf(1, 0, <<>>, "old")>>), Command("bad", <<>>)>>}

\* Every part keeps its variables in their ranges: no length, offset, count,
\* block or table index leaves the bounds of what it indexes.
GatewayTypeOK ==
    /\ ResTypeOK /\ LifeTypeOK /\ ConnectionTypeOK /\ TransferTypeOK
    /\ FileTypeOK /\ FirmwareTypeOK /\ RciTypeOK

\* What each part comes to in the end, with the exceptions that the property of
\* the part names.  Whatever is lost on the way, the gateway is connected to the
\* cloud again.
GatewayComesBack == part = "connection" => ComesBack

\* SystemStop, or the handler of a signal, comes to the end of the process,
\* having joined every thread.
GatewayStops == part = "life" => StopEnds

\* A session of remote configuration is answered to its end, or given up.
ConfigurationEnds == part = "config" => SessionEnds

\* Who asks is answered: a request of UI or cloud for the resource file
\* returns, a put of the gateway and a request of the cloud end, with the
\* exceptions each of the three names.
AskedIsAnswered ==
    <>[](/\ part = "file" => RequestsReturned
         /\ part = "transfer" => Full \/ (PutsEnded /\ RequestsAnswered))
=============================================================================
