SPECIFICATION GatewaySpec
CONSTANTS
    Cloud = cloud  Ui = ui  Nobody = nobody
    ListLength = 1  MaxRequests = 2  MaxClients = 1  MaxDrops = 1
    Main = main_thread  Receiver = receiver  Connector = connector_thread
    UiReceiver = ui_receiver  Observer = observer  Schedular = schedular_thread  NoThread = no_thread
    WaitCount = 2  MaxFaults = 1  MaxSlow = 1  MaxRedirects = 1
    r1 = r1  Puts = {p1}  Requests = {r1, r2}  NoRequest = no_request
    Blocks <- MCBlocks  MaxWire = 1  MaxFailures = 1
    FileLength = 3  BlockSize = 2  MaxBusy = 2  MaxFailed = 2
    ImageBlocks = 2  MaxBad = 1  MaxOther = 1
    Instances <- MCInstances  Kinds <- MCKinds  RciRequests <- MCRequests
    Rooms = {6, 7, 10, 12}  PacketRoom = 20
    MaxTrouble = 1  RciSessions = 2
INVARIANTS
    GatewayTypeOK   HandshakeTrue BufferHasOneOwner
    TransferSafe SessionSafe DownloadSafe Bracketed Answered
PROPERTIES
    OwnStatus GatewayStops GatewayComesBack AskedIsAnswered
    
CHECK_DEADLOCK FALSE
