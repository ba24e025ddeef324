---------------------------- MODULE ResourceFile ----------------------------
(***************************************************************************)
(* The file with the list of resources: databasemgr/resource_xml.cpp, the  *)
(* request for it in core/Main.cpp, its way to the UI through              *)
(* uimgr/UiReceiver.cpp and its way to the cloud through application.c,    *)
(* cloud_data_device/device_request.c and error_handling.c.                *)
(*                                                                         *)
(* A request comes from the UI or, on the connector's own thread, from the *)
(* cloud.  It writes the file anew and starts a thread that sends it,      *)
(* piece by piece; to the cloud each piece is a put of its own, whose      *)
(* status the connector's thread writes to a pipe.                         *)
(*                                                                         *)
(* A piece is one entry of the list.  resource_lock is initialised by each *)
(* request, held or not; it is the futex that glibc makes of it.  Memory   *)
(* and threads can be had, and files opened.                               *)
(***************************************************************************)
EXTENDS Naturals, Sequences, SequencesExt

CONSTANTS
    Cloud, Ui,        \* who asks, and the thread that asks
    ListLength,       \* resources in the list
    MaxRequests,      \* bound: requests for the file
    MaxClients,       \* bound: clients of the UI receiver, one by one
    MaxDrops,         \* bound: times the cloud connection is lost
    Nobody

Callers == {Cloud, Ui}
Senders == 1 .. MaxRequests
Tasks == Callers \cup Senders

ASSUME ResourceFileAssumption ==
    /\ Cloud # Ui /\ Nobody \notin Tasks /\ Callers \cap Senders = {}
    /\ {ListLength, MaxRequests, MaxClients, MaxDrops} \subseteq Nat

VARIABLES
    place,            \* where each thread is
    api_lock,         \* its holder
    futex,            \* resource_lock: 0 free, 1 locked, 2 with waiters
    file,             \* entries in the file
    entry,            \* how many of the list the request has written
    whom,             \* the static that the senders read
    requested,        \* requests so far
    piece,            \* the piece a sender is at, 0 is the header
    buffered,         \* entries its stdio buffer has
    client_fd,        \* the client of the UI, 0 none
    clients,          \* clients so far
    connected, drops,
    header,           \* user_context in the static header of a put
    slot,             \* the connector has that header as a pending request
    put_session,          \* user_context of the put in progress
    pipe,             \* user_context of the statuses in file_pipes
    read_lock,        \* its holder
    live,             \* senders whose app_data is allocated
    zs,               \* entries with the letter z in them
    asked,            \* ghost: who asked for the file of a sender
    out,              \* ghost: where its pieces went
    disturbed,        \* ghost: senders that something came in between
    reinit,           \* ghost: resource_lock was initialised while held
    timedOut          \* ghost: a put has timed out

calling == <<api_lock, entry, whom, requested>>
request == <<calling, asked>>
reading == <<piece, buffered>>
ui == <<client_fd, clients>>
connector == <<connected, drops, slot, put_session>>
put == <<header, live>>
pipes == <<pipe, read_lock>>
ghosts == <<zs, disturbed, reinit, timedOut>>
resVars == <<place, futex, file, request, reading, ui, connector, put, pipes,
             out, ghosts>>

Inside == {"in", "initiate", "sleep", "wait", "select"}
ResTypeOK ==
    /\ place \in [Tasks -> Inside \cup {"idle", "enter", "lock",
                      "asleep", "woken", "send", "none", "sent", "stopped"}]
    /\ api_lock \in Callers \cup {Nobody}
    /\ futex \in 0 .. 2
    /\ file \in Nat /\ entry \in 0 .. ListLength
    /\ whom \in Callers
    /\ requested \in 0 .. MaxRequests
    /\ piece \in [Senders -> Nat]
    /\ buffered \in [Senders -> Nat]
    /\ clients \in 0 .. MaxClients /\ client_fd \in 0 .. clients
    /\ connected \in BOOLEAN /\ drops \in 0 .. MaxDrops
    /\ header \in Senders \cup {Nobody} /\ slot \in BOOLEAN
    /\ put_session \in Senders \cup {Nobody}
    /\ pipe \in Seq(Senders)
    /\ read_lock \in Senders \cup {Nobody}
    /\ live \subseteq Senders
    /\ zs \subseteq 1 .. ListLength
    /\ asked \in [Senders -> Callers \cup {Nobody}]
    /\ out \in [Senders -> Seq(Callers)]
    /\ disturbed \subseteq Senders
    /\ reinit \in BOOLEAN /\ timedOut \in BOOLEAN

ResInit ==
    /\ place = [t \in Tasks |-> IF t \in Callers THEN "idle" ELSE "none"]
    /\ api_lock = Nobody /\ futex = 0
    /\ file = 0 /\ entry = 0 /\ whom = Cloud /\ requested = 0
    /\ piece = [s \in Senders |-> 0] /\ buffered = [s \in Senders |-> 0]
    /\ client_fd = 0 /\ clients = 0
    /\ connected = TRUE /\ drops = 0
    /\ header = Nobody /\ slot = FALSE /\ put_session = Nobody
    /\ pipe = <<>> /\ read_lock = Nobody /\ live = {}
    /\ zs \in {{}, {ListLength} \ {0}}
    /\ asked = [s \in Senders |-> Nobody]
    /\ out = [s \in Senders |-> <<>>]
    /\ disturbed = {} /\ reinit = FALSE /\ timedOut = FALSE

Passes(t, from, to) == place[t] = from /\ place' = [place EXCEPT ![t] = to]
Alive == {s \in Senders : place[s] \notin {"none", "sent", "stopped"}}

\* Something comes in between: it does not matter any more where pieces go.
Disturb ==
    /\ disturbed' = disturbed \cup Alive
    /\ asked' = [s \in Senders |->
                   IF s \in disturbed' THEN Nobody ELSE asked[s]]
    /\ out' = [s \in Senders |-> IF s \in disturbed' THEN <<>> ELSE out[s]]
-----------------------------------------------------------------------------
(* resource_lock.                                                          *)

Acquire(t) ==
    /\ Passes(t, "lock", "in")
    /\ futex = 0 /\ futex' = 1
    /\ UNCHANGED <<file, request, reading, ui, connector, put, pipes, out,
                   ghosts>>

Sleep(t) ==
    /\ Passes(t, "lock", "asleep")
    /\ futex # 0 /\ futex' = 2
    /\ UNCHANGED <<file, request, reading, ui, connector, put, pipes, out,
                   ghosts>>

Woken(t) ==
    /\ Passes(t, "woken", IF futex = 0 THEN "in" ELSE "asleep")
    /\ futex' = 2
    /\ UNCHANGED <<file, request, reading, ui, connector, put, pipes, out,
                   ghosts>>

\* Thread t unlocks and goes on.
Unlock(t, to) ==
    LET asleep == {w \in Tasks : place[w] = "asleep"}
    IN  /\ futex' = 0
        /\ IF futex = 2 /\ asleep # {}
           THEN \E w \in asleep :
                    place' = [place EXCEPT ![t] = to, ![w] = "woken"]
           ELSE place' = [place EXCEPT ![t] = to]
-----------------------------------------------------------------------------
(* A request: iot_request_response and print_to_file.                      *)

\* The connector's thread gets one from the cloud, over a connection.
Ask(c) ==
    /\ Passes(c, "idle", "enter")
    /\ requested < MaxRequests
    /\ IF c = Cloud THEN connected ELSE client_fd > 0
    /\ requested' = requested + 1
    /\ UNCHANGED <<futex, file, api_lock, entry, whom, asked, reading, ui,
                   connector, put, pipes, out, ghosts>>

\* Mutant: the file is not truncated.
InitFile_Append(c) ==
    /\ api_lock = Nobody /\ api_lock' = c
    /\ Passes(c, "enter", IF ListLength = 0 THEN "send" ELSE "lock")
    /\ futex' = 0 /\ entry' = 0
    /\ reinit' = (reinit \/ \E t \in Tasks : place[t] \in Inside)
    /\ Disturb
    /\ UNCHANGED <<file, whom, requested, reading, ui, connector, put,
                   pipes, zs, timedOut>>

InitFile(c) ==
    /\ api_lock = Nobody /\ api_lock' = c
    /\ Passes(c, "enter", IF ListLength = 0 THEN "send" ELSE "lock")
    /\ futex' = 0 /\ file' = 0 /\ entry' = 0
    /\ reinit' = (reinit \/ \E t \in Tasks : place[t] \in Inside)
    /\ Disturb
    /\ UNCHANGED <<whom, requested, reading, ui, connector, put, pipes, zs,
                   timedOut>>

CreateEntry(c) ==
    /\ place[c] = "in"
    /\ file' = file + 1 /\ entry' = entry + 1
    /\ Unlock(c, IF entry + 1 < ListLength THEN "lock" ELSE "send")
    /\ UNCHANGED <<api_lock, whom, requested, asked, reading, ui, connector,
                   put, pipes, out, ghosts>>

\* The thread gets the next free number; the call leaves api_lock.
SendResourceFile(c) ==
    /\ place[c] = "send"
    /\ whom' = c
    /\ \E s \in Senders :
        /\ place[s] = "none" /\ \A r \in 1 .. s - 1 : place[r] # "none"
        /\ place' = [place EXCEPT ![c] = "idle", ![s] = "lock"]
        /\ asked' = [asked EXCEPT ![s] = c]
    /\ api_lock' = Nobody /\ entry' = 0
    /\ UNCHANGED <<futex, file, requested, reading, ui, connector, put,
                   pipes, out, ghosts>>
-----------------------------------------------------------------------------
(* The thread that sends the file: send_resource_file_external.            *)

\* The thread ends, and what it has read goes with it.
EndThread(s, to) ==
    /\ Unlock(s, to)
    /\ piece' = [piece EXCEPT ![s] = 0]
    /\ buffered' = [buffered EXCEPT ![s] = 0]

\* An entry has come into the stdio buffer, or does now.
HasPiece(s) == piece[s] = 0 \/ piece[s] <= buffered[s] \/ piece[s] <= file

\* A piece with a z ends before it, and the next begins with it, for ever.
Deliver(s, to) ==
    /\ out' = [out EXCEPT ![s] = IF s \in disturbed \/ piece[s] \in zs THEN @
                                ELSE Append(@, to)]
    /\ piece' = [piece EXCEPT ![s] = IF @ \in zs THEN @ ELSE @ + 1]

Fill(s) ==
    buffered' = [buffered EXCEPT
        ![s] = IF piece[s] = 0 \/ piece[s] <= @ THEN @ ELSE file]

\* app_data is allocated and the static header filled in.
NewPut(s) == live' = live \cup {s} /\ header' = s

SendFileToUi(s) ==
    /\ place[s] = "in" /\ whom = Ui /\ HasPiece(s)
    /\ client_fd > 0
    /\ Deliver(s, Ui) /\ Fill(s)
    /\ UNCHANGED <<place, futex, file, request, ui, connector, put, pipes,
                   ghosts>>

NoClient(s) ==
    /\ place[s] = "in" /\ whom = Ui /\ HasPiece(s)
    /\ client_fd = 0
    /\ EndThread(s, "stopped")
    /\ UNCHANGED <<file, request, ui, connector, put, pipes, out,
                   ghosts>>

SendFileToCloud(s) ==
    /\ Passes(s, "in", "initiate") /\ whom = Cloud /\ HasPiece(s)
    /\ Fill(s) /\ NewPut(s)
    /\ UNCHANGED <<futex, file, request, piece, ui, connector, pipes, out,
                   ghosts>>

EndOfFile(s) ==
    /\ place[s] = "in" /\ ~HasPiece(s)
    /\ EndThread(s, "sent")
    /\ UNCHANGED <<file, request, ui, connector, put, pipes, out,
                   ghosts>>
-----------------------------------------------------------------------------
(* app_send_put_request and GetRespMessage, on that thread.                *)
PutAgain(s) ==
    /\ Passes(s, "sleep", "initiate")
    /\ NewPut(s)
    /\ UNCHANGED <<futex, file, request, reading, ui, connector, pipes, out,
                   ghosts>>

Initiate(s) ==
    /\ Passes(s, "initiate", "wait")
    /\ connected /\ ~slot /\ slot' = TRUE
    /\ UNCHANGED <<futex, file, request, reading, ui, connected, drops, put,
                   put_session, pipes, out, ghosts>>

\* init_error: it sleeps for a second and tries again.
NotConnected(s) ==
    /\ Passes(s, "initiate", "sleep")
    /\ ~connected
    /\ live' = live \ {s}
    /\ UNCHANGED <<futex, file, request, reading, ui, connector, header,
                   pipes, out, ghosts>>

ServiceBusy(s) ==
    /\ place[s] = "initiate"
    /\ connected /\ slot
    /\ live' = live \ {s}
    /\ EndThread(s, "stopped")
    /\ UNCHANGED <<file, request, ui, connector, header, pipes, out,
                   ghosts>>

Select(s) ==
    /\ Passes(s, "wait", "select")
    /\ read_lock = Nobody /\ read_lock' = s
    /\ UNCHANGED <<futex, file, request, reading, ui, connector, put, pipe,
                   out, ghosts>>

\* The value of the status is not looked at.
GetStatus(s) ==
    /\ Passes(s, "select", "in")
    /\ pipe # <<>> /\ pipe' = Tail(pipe) /\ read_lock' = Nobody
    /\ Deliver(s, Cloud)
    /\ UNCHANGED <<futex, file, request, buffered, ui, connector, put, ghosts>>

\* After 15 seconds; app_data stays allocated for the connector.
Timeout(s) ==
    /\ place[s] = "select"
    /\ pipe = <<>> /\ read_lock' = Nobody
    /\ timedOut' = TRUE
    /\ EndThread(s, "stopped")
    /\ UNCHANGED <<file, request, ui, connector, put, pipe, out, zs,
                   disturbed, reinit>>
-----------------------------------------------------------------------------
(* The connector's thread, when it is not in a request.                    *)
Running == place[Cloud] = "idle"

StartPut ==
    /\ Running /\ connected /\ slot /\ put_session = Nobody
    /\ put_session' = header /\ slot' = FALSE
    /\ UNCHANGED <<place, futex, file, request, reading, ui, connected, drops,
                   put, pipes, out, ghosts>>

\* Mutant: the callback for the response posts a status as well.
PostStatus_Twice ==
    /\ Running /\ put_session # Nobody
    /\ pipe' = pipe \o <<put_session, put_session>>
    /\ live' = live \ {put_session} /\ put_session' = Nobody
    /\ UNCHANGED <<place, futex, file, request, reading, ui, connected, drops,
                   slot, header, read_lock, out, ghosts>>

\* The session is over: the cloud has answered, or an error has come.
PostStatus ==
    /\ Running /\ put_session # Nobody
    /\ pipe' = Append(pipe, put_session)
    /\ live' = live \ {put_session} /\ put_session' = Nobody
    /\ UNCHANGED <<place, futex, file, request, reading, ui, connected, drops,
                   slot, header, read_lock, out, ghosts>>

\* Sessions and the pending request are cancelled, with a status each.
Drop ==
    /\ Running /\ connected /\ drops < MaxDrops
    /\ connected' = FALSE /\ drops' = drops + 1
    /\ LET over == (IF put_session = Nobody THEN <<>> ELSE <<put_session>>)
                       \o (IF slot THEN <<header>> ELSE <<>>)
       IN  pipe' = pipe \o over /\ live' = live \ ToSet(over)
    /\ put_session' = Nobody /\ slot' = FALSE
    /\ Disturb
    /\ UNCHANGED <<place, futex, file, calling, reading, ui, header, read_lock,
                   zs, reinit, timedOut>>

Recover ==
    /\ Running /\ ~connected /\ connected' = TRUE
    /\ UNCHANGED <<place, futex, file, request, reading, ui, drops, slot,
                   put_session, put, pipes, out, ghosts>>
-----------------------------------------------------------------------------
(* ReceiverStart: the receiver serves one client after the other.          *)
Accept ==
    /\ client_fd = 0 /\ clients < MaxClients
    /\ clients' = clients + 1 /\ client_fd' = clients + 1
    /\ UNCHANGED <<place, futex, file, request, reading, connector, put,
                   pipes, out, ghosts>>

CloseClient ==
    /\ client_fd > 0 /\ place[Ui] = "idle"
    /\ client_fd' = 0
    /\ Disturb
    /\ UNCHANGED <<place, futex, file, calling, reading, clients, connector,
                   put, pipes, zs, reinit, timedOut>>
-----------------------------------------------------------------------------
Lock(t) == Acquire(t) \/ Sleep(t) \/ Woken(t)

Request(c) ==
    \/ Lock(c) \/ InitFile(c) \/ CreateEntry(c) \/ SendResourceFile(c)

Sender(s) ==
    \/ Lock(s) \/ SendFileToUi(s) \/ NoClient(s) \/ SendFileToCloud(s)
    \/ EndOfFile(s) \/ PutAgain(s) \/ Initiate(s) \/ NotConnected(s)
    \/ ServiceBusy(s) \/ Select(s) \/ GetStatus(s) \/ Timeout(s)

ResNext ==
    \/ \E c \in Callers : Ask(c) \/ Request(c)
    \/ \E s \in Senders : Sender(s)
    \/ StartPut \/ PostStatus \/ Drop \/ Recover \/ Accept \/ CloseClient

\* The threads run; the cloud can be reached again, and ends every session.
\* The connector's thread goes on; there are finitely many puts.
ConnectorSteps == StartPut \/ PostStatus \/ Recover

ResFairness ==
    /\ \A c \in Callers : WF_resVars(Request(c))
    /\ \A s \in Senders : WF_resVars(Sender(s))
    /\ WF_resVars(ConnectorSteps)

ResSpec == ResInit /\ [][ResNext]_resVars /\ ResFairness
-----------------------------------------------------------------------------
(* Two threads are inside resource_lock only after a request initialised   *)
(* it while one was: threads that slept then, or unlock later, do no harm. *)
ExclusiveUnlessReinit ==
    ~reinit =>
        \A s, t \in Tasks : {place[s], place[t]} \subseteq Inside => s = t

(* A file that is sent to its end, with no other request, no new client    *)
(* and no lost connection in between, went to the one who asked, whole.    *)
WholeFile ==
    \A s \in Senders :
        place[s] = "sent" /\ s \notin disturbed =>
            out[s] = [i \in 1 .. ListLength + 1 |-> asked[s]]

(* As long as files were sent one at a time and no put timed out, the      *)
(* connector works with app_data that is allocated and whose sender still  *)
(* waits, so that its buffer is there, too.                                *)
ContextAlive ==
    ~reinit /\ ~timedOut =>
        \A s \in (IF slot THEN {header} ELSE {})
                          \cup ({put_session} \ {Nobody}) :
            s \in live /\ place[s] \in {"wait", "select"}

(* And the status a put takes from the pipe is that of its own data.       *)
OwnStatus ==
    [][\A s \in Senders :
        GetStatus(s) /\ ~reinit /\ ~timedOut => pipe = <<s>>]_resVars

(* A request returns, though it may wait for a sender that waits for the   *)
(* thread the request is on, unless a name of the list has a z in it.      *)
RequestsReturned == zs = {} => \A c \in Callers : place[c] = "idle"
RequestsReturn == <>[]RequestsReturned

(* The resource file on its way to UI and cloud.                           *)
FileSafe == ExclusiveUnlessReinit /\ WholeFile /\ ContextAlive
=============================================================================
