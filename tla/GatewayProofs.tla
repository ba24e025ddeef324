----------------------------- MODULE GatewayProofs -----------------------------
(***************************************************************************)
(* Proofs about four parts of the gateway around its core: ResourceFile,   *)
(* for any list, requests, clients and lost connections; LifeCycle;        *)
(* FileService, for files and blocks of any length; and FirmwareService,   *)
(* for images of any length and any number of messages out of order,       *)
(* packets of others and connections lost.                                 *)
(*                                                                         *)
(* A file is sent whole because nobody writes it, once a request has, but  *)
(* the next request, which comes in between; and a put has its own status  *)
(* because one sender at most is inside resource_lock, so that what is on  *)
(* its way, in one of three places, is its own.  A stop leaves nothing     *)
(* because how far it has come tells which threads it has joined.  A file  *)
(* session does what its demand says because at each step the disk and the *)
(* answer are what that demand makes of the units that it has handled      *)
(* (StoryInv).  A download is safe because the cloud, the connector and    *)
(* the application advance in step (Sending), until something is refused:  *)
(* then the cloud is going to hear that (DownloadRefused), and does not    *)
(* come to be told.                                                        *)
(***************************************************************************)
EXTENDS ResourceFile, LifeCycle, FileService, FirmwareService, TLAPS

(* ResourceFile.                                                           *)

CallerPlaces == {"idle", "enter", "lock", "asleep", "woken", "in", "send"}
SenderPlaces ==
    Inside \cup {"none", "lock", "asleep", "woken", "sent", "stopped"}
TaskPlaces == CallerPlaces \cup SenderPlaces
RolesInv ==
    /\ \A c \in Callers : place[c] \in CallerPlaces
    /\ \A s \in Senders : place[s] \in SenderPlaces

\* The holder of resource_lock, if there is one, finds the futex locked.
HolderInv ==
    ~reinit =>
        /\ \A s, t \in Tasks :
               place[s] \in Inside /\ place[t] \in Inside => s = t
        /\ \A t \in Tasks : place[t] \in Inside => futex # 0

\* A request that writes the file has the API lock; and came in between all
\* the senders that there are.
AtFile == {"lock", "asleep", "woken", "in"}
WriterInv ==
    /\ \A c \in Callers :
           /\ place[c] \in AtFile => entry < ListLength /\ api_lock = c
           /\ place[c] = "send" => entry = ListLength /\ api_lock = c
    /\ api_lock # Nobody => file = entry /\ Alive \subseteq disturbed

\* A put on its way is in one place: a pending request of the connector, its
\* session, or the pipe.
Waits(s) == place[s] \in {"wait", "select"}
PutAt(s) ==
    \/ /\ slot = TRUE /\ header = s /\ put_session = Nobody /\ pipe = <<>>
       /\ s \in live
    \/ slot = FALSE /\ put_session = s /\ pipe = <<>> /\ s \in live
    \/ slot = FALSE /\ put_session = Nobody /\ pipe = <<s>>
PutInv ==
    ~reinit /\ ~timedOut =>
        /\ \A s \in Senders :
               /\ place[s] = "initiate" => header = s /\ s \in live
               /\ Waits(s) => PutAt(s)
        /\ (\A s \in Senders : ~Waits(s)) =>
               slot = FALSE /\ put_session = Nobody /\ pipe = <<>>
HeaderInv ==
    (slot = TRUE \/ \E s \in Senders : place[s] = "initiate") => header # Nobody

\* n times a.
Copies(q, n, a) == Len(q) = n /\ \A i \in 1 .. n : q[i] = a

\* What a sender has sent, which nothing came in between.
OnItsWay(s) ==
    /\ file = ListLength /\ whom = asked[s]
    /\ Copies(out[s], piece[s], asked[s])
    /\ piece[s] <= ListLength + 1 /\ buffered[s] <= ListLength
    /\ place[s] \in Inside \ {"in"} =>
           asked[s] = Cloud /\ piece[s] <= ListLength
SentInv ==
    \A s \in Senders :
        /\ place[s] = "none" => out[s] = <<>> /\ piece[s] = 0 /\ buffered[s] = 0
        /\ s \in Alive \ disturbed => OnItsWay(s)
        /\ place[s] = "sent" /\ s \notin disturbed =>
               Copies(out[s], ListLength + 1, asked[s])

ResInv ==
    /\ ResTypeOK /\ RolesInv /\ HolderInv /\ WriterInv /\ PutInv /\ HeaderInv
    /\ SentInv

PlaceOK == place \in [Tasks -> TaskPlaces]
FileOK ==
    /\ api_lock \in Callers \cup {Nobody} /\ futex \in 0 .. 2
    /\ file \in Nat /\ entry \in 0 .. ListLength /\ whom \in Callers
    /\ requested \in 0 .. MaxRequests
ReadingOK == piece \in [Senders -> Nat] /\ buffered \in [Senders -> Nat]
ConnectionOK ==
    /\ clients \in 0 .. MaxClients /\ client_fd \in 0 .. clients
    /\ connected \in BOOLEAN /\ drops \in 0 .. MaxDrops
PutOK ==
    /\ header \in Senders \cup {Nobody} /\ slot \in BOOLEAN
    /\ put_session \in Senders \cup {Nobody} /\ pipe \in Seq(Senders)
    /\ read_lock \in Senders \cup {Nobody} /\ live \subseteq Senders
GhostOK ==
    /\ zs \subseteq 1 .. ListLength
    /\ asked \in [Senders -> Callers \cup {Nobody}]
    /\ out \in [Senders -> Seq(Callers)]
    /\ disturbed \subseteq Senders
    /\ reinit \in BOOLEAN /\ timedOut \in BOOLEAN

LEMMA ResTypes ==
    ResTypeOK <=> /\ PlaceOK /\ FileOK /\ ReadingOK /\ ConnectionOK /\ PutOK
                  /\ GhostOK
<1>1. TaskPlaces = Inside \cup {"idle", "enter", "lock", "asleep", "woken",
                                "send", "none", "sent", "stopped"}
  BY DEF TaskPlaces, CallerPlaces, SenderPlaces, Inside
<1>2. QED
  BY <1>1, Zenon DEF ResTypeOK, PlaceOK, FileOK, ReadingOK, ConnectionOK, PutOK,
                     GhostOK

LEMMA ResTypesNext ==
    ASSUME PlaceOK', FileOK', ReadingOK', ConnectionOK', PutOK', GhostOK'
    PROVE  ResTypeOK'
<1>1. TaskPlaces = Inside \cup {"idle", "enter", "lock", "asleep", "woken",
                                "send", "none", "sent", "stopped"}
  BY DEF TaskPlaces, CallerPlaces, SenderPlaces, Inside
<1>2. QED
  BY <1>1, Zenon DEF ResTypeOK, PlaceOK, FileOK, ReadingOK, ConnectionOK, PutOK,
                     GhostOK

LEMMA TwoRoles ==
    /\ Callers \subseteq Tasks /\ Senders \subseteq Tasks
    /\ \A c \in Callers : c \notin Senders /\ c # Nobody
    /\ \A s \in Senders : s \notin Callers /\ s # Nobody
    /\ \A t \in Tasks : t \in Callers \/ t \in Senders
BY ResourceFileAssumption DEF Tasks

\* Thread t goes from one place to another; and may wake one up.
MovesTo(t, to) ==
    /\ PlaceOK' /\ place'[t] = to
    /\ \A u \in Tasks \ {t} :
           \/ place'[u] = place[u]
           \/ place[u] = "asleep" /\ place'[u] = "woken"

LEMMA PassesMoves ==
    ASSUME PlaceOK, NEW t \in Tasks, NEW from, NEW to \in TaskPlaces,
           Passes(t, from, to)
    PROVE  place[t] = from /\ MovesTo(t, to)
BY DEF Passes, PlaceOK, MovesTo

LEMMA UnlockMoves ==
    ASSUME PlaceOK, NEW t \in Tasks, NEW to \in TaskPlaces,
           place[t] # "asleep", Unlock(t, to)
    PROVE  futex' = 0 /\ MovesTo(t, to)
<1>1. futex' = 0
  BY DEF Unlock
<1>2. CASE place' = [place EXCEPT ![t] = to]
  BY <1>1, <1>2 DEF PlaceOK, MovesTo
<1>3. ASSUME NEW w \in {u \in Tasks : place[u] = "asleep"},
             place' = [place EXCEPT ![t] = to, ![w] = "woken"]
      PROVE  MovesTo(t, to)
  <2>1. "woken" \in TaskPlaces
    BY DEF TaskPlaces, CallerPlaces
  <2>2. w \in Tasks /\ w # t /\ place[w] = "asleep"
    BY <1>3
  <2>3. PlaceOK'
    BY <1>3, <2>1, <2>2 DEF PlaceOK
  <2>4. place'[t] = to /\ place'[w] = "woken"
    BY <1>3, <2>2 DEF PlaceOK
  <2>5. \A u \in Tasks \ {t} : u # w => place'[u] = place[u]
    BY <1>3, <2>2 DEF PlaceOK
  <2>6. QED
    BY <2>2, <2>3, <2>4, <2>5 DEF MovesTo
<1>4. QED
  BY <1>1, <1>2, <1>3 DEF Unlock

\* The places of the threads, step by step.
LEMMA PlaceNames ==
    /\ {"idle", "enter", "lock", "asleep", "woken", "in", "send", "none",
        "initiate", "sleep", "wait", "select", "sent", "stopped"}
           \subseteq TaskPlaces
BY DEF TaskPlaces, CallerPlaces, SenderPlaces, Inside

LEMMA LockMoves ==
    ASSUME PlaceOK, NEW t \in Tasks, Lock(t)
    PROVE  \/ place[t] = "lock" /\ MovesTo(t, "in") /\ futex = 0 /\ futex' = 1
           \/ place[t] = "lock" /\ MovesTo(t, "asleep") /\ futex # 0
              /\ futex' = 2
           \/ place[t] = "woken" /\ MovesTo(t, "in") /\ futex = 0 /\ futex' = 2
           \/ place[t] = "woken" /\ MovesTo(t, "asleep") /\ futex # 0
              /\ futex' = 2
<1>1. CASE Acquire(t)
  <2>1. Passes(t, "lock", "in") /\ futex = 0 /\ futex' = 1
    BY <1>1 DEF Acquire
  <2>2. place[t] = "lock" /\ MovesTo(t, "in")
    BY <2>1, PlaceNames, PassesMoves
  <2>3. QED
    BY <2>1, <2>2
<1>2. CASE Sleep(t)
  <2>1. Passes(t, "lock", "asleep") /\ futex # 0 /\ futex' = 2
    BY <1>2 DEF Sleep
  <2>2. place[t] = "lock" /\ MovesTo(t, "asleep")
    BY <2>1, PlaceNames, PassesMoves
  <2>3. QED
    BY <2>1, <2>2
<1>3. CASE Woken(t)
  <2>1. PICK to \in {"in", "asleep"} :
            /\ Passes(t, "woken", to) /\ futex' = 2
            /\ to = "in" <=> futex = 0
    BY <1>3 DEF Woken
  <2>2. place[t] = "woken" /\ MovesTo(t, to)
    BY <2>1, PlaceNames, PassesMoves
  <2>3. QED
    BY <2>1, <2>2
<1>4. QED
  BY <1>1, <1>2, <1>3 DEF Lock

LEMMA LockFrame ==
    ASSUME NEW t, Lock(t)
    PROVE  UNCHANGED <<file, api_lock, entry, whom, requested, asked, piece,
                       buffered, client_fd, clients, connected, drops, slot,
                       put_session, header, live, pipe, read_lock, out, zs,
                       disturbed, reinit, timedOut>>
BY DEF Lock, Acquire, Sleep, Woken, request, calling, reading, ui, connector,
       put, pipes, ghosts

LEMMA AskMoves ==
    ASSUME PlaceOK, NEW c \in Callers, Ask(c)
    PROVE  place[c] = "idle" /\ MovesTo(c, "enter")
<1>1. Passes(c, "idle", "enter") /\ c \in Tasks
  BY TwoRoles DEF Ask
<1>2. QED
  BY <1>1, PlaceNames, PassesMoves

LEMMA InitFileMoves ==
    ASSUME PlaceOK, NEW c \in Callers, InitFile(c)
    PROVE  /\ place[c] = "enter"
           /\ MovesTo(c, IF ListLength = 0 THEN "send" ELSE "lock")
<1>1. PICK to \in {"send", "lock"} :
          /\ Passes(c, "enter", to) /\ c \in Tasks
          /\ to = IF ListLength = 0 THEN "send" ELSE "lock"
  BY TwoRoles DEF InitFile
<1>2. place[c] = "enter" /\ MovesTo(c, to)
  BY <1>1, PlaceNames, PassesMoves
<1>3. QED
  BY <1>1, <1>2

LEMMA CreateEntryMoves ==
    ASSUME PlaceOK, NEW c \in Callers, CreateEntry(c)
    PROVE  /\ place[c] = "in" /\ futex' = 0
           /\ MovesTo(c, IF entry + 1 < ListLength THEN "lock" ELSE "send")
<1>1. PICK to \in {"send", "lock"} :
          /\ place[c] = "in" /\ Unlock(c, to) /\ c \in Tasks
          /\ to = IF entry + 1 < ListLength THEN "lock" ELSE "send"
  BY TwoRoles DEF CreateEntry
<1>2. futex' = 0 /\ MovesTo(c, to)
  BY <1>1, PlaceNames, UnlockMoves
<1>3. QED
  BY <1>1, <1>2

LEMMA SendResourceFileMoves ==
    ASSUME PlaceOK, NEW c \in Callers, SendResourceFile(c)
    PROVE  \E s \in Senders :
               /\ place[c] = "send" /\ place[s] = "none" /\ PlaceOK'
               /\ place'[c] = "idle" /\ place'[s] = "lock"
               /\ \A u \in Tasks \ {c, s} : place'[u] = place[u]
               /\ asked' = [asked EXCEPT ![s] = c]
<1>1. PICK s \in Senders :
          /\ place[c] = "send" /\ place[s] = "none"
          /\ place' = [place EXCEPT ![c] = "idle", ![s] = "lock"]
          /\ asked' = [asked EXCEPT ![s] = c]
  BY DEF SendResourceFile
<1>2. s \in Tasks /\ c \in Tasks /\ s # c
  BY TwoRoles
<1>3. "idle" \in TaskPlaces /\ "lock" \in TaskPlaces
  BY PlaceNames
<1>4. PlaceOK' /\ place'[c] = "idle" /\ place'[s] = "lock"
  BY <1>1, <1>2, <1>3 DEF PlaceOK
<1>5. \A u \in Tasks \ {c, s} : place'[u] = place[u]
  BY <1>1, <1>2, <1>3 DEF PlaceOK
<1>6. QED
  BY <1>1, <1>4, <1>5

\* Where a sender goes, and from where.
LEMMA SenderMoves ==
    ASSUME PlaceOK, NEW s \in Senders
    PROVE  /\ SendFileToUi(s) => place[s] = "in" /\ place' = place
           /\ NoClient(s) =>
                  place[s] = "in" /\ futex' = 0 /\ MovesTo(s, "stopped")
           /\ SendFileToCloud(s) => place[s] = "in" /\ MovesTo(s, "initiate")
           /\ EndOfFile(s) =>
                  place[s] = "in" /\ futex' = 0 /\ MovesTo(s, "sent")
           /\ PutAgain(s) => place[s] = "sleep" /\ MovesTo(s, "initiate")
           /\ Initiate(s) => place[s] = "initiate" /\ MovesTo(s, "wait")
           /\ NotConnected(s) => place[s] = "initiate" /\ MovesTo(s, "sleep")
           /\ ServiceBusy(s) =>
                  place[s] = "initiate" /\ futex' = 0 /\ MovesTo(s, "stopped")
           /\ Select(s) => place[s] = "wait" /\ MovesTo(s, "select")
           /\ GetStatus(s) => place[s] = "select" /\ MovesTo(s, "in")
           /\ Timeout(s) =>
                  place[s] = "select" /\ futex' = 0 /\ MovesTo(s, "stopped")
<1>1. s \in Tasks
  BY TwoRoles
<1>2. SendFileToUi(s) => place[s] = "in" /\ place' = place
  BY DEF SendFileToUi
<1>3. NoClient(s) => place[s] = "in" /\ futex' = 0 /\ MovesTo(s, "stopped")
  BY <1>1, PlaceNames, UnlockMoves DEF NoClient, EndThread
<1>4. SendFileToCloud(s) => place[s] = "in" /\ MovesTo(s, "initiate")
  BY <1>1, PlaceNames, PassesMoves DEF SendFileToCloud
<1>5. EndOfFile(s) => place[s] = "in" /\ futex' = 0 /\ MovesTo(s, "sent")
  BY <1>1, PlaceNames, UnlockMoves DEF EndOfFile, EndThread
<1>6. PutAgain(s) => place[s] = "sleep" /\ MovesTo(s, "initiate")
  BY <1>1, PlaceNames, PassesMoves DEF PutAgain
<1>7. Initiate(s) => place[s] = "initiate" /\ MovesTo(s, "wait")
  BY <1>1, PlaceNames, PassesMoves DEF Initiate
<1>8. NotConnected(s) => place[s] = "initiate" /\ MovesTo(s, "sleep")
  BY <1>1, PlaceNames, PassesMoves DEF NotConnected
<1>9. ServiceBusy(s) =>
          place[s] = "initiate" /\ futex' = 0 /\ MovesTo(s, "stopped")
  BY <1>1, PlaceNames, UnlockMoves DEF ServiceBusy, EndThread
<1>10. Select(s) => place[s] = "wait" /\ MovesTo(s, "select")
  BY <1>1, PlaceNames, PassesMoves DEF Select
<1>11. GetStatus(s) => place[s] = "select" /\ MovesTo(s, "in")
  BY <1>1, PlaceNames, PassesMoves DEF GetStatus
<1>12. Timeout(s) =>
           place[s] = "select" /\ futex' = 0 /\ MovesTo(s, "stopped")
  BY <1>1, PlaceNames, UnlockMoves DEF Timeout, EndThread
<1>13. QED
  BY <1>2, <1>3, <1>4, <1>5, <1>6, <1>7, <1>8, <1>9, <1>10, <1>11, <1>12

\* The steps that are not a thread's of this module leave the places alone.
Others == StartPut \/ PostStatus \/ Drop \/ Recover \/ Accept \/ CloseClient

LEMMA OthersMove ==
    ASSUME Others
    PROVE  UNCHANGED <<place, futex, file, api_lock, entry, whom, requested,
                       piece, buffered, header, read_lock, reinit, timedOut,
                       zs>>
BY DEF Others, StartPut, PostStatus, Drop, Recover, Accept, CloseClient,
       request, calling, reading, put, pipes, ghosts
-----------------------------------------------------------------------------
LEMMA RolesMove ==
    ASSUME RolesInv, NEW t, NEW to, MovesTo(t, to),
           \/ t \in Callers /\ to \in CallerPlaces
           \/ t \in Senders /\ to \in SenderPlaces
    PROVE  RolesInv'
<1>1. \A u \in Tasks \ {t} :
          place'[u] = place[u] \/ (place[u] = "asleep" /\ place'[u] = "woken")
  BY DEF MovesTo
<1>2. place'[t] = to
  BY DEF MovesTo
<1>3. "woken" \in CallerPlaces /\ "woken" \in SenderPlaces
  BY DEF CallerPlaces, SenderPlaces
<1>4. ASSUME NEW c \in Callers
      PROVE  place'[c] \in CallerPlaces
  BY <1>1, <1>2, <1>3, TwoRoles DEF RolesInv
<1>5. ASSUME NEW s \in Senders
      PROVE  place'[s] \in SenderPlaces
  BY <1>1, <1>2, <1>3, TwoRoles DEF RolesInv
<1>6. QED
  BY <1>4, <1>5 DEF RolesInv

LEMMA RolesKept ==
    ASSUME PlaceOK, RolesInv, ResNext
    PROVE  RolesInv'
<1>1. {"idle", "enter", "lock", "asleep", "woken", "in", "send"}
          \subseteq CallerPlaces
  BY DEF CallerPlaces
<1>2. {"lock", "asleep", "woken", "in", "initiate", "sleep", "wait", "select",
       "none", "sent", "stopped"} \subseteq SenderPlaces
  BY DEF SenderPlaces, Inside
<1>3. ASSUME NEW c \in Callers, Ask(c)
      PROVE  RolesInv'
  BY <1>1, <1>3, AskMoves, RolesMove
<1>4. ASSUME NEW c \in Callers, Lock(c)
      PROVE  RolesInv'
  <2>1. MovesTo(c, "in") \/ MovesTo(c, "asleep")
    BY <1>4, LockMoves, TwoRoles
  <2>2. QED
    BY <1>1, <2>1, RolesMove
<1>5. ASSUME NEW c \in Callers, InitFile(c) \/ CreateEntry(c)
      PROVE  RolesInv'
  <2>1. PICK to \in {"send", "lock"} : MovesTo(c, to)
    BY <1>5, InitFileMoves, CreateEntryMoves
  <2>2. QED
    BY <1>1, <2>1, RolesMove
<1>6. ASSUME NEW c \in Callers, SendResourceFile(c)
      PROVE  RolesInv'
  <2>1. PICK s \in Senders :
            /\ place'[c] = "idle" /\ place'[s] = "lock"
            /\ \A u \in Tasks \ {c, s} : place'[u] = place[u]
    BY <1>6, SendResourceFileMoves
  <2>2. \A d \in Callers : place'[d] \in CallerPlaces
    BY <1>1, <2>1, TwoRoles DEF RolesInv
  <2>3. \A r \in Senders : place'[r] \in SenderPlaces
    BY <1>2, <2>1, TwoRoles DEF RolesInv
  <2>4. QED
    BY <2>2, <2>3 DEF RolesInv
<1>7. ASSUME NEW s \in Senders, Lock(s)
      PROVE  RolesInv'
  <2>1. MovesTo(s, "in") \/ MovesTo(s, "asleep")
    BY <1>7, LockMoves, TwoRoles
  <2>2. QED
    BY <1>2, <2>1, RolesMove
<1>8. ASSUME NEW s \in Senders, Sender(s), ~Lock(s), ~SendFileToUi(s)
      PROVE  RolesInv'
  <2>1. \E to \in {"stopped", "initiate", "sent", "wait", "sleep", "select",
                   "in"} : MovesTo(s, to)
    BY <1>8, SenderMoves, Zenon DEF Sender
  <2>2. QED
    BY <1>2, <2>1, RolesMove
<1>9. CASE UNCHANGED place
  BY <1>9 DEF RolesInv
<1>10. QED
  <2>1. \A s \in Senders : SendFileToUi(s) => UNCHANGED place
    BY SenderMoves
  <2>2. Others => UNCHANGED place
    BY OthersMove
  <2>3. QED
    BY <1>3, <1>4, <1>5, <1>6, <1>7, <1>8, <1>9, <2>1, <2>2, Zenon
       DEF ResNext, Request, Others
-----------------------------------------------------------------------------
LEMMA HolderEnters ==
    ASSUME HolderInv, NEW t \in Tasks, MovesTo(t, "in"), futex = 0,
           futex' # 0, reinit' = reinit
    PROVE  HolderInv'
<1> SUFFICES ASSUME ~reinit
             PROVE  /\ \A s, u \in Tasks :
                           place'[s] \in Inside /\ place'[u] \in Inside => s = u
                    /\ \A u \in Tasks : place'[u] \in Inside => futex' # 0
  BY DEF HolderInv
<1>1. \A u \in Tasks : place[u] \notin Inside
  BY DEF HolderInv
<1>2. \A u \in Tasks \ {t} : place'[u] \notin Inside
  BY <1>1 DEF MovesTo, Inside
<1>3. QED
  BY <1>2

LEMMA HolderMoves ==
    ASSUME HolderInv, NEW t \in Tasks, NEW to, MovesTo(t, to),
           to \in Inside => place[t] \in Inside,
           futex' = futex \/ futex' # 0, reinit' = reinit
    PROVE  HolderInv'
<1>1. \A u \in Tasks : place'[u] \in Inside => place[u] \in Inside
  BY DEF MovesTo, Inside
<1>2. QED
  BY <1>1 DEF HolderInv

LEMMA HolderLeaves ==
    ASSUME HolderInv, NEW t \in Tasks, NEW to, MovesTo(t, to),
           place[t] \in Inside, to \notin Inside, reinit' = reinit
    PROVE  HolderInv'
<1> SUFFICES ASSUME ~reinit
             PROVE  \A u \in Tasks : place'[u] \notin Inside
  BY DEF HolderInv
<1>1. \A u \in Tasks \ {t} : place[u] \notin Inside
  BY DEF HolderInv
<1>2. QED
  BY <1>1 DEF MovesTo, Inside

LEMMA HolderKept ==
    ASSUME PlaceOK, HolderInv, ResNext
    PROVE  HolderInv'
<1>1. ASSUME NEW t \in Tasks, Lock(t)
      PROVE  HolderInv'
  <2>1. reinit' = reinit
    BY <1>1, LockFrame
  <2>2. CASE MovesTo(t, "in") /\ futex = 0 /\ futex' # 0
    BY <2>1, <2>2, HolderEnters
  <2>3. CASE MovesTo(t, "asleep") /\ futex' # 0
    <3>1. "asleep" \notin Inside
      BY DEF Inside
    <3>2. QED
      BY <2>1, <2>3, <3>1, HolderMoves
  <2>4. QED
    BY <1>1, <2>2, <2>3, LockMoves
<1>2. ASSUME NEW c \in Callers, Ask(c)
      PROVE  HolderInv'
  <2>1. UNCHANGED <<futex, reinit>> /\ "enter" \notin Inside
    BY <1>2 DEF Ask, ghosts, Inside
  <2>2. QED
    BY <1>2, <2>1, AskMoves, HolderMoves, TwoRoles
<1>3. ASSUME NEW c \in Callers, InitFile(c)
      PROVE  HolderInv'
  <2> SUFFICES ASSUME ~reinit'
               PROVE  \A u \in Tasks : place'[u] \notin Inside
    BY DEF HolderInv
  <2>1. \A u \in Tasks : place[u] \notin Inside
    BY <1>3 DEF InitFile
  <2>2. PICK to \in {"send", "lock"} : MovesTo(c, to)
    BY <1>3, InitFileMoves
  <2>3. QED
    BY <2>1, <2>2 DEF MovesTo, Inside
<1>4. ASSUME NEW c \in Callers, CreateEntry(c)
      PROVE  HolderInv'
  <2>1. PICK to \in {"send", "lock"} : MovesTo(c, to) /\ place[c] = "in"
    BY <1>4, CreateEntryMoves
  <2>2. reinit' = reinit /\ to \notin Inside /\ "in" \in Inside
    BY <1>4 DEF CreateEntry, ghosts, Inside
  <2>3. QED
    BY <2>1, <2>2, HolderLeaves, TwoRoles
<1>5. ASSUME NEW c \in Callers, SendResourceFile(c)
      PROVE  HolderInv'
  <2>1. PICK s \in Senders :
            /\ place'[c] = "idle" /\ place'[s] = "lock"
            /\ \A u \in Tasks \ {c, s} : place'[u] = place[u]
    BY <1>5, SendResourceFileMoves
  <2>2. \A u \in Tasks : place'[u] \in Inside => place[u] \in Inside
    BY <2>1 DEF Inside
  <2>3. UNCHANGED <<futex, reinit>>
    BY <1>5 DEF SendResourceFile, ghosts
  <2>4. QED
    BY <2>2, <2>3 DEF HolderInv
<1>6. ASSUME NEW s \in Senders,
             \/ NoClient(s) \/ EndOfFile(s) \/ ServiceBusy(s) \/ Timeout(s)
      PROVE  HolderInv'
  <2>1. PICK to \in {"stopped", "sent"} :
            MovesTo(s, to) /\ place[s] \in {"in", "initiate", "select"}
    BY <1>6, SenderMoves
  <2>2. reinit' = reinit
    BY <1>6 DEF NoClient, EndOfFile, ServiceBusy, Timeout, ghosts
  <2>3. place[s] \in Inside /\ to \notin Inside
    BY <2>1 DEF Inside
  <2>4. QED
    BY <2>1, <2>2, <2>3, HolderLeaves, TwoRoles
<1>7. ASSUME NEW s \in Senders,
             \/ SendFileToCloud(s) \/ PutAgain(s) \/ Initiate(s)
             \/ NotConnected(s) \/ Select(s) \/ GetStatus(s)
      PROVE  HolderInv'
  <2>1. PICK to \in Inside : MovesTo(s, to) /\ place[s] \in Inside
    BY <1>7, SenderMoves DEF Inside
  <2>2. UNCHANGED <<futex, reinit>>
    BY <1>7 DEF SendFileToCloud, PutAgain, Initiate, NotConnected, Select,
                GetStatus, ghosts
  <2>3. QED
    BY <2>1, <2>2, HolderMoves, TwoRoles
<1>8. CASE UNCHANGED <<place, futex, reinit>>
  BY <1>8 DEF HolderInv
<1>9. ASSUME NEW s \in Senders, SendFileToUi(s)
      PROVE  UNCHANGED <<place, futex, reinit>>
  BY <1>9 DEF SendFileToUi, ghosts
<1>10. Others => UNCHANGED <<place, futex, reinit>>
  BY OthersMove
<1>11. QED
  <2>1. \A t : t \in Callers \/ t \in Senders => t \in Tasks
    BY TwoRoles
  <2>2. QED
    BY <1>1, <1>2, <1>3, <1>4, <1>5, <1>6, <1>7, <1>8, <1>9, <1>10, <2>1, Zenon
       DEF ResNext, Request, Sender, Others
-----------------------------------------------------------------------------
\* The steps of a sender write no file, and make no sender.
LEMMA SenderFrame ==
    ASSUME PlaceOK, NEW s \in Senders, Sender(s)
    PROVE  UNCHANGED <<api_lock, entry, file, whom, requested, asked, disturbed,
                       clients, client_fd, connected, drops, put_session, zs,
                       reinit>>
BY DEF Sender, Lock, Acquire, Sleep, Woken, SendFileToUi, NoClient,
       SendFileToCloud, EndOfFile, PutAgain, Initiate, NotConnected,
       ServiceBusy, Select, GetStatus, Timeout,
       request, calling, ui, connector, ghosts

LEMMA WriterStays ==
    ASSUME WriterInv, UNCHANGED <<api_lock, entry, file>>,
           disturbed \subseteq disturbed', Alive' \subseteq Alive,
           \A c \in Callers :
               /\ place'[c] \in AtFile => place[c] \in AtFile
               /\ place'[c] = "send" => place[c] = "send"
    PROVE  WriterInv'
BY DEF WriterInv

LEMMA AliveMoves ==
    ASSUME PlaceOK, NEW t \in Tasks, NEW to, MovesTo(t, to),
           t \in Senders => place[t] \notin {"none", "sent", "stopped"}
    PROVE  Alive' \subseteq Alive
BY TwoRoles DEF MovesTo, Alive

LEMMA DisturbMore ==
    ASSUME Disturb, GhostOK
    PROVE  /\ disturbed' = disturbed \cup Alive /\ disturbed' \subseteq Senders
           /\ asked' \in [Senders -> Callers \cup {Nobody}]
           /\ out' \in [Senders -> Seq(Callers)]
           /\ \A s \in Senders :
                  s \notin disturbed' =>
                      asked'[s] = asked[s] /\ out'[s] = out[s]
           /\ \A s \in Senders : out'[s] = out[s] \/ out'[s] = <<>>
BY DEF Disturb, GhostOK, Alive

LEMMA WriterKept ==
    ASSUME ResTypeOK, RolesInv, WriterInv, ResNext
    PROVE  WriterInv'
<1>1. PlaceOK /\ FileOK /\ GhostOK
  BY ResTypes
<1>2. "woken" \in AtFile /\ "asleep" \in AtFile /\ "in" \in AtFile
      /\ "lock" \in AtFile /\ "send" \notin AtFile /\ "idle" \notin AtFile
      /\ "enter" \notin AtFile
  BY DEF AtFile
<1>3. ASSUME NEW s \in Senders, Sender(s)
      PROVE  WriterInv'
  <2>1. UNCHANGED <<api_lock, entry, file, disturbed>>
    BY <1>1, <1>3, SenderFrame
  <2>2. \/ \E to : MovesTo(s, to) /\ place[s] \notin {"none", "sent", "stopped"}
        \/ UNCHANGED place
    <3>1. CASE Lock(s)
      BY <1>1, <3>1, LockMoves, TwoRoles
    <3>2. CASE ~Lock(s)
      BY <1>1, <1>3, <3>2, SenderMoves DEF Sender
    <3>3. QED
      BY <3>1, <3>2
  <2>3. Alive' \subseteq Alive
    <3>1. CASE UNCHANGED place
      BY <3>1 DEF Alive
    <3>2. CASE \E to : MovesTo(s, to)
                       /\ place[s] \notin {"none", "sent", "stopped"}
      BY <1>1, <3>2, AliveMoves, TwoRoles
    <3>3. QED
      BY <2>2, <3>1, <3>2
  <2>4. \A c \in Callers :
            \/ place'[c] = place[c]
            \/ place[c] = "asleep" /\ place'[c] = "woken"
    BY <2>2, TwoRoles DEF MovesTo
  <2>5. QED
    BY <1>2, <2>1, <2>3, <2>4, WriterStays
<1>4. ASSUME NEW c \in Callers, NEW to, MovesTo(c, to),
             to \in AtFile => place[c] \in AtFile, to # "send",
             UNCHANGED <<api_lock, entry, file, disturbed>>
      PROVE  WriterInv'
  <2>1. Alive' \subseteq Alive
    BY <1>1, <1>4, AliveMoves, TwoRoles
  <2>2. \A d \in Callers \ {c} :
            \/ place'[d] = place[d]
            \/ place[d] = "asleep" /\ place'[d] = "woken"
    BY <1>4, TwoRoles DEF MovesTo
  <2>3. place'[c] = to
    BY <1>4 DEF MovesTo
  <2>4. QED
    BY <1>2, <1>4, <2>1, <2>2, <2>3, WriterStays
<1>5. ASSUME NEW c \in Callers, Ask(c)
      PROVE  WriterInv'
  <2>1. MovesTo(c, "enter")
    BY <1>1, <1>5, AskMoves
  <2>2. UNCHANGED <<api_lock, entry, file, disturbed>>
    BY <1>5 DEF Ask, ghosts
  <2>3. QED
    BY <1>2, <1>4, <2>1, <2>2
<1>6. ASSUME NEW c \in Callers, Lock(c)
      PROVE  WriterInv'
  <2>1. PICK to \in {"in", "asleep"} :
            MovesTo(c, to) /\ place[c] \in {"lock", "woken"}
    BY <1>1, <1>6, LockMoves, TwoRoles
  <2>2. UNCHANGED <<api_lock, entry, file, disturbed>>
    BY <1>6, LockFrame
  <2>3. QED
    BY <1>2, <1>4, <2>1, <2>2
<1>7. ASSUME NEW c \in Callers, InitFile(c)
      PROVE  WriterInv'
  <2>1. /\ api_lock = Nobody /\ api_lock' = c /\ file' = 0 /\ entry' = 0
        /\ Disturb
    BY <1>7 DEF InitFile
  <2>2. MovesTo(c, IF ListLength = 0 THEN "send" ELSE "lock")
    BY <1>1, <1>7, InitFileMoves
  <2>3. \A d \in Callers \ {c} :
            \/ place'[d] = place[d]
            \/ place[d] = "asleep" /\ place'[d] = "woken"
    BY <2>2, TwoRoles DEF MovesTo
  <2>4. \A d \in Callers : place[d] \notin AtFile /\ place[d] # "send"
    BY <2>1, TwoRoles DEF WriterInv
  <2>5. \A d \in Callers \ {c} : place'[d] \notin AtFile /\ place'[d] # "send"
    BY <1>2, <2>3, <2>4
  <2>6. ListLength \in Nat
    BY ResourceFileAssumption
  <2>7. /\ place'[c] \in AtFile => entry' < ListLength
        /\ place'[c] = "send" => entry' = ListLength
    BY <1>2, <2>1, <2>2, <2>6 DEF MovesTo
  <2>8. Alive' \subseteq Alive
    BY <1>1, <2>2, AliveMoves, TwoRoles
  <2>9. Alive' \subseteq disturbed'
    BY <1>1, <2>1, <2>8, DisturbMore
  <2>10. QED
    BY <2>1, <2>5, <2>7, <2>9 DEF WriterInv
<1>8. ASSUME NEW c \in Callers, CreateEntry(c)
      PROVE  WriterInv'
  <2>1. /\ place[c] = "in"
        /\ MovesTo(c, IF entry + 1 < ListLength THEN "lock" ELSE "send")
    BY <1>1, <1>8, CreateEntryMoves
  <2>2. /\ file' = file + 1 /\ entry' = entry + 1
        /\ UNCHANGED <<api_lock, disturbed>>
    BY <1>8 DEF CreateEntry, ghosts
  <2>3. api_lock = c /\ entry < ListLength /\ c # Nobody
    BY <1>2, <2>1, TwoRoles DEF WriterInv
  <2>4. \A d \in Callers \ {c} : place'[d] \notin AtFile /\ place'[d] # "send"
    <3>1. \A d \in Callers \ {c} : place[d] \notin AtFile /\ place[d] # "send"
      BY <2>3 DEF WriterInv
    <3>2. \A d \in Callers \ {c} :
              \/ place'[d] = place[d]
              \/ place[d] = "asleep" /\ place'[d] = "woken"
      BY <2>1, TwoRoles DEF MovesTo
    <3>3. QED
      BY <1>2, <3>1, <3>2
  <2>5. entry \in Nat /\ ListLength \in Nat
    BY <1>1, ResourceFileAssumption DEF FileOK
  <2>6. /\ place'[c] \in AtFile => entry' < ListLength
        /\ place'[c] = "send" => entry' = ListLength
    BY <1>2, <2>1, <2>2, <2>3, <2>5 DEF MovesTo
  <2>7. Alive' \subseteq Alive
    BY <1>1, <2>1, AliveMoves, TwoRoles
  <2>8. file' = entry' /\ Alive' \subseteq disturbed'
    BY <2>2, <2>3, <2>7 DEF WriterInv
  <2>9. QED
    BY <2>2, <2>3, <2>4, <2>6, <2>8 DEF WriterInv
<1>9. ASSUME NEW c \in Callers, SendResourceFile(c)
      PROVE  WriterInv'
  <2>1. PICK s \in Senders :
            /\ place[c] = "send" /\ place'[c] = "idle" /\ place'[s] = "lock"
            /\ \A u \in Tasks \ {c, s} : place'[u] = place[u]
    BY <1>1, <1>9, SendResourceFileMoves
  <2>2. api_lock = c /\ api_lock' = Nobody
    BY <1>9, <2>1 DEF WriterInv, SendResourceFile
  <2>3. \A d \in Callers \ {c} : place[d] \notin AtFile /\ place[d] # "send"
    BY <2>2 DEF WriterInv
  <2>4. \A d \in Callers : place'[d] \notin AtFile /\ place'[d] # "send"
    BY <1>2, <2>1, <2>3, TwoRoles
  <2>5. QED
    BY <2>2, <2>4 DEF WriterInv
<1>10. CASE Others
  <2>1. UNCHANGED <<place, api_lock, entry, file>>
    BY <1>10, OthersMove
  <2>2. disturbed \subseteq disturbed'
    BY <1>10, <1>1, DisturbMore
       DEF Others, StartPut, PostStatus, Drop, Recover, Accept, CloseClient,
           ghosts
  <2>3. QED
    BY <2>1, <2>2, WriterStays DEF Alive
<1>11. QED
  BY <1>3, <1>5, <1>6, <1>7, <1>8, <1>9, <1>10, Zenon
     DEF ResNext, Request, Others
-----------------------------------------------------------------------------
\* The steps of a sender, by their names.
LEMMA SenderSteps ==
    ASSUME NEW s, Sender(s)
    PROVE  \/ Lock(s) \/ SendFileToUi(s) \/ NoClient(s) \/ SendFileToCloud(s)
           \/ EndOfFile(s) \/ PutAgain(s) \/ Initiate(s) \/ NotConnected(s)
           \/ ServiceBusy(s) \/ Select(s) \/ GetStatus(s) \/ Timeout(s)
BY DEF Sender

LEMMA FutexStep ==
    ASSUME PlaceOK, futex \in 0 .. 2, ResNext
    PROVE  futex' \in 0 .. 2
<1>1. ASSUME NEW t \in Tasks, Lock(t)
      PROVE  futex' \in 0 .. 2
  BY <1>1, LockMoves
<1>2. ASSUME NEW c \in Callers,
             \/ Ask(c) \/ InitFile(c) \/ CreateEntry(c) \/ SendResourceFile(c)
      PROVE  futex' \in 0 .. 2
  BY <1>2, CreateEntryMoves DEF Ask, InitFile, SendResourceFile
<1>3. ASSUME NEW s \in Senders, Sender(s), ~Lock(s)
      PROVE  futex' \in 0 .. 2
  <2>1. CASE NoClient(s) \/ EndOfFile(s) \/ ServiceBusy(s) \/ Timeout(s)
    BY <2>1, SenderMoves
  <2>2. CASE \/ SendFileToUi(s) \/ SendFileToCloud(s) \/ PutAgain(s)
             \/ Initiate(s) \/ NotConnected(s) \/ Select(s) \/ GetStatus(s)
    BY <2>2 DEF SendFileToUi, SendFileToCloud, PutAgain, Initiate,
                NotConnected, Select, GetStatus
  <2>3. QED
    BY <1>3, <2>1, <2>2, SenderSteps
<1>4. CASE Others
  BY <1>4, OthersMove
<1>5. QED
  BY <1>1, <1>2, <1>3, <1>4, TwoRoles, Zenon DEF ResNext, Request, Others

LEMMA FileStep ==
    ASSUME PlaceOK, FileOK, WriterInv, ResNext
    PROVE  FileOK'
<1>1. futex' \in 0 .. 2
  BY FutexStep DEF FileOK
<1>2. ListLength \in Nat /\ MaxRequests \in Nat
  BY ResourceFileAssumption
<1>3. ASSUME UNCHANGED <<api_lock, file, entry, whom, requested>>
      PROVE  FileOK'
  BY <1>1, <1>3 DEF FileOK
<1>4. ASSUME NEW t, Lock(t)
      PROVE  FileOK'
  BY <1>3, <1>4, LockFrame
<1>5. ASSUME NEW c \in Callers, Ask(c)
      PROVE  FileOK'
  BY <1>1, <1>2, <1>5 DEF Ask, FileOK
<1>6. ASSUME NEW c \in Callers, InitFile(c)
      PROVE  FileOK'
  BY <1>1, <1>2, <1>6 DEF InitFile, FileOK
<1>7. ASSUME NEW c \in Callers, CreateEntry(c)
      PROVE  FileOK'
  <2>1. entry < ListLength
    BY <1>7, CreateEntryMoves DEF WriterInv, AtFile
  <2>2. QED
    BY <1>1, <1>2, <1>7, <2>1 DEF CreateEntry, FileOK
<1>8. ASSUME NEW c \in Callers, SendResourceFile(c)
      PROVE  FileOK'
  BY <1>1, <1>2, <1>8 DEF SendResourceFile, FileOK
<1>9. ASSUME NEW s \in Senders, Sender(s)
      PROVE  FileOK'
  BY <1>3, <1>9, SenderFrame
<1>10. CASE Others
  BY <1>3, <1>10, OthersMove
<1>11. QED
  BY <1>4, <1>5, <1>6, <1>7, <1>8, <1>9, <1>10, Zenon
     DEF ResNext, Request, Others

\* A request reads nothing.
LEMMA RequestFrame ==
    ASSUME NEW c, Ask(c) \/ Request(c)
    PROVE  UNCHANGED <<piece, buffered, client_fd, clients, connected, drops,
                       slot, put_session, header, live, pipe, read_lock, zs,
                       timedOut>>
BY LockFrame
   DEF Request, Ask, InitFile, CreateEntry, SendResourceFile, reading, ui,
       connector, put, pipes, ghosts

LEMMA ReadingStep ==
    ASSUME ReadingOK, FileOK, ResNext
    PROVE  ReadingOK'
<1>1. CASE UNCHANGED <<piece, buffered>>
  BY <1>1 DEF ReadingOK
<1>2. ASSUME NEW s \in Senders, EndThread(s, "sent") \/ EndThread(s, "stopped")
      PROVE  ReadingOK'
  BY <1>2 DEF EndThread, ReadingOK
<1>3. ASSUME NEW s \in Senders, Fill(s)
      PROVE  buffered' \in [Senders -> Nat]
  BY <1>3 DEF Fill, ReadingOK, FileOK
<1>4. ASSUME NEW s \in Senders, NEW to, Deliver(s, to)
      PROVE  piece' \in [Senders -> Nat]
  BY <1>4 DEF Deliver, ReadingOK
<1>5. ASSUME NEW s \in Senders, Sender(s)
      PROVE  ReadingOK'
  <2>1. CASE NoClient(s) \/ EndOfFile(s) \/ ServiceBusy(s) \/ Timeout(s)
    BY <1>2, <2>1 DEF NoClient, EndOfFile, ServiceBusy, Timeout
  <2>2. CASE SendFileToUi(s)
    BY <1>3, <1>4, <2>2 DEF SendFileToUi, ReadingOK
  <2>3. CASE SendFileToCloud(s)
    BY <1>3, <2>3 DEF SendFileToCloud, ReadingOK
  <2>4. CASE GetStatus(s)
    BY <1>4, <2>4 DEF GetStatus, ReadingOK
  <2>5. CASE \/ Lock(s) \/ PutAgain(s) \/ Initiate(s) \/ NotConnected(s)
             \/ Select(s)
    BY <1>1, <2>5, LockFrame
       DEF PutAgain, Initiate, NotConnected, Select, reading
  <2>6. QED
    BY <1>5, <2>1, <2>2, <2>3, <2>4, <2>5, SenderSteps
<1>6. QED
  BY <1>1, <1>5, RequestFrame, OthersMove, Zenon DEF ResNext, Others

LEMMA ConnectionStep ==
    ASSUME PlaceOK, ConnectionOK, ResNext
    PROVE  ConnectionOK'
<1>1. CASE UNCHANGED <<clients, client_fd, connected, drops>>
  BY <1>1 DEF ConnectionOK
<1>2. ASSUME NEW s \in Senders, Sender(s)
      PROVE  ConnectionOK'
  BY <1>1, <1>2, SenderFrame
<1>3. MaxClients \in Nat /\ MaxDrops \in Nat
  BY ResourceFileAssumption
<1>4. CASE Others
  <2>1. CASE StartPut \/ PostStatus
    BY <1>1, <2>1 DEF StartPut, PostStatus, ui
  <2>2. CASE Drop
    <3>1. /\ drops < MaxDrops /\ connected' = FALSE /\ drops' = drops + 1
          /\ UNCHANGED <<clients, client_fd>>
      BY <2>2 DEF Drop, ui
    <3>2. drops' \in 0 .. MaxDrops
      BY <1>3, <3>1 DEF ConnectionOK
    <3>3. connected' \in BOOLEAN
      BY <3>1
    <3>4. QED
      BY <3>1, <3>2, <3>3 DEF ConnectionOK
  <2>3. CASE Recover
    BY <2>3 DEF Recover, ConnectionOK, ui
  <2>4. CASE Accept
    BY <1>3, <2>4 DEF Accept, ConnectionOK, connector
  <2>5. CASE CloseClient
    BY <1>3, <2>5 DEF CloseClient, ConnectionOK, connector
  <2>6. QED
    BY <1>4, <2>1, <2>2, <2>3, <2>4, <2>5 DEF Others
<1>5. QED
  BY <1>1, <1>2, <1>4, RequestFrame, Zenon DEF ResNext, Others

\* What a lost connection ends, by its sender.
Broken ==
    (IF put_session = Nobody THEN <<>> ELSE <<put_session>>)
        \o (IF slot THEN <<header>> ELSE <<>>)

LEMMA DropFrame ==
    ASSUME Drop
    PROVE  /\ pipe' = pipe \o Broken /\ live' = live \ ToSet(Broken)
           /\ put_session' = Nobody /\ slot' = FALSE
           /\ UNCHANGED <<place, header, read_lock, reinit, timedOut, zs>>
BY DEF Drop, Broken

LEMMA OverOK ==
    ASSUME PutOK, HeaderInv
    PROVE  Broken \in Seq(Senders)
<1>1. (IF put_session = Nobody THEN <<>> ELSE <<put_session>>) \in Seq(Senders)
  BY DEF PutOK
<1>2. (IF slot THEN <<header>> ELSE <<>>) \in Seq(Senders)
  BY DEF PutOK, HeaderInv
<1>3. QED
  BY <1>1, <1>2 DEF Broken

LEMMA PutStep ==
    ASSUME PlaceOK, PutOK, HeaderInv, ResNext
    PROVE  PutOK'
<1>1. CASE UNCHANGED <<header, slot, put_session, pipe, read_lock, live>>
  BY <1>1 DEF PutOK
<1>2. ASSUME NEW s \in Senders, Sender(s)
      PROVE  PutOK'
  <2>1. CASE Lock(s) \/ SendFileToUi(s) \/ NoClient(s) \/ EndOfFile(s)
    BY <1>1, <2>1, LockFrame
       DEF SendFileToUi, NoClient, EndOfFile, connector, put, pipes
  <2>2. CASE SendFileToCloud(s) \/ PutAgain(s)
    BY <2>2 DEF SendFileToCloud, PutAgain, NewPut, PutOK, connector, pipes
  <2>3. CASE Initiate(s) \/ NotConnected(s) \/ ServiceBusy(s)
    BY <2>3 DEF Initiate, NotConnected, ServiceBusy, PutOK, connector, put,
                pipes
  <2>4. CASE Select(s) \/ Timeout(s)
    BY <2>4 DEF Select, Timeout, PutOK, connector, put
  <2>5. CASE GetStatus(s)
    BY <2>5 DEF GetStatus, PutOK, connector, put
  <2>6. QED
    BY <1>2, <2>1, <2>2, <2>3, <2>4, <2>5, SenderSteps
<1>3. CASE StartPut
  BY <1>3 DEF StartPut, PutOK, put, pipes
<1>7. CASE PostStatus
  <2>1. put_session \in Senders /\ pipe \in Seq(Senders)
    BY <1>7 DEF PostStatus, PutOK
  <2>2. pipe' \in Seq(Senders)
    BY <1>7, <2>1 DEF PostStatus
  <2>3. live' \subseteq Senders /\ put_session' = Nobody
        /\ UNCHANGED <<header, slot, read_lock>>
    BY <1>7 DEF PostStatus, PutOK
  <2>4. QED
    BY <2>2, <2>3 DEF PutOK
<1>4. CASE Drop
  <2>1. Broken \in Seq(Senders) /\ pipe \in Seq(Senders)
    BY OverOK DEF PutOK
  <2>2. pipe' = pipe \o Broken /\ live' = live \ ToSet(Broken)
    BY <1>4, DropFrame
  <2>3. pipe' \in Seq(Senders)
    BY <2>1, <2>2
  <2>4. live' \subseteq Senders
    BY <2>2 DEF PutOK
  <2>5. QED
    BY <1>4, <2>3, <2>4, DropFrame DEF PutOK
<1>5. CASE Recover \/ Accept \/ CloseClient
  BY <1>1, <1>5 DEF Recover, Accept, CloseClient, connector, put, pipes
<1>6. QED
  BY <1>1, <1>2, <1>3, <1>4, <1>5, <1>7, RequestFrame, Zenon DEF ResNext

LEMMA GhostStep ==
    ASSUME PlaceOK, GhostOK, ReadingOK, ResNext
    PROVE  GhostOK'
<1>1. ASSUME UNCHANGED <<zs, asked, out, disturbed>>,
             reinit' \in BOOLEAN, timedOut' \in BOOLEAN
      PROVE  GhostOK'
  BY <1>1 DEF GhostOK
<1>2. reinit \in BOOLEAN /\ timedOut \in BOOLEAN
  BY DEF GhostOK
<1>3. ASSUME Disturb, UNCHANGED zs, reinit' \in BOOLEAN, UNCHANGED timedOut
      PROVE  GhostOK'
  BY <1>2, <1>3, DisturbMore, Zenon DEF GhostOK
<1>4. ASSUME NEW t, Lock(t)
      PROVE  GhostOK'
  BY <1>1, <1>2, <1>4, LockFrame
<1>5. ASSUME NEW c \in Callers, Ask(c) \/ CreateEntry(c)
      PROVE  GhostOK'
  BY <1>1, <1>2, <1>5 DEF Ask, CreateEntry, ghosts
<1>6. ASSUME NEW c \in Callers, InitFile(c)
      PROVE  GhostOK'
  BY <1>2, <1>3, <1>6 DEF InitFile
<1>7. ASSUME NEW c \in Callers, SendResourceFile(c)
      PROVE  GhostOK'
  <2>1. PICK s \in Senders : asked' = [asked EXCEPT ![s] = c]
    BY <1>7, SendResourceFileMoves
  <2>2. UNCHANGED <<zs, out, disturbed, reinit, timedOut>>
    BY <1>7 DEF SendResourceFile, ghosts
  <2>3. QED
    BY <2>1, <2>2 DEF GhostOK
<1>8. ASSUME NEW s \in Senders, NEW to \in Callers, Deliver(s, to),
             UNCHANGED <<zs, asked, disturbed, reinit, timedOut>>
      PROVE  GhostOK'
  <2>1. out' \in [Senders -> Seq(Callers)]
    BY <1>8 DEF Deliver, GhostOK
  <2>2. QED
    BY <1>8, <2>1 DEF GhostOK
<1>9. ASSUME NEW s \in Senders, Sender(s)
      PROVE  GhostOK'
  <2>1. Ui \in Callers /\ Cloud \in Callers
    BY DEF Callers
  <2>2. CASE SendFileToUi(s) \/ GetStatus(s)
    BY <1>8, <2>1, <2>2 DEF SendFileToUi, GetStatus, ghosts, request
  <2>3. CASE Timeout(s)
    BY <1>1, <1>2, <2>3 DEF Timeout, request
  <2>4. CASE \/ NoClient(s) \/ SendFileToCloud(s) \/ EndOfFile(s)
             \/ PutAgain(s) \/ Initiate(s) \/ NotConnected(s)
             \/ ServiceBusy(s) \/ Select(s)
    BY <1>1, <1>2, <2>4
       DEF NoClient, SendFileToCloud, EndOfFile, PutAgain, Initiate,
           NotConnected, ServiceBusy, Select, ghosts, request
  <2>5. QED
    BY <1>4, <1>9, <2>2, <2>3, <2>4, SenderSteps
<1>10. CASE StartPut \/ PostStatus \/ Recover \/ Accept
  BY <1>1, <1>2, <1>10
     DEF StartPut, PostStatus, Recover, Accept, ghosts, request
<1>11. CASE Drop \/ CloseClient
  BY <1>2, <1>3, <1>11 DEF Drop, CloseClient
<1>12. QED
  BY <1>4, <1>5, <1>6, <1>7, <1>9, <1>10, <1>11, Zenon DEF ResNext, Request
-----------------------------------------------------------------------------
\* With one sender inside, one put is on its way.
LEMMA OnePut ==
    ASSUME HolderInv, ~reinit, NEW s \in Senders, place[s] \in Inside
    PROVE  \A r \in Senders \ {s} : place[r] \notin Inside /\ ~Waits(r)
BY TwoRoles DEF HolderInv, Waits, Inside

LEMMA HeaderKept ==
    ASSUME PlaceOK, HeaderInv, ResNext
    PROVE  HeaderInv'
<1>1. ASSUME UNCHANGED header, slot' = TRUE => slot = TRUE,
             \A s \in Senders : place'[s] = "initiate" => place[s] = "initiate"
      PROVE  HeaderInv'
  BY <1>1 DEF HeaderInv
<1>2. ASSUME NEW t, NEW to \in TaskPlaces \ {"initiate"}, MovesTo(t, to),
             UNCHANGED header, slot' = TRUE => slot = TRUE
      PROVE  HeaderInv'
  <2>1. \A s \in Senders : place'[s] = "initiate" => place[s] = "initiate"
    BY <1>2, TwoRoles DEF MovesTo
  <2>2. QED
    BY <1>1, <1>2, <2>1
<1>3. ASSUME NEW t \in Tasks, Lock(t)
      PROVE  HeaderInv'
  BY <1>2, <1>3, LockMoves, LockFrame, PlaceNames
<1>4. ASSUME NEW c \in Callers, Ask(c) \/ Request(c), ~Lock(c)
      PROVE  HeaderInv'
  <2>1. UNCHANGED <<header, slot>>
    BY <1>4, RequestFrame
  <2>2. \A s \in Senders : place'[s] = "initiate" => place[s] = "initiate"
    <3>1. ASSUME NEW to \in {"enter", "lock", "send"}, MovesTo(c, to)
          PROVE  \A s \in Senders :
                     place'[s] = "initiate" => place[s] = "initiate"
      BY <3>1, TwoRoles DEF MovesTo
    <3>2. CASE Ask(c) \/ InitFile(c) \/ CreateEntry(c)
      <4>1. PICK to \in {"enter", "lock", "send"} : MovesTo(c, to)
        BY <3>2, AskMoves, InitFileMoves, CreateEntryMoves
      <4>2. QED
        BY <3>1, <4>1
    <3>3. CASE SendResourceFile(c)
      BY <3>3, SendResourceFileMoves, TwoRoles
    <3>4. QED
      BY <1>4, <3>2, <3>3 DEF Request
  <2>3. QED
    BY <1>1, <2>1, <2>2
<1>5. ASSUME NEW s \in Senders, Sender(s)
      PROVE  HeaderInv'
  <2>1. CASE SendFileToCloud(s) \/ PutAgain(s)
    BY <2>1, TwoRoles DEF SendFileToCloud, PutAgain, NewPut, HeaderInv
  <2>2. CASE Initiate(s)
    <3>1. place[s] = "initiate" /\ UNCHANGED header
      BY <2>2, SenderMoves DEF Initiate, put
    <3>2. QED
      BY <3>1 DEF HeaderInv
  <2>3. CASE \/ NoClient(s) \/ EndOfFile(s) \/ NotConnected(s)
             \/ ServiceBusy(s) \/ Select(s) \/ GetStatus(s) \/ Timeout(s)
    <3>1. UNCHANGED <<header, slot>>
      BY <2>3 DEF NoClient, EndOfFile, NotConnected, ServiceBusy, Select,
         GetStatus, Timeout, connector, put
    <3>2. PICK to \in {"stopped", "sent", "sleep", "select", "in"} :
              MovesTo(s, to)
      BY <2>3, SenderMoves
    <3>3. QED
      BY <1>2, <3>1, <3>2, PlaceNames
  <2>4. CASE SendFileToUi(s)
    BY <1>1, <2>4 DEF SendFileToUi, connector, put
  <2>5. QED
    BY <1>3, <1>5, <2>1, <2>2, <2>3, <2>4, SenderSteps, TwoRoles
<1>6. CASE Others
  <2>1. UNCHANGED <<place, header>>
    BY <1>6, OthersMove
  <2>2. slot' = TRUE => slot = TRUE
    BY <1>6, DropFrame
       DEF Others, StartPut, PostStatus, Recover, Accept, CloseClient, connector
  <2>3. QED
    BY <1>1, <2>1, <2>2
<1>7. QED
  <2>1. \A c \in Callers : Lock(c) => HeaderInv'
    BY <1>3, TwoRoles
  <2>2. QED
    BY <1>4, <1>5, <1>6, <2>1, Zenon DEF ResNext, Others

\* What PutInv says of a put, when no other request and no timeout came.
PutSafe ==
    /\ \A s \in Senders :
           /\ place[s] = "initiate" => header = s /\ s \in live
           /\ Waits(s) => PutAt(s)
    /\ (\A s \in Senders : ~Waits(s)) =>
           slot = FALSE /\ put_session = Nobody /\ pipe = <<>>

LEMMA PutStays ==
    ASSUME PutInv, ~reinit' => ~reinit,
           UNCHANGED <<header, slot, put_session, pipe, live, timedOut>>,
           \A s \in Senders :
               /\ place'[s] = "initiate" => place[s] = "initiate"
               /\ Waits(s)' <=> Waits(s)
    PROVE  PutInv'
<1> SUFFICES ASSUME ~reinit', ~timedOut'
             PROVE  PutSafe'
  BY DEF PutInv, PutSafe
<1>1. PutSafe
  BY DEF PutInv, PutSafe
<1>2. \A s \in Senders : PutAt(s)' <=> PutAt(s)
  BY DEF PutAt
<1>3. QED
  BY <1>1, <1>2, Zenon DEF PutSafe

\* The only sender inside is not at a put: nothing is under way.
LEMMA NothingUnderWay ==
    ASSUME HolderInv, PutSafe, ~reinit, NEW s \in Senders,
           place[s] \in {"in", "sleep", "initiate"}
    PROVE  slot = FALSE /\ put_session = Nobody /\ pipe = <<>>
<1>1. place[s] \in Inside /\ ~Waits(s)
  BY DEF Inside, Waits
<1>2. \A r \in Senders : ~Waits(r)
  BY <1>1, OnePut
<1>3. QED
  BY <1>2, Zenon DEF PutSafe

\* A sender inside moves, and no other is inside.
LEMMA PutOfOne ==
    ASSUME HolderInv, ~reinit, NEW s \in Senders, NEW to, MovesTo(s, to),
           place[s] \in Inside
    PROVE  \A r \in Senders \ {s} : ~Waits(r)' /\ place'[r] # "initiate"
<1>1. \A r \in Senders \ {s} : place[r] \notin Inside
  BY OnePut
<1>2. QED
  BY <1>1, TwoRoles DEF MovesTo, Waits, Inside

LEMMA WaitsMoves ==
    ASSUME NEW t, NEW to, MovesTo(t, to), t \in Tasks,
           t \in Senders => to \notin {"initiate", "wait", "select"}
                            /\ place[t] \notin {"wait", "select"}
    PROVE  \A s \in Senders :
               /\ place'[s] = "initiate" => place[s] = "initiate"
               /\ Waits(s)' <=> Waits(s)
BY TwoRoles DEF MovesTo, Waits
-----------------------------------------------------------------------------
LEMMA PutAtRequest ==
    ASSUME PlaceOK, PutInv, NEW c \in Callers, Ask(c) \/ Request(c)
    PROVE  PutInv'
<1>1. UNCHANGED <<header, slot, put_session, pipe, live, timedOut>>
  BY RequestFrame
<1>2. ~reinit' => ~reinit
  <2>1. CASE Lock(c)
    BY <2>1, LockFrame
  <2>2. CASE Ask(c) \/ CreateEntry(c) \/ SendResourceFile(c)
    BY <2>2 DEF Ask, CreateEntry, SendResourceFile, ghosts
  <2>3. CASE InitFile(c)
    BY <2>3, Zenon DEF InitFile
  <2>4. QED
    BY <2>1, <2>2, <2>3 DEF Request
<1>3. CASE SendResourceFile(c)
  <2>1. PICK s \in Senders :
            /\ place[c] = "send" /\ place[s] = "none"
            /\ place'[c] = "idle" /\ place'[s] = "lock"
            /\ \A u \in Tasks \ {c, s} : place'[u] = place[u]
    BY <1>3, SendResourceFileMoves
  <2>2. \A r \in Senders :
            /\ place'[r] = "initiate" => place[r] = "initiate"
            /\ Waits(r)' <=> Waits(r)
    BY <2>1, TwoRoles DEF Waits
  <2>3. QED
    BY <1>1, <1>2, <2>2, PutStays
<1>4. CASE Ask(c) \/ Lock(c) \/ InitFile(c) \/ CreateEntry(c)
  <2>1. \E to : MovesTo(c, to)
    BY <1>4, AskMoves, LockMoves, InitFileMoves, CreateEntryMoves, TwoRoles
  <2>2. \A r \in Senders :
            /\ place'[r] = "initiate" => place[r] = "initiate"
            /\ Waits(r)' <=> Waits(r)
    BY <2>1, WaitsMoves, TwoRoles
  <2>3. QED
    BY <1>1, <1>2, <2>2, PutStays
<1>5. QED
  BY <1>3, <1>4 DEF Request

\* The steps of a sender that leave a put alone.
LEMMA PutPassed ==
    ASSUME PlaceOK, PutInv, NEW s \in Senders,
           Lock(s) \/ SendFileToUi(s) \/ NoClient(s) \/ EndOfFile(s)
    PROVE  PutInv'
<1>1. UNCHANGED <<header, slot, put_session, pipe, live, timedOut, reinit>>
  BY LockFrame
     DEF SendFileToUi, NoClient, EndOfFile, connector, put, pipes, ghosts
<1>2. \A r \in Senders :
          /\ place'[r] = "initiate" => place[r] = "initiate"
          /\ Waits(r)' <=> Waits(r)
  <2>1. CASE SendFileToUi(s)
    BY <2>1 DEF SendFileToUi, Waits
  <2>2. CASE Lock(s) \/ NoClient(s) \/ EndOfFile(s)
    <3>1. PICK to \in {"in", "asleep", "sent", "stopped"} :
              MovesTo(s, to) /\ place[s] \in {"lock", "woken", "in"}
      BY <2>2, LockMoves, SenderMoves, TwoRoles
    <3>2. QED
      BY <3>1, WaitsMoves, TwoRoles
  <2>3. QED
    BY <2>1, <2>2
<1>3. QED
  BY <1>1, <1>2, PutStays

\* And those that start one, go on with it or end it.
LEMMA PutMoved ==
    ASSUME PlaceOK, PutOK, HolderInv, PutInv, NEW s \in Senders,
           \/ SendFileToCloud(s) \/ PutAgain(s) \/ Initiate(s)
           \/ NotConnected(s) \/ ServiceBusy(s) \/ Select(s) \/ GetStatus(s)
           \/ Timeout(s)
    PROVE  PutInv'
<1>1. reinit' = reinit
  BY DEF SendFileToCloud, PutAgain, Initiate, NotConnected, ServiceBusy,
         Select, GetStatus, Timeout, ghosts
<1>2. timedOut' = timedOut \/ timedOut' = TRUE
  BY DEF SendFileToCloud, PutAgain, Initiate, NotConnected, ServiceBusy,
         Select, GetStatus, Timeout, ghosts
<1> SUFFICES ASSUME ~reinit', ~timedOut'
             PROVE  PutSafe'
  BY DEF PutInv, PutSafe
<1>3. PutSafe /\ ~reinit /\ ~timedOut
  BY <1>1, <1>2 DEF PutInv, PutSafe
<1>4. PICK to \in {"initiate", "wait", "sleep", "stopped", "select", "in"} :
          MovesTo(s, to)
  BY SenderMoves
<1>5. place[s] \in Inside /\ place'[s] = to
  BY <1>4, SenderMoves DEF Inside, MovesTo
<1>6. \A r \in Senders \ {s} : ~Waits(r)' /\ place'[r] # "initiate"
  BY <1>3, <1>4, <1>5, PutOfOne
<1>7. \A r \in Senders \ {s} : ~Waits(r)
  BY <1>3, <1>5, OnePut
<1>8. CASE SendFileToCloud(s) \/ PutAgain(s)
  <2>1. slot = FALSE /\ put_session = Nobody /\ pipe = <<>>
    BY <1>3, <1>8, SenderMoves, NothingUnderWay
  <2>2. /\ place'[s] = "initiate" /\ header' = s /\ s \in live'
        /\ UNCHANGED <<slot, put_session, pipe>>
    BY <1>8, SenderMoves
       DEF SendFileToCloud, PutAgain, NewPut, connector, pipes, MovesTo
  <2>3. ~Waits(s)'
    BY <2>2 DEF Waits
  <2>4. QED
    BY <1>6, <2>1, <2>2, <2>3 DEF PutSafe
<1>9. CASE Initiate(s)
  <2>1. slot = FALSE /\ put_session = Nobody /\ pipe = <<>>
    BY <1>3, <1>9, SenderMoves, NothingUnderWay
  <2>2. header = s /\ s \in live
    BY <1>3, <1>9, SenderMoves DEF PutSafe
  <2>3. /\ place'[s] = "wait" /\ slot' = TRUE
        /\ UNCHANGED <<header, live, put_session, pipe>>
    BY <1>9, SenderMoves DEF Initiate, put, pipes, MovesTo
  <2>4. PutAt(s)' /\ Waits(s)'
    BY <2>1, <2>2, <2>3 DEF PutAt, Waits
  <2>5. QED
    BY <1>6, <2>3, <2>4 DEF PutSafe
<1>10. CASE NotConnected(s) \/ ServiceBusy(s)
  <2>1. slot = FALSE /\ put_session = Nobody /\ pipe = <<>>
    BY <1>3, <1>10, SenderMoves, NothingUnderWay
  <2>2. place'[s] = "sleep" /\ UNCHANGED <<slot, put_session, pipe>>
    BY <1>10, <2>1, SenderMoves
       DEF NotConnected, ServiceBusy, connector, pipes, MovesTo
  <2>3. ~Waits(s)'
    BY <2>2 DEF Waits
  <2>4. QED
    BY <1>6, <2>1, <2>2, <2>3 DEF PutSafe
<1>11. CASE Select(s)
  <2>1. PutAt(s)
    BY <1>3, <1>11, SenderMoves DEF PutSafe, Waits
  <2>2. place'[s] = "select"
        /\ UNCHANGED <<header, slot, put_session, pipe, live>>
    BY <1>11, SenderMoves DEF Select, put, connector, MovesTo
  <2>3. PutAt(s)' /\ Waits(s)'
    BY <2>1, <2>2 DEF PutAt, Waits
  <2>4. QED
    BY <1>6, <2>2, <2>3 DEF PutSafe
<1>12. CASE GetStatus(s)
  <2>1. PutAt(s) /\ pipe # <<>>
    BY <1>3, <1>12, SenderMoves DEF PutSafe, Waits, GetStatus
  <2>2. slot = FALSE /\ put_session = Nobody /\ pipe = <<s>>
    BY <2>1 DEF PutAt
  <2>3. /\ place'[s] = "in" /\ pipe' = Tail(pipe)
        /\ UNCHANGED <<slot, put_session>>
    BY <1>12, SenderMoves DEF GetStatus, connector, MovesTo
  <2>4. pipe' = <<>>
    BY <2>2, <2>3
  <2>5. ~Waits(s)'
    BY <2>3 DEF Waits
  <2>6. QED
    BY <1>6, <2>2, <2>3, <2>4, <2>5 DEF PutSafe
<1>13. CASE Timeout(s)
  BY <1>13 DEF Timeout
<1>14. QED
  BY <1>8, <1>9, <1>10, <1>11, <1>12, <1>13

\* The session of a put, its end, and the loss of the connection.
LEMMA PutServed ==
    ASSUME PlaceOK, PutOK, HolderInv, PutInv, Others
    PROVE  PutInv'
<1>1. UNCHANGED <<place, header, reinit, timedOut>>
  BY OthersMove
<1> SUFFICES ASSUME ~reinit', ~timedOut'
             PROVE  PutSafe'
  BY DEF PutInv, PutSafe
<1>2. PutSafe /\ ~reinit /\ ~timedOut
  BY <1>1 DEF PutInv, PutSafe
<1>3. \A s \in Senders : Waits(s)' <=> Waits(s)
  BY <1>1 DEF Waits
<1>4. CASE Recover \/ Accept \/ CloseClient
  <2>1. UNCHANGED <<slot, put_session, pipe, live>>
    BY <1>4 DEF Recover, Accept, CloseClient, connector, put, pipes
  <2>2. \A s \in Senders : PutAt(s)' <=> PutAt(s)
    BY <1>1, <2>1 DEF PutAt
  <2>3. QED
    BY <1>1, <1>2, <1>3, <2>1, <2>2, Zenon DEF PutSafe
<1>5. CASE (\A s \in Senders : ~Waits(s)) /\ Drop
  <2>1. slot = FALSE /\ put_session = Nobody /\ pipe = <<>>
    BY <1>2, <1>5, Zenon DEF PutSafe
  <2>2. Broken = <<>>
    BY <2>1 DEF Broken
  <2>3. pipe' = <<>> /\ live' = live /\ put_session' = Nobody /\ slot' = FALSE
    <3>1. ToSet(<<>>) = {}
      BY DEF ToSet
    <3>2. pipe' = <<>> \o <<>> /\ live' = live \ {}
      BY <1>5, <2>1, <2>2, <3>1, DropFrame
    <3>3. QED
      BY <1>5, <3>2, DropFrame
  <2>4. QED
    BY <1>1, <1>2, <1>3, <1>5, <2>3, Zenon DEF PutSafe
<1>6. ASSUME NEW s \in Senders, Waits(s), StartPut \/ PostStatus \/ Drop
      PROVE  PutSafe'
  <2>1. place[s] \in Inside
    BY <1>6 DEF Waits, Inside
  <2>2. \A r \in Senders \ {s} : ~Waits(r) /\ place[r] # "initiate"
    BY <1>2, <2>1, OnePut DEF Inside
  <2>3. \A r \in Senders : place'[r] # "initiate"
    BY <1>1, <1>6, <2>2 DEF Waits
  <2>4. SUFFICES PutAt(s)'
    BY <1>3, <1>6, <2>2, <2>3 DEF PutSafe
  <2>5. PutAt(s)
    BY <1>2, <1>6 DEF PutSafe
  <2>6. s # Nobody
    BY TwoRoles
  <2>7. CASE StartPut
    <3>1. /\ put_session = Nobody /\ slot /\ put_session' = header
          /\ slot' = FALSE /\ UNCHANGED <<pipe, live>>
      BY <2>7 DEF StartPut, put, pipes
    <3>2. QED
      BY <2>5, <3>1 DEF PutAt
  <2>8. CASE PostStatus
    <3>1. /\ put_session # Nobody /\ pipe' = Append(pipe, put_session)
          /\ put_session' = Nobody /\ slot' = slot
      BY <2>8 DEF PostStatus
    <3>2. slot = FALSE /\ put_session = s /\ pipe = <<>>
      BY <2>5, <2>6, <3>1 DEF PutAt
    <3>3. pipe' = <<s>>
      BY <3>1, <3>2
    <3>4. QED
      BY <3>1, <3>2, <3>3 DEF PutAt
  <2>9. CASE Drop
    <3>1. pipe' = pipe \o Broken /\ put_session' = Nobody /\ slot' = FALSE
      BY <2>9, DropFrame
    <3>2. CASE slot = TRUE /\ header = s /\ put_session = Nobody /\ pipe = <<>>
      BY <3>1, <3>2 DEF Broken, PutAt
    <3>3. CASE slot = FALSE /\ put_session = s /\ pipe = <<>>
      BY <2>6, <3>1, <3>3 DEF Broken, PutAt
    <3>4. CASE slot = FALSE /\ put_session = Nobody /\ pipe = <<s>>
      BY <3>1, <3>4 DEF Broken, PutAt
    <3>5. QED
      BY <2>5, <3>2, <3>3, <3>4 DEF PutAt
  <2>10. QED
    BY <1>6, <2>7, <2>8, <2>9
<1>7. CASE (\A s \in Senders : ~Waits(s)) /\ (StartPut \/ PostStatus)
  <2>1. slot = FALSE /\ put_session = Nobody
    BY <1>2, <1>7, Zenon DEF PutSafe
  <2>2. QED
    BY <1>7, <2>1 DEF StartPut, PostStatus
<1>8. QED
  BY <1>4, <1>5, <1>6, <1>7, Zenon DEF Others

LEMMA PutKept ==
    ASSUME PlaceOK, PutOK, HolderInv, PutInv, ResNext
    PROVE  PutInv'
<1>1. ASSUME NEW s \in Senders, Sender(s)
      PROVE  PutInv'
  BY <1>1, PutPassed, PutMoved, SenderSteps
<1>2. QED
  BY <1>1, PutAtRequest, PutServed, Zenon DEF ResNext, Others
-----------------------------------------------------------------------------
\* SentInv, of one sender.
SentOf(s) ==
    /\ place[s] = "none" => out[s] = <<>> /\ piece[s] = 0 /\ buffered[s] = 0
    /\ s \in Alive \ disturbed => OnItsWay(s)
    /\ place[s] = "sent" /\ s \notin disturbed =>
           Copies(out[s], ListLength + 1, asked[s])

LEMMA SentOfAll == SentInv <=> \A s \in Senders : SentOf(s)
BY Zenon DEF SentInv, SentOf

LEMMA SentOfAllNext == SentInv' <=> \A s \in Senders : SentOf(s)'
BY Zenon DEF SentInv, SentOf

\* What a sender has sent stays true when others move.
LEMMA SentStays ==
    ASSUME NEW s \in Senders, SentOf(s),
           UNCHANGED <<out[s], piece[s], buffered[s], asked[s], file, whom>>,
           disturbed \subseteq disturbed',
           \/ place'[s] = place[s]
           \/ place[s] \in {"asleep", "lock", "woken"}
              /\ place'[s] \in {"woken", "asleep", "in"}
           \/ place'[s] = "stopped"
    PROVE  SentOf(s)'
<1>1. place'[s] = "none" => place[s] = "none"
  OBVIOUS
<1>2. s \in Alive' \ disturbed' => s \in Alive \ disturbed
  BY DEF Alive
<1>3. place'[s] = "sent" => place[s] = "sent"
  OBVIOUS
<1>4. ASSUME s \in Alive \ disturbed, s \in Alive', OnItsWay(s)
      PROVE  OnItsWay(s)'
  <2>1. place'[s] \in Inside \ {"in"} => place[s] \in Inside \ {"in"}
    BY <1>4 DEF Inside, Alive
  <2>2. QED
    BY <1>4, <2>1 DEF OnItsWay, Copies
<1>5. ASSUME Copies(out[s], ListLength + 1, asked[s])
      PROVE  Copies(out[s], ListLength + 1, asked[s])'
  BY <1>5 DEF Copies
<1>6. QED
  BY <1>1, <1>2, <1>3, <1>4, <1>5 DEF SentOf

\* A sender that something came in between is of no more interest.
LEMMA SentDisturbed ==
    ASSUME SentInv, GhostOK, UNCHANGED <<piece, buffered>>,
           Disturb, Alive' \subseteq Alive,
           \A s \in Senders : place'[s] \in {"none", "sent"}
                                  => place'[s] = place[s]
    PROVE  SentInv'
<1> SUFFICES ASSUME NEW s \in Senders
             PROVE  SentOf(s)'
  BY SentOfAllNext
<1>1. SentOf(s)
  BY SentOfAll
<1>2. disturbed' = disturbed \cup Alive
  BY DisturbMore
<1>3. out'[s] = out[s] \/ out'[s] = <<>>
  BY DisturbMore
<1>4. s \notin disturbed' => asked'[s] = asked[s] /\ out'[s] = out[s]
  BY DisturbMore
<1>5. s \notin Alive' \ disturbed'
  BY <1>2
<1>6. place'[s] = "none" =>
          out'[s] = <<>> /\ piece'[s] = 0 /\ buffered'[s] = 0
  BY <1>1, <1>3 DEF SentOf
<1>7. place'[s] = "sent" /\ s \notin disturbed' =>
          Copies(out[s], ListLength + 1, asked[s])'
  BY <1>1, <1>2, <1>4 DEF SentOf, Copies
<1>8. QED
  BY <1>5, <1>6, <1>7 DEF SentOf

LEMMA SentAtRequest ==
    ASSUME ResTypeOK, WriterInv, WriterInv', SentInv, NEW c \in Callers,
           Ask(c) \/ Request(c)
    PROVE  SentInv'
<1>1. PlaceOK /\ GhostOK /\ ReadingOK
  BY ResTypes
<1>2. UNCHANGED <<piece, buffered>>
  BY RequestFrame
<1>3. ASSUME NEW to, MovesTo(c, to)
      PROVE  \A s \in Senders :
                 \/ place'[s] = place[s]
                 \/ place[s] = "asleep" /\ place'[s] = "woken"
  BY <1>3, TwoRoles DEF MovesTo
<1>4. CASE Ask(c) \/ Lock(c)
  <2>1. UNCHANGED <<out, asked, file, whom, disturbed>>
    BY <1>4, LockFrame DEF Ask, ghosts
  <2>2. PICK to : MovesTo(c, to)
    BY <1>1, <1>4, AskMoves, LockMoves, TwoRoles
  <2>3. ASSUME NEW s \in Senders
        PROVE  SentOf(s)'
    <3>1. SentOf(s)
      BY SentOfAll
    <3>2. \/ place'[s] = place[s]
          \/ place[s] = "asleep" /\ place'[s] = "woken"
      BY <1>3, <2>2
    <3>3. QED
      BY <1>2, <2>1, <3>1, <3>2, SentStays
  <2>4. QED
    BY <2>3, SentOfAllNext
<1>5. CASE InitFile(c)
  <2>1. Disturb /\ MovesTo(c, IF ListLength = 0 THEN "send" ELSE "lock")
    BY <1>1, <1>5, InitFileMoves DEF InitFile
  <2>2. Alive' \subseteq Alive
    BY <1>1, <2>1, AliveMoves, TwoRoles
  <2>3. \A s \in Senders :
            place'[s] \in {"none", "sent"} => place'[s] = place[s]
    BY <1>3, <2>1
  <2>4. QED
    BY <1>1, <1>2, <2>1, <2>2, <2>3, SentDisturbed
<1>6. CASE CreateEntry(c)
  <2>1. MovesTo(c, IF entry + 1 < ListLength THEN "lock" ELSE "send")
        /\ place[c] = "in"
    BY <1>1, <1>6, CreateEntryMoves
  <2>2. UNCHANGED <<out, asked, disturbed, api_lock>>
    BY <1>6 DEF CreateEntry, ghosts
  <2>3. api_lock' # Nobody
    BY <2>1, <2>2, TwoRoles DEF WriterInv, AtFile
  <2>4. Alive' \subseteq disturbed'
    BY <2>3 DEF WriterInv
  <2>5. ASSUME NEW s \in Senders
        PROVE  SentOf(s)'
    <3>1. SentOf(s)
      BY SentOfAll
    <3>2. place'[s] \in {"none", "sent"} => place'[s] = place[s]
      BY <1>3, <2>1
    <3>3. QED
      BY <1>2, <2>2, <2>4, <3>1, <3>2 DEF SentOf, Copies
  <2>6. QED
    BY <2>5, SentOfAllNext
<1>7. CASE SendResourceFile(c)
  <2>1. PICK s \in Senders :
            /\ place[c] = "send" /\ place[s] = "none"
            /\ place'[c] = "idle" /\ place'[s] = "lock"
            /\ \A u \in Tasks \ {c, s} : place'[u] = place[u]
            /\ asked' = [asked EXCEPT ![s] = c]
    BY <1>1, <1>7, SendResourceFileMoves
  <2>2. whom' = c /\ UNCHANGED <<out, file, disturbed>>
    BY <1>7 DEF SendResourceFile, ghosts
  <2>3. file = ListLength /\ Alive \subseteq disturbed
    BY <2>1, TwoRoles DEF WriterInv
  <2>4. SentOf(s)'
    <3>1. out[s] = <<>> /\ piece[s] = 0 /\ buffered[s] = 0
      BY <2>1 DEF SentInv
    <3>2. asked'[s] = c
      BY <1>1, <2>1 DEF GhostOK
    <3>3. "lock" \notin Inside /\ ListLength \in Nat
      BY ResourceFileAssumption DEF Inside
    <3>4. Copies(out[s], piece[s], asked[s])'
      BY <1>2, <2>2, <3>1 DEF Copies
    <3>5. OnItsWay(s)'
      BY <1>2, <2>1, <2>2, <2>3, <3>1, <3>2, <3>3, <3>4 DEF OnItsWay
    <3>6. QED
      BY <2>1, <3>5 DEF SentOf
  <2>5. ASSUME NEW r \in Senders \ {s}
        PROVE  SentOf(r)'
    <3>1. SentOf(r)
      BY SentOfAll
    <3>2. place'[r] = place[r] /\ asked'[r] = asked[r]
      BY <1>1, <2>1, TwoRoles DEF GhostOK
    <3>3. r \notin Alive' \ disturbed'
      BY <2>2, <2>3, <3>2 DEF Alive
    <3>4. QED
      BY <1>2, <2>2, <3>1, <3>2, <3>3 DEF SentOf, Copies
  <2>6. QED
    BY <2>4, <2>5, SentOfAllNext
<1>8. QED
  BY <1>4, <1>5, <1>6, <1>7 DEF Request

LEMMA SentServed ==
    ASSUME GhostOK, SentInv, Others
    PROVE  SentInv'
<1>1. UNCHANGED <<place, file, whom, piece, buffered>>
  BY OthersMove
<1>2. CASE Drop \/ CloseClient
  <2>1. Disturb
    BY <1>2 DEF Drop, CloseClient
  <2>2. Alive' = Alive
    BY <1>1 DEF Alive
  <2>3. QED
    BY <1>1, <2>1, <2>2, SentDisturbed
<1>3. CASE StartPut \/ PostStatus \/ Recover \/ Accept
  <2>1. UNCHANGED <<out, asked, disturbed>>
    BY <1>3 DEF StartPut, PostStatus, Recover, Accept, ghosts, request
  <2>2. ASSUME NEW s \in Senders
        PROVE  SentOf(s)'
    <3>1. SentOf(s)
      BY SentOfAll
    <3>2. QED
      BY <1>1, <2>1, <3>1, SentStays
  <2>3. QED
    BY <2>2, SentOfAllNext
<1>4. QED
  BY <1>2, <1>3 DEF Others
-----------------------------------------------------------------------------
\* A sender moves; what the others have sent stays.
LEMMA SentByOthers ==
    ASSUME SentInv, NEW s \in Senders, NEW to,
           MovesTo(s, to) \/ UNCHANGED place,
           UNCHANGED <<asked, file, whom, disturbed>>,
           \A r \in Senders \ {s} :
               UNCHANGED <<out[r], piece[r], buffered[r]>>,
           SentOf(s)'
    PROVE  SentInv'
<1>1. ASSUME NEW r \in Senders \ {s}
      PROVE  SentOf(r)'
  <2>1. SentOf(r)
    BY SentOfAll
  <2>2. \/ place'[r] = place[r]
        \/ place[r] = "asleep" /\ place'[r] = "woken"
    BY TwoRoles DEF MovesTo
  <2>3. UNCHANGED <<out[r], piece[r], buffered[r], asked[r]>>
    OBVIOUS
  <2>4. QED
    BY <2>1, <2>2, <2>3, SentStays
<1>2. QED
  BY <1>1, SentOfAllNext

\* An entry more has gone to the one who asked.
LEMMA DeliverOne ==
    ASSUME ReadingOK, GhostOK, NEW s \in Senders, NEW to \in Callers,
           Deliver(s, to), s \notin disturbed, asked[s] = to,
           Copies(out[s], piece[s], to), piece[s] <= ListLength,
           ListLength \in Nat
    PROVE  /\ Copies(out'[s], piece'[s], to)
           /\ piece'[s] <= ListLength + 1
<1>1. CASE piece[s] \in zs
  BY <1>1 DEF Deliver, ReadingOK, GhostOK
<1>2. CASE piece[s] \notin zs
  <2>1. out'[s] = Append(out[s], to) /\ piece'[s] = piece[s] + 1
    BY <1>2 DEF Deliver, ReadingOK, GhostOK
  <2>2. out[s] \in Seq(Callers) /\ piece[s] \in Nat
    BY DEF ReadingOK, GhostOK
  <2>3. Len(out[s]) = piece[s] /\ \A i \in 1 .. piece[s] : out[s][i] = to
    BY DEF Copies
  <2>4. Len(Append(out[s], to)) = piece[s] + 1
    BY <2>2, <2>3
  <2>5. \A i \in 1 .. piece[s] + 1 : Append(out[s], to)[i] = to
    BY <2>2, <2>3
  <2>6. QED
    BY <2>1, <2>2, <2>4, <2>5 DEF Copies
<1>3. QED
  BY <1>1, <1>2

\* Who has a piece to send is not at the end of the file.
LEMMA PieceLeft ==
    ASSUME ReadingOK, NEW s \in Senders, OnItsWay(s), ListLength \in Nat
    PROVE  /\ HasPiece(s) => piece[s] <= ListLength
           /\ ~HasPiece(s) => piece[s] = ListLength + 1
           /\ Fill(s) => buffered'[s] <= ListLength
<1>1. piece[s] \in Nat /\ buffered[s] \in Nat
  BY DEF ReadingOK
<1>2. /\ file = ListLength /\ piece[s] <= ListLength + 1
      /\ buffered[s] <= ListLength
  BY DEF OnItsWay
<1>3. Fill(s) => buffered'[s] \in {buffered[s], file}
  BY DEF Fill, ReadingOK
<1>4. QED
  BY <1>1, <1>2, <1>3 DEF HasPiece

LEMMA SentMoved ==
    ASSUME ResTypeOK, SentInv, NEW s \in Senders, Sender(s)
    PROVE  SentInv'
<1>1. PlaceOK /\ GhostOK /\ ReadingOK /\ ListLength \in Nat
  BY ResTypes, ResourceFileAssumption
<1>2. UNCHANGED <<asked, file, whom, disturbed, zs>>
  BY <1>1, SenderFrame
<1>3. SentOf(s)
  BY SentOfAll
<1>4. s \in Tasks
  BY TwoRoles
<1>5. CASE Lock(s)
  <2>1. PICK to \in {"in", "asleep"} :
            MovesTo(s, to) /\ place[s] \in {"lock", "woken"}
    BY <1>1, <1>4, <1>5, LockMoves
  <2>2. UNCHANGED <<out, piece, buffered>>
    BY <1>5, LockFrame
  <2>3. place'[s] \in {"asleep", "in"}
    BY <2>1 DEF MovesTo
  <2>4. SentOf(s)'
    BY <1>2, <1>3, <2>1, <2>2, <2>3, SentStays
  <2>5. QED
    BY <1>2, <2>1, <2>2, <2>4, SentByOthers
<1>6. CASE SendFileToUi(s)
  <2>1. place[s] = "in" /\ UNCHANGED place
    BY <1>1, <1>6, SenderMoves
  <2>2. whom = Ui /\ HasPiece(s) /\ Deliver(s, Ui) /\ Fill(s)
    BY <1>6 DEF SendFileToUi
  <2>3. s \in Alive' \ disturbed' =>
            s \in Alive \ disturbed /\ OnItsWay(s)
    BY <1>2, <1>3, <2>1 DEF Alive, SentOf
  <2>4. ASSUME s \notin disturbed, OnItsWay(s)
        PROVE  OnItsWay(s)'
    <3>1. asked[s] = Ui /\ Copies(out[s], piece[s], Ui) /\ Ui \in Callers
      BY <2>2, <2>4 DEF OnItsWay, Callers
    <3>2. piece[s] <= ListLength /\ buffered'[s] <= ListLength
      BY <1>1, <2>2, <2>4, PieceLeft
    <3>3. Copies(out'[s], piece'[s], Ui) /\ piece'[s] <= ListLength + 1
      BY <1>1, <2>2, <2>4, <3>1, <3>2, DeliverOne
    <3>4. file' = ListLength /\ whom' = asked'[s] /\ asked'[s] = Ui
      BY <1>2, <2>2, <2>4, <3>1 DEF OnItsWay
    <3>5. place'[s] = "in"
      BY <2>1
    <3>6. QED
      BY <3>2, <3>3, <3>4, <3>5 DEF OnItsWay
  <2>5. SentOf(s)'
    BY <2>1, <2>3, <2>4 DEF SentOf
  <2>6. \A r \in Senders \ {s} : UNCHANGED <<out[r], piece[r], buffered[r]>>
    BY <1>1, <2>2 DEF Deliver, Fill, GhostOK, ReadingOK
  <2>7. QED
    BY <1>2, <2>1, <2>5, <2>6, SentByOthers
<1>7. CASE NoClient(s) \/ ServiceBusy(s) \/ Timeout(s)
  <2>1. MovesTo(s, "stopped")
    BY <1>1, <1>7, SenderMoves
  <2>2. EndThread(s, "stopped") /\ UNCHANGED out
    BY <1>7 DEF NoClient, ServiceBusy, Timeout
  <2>3. place'[s] = "stopped"
    BY <2>1 DEF MovesTo
  <2>4. SentOf(s)'
    BY <2>3 DEF SentOf, Alive
  <2>5. \A r \in Senders \ {s} : UNCHANGED <<out[r], piece[r], buffered[r]>>
    BY <1>1, <2>2 DEF EndThread, ReadingOK
  <2>6. QED
    BY <1>2, <2>1, <2>4, <2>5, SentByOthers
<1>8. CASE EndOfFile(s)
  <2>1. place[s] = "in" /\ MovesTo(s, "sent") /\ place'[s] = "sent"
    BY <1>1, <1>8, SenderMoves DEF MovesTo
  <2>2. ~HasPiece(s) /\ EndThread(s, "sent") /\ UNCHANGED out
    BY <1>8 DEF EndOfFile
  <2>3. s \notin disturbed => OnItsWay(s)
    BY <1>3, <2>1 DEF SentOf, Alive
  <2>4. s \notin disturbed => Copies(out[s], ListLength + 1, asked[s])
    BY <1>1, <2>2, <2>3, PieceLeft DEF OnItsWay
  <2>5. SentOf(s)'
    BY <1>2, <2>1, <2>2, <2>4 DEF SentOf, Alive, Copies
  <2>6. \A r \in Senders \ {s} : UNCHANGED <<out[r], piece[r], buffered[r]>>
    BY <1>1, <2>2 DEF EndThread, ReadingOK
  <2>7. QED
    BY <1>2, <2>1, <2>5, <2>6, SentByOthers
<1>9. CASE SendFileToCloud(s)
  <2>1. place[s] = "in" /\ MovesTo(s, "initiate") /\ place'[s] = "initiate"
    BY <1>1, <1>9, SenderMoves DEF MovesTo
  <2>2. whom = Cloud /\ HasPiece(s) /\ Fill(s) /\ UNCHANGED <<out, piece>>
    BY <1>9 DEF SendFileToCloud
  <2>3. s \notin disturbed => OnItsWay(s)
    BY <1>3, <2>1 DEF SentOf, Alive
  <2>4. ASSUME s \notin disturbed
        PROVE  OnItsWay(s)'
    <3>1. OnItsWay(s)
      BY <2>3, <2>4
    <3>2. piece[s] <= ListLength /\ buffered'[s] <= ListLength
      BY <1>1, <2>2, <3>1, PieceLeft
    <3>3. asked[s] = Cloud
      BY <2>2, <3>1 DEF OnItsWay
    <3>4. QED
      BY <1>2, <2>2, <3>1, <3>2, <3>3 DEF OnItsWay, Copies
  <2>5. SentOf(s)'
    BY <1>2, <2>1, <2>4 DEF SentOf
  <2>6. \A r \in Senders \ {s} : UNCHANGED <<out[r], piece[r], buffered[r]>>
    BY <1>1, <2>2 DEF Fill, ReadingOK
  <2>7. QED
    BY <1>2, <2>1, <2>5, <2>6, SentByOthers
<1>10. CASE PutAgain(s) \/ Initiate(s) \/ NotConnected(s) \/ Select(s)
  <2>1. UNCHANGED <<out, piece, buffered>>
    BY <1>10 DEF PutAgain, Initiate, NotConnected, Select, reading
  <2>2. PICK to \in Inside \ {"in"} :
            MovesTo(s, to) /\ place[s] \in Inside \ {"in"}
    BY <1>1, <1>10, SenderMoves DEF Inside
  <2>3. place'[s] = to
    BY <2>2 DEF MovesTo
  <2>4. s \notin disturbed => OnItsWay(s)
    BY <1>3, <2>2 DEF SentOf, Alive, Inside
  <2>5. s \notin disturbed => OnItsWay(s)'
    BY <1>2, <2>1, <2>2, <2>4 DEF OnItsWay, Copies
  <2>6. SentOf(s)'
    BY <1>2, <2>2, <2>3, <2>5 DEF SentOf, Inside
  <2>7. QED
    BY <1>2, <2>1, <2>2, <2>6, SentByOthers
<1>11. CASE GetStatus(s)
  <2>1. place[s] = "select" /\ MovesTo(s, "in") /\ place'[s] = "in"
    BY <1>1, <1>11, SenderMoves DEF MovesTo
  <2>2. Deliver(s, Cloud) /\ UNCHANGED buffered
    BY <1>11 DEF GetStatus
  <2>3. s \notin disturbed => OnItsWay(s)
    BY <1>3, <2>1 DEF SentOf, Alive
  <2>4. ASSUME s \notin disturbed
        PROVE  OnItsWay(s)'
    <3>1. OnItsWay(s)
      BY <2>3, <2>4
    <3>2. asked[s] = Cloud /\ piece[s] <= ListLength /\ Cloud \in Callers
      BY <2>1, <3>1 DEF OnItsWay, Inside, Callers
    <3>3. Copies(out'[s], piece'[s], Cloud) /\ piece'[s] <= ListLength + 1
      BY <1>1, <2>2, <2>4, <3>1, <3>2, DeliverOne DEF OnItsWay
    <3>4. QED
      BY <1>2, <2>1, <2>2, <3>1, <3>2, <3>3 DEF OnItsWay
  <2>5. SentOf(s)'
    BY <1>2, <2>1, <2>4 DEF SentOf
  <2>6. \A r \in Senders \ {s} : UNCHANGED <<out[r], piece[r], buffered[r]>>
    BY <1>1, <2>2 DEF Deliver, GhostOK, ReadingOK
  <2>7. QED
    BY <1>2, <2>1, <2>5, <2>6, SentByOthers
<1>12. QED
  BY <1>5, <1>6, <1>7, <1>8, <1>9, <1>10, <1>11, SenderSteps, Zenon
-----------------------------------------------------------------------------
LEMMA ResBegins == ResInit => ResInv
<1> SUFFICES ASSUME ResInit
             PROVE  ResInv
  OBVIOUS
<1>1. /\ ListLength \in Nat /\ MaxRequests \in Nat /\ MaxClients \in Nat
      /\ MaxDrops \in Nat
  BY ResourceFileAssumption
<1>2. /\ \A c \in Callers : place[c] = "idle"
      /\ \A s \in Senders : place[s] = "none"
      /\ place \in [Tasks -> {"idle", "none"}]
  BY TwoRoles DEF ResInit
<1>3. \A t \in Tasks : place[t] \in {"idle", "none"}
  BY <1>2
<1>4. PlaceOK
  BY <1>2, PlaceNames DEF PlaceOK
<1>5. FileOK
  BY <1>1 DEF ResInit, FileOK, Callers
<1>6. ReadingOK /\ ConnectionOK /\ PutOK
  <2>1. ReadingOK
    BY DEF ResInit, ReadingOK
  <2>2. ConnectionOK
    BY <1>1 DEF ResInit, ConnectionOK
  <2>3. PutOK
    <3>1. pipe \in Seq(Senders)
      BY DEF ResInit
    <3>2. QED
      BY <3>1 DEF ResInit, PutOK
  <2>4. QED
    BY <2>1, <2>2, <2>3
<1>7. GhostOK
  <2>1. zs \subseteq 1 .. ListLength
    BY <1>1 DEF ResInit
  <2>2. out \in [Senders -> Seq(Callers)]
    BY DEF ResInit
  <2>3. asked \in [Senders -> Callers \cup {Nobody}]
    BY DEF ResInit
  <2>4. /\ disturbed \subseteq Senders
        /\ reinit \in BOOLEAN /\ timedOut \in BOOLEAN
    BY DEF ResInit
  <2>5. QED
    BY <2>1, <2>2, <2>3, <2>4, Zenon DEF GhostOK
<1>8. RolesInv
  BY <1>2 DEF RolesInv, CallerPlaces, SenderPlaces
<1>9. HolderInv
  BY <1>3 DEF HolderInv, Inside
<1>10. WriterInv
  BY <1>2 DEF ResInit, WriterInv, AtFile
<1>11. PutInv /\ HeaderInv
  BY <1>2 DEF ResInit, PutInv, HeaderInv, Waits
<1>12. SentInv
  BY <1>2 DEF ResInit, SentInv, Alive
<1>13. QED
  BY <1>4, <1>5, <1>6, <1>7, <1>8, <1>9, <1>10, <1>11, <1>12, ResTypes, Zenon
     DEF ResInv

LEMMA ResStands ==
    ASSUME ResInv, UNCHANGED resVars
    PROVE  ResInv'
<1> USE DEF resVars, request, calling, reading, ui, connector, put, pipes,
            ghosts
<1>1. ResTypeOK'
  BY DEF ResInv, ResTypeOK
<1>2. RolesInv' /\ HolderInv' /\ HeaderInv'
  BY DEF ResInv, RolesInv, HolderInv, HeaderInv
<1>3. WriterInv'
  BY DEF ResInv, WriterInv, Alive
<1>4. PutInv'
  BY DEF ResInv, PutInv, Waits, PutAt
<1>5. SentInv'
  <2>1. ASSUME NEW s \in Senders
        PROVE  SentOf(s)'
    BY SentOfAll, SentStays DEF ResInv
  <2>2. QED
    BY <2>1, SentOfAllNext
<1>6. QED
  BY <1>1, <1>2, <1>3, <1>4, <1>5 DEF ResInv

LEMMA ResStep == ResInv /\ [ResNext]_resVars => ResInv'
<1>1. ASSUME ResInv, ResNext
      PROVE  ResInv'
  <2>1. /\ ResTypeOK /\ RolesInv /\ HolderInv /\ WriterInv /\ PutInv
        /\ HeaderInv /\ SentInv
    BY <1>1 DEF ResInv
  <2>2. /\ PlaceOK /\ FileOK /\ ReadingOK /\ ConnectionOK /\ PutOK /\ GhostOK
    BY <2>1, ResTypes
  <2>3. WriterInv' /\ RolesInv' /\ HolderInv' /\ HeaderInv' /\ PutInv'
    BY <1>1, <2>1, <2>2, WriterKept, RolesKept, HolderKept, HeaderKept, PutKept
  <2>4. PlaceOK'
    <3>1. ASSUME NEW t \in Tasks, Lock(t)
          PROVE  PlaceOK'
      BY <2>2, <3>1, LockMoves DEF MovesTo
    <3>2. ASSUME NEW c \in Callers, Ask(c) \/ Request(c), ~Lock(c)
          PROVE  PlaceOK'
      <4>1. CASE SendResourceFile(c)
        BY <2>2, <4>1, SendResourceFileMoves
      <4>2. CASE Ask(c) \/ InitFile(c) \/ CreateEntry(c)
        BY <2>2, <4>2, AskMoves, InitFileMoves, CreateEntryMoves DEF MovesTo
      <4>3. QED
        BY <3>2, <4>1, <4>2 DEF Request
    <3>3. ASSUME NEW s \in Senders, Sender(s), ~Lock(s)
          PROVE  PlaceOK'
      <4>1. CASE SendFileToUi(s)
        BY <2>2, <4>1 DEF SendFileToUi, PlaceOK
      <4>2. CASE ~SendFileToUi(s)
        <5>1. \E to : MovesTo(s, to)
          BY <2>2, <3>3, <4>2, SenderSteps, SenderMoves
        <5>2. QED
          BY <5>1 DEF MovesTo
      <4>3. QED
        BY <4>1, <4>2
    <3>4. CASE Others
      BY <2>2, <3>4, OthersMove DEF PlaceOK
    <3>5. QED
      BY <1>1, <3>1, <3>2, <3>3, <3>4, TwoRoles, Zenon DEF ResNext, Others
  <2>5. FileOK' /\ ReadingOK' /\ ConnectionOK' /\ PutOK' /\ GhostOK'
    BY <1>1, <2>1, <2>2, FileStep, ReadingStep, ConnectionStep, PutStep,
       GhostStep
  <2>6. ResTypeOK'
    BY <2>4, <2>5, ResTypesNext
  <2>7. SentInv'
    BY <1>1, <2>1, <2>2, <2>3, SentAtRequest, SentMoved, SentServed, Zenon
       DEF ResNext, Others
  <2>8. QED
    BY <2>3, <2>6, <2>7 DEF ResInv
<1>2. QED
  BY <1>1, ResStands

LEMMA ResAlways == ResSpec => []ResInv
BY ResBegins, ResStep, PTL DEF ResSpec

(* The variables of the resource file have their types, for every length   *)
(* of the list and every number of requests, clients and lost connections. *)
THEOREM ResTypeCorrect == ResSpec => []ResTypeOK
<1>1. ResInv => ResTypeOK
  BY DEF ResInv
<1>2. QED
  BY <1>1, ResAlways, PTL

LEMMA FileSafeNow == ResInv => FileSafe
<1> SUFFICES ASSUME ResInv
             PROVE  FileSafe
  OBVIOUS
<1>1. /\ PutOK /\ GhostOK /\ HolderInv /\ PutInv /\ HeaderInv /\ SentInv
  BY ResTypes DEF ResInv
<1>2. ExclusiveUnlessReinit
  BY <1>1 DEF HolderInv, ExclusiveUnlessReinit
<1>3. WholeFile
  <2> SUFFICES ASSUME NEW s \in Senders, place[s] = "sent", s \notin disturbed
               PROVE  out[s] = [i \in 1 .. ListLength + 1 |-> asked[s]]
    BY DEF WholeFile
  <2>1. out[s] \in Seq(Callers)
    BY <1>1 DEF GhostOK
  <2>2. /\ Len(out[s]) = ListLength + 1
        /\ \A i \in 1 .. ListLength + 1 : out[s][i] = asked[s]
    BY <1>1 DEF SentInv, Copies
  <2>3. QED
    BY <2>1, <2>2
<1>4. ContextAlive
  <2> SUFFICES ASSUME ~reinit, ~timedOut
               PROVE  /\ slot = TRUE => header \in live /\ Waits(header)
                      /\ put_session # Nobody =>
                             put_session \in live /\ Waits(put_session)
    BY <1>1 DEF ContextAlive, Waits, PutOK
  <2>1. PutSafe
    BY <1>1 DEF PutInv, PutSafe
  <2>2. ASSUME slot = TRUE \/ put_session # Nobody
        PROVE  \E s \in Senders : Waits(s) /\ PutAt(s)
    BY <2>1, <2>2 DEF PutSafe
  <2>3. QED
    BY <2>2 DEF PutAt
<1>5. QED
  BY <1>2, <1>3, <1>4 DEF FileSafe

(* Two threads are inside resource_lock only after a request initialised   *)
(* it while one was; a file sent to its end, with nothing in between, went *)
(* to the one who asked, whole; and, as long as files were sent one at a   *)
(* time and no put timed out, the connector works with an app_data that is *)
(* allocated and whose sender waits.                                       *)
THEOREM TheFileIsSafe == ResSpec => []FileSafe
BY FileSafeNow, ResAlways, PTL

LEMMA StatusNow ==
    ASSUME ResInv, NEW s \in Senders, GetStatus(s), ~reinit, ~timedOut
    PROVE  pipe = <<s>>
<1>1. PlaceOK /\ PutSafe
  BY ResTypes DEF ResInv, PutInv, PutSafe
<1>2. Waits(s) /\ pipe # <<>>
  BY <1>1, SenderMoves DEF GetStatus, Waits
<1>3. PutAt(s)
  BY <1>1, <1>2 DEF PutSafe
<1>4. QED
  BY <1>2, <1>3 DEF PutAt

(* The status that a put takes from the pipe of the statuses is that of    *)
(* its own data, and the only one there, as long as files were sent one at *)
(* a time and no put timed out.                                            *)
THEOREM StatusIsItsOwn == ResSpec => OwnStatus
<1>1. ResInv => [\A s \in Senders :
          GetStatus(s) /\ ~reinit /\ ~timedOut => pipe = <<s>>]_resVars
  BY StatusNow
<1>2. QED
  BY <1>1, ResAlways, PTL DEF OwnStatus
-----------------------------------------------------------------------------
(* LifeCycle: a stop that nothing meets finds the threads at rest, and     *)
(* joins one after the other.                                              *)

Joined(w) == at[w] = "joined"

\* Once created, the observer thread always has an id: nobody cancels it
\* before.
InIotStop == {"schedular", "join_schedular", "observers", "cancel"}
ObserverStarted ==
    \/ main \notin {"iot", "failed"} \/ Iot_Status = TRUE
    \/ at[Receiver] # "none" \/ stopper \in InIotStop
    => at[Observer] # "none"

\* The statuses tell what was started, until a stop begins.
BeforeStop ==
    stopper = "none" =>
        /\ ~freed /\ stopsOn = NoThread
        /\ main \in {"iot", "status", "receiver"} => at[Receiver] = "none"
        /\ at[Receiver] \notin {"find", "start"} => ~Joined(Observer)
        /\ main \in {"receiver", "cloud", "ui", "loop"} => Iot_Status = TRUE
        /\ main \in {"ui", "loop"} => Cloud_Status = TRUE

FromObservers == {"observers", "cancel", "join", "free"}
FromUi == {"ui", "join_ui", "kill"}
FromCloud == {"cloud", "join_cloud"} \cup FromUi
FromReceiver == {"receiver", "join_receiver"} \cup FromCloud

\* How far a stop has come tells which threads are joined.
AloneAfterStop ==
    stopper # "none" /\ ~overtaken =>
        /\ main \in {"loop", "failed"}
        /\ \A w \in Requesters : at[w] \notin {"ask"} \cup InCall
        /\ at[Receiver] \in {"none", "point"} \cup Ended
        /\ freed \/ stopper \in FromObservers => at[Schedular] = "none"
        /\ freed \/ stopper = "free" => Joined(Observer)
        /\ main = "loop" =>
              /\ stopper \in FromReceiver => freed
              /\ stopper \in FromCloud => Joined(Receiver)
              /\ stopper \in FromUi => Joined(Connector)
              /\ stopper \notin FromUi \cup {"gone", "dead"} =>
                     Cloud_Status = TRUE
              /\ stopper = "kill" => Joined(UiReceiver)

LifeInv == LifeTypeOK /\ ObserverStarted /\ BeforeStop /\ AloneAfterStop

\* The variables that are either way, which few steps change; and the rest.
LifeFlags == <<statuses, freed, overtaken>>
FlagTypes ==
    /\ Iot_Status \in BOOLEAN /\ Cloud_Status \in BOOLEAN
    /\ freed \in BOOLEAN /\ overtaken \in BOOLEAN

Places == {"none", "point", "ask", "call", "send", "answer", "walk", "stop",
           "join", "find", "start", "spin"} \cup Ended
PlaceTypes ==
    /\ at \in [Workers -> Places]
    /\ cancelled \subseteq {w \in Workers : at[w] # "none"}
LockTypes ==
    /\ locks \in [Locks -> Workers \cup {NoThread}]
    /\ abandoned \subseteq {l \in Locks : locks[l] = NoThread}
StopTypes ==
    /\ main \in {"iot", "status", "receiver", "cloud", "ui", "loop", "failed"}
    /\ stopper \in {"none", "schedular", "join_schedular", "observers",
                    "cancel", "join", "free", "receiver", "join_receiver",
                    "cloud", "join_cloud", "ui", "join_ui",
                    "kill", "gone", "dead"}
    /\ stopsOn \in AllThreads \cup {NoThread}

LEMMA LifeTypeParts ==
    LifeTypeOK <=> PlaceTypes /\ LockTypes /\ StopTypes /\ FlagTypes
BY Zenon DEF LifeTypeOK, PlaceTypes, Places, LockTypes, StopTypes, FlagTypes

LEMMA LifeTypePartsNext ==
    LifeTypeOK' <=> PlaceTypes' /\ LockTypes' /\ StopTypes' /\ FlagTypes'
BY Zenon DEF LifeTypeOK, PlaceTypes, Places, LockTypes, StopTypes, FlagTypes

LEMMA FlagsKept ==
    ASSUME LifeNext
    PROVE  \/ UNCHANGED LifeFlags
           \/ SetIotStatus \/ CloudStart \/ FreeLists \/ JoinConnector
           \/ (\E w \in Requesters : AskIot(w)) \/ Findme
           \/ \E t \in AllThreads : Begin(t)
<1>1. ASSUME NEW w \in Workers, ThreadSteps(w)
      PROVE  UNCHANGED LifeFlags
  BY <1>1, Zenon DEF ThreadSteps, Ends, ReceiverSteps, ReceiverCancels,
     ReceiverJoins, FindResource, StartObserver, ObserverSteps, Walk, EndWalk,
     Enter, ReturnIot, LifeFlags, stop
<1>2. ASSUME NEW w \in Setters \cup {Observer}, Locking(w)
      PROVE  UNCHANGED LifeFlags
  BY <1>2, Zenon DEF Locking, LockResource, CallIot, Enter, LifeFlags, stop
<1>3. ASSUME NEW w \in Requesters, StartSchedular(w)
      PROVE  UNCHANGED LifeFlags
  BY <1>3, Zenon DEF StartSchedular, LifeFlags
<1>4. ASSUME StartSteps
      PROVE  UNCHANGED LifeFlags \/ SetIotStatus \/ CloudStart
  BY <1>4, Zenon DEF StartSteps, IotStart, StartBcastReceiver, StartUI,
     LifeFlags, stop
<1>5. ASSUME StopSteps
      PROVE  \/ UNCHANGED LifeFlags \/ FreeLists \/ JoinConnector
             \/ Begin(Main)
  BY <1>5, Zenon DEF StopSteps, StartFailed, StopSchedular,
     JoinSchedular, StopResObserver, StopObserverThread, JoinObserver,
     StopBcastReceiver, JoinReceiver, CloudStop, StopUi, JoinUi, Exit, Cancel,
     LifeFlags
<1>6. ASSUME Schedule
      PROVE  UNCHANGED LifeFlags
  BY <1>6, Zenon DEF Schedule, Enter, LifeFlags, stop
<1>7. Main \in AllThreads
  BY DEF AllThreads
<1>8. QED
  BY <1>1, <1>2, <1>3, <1>4, <1>5, <1>6, <1>7, Zenon DEF LifeNext, Sigsegv

LEMMA FlagTypesStep ==
    ASSUME FlagTypes, LifeNext
    PROVE  FlagTypes'
<1>1. CASE UNCHANGED LifeFlags
  BY <1>1, Zenon DEF LifeFlags, FlagTypes, statuses
<1>2. CASE SetIotStatus \/ CloudStart \/ FreeLists \/ JoinConnector
  BY <1>2, Zenon DEF SetIotStatus, FreeLists, CloudStart, JoinConnector,
     FlagTypes, stop
<1>3. CASE (\E w \in Requesters : AskIot(w)) \/ Findme
  BY <1>3, Zenon DEF AskIot, Findme, Overtaken, FlagTypes, statuses, stop
<1>4. CASE \E t \in AllThreads : Begin(t)
  BY <1>4, Zenon DEF Begin, FlagTypes, statuses
<1>5. QED
  BY <1>1, <1>2, <1>3, <1>4, FlagsKept, Zenon

LEMMA LifeTypeInit == LifeInit => LifeTypeOK
BY LifeCycleAssumption
   DEF LifeInit, LifeTypeOK, AllThreads, Workers, Locks, Ended

\* What the steps do to the locks: nothing; one enters; or who leaves, or ends,
\* has its locks released.
Entering(w, held) ==
    /\ locks' = [k \in Locks |-> IF k \in held THEN w ELSE locks[k]]
    /\ \A l \in held : FreeLock(l)
    /\ UNCHANGED abandoned

LEMMA EnterLocks ==
    ASSUME NEW w \in Workers, NEW from, NEW held, \A l \in held : FreeLock(l),
           Enter(w, from, held)
    PROVE  \E extra \in SUBSET Locks : Entering(w, extra)
<1> DEFINE in == IF ~FreeLock("resource") THEN "call"
                 ELSE IF w = Observer THEN "walk"
                 ELSE IF FreeLock("read") THEN "answer" ELSE "send"
           extra == {k \in Locks : \/ k \in held
                                   \/ k = "resource" /\ in # "call"
                                   \/ k = "read" /\ in = "answer"}
<1>1. locks' = [k \in Locks |-> IF k \in extra THEN w ELSE locks[k]]
  BY Zenon DEF Enter
<1>2. \A l \in extra : FreeLock(l)
  BY SMT
<1>3. UNCHANGED abandoned
  BY DEF Enter
<1>4. QED
  BY <1>1, <1>2, <1>3, Zenon DEF Entering

LEMMA LockChanges ==
    ASSUME LifeNext
    PROVE  \/ UNCHANGED locking
           \/ \E w \in Workers, held \in SUBSET Locks : Entering(w, held)
           \/ \E w \in Workers : locks' = Release(w) /\ UNCHANGED abandoned
           \/ \E w \in Workers : Ends(w)
<1> DEFINE Enters == \E w \in Workers, held \in SUBSET Locks : Entering(w, held)
           Leaves == \E w \in Workers :
                         locks' = Release(w) /\ UNCHANGED abandoned
<1> /\ Observer \in Workers /\ Schedular \in Workers
    /\ Setters \subseteq Workers /\ Requesters \subseteq Workers
  BY DEF Workers, Setters, Requesters
<1>0. ASSUME NEW w \in Workers, NEW from, NEW held \in {{}, {"api"}},
             held = {"api"} => FreeLock("api"), Enter(w, from, held)
      PROVE  Enters
  BY <1>0, EnterLocks
<1>1. ASSUME NEW w \in Workers, ThreadSteps(w)
      PROVE  UNCHANGED locking \/ Enters \/ Leaves \/ Ends(w)
  <2>1. CASE ReceiverSteps
    BY <2>1, Zenon DEF ReceiverSteps, ReceiverCancels, ReceiverJoins,
       FindResource, StartObserver, locking
  <2>2. CASE ObserverSteps
    BY <1>0, <2>2, Zenon DEF ObserverSteps, Walk, EndWalk
  <2>3. CASE ReturnIot(w)
    BY <2>3, Zenon DEF ReturnIot
  <2>4. QED
    BY <1>1, <2>1, <2>2, <2>3, Zenon DEF ThreadSteps
<1>2. ASSUME NEW w \in Setters \cup {Observer}, Locking(w)
      PROVE  Enters
  <2>1. w \in Workers
    OBVIOUS
  <2>2. QED
    BY <1>0, <1>2, <2>1 DEF Locking, LockResource, CallIot
<1>3. ASSUME NEW w \in Requesters, AskIot(w) \/ StartSchedular(w)
      PROVE  UNCHANGED locking \/ Leaves
  BY <1>3, Zenon DEF AskIot, StartSchedular, locking
<1>4. ASSUME NEW t \in AllThreads, Begin(t)
      PROVE  UNCHANGED locking
  BY <1>4, Zenon DEF Begin, locking
<1>5. ASSUME StartSteps
      PROVE  UNCHANGED locking
  BY <1>5, Zenon DEF StartSteps, IotStart, SetIotStatus, StartBcastReceiver,
     CloudStart, StartUI, locking
<1>6. ASSUME StopSteps
      PROVE  UNCHANGED locking
  BY <1>6, <1>4, Zenon DEF StopSteps, StartFailed, StopSchedular,
     JoinSchedular, StopResObserver, StopObserverThread, JoinObserver,
     FreeLists, StopBcastReceiver, JoinReceiver, CloudStop, JoinConnector,
     StopUi, JoinUi, Exit, Cancel, locking, AllThreads
<1>7. ASSUME Findme \/ Schedule
      PROVE  UNCHANGED locking \/ Enters
  BY <1>0, <1>7, Zenon DEF Findme, Schedule, locking
<1>8. QED
  BY <1>1, <1>2, <1>3, <1>4, <1>5, <1>6, <1>7, Zenon DEF LifeNext, Sigsegv

LEMMA LockTypesStep ==
    ASSUME LockTypes, LifeNext
    PROVE  LockTypes'
<1> USE LifeCycleAssumption DEF LockTypes, AllThreads
<1>1. CASE UNCHANGED locking
  BY <1>1, SMT DEF locking
<1>2. ASSUME NEW w \in Workers, NEW held \in SUBSET Locks, Entering(w, held)
      PROVE  LockTypes'
  BY <1>2, SMT DEF Entering, FreeLock
<1>3. ASSUME NEW w \in Workers, locks' = Release(w),
             abandoned' \subseteq
                 abandoned \cup {l \in {"api", "read"} : locks[l] = w}
      PROVE  LockTypes'
  <2>1. locks' \in [Locks -> Workers \cup {NoThread}]
    BY <1>3, SMT DEF Release
  <2>2. \A l \in Locks : locks[l] \in {w, NoThread} => locks'[l] = NoThread
    BY <1>3, SMT DEF Release
  <2>3. \A l \in abandoned' : l \in Locks /\ locks[l] \in {w, NoThread}
    BY <1>3, Zenon DEF Locks
  <2>4. QED
    BY <2>1, <2>2, <2>3, Zenon
<1>4. ASSUME NEW w \in Workers, Ends(w)
      PROVE  LockTypes'
  BY <1>1, <1>3, <1>4, Zenon DEF Ends, locking
<1>5. QED
  BY <1>1, <1>2, <1>3, <1>4, LockChanges, Zenon

LEMMA PlaceTypesStep ==
    ASSUME PlaceTypes, ObserverStarted, LifeNext
    PROVE  PlaceTypes'
<1> USE LifeCycleAssumption
    DEF PlaceTypes, Places, AllThreads, Workers, Requesters, Setters, Ended, Up
<1>1. CASE StartSteps
  BY <1>1, SMT DEF StartSteps, IotStart, SetIotStatus, StartBcastReceiver,
     CloudStart, StartUI
<1>2. ASSUME NEW t \in AllThreads, Begin(t)
      PROVE  PlaceTypes'
  BY <1>2, SMT DEF Begin
<1>3. CASE StopSchedular \/ JoinSchedular \/ StopResObserver
  BY <1>3, SMT DEF StopSchedular, JoinSchedular, StopResObserver
<1>4. CASE StopObserverThread
  BY <1>4, SMT DEF StopObserverThread, CancelObserver, Stopping, InIotStop,
     ObserverStarted
<1>5. CASE JoinObserver \/ FreeLists
  BY <1>5, SMT DEF JoinObserver, FreeLists
<1>6. CASE StopBcastReceiver \/ CloudStop \/ StopUi \/ Exit
  BY <1>6, SMT DEF StopBcastReceiver, CloudStop, StopUi, Exit, Cancel
<1>7. CASE JoinReceiver \/ JoinConnector \/ JoinUi
  BY <1>7, SMT DEF JoinReceiver, JoinConnector, JoinUi, Join
<1>8. CASE Findme \/ \E w \in Requesters : AskIot(w)
  BY <1>8, SMT DEF Findme, AskIot, Moves
<1>9. ASSUME NEW w \in Requesters, StartSchedular(w)
      PROVE  PlaceTypes'
  BY <1>9, SMT DEF StartSchedular
<1>10. ASSUME NEW w \in Workers, NEW from, NEW held, Enter(w, from, held)
       PROVE  PlaceTypes'
  BY <1>10, SMT DEF Enter, Moves
<1>11. CASE Schedule
  BY <1>10, <1>11, SMT DEF Schedule, Moves
<1>12. ASSUME NEW w \in Setters \cup {Observer}, Locking(w)
       PROVE  PlaceTypes'
  BY <1>10, <1>12 DEF Locking, LockResource, CallIot
<1>13. ASSUME NEW w \in Workers, Ends(w)
       PROVE  PlaceTypes'
  BY <1>13, SMT DEF Ends, Waiting
<1>14. CASE ReceiverCancels
  BY <1>14, SMT DEF ReceiverCancels, CancelObserver, Moves, ObserverStarted
<1>15. CASE ReceiverJoins \/ FindResource
  BY <1>15, SMT DEF ReceiverJoins, FindResource, Moves
<1>16. CASE StartObserver
  BY <1>16, SMT DEF StartObserver
<1>17. CASE ObserverSteps
  BY <1>10, <1>17, SMT DEF ObserverSteps, Walk, EndWalk, Moves
<1>18. ASSUME NEW w \in Setters, ReturnIot(w)
       PROVE  PlaceTypes'
  BY <1>18, SMT DEF ReturnIot, Moves
<1> HIDE DEF PlaceTypes
<1>19. CASE StopSteps
  BY <1>2, <1>3, <1>4, <1>5, <1>6, <1>7, <1>19, Zenon
     DEF StopSteps, StartFailed
<1>20. ASSUME NEW w \in Workers, ThreadSteps(w)
       PROVE  PlaceTypes'
  BY <1>13, <1>14, <1>15, <1>16, <1>17, <1>18, <1>20, Zenon
     DEF ThreadSteps, ReceiverSteps
<1>21. QED
  BY <1>1, <1>2, <1>8, <1>9, <1>11, <1>12, <1>19, <1>20, Zenon
     DEF LifeNext, Sigsegv

LEMMA StopTypesStep ==
    ASSUME StopTypes, LifeNext
    PROVE  StopTypes'
<1> USE LifeCycleAssumption
    DEF StopTypes, AllThreads, Workers, Requesters, Setters, Up
<1>1. CASE StartSteps
  BY <1>1, SMT DEF StartSteps, IotStart, SetIotStatus, StartBcastReceiver,
     CloudStart, StartUI, stop
<1>2. ASSUME NEW t \in AllThreads, Begin(t)
      PROVE  StopTypes'
  BY <1>2, SMT DEF Begin, Stopping
<1>3. CASE StopSchedular \/ JoinSchedular \/ StopResObserver
  BY <1>3, SMT DEF StopSchedular, JoinSchedular, StopResObserver, Stopping
<1>4. CASE StopObserverThread \/ JoinObserver \/ FreeLists
  BY <1>4, SMT DEF StopObserverThread, CancelObserver, JoinObserver, FreeLists,
     Stopping
<1>5. CASE StopBcastReceiver \/ CloudStop \/ StopUi \/ Exit
  BY <1>5, SMT DEF StopBcastReceiver, CloudStop, StopUi, Exit, Cancel, Stopping
<1>6. CASE JoinReceiver \/ JoinConnector \/ JoinUi
  BY <1>6, SMT DEF JoinReceiver, JoinConnector, JoinUi, Join, Stopping
<1>7. CASE Findme \/ \E w \in Requesters : AskIot(w) \/ StartSchedular(w)
  BY <1>7, SMT DEF Findme, AskIot, StartSchedular, stop
<1>8. CASE Schedule
  BY <1>8, SMT DEF Schedule, Enter, stop
<1>9. ASSUME NEW w \in Setters \cup {Observer}, Locking(w)
      PROVE  StopTypes'
  BY <1>9, SMT DEF Locking, LockResource, CallIot, Enter, stop
<1>10. ASSUME NEW w \in Workers, Ends(w)
       PROVE  StopTypes'
  BY <1>10, SMT DEF Ends
<1>11. CASE ReceiverSteps
  BY <1>11, SMT DEF ReceiverSteps, ReceiverCancels, ReceiverJoins,
     FindResource, StartObserver, CancelObserver, stop
<1>12. ASSUME NEW w \in Setters, ObserverSteps \/ ReturnIot(w)
       PROVE  StopTypes'
  BY <1>12, SMT DEF ObserverSteps, Walk, EndWalk, Enter, ReturnIot, stop
<1> HIDE DEF StopTypes
<1>13. CASE StopSteps
  BY <1>2, <1>3, <1>4, <1>5, <1>6, <1>13, Zenon DEF StopSteps, StartFailed
<1>14. ASSUME NEW w \in Workers, ThreadSteps(w)
       PROVE  StopTypes'
  BY <1>10, <1>11, <1>12, <1>14, Zenon DEF ThreadSteps
<1>15. QED
  BY <1>1, <1>2, <1>7, <1>8, <1>9, <1>13, <1>14, Zenon DEF LifeNext, Sigsegv

\* A thread that is at work goes on.
AtWork == {"ask", "call", "send", "answer", "walk", "spin"}

LEMMA WorkerMoves ==
    ASSUME PlaceTypes, StopTypes, ObserverStarted, BeforeStop, AloneAfterStop,
           NEW w \in Setters \cup {Observer}, NEW to \in Places \ {"joined"},
           at[w] \in AtWork \/ (w = Observer /\ at[w] = "point"),
           w \in Requesters => at[w] \in {"ask"} \cup InCall,
           w = Observer => to # "none",
           at' = [at EXCEPT ![w] = to],
           UNCHANGED <<main, statuses, stop, overtaken>>
    PROVE  ObserverStarted' /\ BeforeStop' /\ AloneAfterStop'
<1> USE LifeCycleAssumption
    DEF PlaceTypes, Places, AllThreads, Workers, Requesters, Setters, Ended,
        AtWork
<1>1. w # Receiver /\ Receiver \in Workers
  BY Zenon
<1>2. /\ at'[Receiver] = at[Receiver]
      /\ at[Observer] # "none" => at'[Observer] # "none"
      /\ at[Observer] # "joined" => at'[Observer] # "joined"
      /\ \A v \in Workers : v # w => at'[v] = at[v]
      /\ w \in Workers /\ at[w] \notin {"none", "joined"}
  BY <1>1, SMT
<1>3. ObserverStarted'
  BY <1>1, <1>2, Zenon DEF ObserverStarted, statuses, stop
<1>4. BeforeStop'
  BY <1>1, <1>2, Zenon DEF BeforeStop, Joined, statuses, stop
<1>5. ASSUME stopper = "none" \/ overtaken
      PROVE  AloneAfterStop'
  <2>1. stopper' = "none" \/ overtaken'
    BY <1>5, Zenon DEF stop
  <2>2. QED
    BY <2>1 DEF AloneAfterStop
<1>6. ASSUME stopper # "none" /\ ~overtaken
      PROVE  AloneAfterStop'
  <2>1. w = Observer => ~freed /\ stopper # "free" /\ w # Schedular
    BY <1>2, <1>6 DEF AloneAfterStop, Joined
  <2>2. w = Schedular => ~freed /\ stopper \notin FromObservers
    BY <1>2, <1>6 DEF AloneAfterStop
  <2>3. w \notin Requesters \cup {Receiver}
    BY <1>6 DEF AloneAfterStop
  <2>4. /\ freed => at'[Observer] = at[Observer]
        /\ freed => at'[Schedular] = at[Schedular]
        /\ stopper = "free" => at'[Observer] = at[Observer]
        /\ stopper \in FromObservers => at'[Schedular] = at[Schedular]
    BY <1>2, <2>1, <2>2, SMT
  <2>5. \A v \in Requesters \cup {Receiver} : at'[v] = at[v]
    BY <1>2, <2>3, SMT
  <2>6. /\ stopper' = stopper /\ freed' = freed /\ main' = main
        /\ Cloud_Status' = Cloud_Status
    BY Zenon DEF stop, statuses
  <2>7. /\ stopper \in FromCloud => at'[Receiver] = at[Receiver]
        /\ at'[Connector] = at[Connector]
        /\ at'[UiReceiver] = at[UiReceiver]
    BY <2>5, Zenon
  <2>8. /\ main' \in {"loop", "failed"}
        /\ \A v \in Requesters : at'[v] \notin {"ask"} \cup InCall
        /\ at'[Receiver] \in {"none", "point"} \cup Ended
    BY <1>6, <2>5, <2>6, Zenon DEF AloneAfterStop
  <2>9. /\ freed' \/ stopper' \in FromObservers => at'[Schedular] = "none"
        /\ freed' \/ stopper' = "free" => at'[Observer] = "joined"
    BY <1>6, <2>4, <2>6, SMT DEF AloneAfterStop, Joined
  <2>10. main' = "loop" =>
              /\ stopper' \in FromReceiver => freed'
              /\ stopper' \in FromCloud => at'[Receiver] = "joined"
              /\ stopper' \in FromUi => at'[Connector] = "joined"
              /\ stopper' \notin FromUi \cup {"gone", "dead"} =>
                     Cloud_Status' = TRUE
              /\ stopper' = "kill" => at'[UiReceiver] = "joined"
    BY <1>6, <2>6, <2>7, SMT DEF AloneAfterStop, Joined
  <2>11. QED
    BY <2>8, <2>9, <2>10 DEF AloneAfterStop, Joined
<1>7. QED
  BY <1>3, <1>4, <1>5, <1>6

LEMMA EnterKeeps ==
    ASSUME PlaceTypes, StopTypes, ObserverStarted, BeforeStop, AloneAfterStop,
           NEW w \in Setters \cup {Observer}, NEW from, NEW held,
           \/ from \in {"ask", "call"} \/ (w = Schedular /\ from = "spin")
           \/ (w = Observer /\ from = "point"),
           Enter(w, from, held)
    PROVE  ObserverStarted' /\ BeforeStop' /\ AloneAfterStop'
<1> /\ Schedular \notin Requesters /\ Observer \notin Requesters
  BY LifeCycleAssumption DEF Setters
<1>1. /\ at[w] \in AtWork \/ (w = Observer /\ at[w] = "point")
      /\ w \in Requesters => at[w] \in {"ask"} \cup InCall
      /\ UNCHANGED <<main, statuses, stop, overtaken>>
  BY Zenon DEF Enter, Moves, AtWork, InCall
<1>2. \E to \in {"call", "walk", "answer", "send"} :
          at' = [at EXCEPT ![w] = to]
  BY Zenon DEF Enter, Moves
<1>3. QED
  BY <1>1, <1>2, WorkerMoves DEF Places

LEMMA WorkKeeps ==
    ASSUME PlaceTypes, StopTypes, ObserverStarted, BeforeStop, AloneAfterStop,
           \/ Schedule
           \/ \E w \in Setters \cup {Observer} : Locking(w)
           \/ ObserverSteps \/ \E w \in Setters : ReturnIot(w)
    PROVE  ObserverStarted' /\ BeforeStop' /\ AloneAfterStop'
<1>1. CASE Schedule
  <2>1. CASE Enter(Schedular, "spin", {})
    BY <2>1, EnterKeeps DEF Setters
  <2>2. CASE /\ Moves(Schedular, "spin", IF Schedular \in cancelled
                                         THEN "ended" ELSE "none")
             /\ UNCHANGED <<main, cancelled, statuses, locking, stop, overtaken>>
    <3>1. \E to \in {"ended", "none"} : at' = [at EXCEPT ![Schedular] = to]
      BY <2>2, Zenon DEF Moves
    <3>2. /\ at[Schedular] \in AtWork /\ Schedular # Observer
          /\ Schedular \notin Requesters
          /\ UNCHANGED <<main, statuses, stop, overtaken>>
      BY <2>2, LifeCycleAssumption, Zenon DEF Moves, AtWork, Setters
    <3>3. QED
      BY <3>1, <3>2, WorkerMoves, LifeCycleAssumption
         DEF Places, Ended, Setters
  <2>3. QED
    BY <1>1, <2>1, <2>2 DEF Schedule
<1>2. ASSUME NEW w \in Setters \cup {Observer}, Locking(w)
      PROVE  ObserverStarted' /\ BeforeStop' /\ AloneAfterStop'
  BY <1>2, EnterKeeps DEF Locking, LockResource, CallIot
<1>3. CASE Walk
  BY <1>3, EnterKeeps DEF Walk
<1>4. CASE EndWalk
  <2>1. /\ at' = [at EXCEPT ![Observer] = "ended"] /\ at[Observer] \in AtWork
        /\ Observer \notin Requesters
        /\ UNCHANGED <<main, statuses, stop, overtaken>>
    BY <1>4, LifeCycleAssumption, Zenon DEF EndWalk, Moves, AtWork, Setters
  <2>2. QED
    BY <2>1, WorkerMoves DEF Places, Ended
<1>5. ASSUME NEW w \in Setters, ReturnIot(w)
      PROVE  ObserverStarted' /\ BeforeStop' /\ AloneAfterStop'
  <2>1. \E to \in {"spin", "point"} : at' = [at EXCEPT ![w] = to]
    BY <1>5, Zenon DEF ReturnIot, Moves
  <2>2. /\ at[w] \in AtWork /\ at[w] \in InCall
        /\ UNCHANGED <<main, statuses, stop, overtaken>>
    BY <1>5, Zenon DEF ReturnIot, Moves, AtWork, InCall
  <2>3. QED
    BY <2>1, <2>2, WorkerMoves DEF Places
<1>6. QED
  BY <1>1, <1>2, <1>3, <1>4, <1>5, Zenon DEF ObserverSteps

LEMMA WorkersDiffer ==
    /\ Receiver # Observer /\ Receiver # Connector /\ Receiver # UiReceiver
    /\ Receiver # Schedular /\ Observer # Connector /\ Observer # UiReceiver
    /\ Observer # Schedular /\ Connector # UiReceiver
    /\ Connector # Schedular /\ UiReceiver # Schedular
BY LifeCycleAssumption, Zenon DEF LifeCycleAssumption, Setters, Requesters

LEMMA SchedularPlace ==
    ASSUME PlaceTypes, NEW x, at' = [at EXCEPT ![Schedular] = x]
    PROVE  at'[Observer] = at[Observer] /\ at'[Receiver] = at[Receiver]
BY LifeCycleAssumption DEF PlaceTypes, Workers, Setters

LEMMA SchedularStarted ==
    ASSUME PlaceTypes, NEW w \in Requesters, StartSchedular(w)
    PROVE  at'[Observer] = at[Observer] /\ at'[Receiver] = at[Receiver]
BY LifeCycleAssumption
   DEF PlaceTypes, Workers, Requesters, Setters, StartSchedular

\* What the steps of the start, the stop, the requests and FINDME read.
LEMMA LifeKeeps ==
    ASSUME LifeInv, LifeNext
    PROVE  ObserverStarted' /\ BeforeStop' /\ AloneAfterStop'
<1> PlaceTypes /\ StopTypes /\ ObserverStarted /\ BeforeStop /\ AloneAfterStop
  BY LifeTypeParts DEF LifeInv
<1> USE WorkersDiffer
    DEF PlaceTypes, Places, StopTypes, ObserverStarted, BeforeStop, AloneAfterStop,
        Joined, FromObservers, FromReceiver, FromCloud, FromUi, InIotStop,
        AllThreads, Workers, Requesters, Setters, Ended, InCall, Up, statuses,
        locking, stop
<1>1. ASSUME StartSteps
      PROVE  ObserverStarted' /\ BeforeStop' /\ AloneAfterStop'
  <2>1. ObserverStarted' /\ AloneAfterStop'
    BY <1>1, SMT DEF StartSteps, Starting, IotStart, SetIotStatus,
       StartBcastReceiver, CloudStart, StartUI
  <2>2. ASSUME IotStart
        PROVE  BeforeStop'
    BY <2>2, SMT DEF Starting, IotStart
  <2>3. ASSUME SetIotStatus
        PROVE  BeforeStop'
    BY <2>3, SMT DEF Starting, SetIotStatus
  <2>4. ASSUME StartBcastReceiver
        PROVE  BeforeStop'
    BY <2>4, SMT DEF Starting, StartBcastReceiver
  <2>41. ASSUME StartUI
        PROVE  BeforeStop'
    BY <2>41, SMT DEF Starting, StartUI
  <2>5. ASSUME CloudStart
        PROVE  BeforeStop'
    <3>1. /\ main' = "failed" \/ (main' = "ui" /\ Cloud_Status' = TRUE)
          /\ main = "cloud"
          /\ UNCHANGED <<Iot_Status, stopper, stopsOn, freed>>
      BY <2>5, Zenon DEF Starting, CloudStart
    <3>2. at'[Receiver] = at[Receiver] /\ at'[Observer] = at[Observer]
      BY <2>5, SMT DEF CloudStart
    <3>3. QED
      BY <3>1, <3>2, SMT
  <2>6. QED
    BY <1>1, <2>1, <2>2, <2>3, <2>4, <2>41, <2>5, Zenon DEF StartSteps
<1>2. ASSUME NEW t \in AllThreads, Begin(t)
      PROVE  ObserverStarted' /\ BeforeStop' /\ AloneAfterStop'
  <2>1. ObserverStarted' /\ BeforeStop'
    BY <1>2, SMT DEF Begin, Stopping
  <2>2. /\ stopper' \in {"schedular", "cloud"} /\ stopper = "none"
        /\ Iot_Status = TRUE => stopper' = "schedular"
    BY <1>2, Zenon DEF Begin, Stopping
  <2>3. ~overtaken' =>
            /\ \A w \in Requesters : at[w] \notin {"ask"} \cup InCall
            /\ at[Receiver] \in {"none", "point"}
            /\ main \in {"loop", "failed"}
    BY <1>2, Zenon DEF Begin
  <2>4. UNCHANGED <<main, at, Cloud_Status, freed>>
    BY <1>2, Zenon DEF Begin
  <2>5. ~freed
    BY <2>2, Zenon
  <2>6. main = "loop" => stopper' = "schedular" /\ Cloud_Status' = TRUE
    BY <2>2, <2>4, SMT
  <2>7. ASSUME ~overtaken'
        PROVE  AloneAfterStop'
    <3>1. /\ \A w \in Requesters : at'[w] \notin {"ask"} \cup InCall
          /\ at'[Receiver] \in {"none", "point"} \cup Ended
      BY <2>3, <2>4, <2>7, Zenon
    <3>2. main' \in {"loop", "failed"} /\ ~freed'
      BY <2>3, <2>4, <2>5, <2>7, Zenon
    <3>3. QED
      BY <2>2, <2>4, <2>6, <3>1, <3>2, SMT
  <2>8. QED
    BY <2>1, <2>7
<1>3. CASE StopSchedular \/ JoinSchedular \/ StopResObserver
  <2>1. BeforeStop' /\ AloneAfterStop'
    BY <1>3, SMT DEF StopSchedular, JoinSchedular, StopResObserver, Stopping
  <2>2. /\ at'[Observer] = at[Observer] /\ at'[Receiver] = at[Receiver]
    BY <1>3, SchedularPlace, Zenon
       DEF StopSchedular, JoinSchedular, StopResObserver
  <2>3. stopper \in InIotStop
    BY <1>3, SMT DEF StopSchedular, JoinSchedular, StopResObserver, Stopping
  <2>4. QED
    BY <2>1, <2>2, <2>3, SMT
<1>4. CASE StopObserverThread \/ JoinObserver \/ FreeLists
  <2>1. ObserverStarted'
    BY <1>4, SMT DEF StopObserverThread, CancelObserver, JoinObserver,
       FreeLists, Stopping
  <2>2. BeforeStop'
    BY <1>4, SMT DEF StopObserverThread, CancelObserver, JoinObserver,
       FreeLists, Stopping
  <2>3. AloneAfterStop'
    BY <1>4, SMT DEF StopObserverThread, CancelObserver, JoinObserver,
       FreeLists, Stopping
  <2>4. QED
    BY <2>1, <2>2, <2>3
<1>5. CASE StopBcastReceiver \/ JoinReceiver \/ CloudStop \/ JoinConnector
  <2>1. ObserverStarted'
    BY <1>5, SMT DEF StopBcastReceiver, JoinReceiver, CloudStop,
       JoinConnector, Cancel, Join, Stopping
  <2>2. BeforeStop'
    BY <1>5, SMT DEF StopBcastReceiver, JoinReceiver, CloudStop,
       JoinConnector, Cancel, Join, Stopping
  <2>3. AloneAfterStop'
    BY <1>5, SMT DEF StopBcastReceiver, JoinReceiver, CloudStop,
       JoinConnector, Cancel, Join, Stopping
  <2>4. QED
    BY <2>1, <2>2, <2>3
<1>6. CASE StopUi \/ JoinUi \/ Exit
  <2>1. ObserverStarted'
    BY <1>6, SMT DEF StopUi, JoinUi, Exit, Cancel, Join, Stopping
  <2>2. BeforeStop'
    BY <1>6, SMT DEF StopUi, JoinUi, Exit, Cancel, Join, Stopping
  <2>3. AloneAfterStop'
    BY <1>6, SMT DEF StopUi, JoinUi, Exit, Cancel, Join, Stopping
  <2>4. QED
    BY <2>1, <2>2, <2>3
<1>7. ASSUME NEW w \in Requesters \cup {Receiver}, NEW to \in {"ask", "stop"},
             Moves(w, "point", to), Overtaken,
             UNCHANGED <<main, cancelled, statuses, locking, stop>>
      PROVE  ObserverStarted' /\ BeforeStop' /\ AloneAfterStop'
  <2>1. ObserverStarted' /\ BeforeStop'
    BY <1>7, SMT DEF Moves
  <2>2. stopper' = "none" \/ overtaken'
    BY <1>7, Zenon DEF Overtaken
  <2>3. AloneAfterStop'
    BY <2>2
  <2>4. QED
    BY <2>1, <2>3
<1>8. ASSUME NEW w \in Requesters, StartSchedular(w)
      PROVE  ObserverStarted' /\ BeforeStop' /\ AloneAfterStop'
  <2>1. BeforeStop'
    BY <1>8, SMT DEF StartSchedular
  <2>5. stopper = "none" \/ overtaken
    BY <1>8, SMT DEF StartSchedular
  <2>6. stopper' = "none" \/ overtaken'
    BY <1>8, <2>5, Zenon DEF StartSchedular
  <2>7. AloneAfterStop'
    BY <2>6
  <2>2. /\ at'[Observer] = at[Observer] /\ at'[Receiver] = at[Receiver]
    BY <1>8, SchedularStarted, Zenon
  <2>3. /\ stopper' \in InIotStop => stopper \in InIotStop
        /\ UNCHANGED <<main, Iot_Status>>
    BY <1>8, Zenon DEF StartSchedular
  <2>4. QED
    BY <2>1, <2>2, <2>3, <2>7, Zenon
<1>9. ASSUME NEW w \in Workers, Ends(w)
      PROVE  ObserverStarted' /\ BeforeStop' /\ AloneAfterStop'
  <2>1. CASE stopsOn = w
    <3>1. /\ stopper' = "dead"
          /\ UNCHANGED <<main, at, Iot_Status, Cloud_Status, freed, overtaken>>
      BY <1>9, <2>1, Zenon DEF Ends
    <3>2. stopper # "none"
      BY <1>9, <2>1, LifeCycleAssumption, SMT DEF Ends
    <3>3. QED
      BY <3>1, <3>2, SMT
  <2>2. CASE stopsOn # w
    <3>1. /\ at[w] \in {"point", "answer", "join"}
          /\ at' = [at EXCEPT ![w] = "ended"]
          /\ UNCHANGED <<main, statuses, stop, overtaken>>
      BY <1>9, <2>2, Zenon DEF Ends, Waiting
    <3>2. ObserverStarted' /\ BeforeStop'
      BY <3>1, SMT
    <3>3. ASSUME stopper' # "none" /\ ~overtaken'
          PROVE  AloneAfterStop'
      <4>1. stopper # "none" /\ ~overtaken
        BY <3>1, <3>3, Zenon
      <4>2. \A v \in Workers : at'[v] = at[v] \/ at'[v] = "ended"
        BY <3>1, SMT
      <4>3. \A v \in Workers : at[v] \in {"none", "joined"} => at'[v] = at[v]
        BY <3>1, SMT
      <4>4. QED
        BY <3>1, <4>1, <4>2, <4>3, SMT
    <3>4. AloneAfterStop'
      BY <3>3
    <3>5. QED
      BY <3>2, <3>4
  <2>3. QED
    BY <2>1, <2>2
<1>10. CASE ReceiverCancels
  <2>1. ObserverStarted' /\ BeforeStop'
    BY <1>10, SMT DEF ReceiverCancels, CancelObserver, Moves
  <2>2. overtaken \/ stopper = "none"
    BY <1>10, SMT DEF ReceiverCancels, Moves
  <2>3. stopper = "none" => stopper' = "none"
    BY <1>10, SMT DEF ReceiverCancels, CancelObserver, Moves
  <2>4. overtaken => overtaken'
    BY <1>10, Zenon DEF ReceiverCancels
  <2>5. QED
    BY <2>1, <2>2, <2>3, <2>4
<1>11. CASE ReceiverJoins \/ FindResource
  BY <1>11, SMT DEF ReceiverJoins, FindResource, Moves
<1>12. CASE StartObserver
  BY <1>12, SMT DEF StartObserver
<1> HIDE DEF ObserverStarted, BeforeStop, AloneAfterStop
<1>13. CASE StopSteps
  BY <1>2, <1>3, <1>4, <1>5, <1>6, <1>13, Zenon DEF StopSteps, StartFailed
<1>14. CASE Findme \/ \E w \in Requesters : AskIot(w)
  BY <1>7, <1>14, Zenon DEF Findme, AskIot
<1>15. ASSUME NEW w \in Workers, ThreadSteps(w)
       PROVE  ObserverStarted' /\ BeforeStop' /\ AloneAfterStop'
  BY <1>9, <1>10, <1>11, <1>12, <1>15, WorkKeeps, Zenon
     DEF ThreadSteps, ReceiverSteps
<1>16. QED
  BY <1>1, <1>2, <1>8, <1>13, <1>14, <1>15, WorkKeeps, Zenon
     DEF LifeNext, Sigsegv

LEMMA LifeInitInv == LifeInit => LifeInv
BY LifeTypeInit, LifeCycleAssumption
   DEF LifeInit, LifeInv, ObserverStarted, BeforeStop, AloneAfterStop, Workers,
       InIotStop, Joined

LEMMA LifeInductive == LifeInv /\ [LifeNext]_lifeVars => LifeInv'
<1>1. ASSUME LifeInv, LifeNext
      PROVE  LifeInv'
  <2>1. LifeTypeOK'
    BY <1>1, LifeTypeParts, LifeTypePartsNext, PlaceTypesStep, LockTypesStep,
       StopTypesStep, FlagTypesStep DEF LifeInv
  <2>2. QED
    BY <1>1, <2>1, LifeKeeps DEF LifeInv
<1>2. ASSUME LifeInv, UNCHANGED lifeVars
      PROVE  LifeInv'
  <2>1. /\ UNCHANGED <<main, at, cancelled, Iot_Status, Cloud_Status>>
        /\ UNCHANGED <<locks, abandoned, stopper, stopsOn, freed, overtaken>>
    BY <1>2, Zenon DEF lifeVars, statuses, locking, stop
  <2>2. LifeTypeOK'
    BY <1>2, <2>1, ZenonT(40) DEF LifeInv, LifeTypeOK
  <2>3. ObserverStarted' /\ BeforeStop'
    BY <1>2, <2>1, Zenon DEF LifeInv, ObserverStarted, BeforeStop, Joined
  <2>4. AloneAfterStop'
    BY <1>2, <2>1, Zenon DEF LifeInv, AloneAfterStop, Joined
  <2>5. QED
    BY <2>2, <2>3, <2>4 DEF LifeInv
<1>3. QED
  BY <1>1, <1>2

LEMMA LifeInvStopSafe == LifeInv => StopSafe
BY LifeCycleAssumption
   DEF LifeInv, BeforeStop, AloneAfterStop, StopSafe, FreedUnused, NothingRunsAtExit,
       Joined, FromReceiver, FromCloud, FromUi, Workers, Requesters, Ended,
       InCall

(* The threads, locks and the stop of the gateway keep to their ranges: no *)
(* lock is held by two threads, none is held and abandoned, and only a     *)
(* thread that has been created is cancelled.                              *)
THEOREM LifeTypeCorrect == LifeSpec => []LifeTypeOK
<1>1. LifeInv => LifeTypeOK
  BY DEF LifeInv
<1>2. QED
  BY <1>1, LifeInitInv, LifeInductive, PTL DEF LifeSpec

(* SystemStop, or the handler of a signal, that nothing met: once the list *)
(* is freed nobody uses it, and at the exit of a system that had started   *)
(* no thread of it runs.                                                   *)
THEOREM StopLeavesNothing == LifeSpec => []StopSafe
BY LifeInitInv, LifeInductive, LifeInvStopSafe, PTL DEF LifeSpec
-----------------------------------------------------------------------------
(* FileService.                                                            *)

\* What is open for the service and for the platform.
HandleInv ==
    /\ handle = "open" => IsOpen /\ demand.op # "rm"
    /\ handle = "open" /\ phase = "response" => demand.op \in {"get", "ls"}
    /\ handle = "open" /\ demand.op = "ls" => context.dir
    /\ handle = "open" /\ phase = "over" => "leak" \in slips

\* Nothing is there before the first message, and no answer before the last.
FreshInv ==
    /\ phase \in {"none", "request"} => buffer = <<>> /\ reply = <<>>
    /\ phase = "none" => slips = {} /\ handle = "none" /\ position = 0
                         /\ disk = Old
    /\ phase # "over" => answer = "none"
    /\ answer = "ok" => Fine

\* An entry of the directory is at hand.
ListInv ==
    demand.op = "ls" =>
        /\ buffer = <<>>
        /\ context.state \in {"readdir", "stat_dir_entry"} =>
               context.done < FileLength
        /\ phase = "request" =>
               /\ context.done = 0 /\ ~context.last
               /\ context.state = "stat" => context.dir
        /\ context.last => context.done = FileLength
        /\ phase = "response" /\ context.dir =>
               reply = [i \in 1 .. context.done |-> i]
        /\ answer = "ok" =>
               reply = [i \in 1 .. (IF context.dir THEN FileLength ELSE 1)
                            |-> i]

\* What is written is in the file or follows it, until the file is cut.
PositionInv ==
    /\ context.state = "none" => handle = "none"
    /\ In({"put"}, "request") =>
           /\ context.state = "lseek1" =>
                  context.offset <= Len(disk) /\ position <= Len(disk)
           /\ context.state = "lseek" =>
                  \/ position <= Len(disk)
                  \/ Remaining = 0 /\ context.block = LastBlock
                     /\ ~context.trunc

\* A request that is as the cloud sent it.
Begun ==
    /\ context.block = 1 /\ context.done = 0 /\ ~context.last
    /\ context.offset = demand.offset /\ disk = Old

\* The file with n units of the put.
OldLength(d) == IF d.trunc /\ d.offset = 0 THEN 0 ELSE FileLength
Image(d, n) ==
    [i \in 1 .. (IF OldLength(d) < d.offset + n THEN d.offset + n
                 ELSE OldLength(d))
        |-> IF i \in d.offset + 1 .. d.offset + n
            THEN i - d.offset ELSE FileLength + i]
ImageOf(n) == demand.offset <= FileLength /\ disk = Image(demand, n)

PutStory ==
    demand.op = "put" =>
        /\ phase = "request" /\ Fine =>
               /\ context.state \in
                      {"none", "open", "lseek1", "lseek", "closing"}
               /\ context.state = "none" =>
                      position = 0 /\ Begun /\ context.trunc = demand.trunc
               /\ context.state \in {"open", "lseek1"} =>
                      demand.offset # 0 /\ Begun /\ handle = "open"
               /\ context.state = "lseek1" => demand.offset <= FileLength
               /\ context.state = "lseek" =>
                      LET n == Before(context.block) + context.done IN
                      /\ position = demand.offset + n
                      /\ context.offset = demand.offset + n
                      /\ n <= FileLength /\ ImageOf(n) /\ handle = "open"
               /\ context.state = "closing" => ImageOf(FileLength)
        /\ phase = "response" /\ Fine => ImageOf(FileLength)
        /\ answer = "ok" => ImageOf(FileLength)

\* p and q are the first n units that a get was asked for.
SentTo(d, p, q, n) ==
    /\ Len(p) + Len(q) = n
    /\ \A i \in 1 .. Len(p) : p[i] = FileLength + d.offset + i
    /\ \A i \in 1 .. Len(q) : q[i] = FileLength + d.offset + Len(p) + i

GetStory ==
    demand.op = "get" =>
        /\ phase = "request" /\ Fine =>
               context.state = "none" /\ position = 0 /\ Begun
        /\ phase = "response" /\ Fine =>
               /\ disk = Old
               /\ context.state \in {"open", "lseek1", "lseek", "closing"}
               /\ context.state \in {"open", "lseek1"} =>
                      Begun /\ buffer = <<>> /\ reply = <<>> /\ handle = "open"
               /\ context.state = "lseek1" => demand.offset <= FileLength
               /\ context.state \in {"lseek", "closing"} =>
                      /\ SentTo(demand, reply, buffer, context.done)
                      /\ demand.offset + context.done <= FileLength
                      /\ context.last =>
                             demand.offset + context.done = FileLength
               /\ context.state = "lseek" =>
                      /\ position = demand.offset + context.done
                      /\ handle = "open"
        /\ answer = "ok" =>
               /\ disk = Old /\ buffer = <<>> /\ demand.offset <= FileLength
               /\ SentTo(demand, reply, <<>>, FileLength - demand.offset)

RemoveStory ==
    demand.op = "rm" =>
        /\ phase = "response" /\ Fine => disk = <<>>
        /\ answer = "ok" => disk = <<>>

Straightforward == slips \cap {"path", "seek", "again"} = {}
StoryInv == Straightforward => PutStory /\ GetStory /\ RemoveStory

WorkInv == HandleInv /\ FreshInv /\ ListInv /\ PositionInv /\ StoryInv
SessionInv == FileTypeOK /\ WorkInv
-----------------------------------------------------------------------------
FileStates == {"none", "stat", "open", "lseek1", "lseek", "readdir",
               "stat_dir_entry", "closing", "closed"}
Numbers == 1 .. LastBlock
Counts == 0 .. FileLength
Contexts == [state : FileStates, errnum : BOOLEAN, dir : BOOLEAN,
             block : Numbers, done : Counts, offset : Nat,
             trunc : BOOLEAN, last : BOOLEAN, started : BOOLEAN]
DiskTypes ==
    /\ disk \in Seq(Nat) /\ position \in Nat
    /\ handle \in {"none", "open", "closed"}
SentTypes ==
    /\ buffer \in Seq(Nat) /\ reply \in Seq(Nat)
    /\ answer \in {"none", "ok", "error", "cancel"}
CallTypes == busy \in 0 .. MaxBusy /\ failed \in 0 .. MaxFailed
SlipTypes == slips \subseteq {"path", "seek", "again", "leak"}
PhaseTypes ==
    /\ phase \in {"none", "request", "response", "cancel", "drop", "over"}
    /\ demand \in Demands

LEMMA FileTypes ==
    FileTypeOK <=> /\ PhaseTypes /\ context \in Contexts /\ DiskTypes
                   /\ SentTypes /\ CallTypes /\ SlipTypes
BY Zenon DEF FileTypeOK, PhaseTypes, Contexts, FileStates, Numbers, Counts,
   DiskTypes, SentTypes, CallTypes, SlipTypes

LEMMA FileTypesNext ==
    ASSUME PhaseTypes', context' \in Contexts, DiskTypes', SentTypes',
           CallTypes', SlipTypes'
    PROVE  FileTypeOK'
BY Zenon DEF FileTypeOK, PhaseTypes, Contexts, FileStates, Numbers, Counts,
   DiskTypes, SentTypes, CallTypes, SlipTypes

LEMMA ServiceBounds ==
    /\ FileLength \in Nat /\ FileLength >= 1
    /\ BlockSize \in Nat /\ BlockSize >= 1
    /\ MaxBusy \in Nat /\ MaxFailed \in Nat
BY FileServiceAssumption

\* The blocks of the file that is put.
LEMMA BlocksFit ==
    /\ LastBlock \in Nat /\ LastBlock >= 1
    /\ \A b \in 1 .. LastBlock :
           Before(b) \in Nat /\ Before(b) < FileLength
    /\ \A b \in 1 .. LastBlock :
           b < LastBlock => Before(b + 1) = Before(b) + BlockSize
                            /\ Before(b) + BlockSize < FileLength
    /\ Before(LastBlock) + BlockSize >= FileLength
    /\ Before(1) = 0
<1> DEFINE q == LastBlock
           m == FileLength + BlockSize - 1
<1>1. q \in Nat /\ BlockSize * q <= m /\ m < BlockSize * q + BlockSize
  BY ServiceBounds DEF LastBlock
<1>2. q >= 1
  BY <1>1, ServiceBounds
<1>3. QED
  BY <1>1, <1>2, ServiceBounds DEF Before

LEMMA ContextFields ==
    ASSUME NEW c \in Contexts
    PROVE  /\ c.state \in FileStates /\ c.errnum \in BOOLEAN /\ c.dir \in BOOLEAN
           /\ c.block \in 1 .. LastBlock /\ c.done \in 0 .. FileLength
           /\ c.offset \in Nat /\ c.trunc \in BOOLEAN /\ c.last \in BOOLEAN
           /\ c.started \in BOOLEAN
BY DEF Contexts, Numbers, Counts

LEMMA NewContexts ==
    ASSUME NEW d, d.offset \in Nat, d.trunc \in BOOLEAN
    PROVE  NewContext(d) \in Contexts
<1>1. 0 \in Counts /\ 1 \in Numbers
  BY BlocksFit, ServiceBounds DEF Counts, Numbers
<1>2. QED
  BY <1>1 DEF NewContext, Contexts, FileStates

LEMMA DemandFields ==
    ASSUME NEW d \in Demands
    PROVE  /\ d.op \in {"get", "put", "rm", "ls"} /\ d.offset \in Offsets
           /\ d.offset \in Nat /\ d.trunc \in BOOLEAN /\ d.long \in BOOLEAN
BY ServiceBounds DEF Demands, Offsets
-----------------------------------------------------------------------------
\* What each step of the service leaves alone, and what it counts.
LEMMA Counted ==
    ASSUME CallTypes, FileNext
    PROVE  CallTypes'
<1>1. UNCHANGED calls => CallTypes'
  BY DEF calls, CallTypes
<1>2. busy' = busy + 1 /\ busy < MaxBusy /\ UNCHANGED failed => CallTypes'
  BY ServiceBounds DEF CallTypes
<1>3. failed' = failed + 1 /\ failed < MaxFailed /\ UNCHANGED busy
          => CallTypes'
  BY ServiceBounds DEF CallTypes
<1>4. CASE \/ ReceiveDemand \/ NextBlock \/ NothingToClose \/ RespondNoData
           \/ SendMessage
  BY <1>1, <1>4 DEF ReceiveDemand, NextBlock, NothingToClose, RespondNoData,
                    SendMessage
<1>5. CASE OpenFile \/ SeekEnd \/ SeekSet \/ WriteBlock
  BY <1>1, <1>2, <1>3, <1>5, Zenon
     DEF OpenFile, SeekEnd, SeekSet, WriteBlock, Call
<1>6. CASE Truncate \/ ClosePut \/ RemoveFile \/ ReadFile
  BY <1>1, <1>2, <1>3, <1>6, Zenon
     DEF Truncate, ClosePut, RemoveFile, ReadFile, Call
<1>7. CASE GetClose
  BY <1>1, <1>2, <1>3, <1>7, Zenon DEF GetClose, Call
<1>8. CASE Stat \/ OpenDir \/ ListFile \/ ReadDir \/ StatDirEntry \/ HashEntry
  BY <1>1, <1>2, <1>3, <1>8, Zenon
     DEF Stat, OpenDir, ListFile, ReadDir, StatDirEntry, HashEntry, Call
<1>9. CASE Interrupt
  BY <1>3, <1>9, Zenon DEF Interrupt
<1>10. CASE CancelClose
  BY <1>1, <1>2, <1>3, <1>10, Zenon DEF CancelClose, Call
<1>11. QED
  BY <1>4, <1>5, <1>6, <1>7, <1>8, <1>9, <1>10, Zenon DEF FileNext

LEMMA DemandTypes ==
    ASSUME FileTypeOK, ReceiveDemand
    PROVE  FileTypeOK'
<1>1. /\ PhaseTypes /\ DiskTypes /\ SentTypes /\ CallTypes /\ SlipTypes
  BY FileTypes
<1>2. NewContext(demand') \in Contexts
  <2>1. demand' \in Demands
    BY DEF ReceiveDemand
  <2>2. demand'.offset \in Nat /\ demand'.trunc \in BOOLEAN
    BY <2>1, DemandFields
  <2>3. QED
    BY <2>2, NewContexts
<1>3. /\ demand' \in Demands /\ phase' \in {"request", "response"}
      /\ slips' = slips \/ slips' = {"path"}
      /\ UNCHANGED <<file_open, sent, calls>>
  BY DEF ReceiveDemand
<1>4. context' \in Contexts
  <2>1. CASE context' = NewContext(demand')
    BY <1>2, <2>1
  <2>2. CASE /\ LastBlock > 1
             /\ context' = [NewContext(demand') EXCEPT !.block = 2,
                                                      !.trunc = FALSE]
    <3>1. 2 \in Numbers
      BY <2>2, BlocksFit DEF Numbers
    <3>2. QED
      BY <1>2, <2>2, <3>1 DEF Contexts
  <2>3. CASE context' = [NewContext(demand') EXCEPT !.state = "lseek"]
    BY <1>2, <2>3 DEF Contexts, FileStates
  <2>4. QED
    BY <2>1, <2>2, <2>3 DEF ReceiveDemand
<1>5. DiskTypes' /\ SentTypes' /\ CallTypes' /\ SlipTypes' /\ PhaseTypes'
  BY <1>1, <1>3 DEF DiskTypes, SentTypes, CallTypes, SlipTypes, PhaseTypes,
                    file_open, sent, calls
<1>6. QED
  BY <1>4, <1>5, FileTypesNext

LEMMA ContextsKept ==
    ASSUME FileTypeOK, ListInv, FileNext, ~ReceiveDemand
    PROVE  context' \in Contexts
<1>1. context \in Contexts /\ demand.offset \in Nat /\ demand.trunc \in BOOLEAN
  BY FileTypes, DemandFields DEF PhaseTypes
<1>2. ASSUME NEW c \in Contexts
      PROVE  Again(c) \in Contexts /\ Wrong(c) \in Contexts
  BY <1>1, <1>2 DEF Again, Wrong, Contexts
<1>3. ASSUME NEW c \in Contexts, NEW s \in FileStates
      PROVE  [c EXCEPT !.state = s] \in Contexts
  BY <1>3 DEF Contexts
<1>4. CASE OpenFile
  <2>1. PICK c :
          /\ \/ c = [context EXCEPT !.trunc = TRUE]
             \/ c = [context EXCEPT !.trunc = FALSE]
          /\ \/ \E s \in {"lseek", "open"} : context' = [c EXCEPT !.state = s]
             \/ context' = Again(c)
             \/ context' = Wrong([c EXCEPT !.state = "closed"])
    <3> DEFINE e == demand.op = "put" /\ context.trunc /\ context.offset = 0
               d == [context EXCEPT !.trunc = @ /\ ~e]
    <3>1. \/ context' = [d EXCEPT !.state = IF d.offset = 0 THEN "lseek"
                                                           ELSE "open"]
          \/ context' = Again(d)
          \/ context' = Wrong([d EXCEPT !.state = "closed"])
      BY <1>4 DEF OpenFile, Call
    <3>2. \/ d = [context EXCEPT !.trunc = TRUE]
          \/ d = [context EXCEPT !.trunc = FALSE]
      BY <1>1, ContextFields
    <3> HIDE DEF d
    <3>3. QED
      BY <3>1, <3>2
  <2>2. c \in Contexts
    BY <1>1, <2>1 DEF Contexts
  <2>3. QED
    BY <1>1, <1>2, <1>3, <2>1, <2>2 DEF FileStates
<1>5. CASE SeekEnd
  <2>1. \/ context' \in {Wrong(context), Again(context)}
        \/ context' = [context EXCEPT !.state = "lseek1"]
    BY <1>5 DEF SeekEnd, Call
  <2>2. QED
    BY <1>1, <1>2, <1>3, <2>1 DEF FileStates
<1>6. CASE SeekSet
  <2>1. LET c == [context EXCEPT !.state = "lseek"] IN
        context' \in {Wrong(context), Again(c), c}
    BY <1>6 DEF SeekSet, Call
  <2>2. QED
    BY <1>1, <1>2, <1>3, <2>1 DEF FileStates
<1>7. CASE WriteBlock
  <2>1. \/ context' \in {Wrong(context), Again(context)}
        \/ \E n \in 1 .. Remaining :
               context' = [context EXCEPT !.done = @ + n, !.offset = @ + n]
    BY <1>7 DEF WriteBlock, Call
  <2>2. \A n \in 1 .. Remaining : context.done + n \in 0 .. FileLength
    BY <1>1, BlocksFit, ServiceBounds, ContextFields DEF Remaining, Smaller
  <2>3. ASSUME NEW n \in 1 .. Remaining
        PROVE  [context EXCEPT !.done = @ + n, !.offset = @ + n] \in Contexts
    <3>1. context.offset + n \in Nat /\ context.done + n \in Counts
      BY <2>2, BlocksFit, ServiceBounds, ContextFields, <1>1
         DEF Remaining, Smaller, Counts
    <3>2. QED
      BY <1>1, <3>1 DEF Contexts
  <2>4. QED
    BY <1>1, <1>2, <2>1, <2>3
<1>8. CASE NextBlock
  <2>1. context.block + 1 \in Numbers /\ 0 \in Counts
    BY <1>1, <1>8, BlocksFit, ServiceBounds, ContextFields
       DEF NextBlock, Numbers, Counts
  <2>2. context' = [context EXCEPT !.block = @ + 1, !.done = 0]
    BY <1>8 DEF NextBlock
  <2>3. QED
    BY <1>1, <2>1, <2>2 DEF Contexts
<1>9. CASE Truncate
  <2>1. \/ context' = [context EXCEPT !.trunc = FALSE]
        \/ context' = Again([context EXCEPT !.done = 0])
        \/ context' = Wrong([context EXCEPT !.trunc = FALSE])
    BY <1>9 DEF Truncate, Call
  <2>2. /\ [context EXCEPT !.trunc = FALSE] \in Contexts
        /\ [context EXCEPT !.done = 0] \in Contexts
    <3>1. 0 \in Counts
      BY ServiceBounds DEF Counts
    <3>2. QED
      BY <1>1, <3>1 DEF Contexts
  <2>3. QED
    BY <1>2, <2>1, <2>2
<1>10. CASE ClosePut
  <2>1. \/ \E s \in {"closed", "closing"} :
               context' = [context EXCEPT !.state = s]
        \/ context' = Wrong([context EXCEPT !.state = "closed"])
    BY <1>10 DEF ClosePut, Call, Closes
  <2>2. QED
    BY <1>1, <1>2, <1>3, <2>1 DEF FileStates
<1>11. CASE RemoveFile \/ ListFile
  <2>1. context' \in {context, Wrong(context)}
    BY <1>11 DEF RemoveFile, ListFile, Call
  <2>2. QED
    BY <1>1, <1>2, <2>1
<1>12. CASE \/ NothingToClose \/ RespondNoData \/ Interrupt
  BY <1>1, <1>12 DEF NothingToClose, RespondNoData, Interrupt
<1>13. CASE ReadFile
  <2>1. PICK most :
          /\ most = Smaller(Smaller(BlockSize - Len(buffer),
                                    FileLength - context.done), Readable)
          /\ \/ context' = [context EXCEPT !.last = TRUE]
             \/ context' = [context EXCEPT !.started = @ \/ buffer # <<>>]
             \/ context' = Wrong(context)
             \/ \E n \in 1 .. most :
                    context' = [context EXCEPT !.done = @ + n]
    BY <1>13 DEF ReadFile, Call, SendBuffer
  <2>2. /\ [context EXCEPT !.last = TRUE] \in Contexts
        /\ [context EXCEPT !.started = @ \/ buffer # <<>>] \in Contexts
    BY <1>1 DEF Contexts
  <2>3. Len(buffer) \in Nat /\ Readable \in Nat
    BY FileTypes DEF SentTypes, DiskTypes, Readable
  <2>4. \A n \in 1 .. most : context.done + n \in Counts
    BY <1>1, <2>1, <2>3, ServiceBounds, ContextFields, SMTT(40) DEF Smaller, Counts
  <2>5. \A n \in 1 .. most : [context EXCEPT !.done = @ + n] \in Contexts
    BY <1>1, <2>4 DEF Contexts
  <2>6. QED
    BY <1>1, <1>2, <2>1, <2>2, <2>5
<1>14. CASE SendMessage
  BY <1>1, <1>14 DEF SendMessage, Contexts
<1>15. CASE GetClose
  <2>1. \/ context' = context
        \/ context' = [context EXCEPT !.state = "closed"]
        \/ context' = Wrong([context EXCEPT !.state = "closed"])
        \/ context' = [context EXCEPT !.state = "closing",
                                      !.started = @ \/ Fine]
    BY <1>15 DEF GetClose, Call, Closes
  <2>2. [context EXCEPT !.state = "closing", !.started = @ \/ Fine] \in Contexts
    BY <1>1 DEF Contexts, FileStates
  <2>3. QED
    BY <1>1, <1>2, <1>3, <2>1, <2>2 DEF FileStates
<1>16. CASE Stat
  <2>1. \/ context' \in {context, Wrong(context)}
        \/ \E d \in BOOLEAN :
               context' = [context EXCEPT !.state = "stat", !.dir = d]
    BY <1>16 DEF Stat, Stats, Call
  <2>2. QED
    BY <1>1, <1>2, <2>1 DEF Contexts, FileStates
<1>17. CASE OpenDir
  <2>1. \/ context' \in {context, Wrong(context)}
        \/ context' = [context EXCEPT !.state = "open"]
    BY <1>17 DEF OpenDir, OpensDir, Call
  <2>2. QED
    BY <1>1, <1>2, <1>3, <2>1 DEF FileStates
<1>18. CASE ReadDir \/ StatDirEntry
  <2>1. \/ context' \in {context, Wrong(context)}
        \/ context' = [context EXCEPT !.last = TRUE]
        \/ \E s \in {"readdir", "stat_dir_entry"} :
               context' = [context EXCEPT !.state = s]
    BY <1>18 DEF ReadDir, StatDirEntry, NextEntry, Call
  <2>2. [context EXCEPT !.last = TRUE] \in Contexts
    BY <1>1 DEF Contexts
  <2>3. QED
    BY <1>1, <1>2, <1>3, <2>1, <2>2 DEF FileStates
<1>19. CASE HashEntry
  <2>1. \/ context' \in {context, Wrong(context)}
        \/ context' = [context EXCEPT !.state = "open", !.done = @ + 1,
                                      !.started = TRUE]
    BY <1>19 DEF HashEntry, Call
  <2>2. context.done + 1 \in Counts
    BY <1>1, <1>19, ContextFields, ServiceBounds
       DEF ListInv, HashEntry, Listing, In, Counts
  <2>3. QED
    BY <1>1, <1>2, <2>1, <2>2 DEF Contexts, FileStates
<1>20. CASE CancelClose
  <2>1. \/ context' = context
        \/ \E s \in {"closing", "closed"} :
               context' = [context EXCEPT !.state = s]
        \/ context' = Wrong([context EXCEPT !.state = "closed"])
    BY <1>20 DEF CancelClose, Call, Closes
  <2>2. QED
    BY <1>1, <1>2, <1>3, <2>1 DEF FileStates
<1>21. QED
  BY <1>4, <1>5, <1>6, <1>7, <1>8, <1>9, <1>10, <1>11, <1>12, <1>13, <1>14,
     <1>15, <1>16, <1>17, <1>18, <1>19, <1>20, Zenon DEF FileNext
-----------------------------------------------------------------------------
\* The file and the messages stay sequences of units.
LEMMA PartOf ==
    ASSUME NEW s \in Seq(Nat), NEW p \in Nat, NEW n \in Nat, p + n <= Len(s)
    PROVE  /\ SubSeq(s, p + 1, p + n) \in Seq(Nat)
           /\ Len(SubSeq(s, p + 1, p + n)) = n
           /\ \A i \in 1 .. n : SubSeq(s, p + 1, p + n)[i] = s[p + i]
OBVIOUS

LEMMA Joined2 ==
    ASSUME NEW s \in Seq(Nat), NEW t \in Seq(Nat)
    PROVE  /\ s \o t \in Seq(Nat) /\ Len(s \o t) = Len(s) + Len(t)
           /\ \A i \in 1 .. Len(s) : (s \o t)[i] = s[i]
           /\ \A i \in 1 .. Len(t) : (s \o t)[Len(s) + i] = t[i]
OBVIOUS

LEMMA NoUnits ==
    /\ <<>> \in Seq(Nat) /\ Len(<<>>) = 0
    /\ \A n \in Nat : <<n>> \in Seq(Nat) /\ Len(<<n>>) = 1 /\ <<n>>[1] = n
OBVIOUS

LEMMA WrittenLength ==
    ASSUME DiskTypes, context \in Contexts, NEW n \in Nat,
           position <= Len(disk)
    PROVE  /\ Written(n) \in Seq(Nat)
           /\ Len(Written(n)) = IF Len(disk) < position + n THEN position + n
                                                            ELSE Len(disk)
<1> DEFINE k == IF Len(disk) < position + n THEN position + n ELSE Len(disk)
           unit(i) == IF i \in position + 1 .. position + n
                    THEN Before(context.block) + context.done + i - position
                    ELSE disk[i]
<1>1. k \in Nat /\ n \in Nat
  BY DEF DiskTypes
<1>2. \A i \in 1 .. k : unit(i) \in Nat
  <2>1. Before(context.block) \in Nat /\ context.done \in Nat
    BY BlocksFit, ContextFields
  <2>2. disk \in Seq(Nat) /\ position \in Nat
    BY DEF DiskTypes
  <2>3. ASSUME NEW i \in 1 .. k, i \in position + 1 .. position + n
        PROVE  unit(i) \in Nat
    BY <1>1, <2>1, <2>2, <2>3
  <2>4. ASSUME NEW i \in 1 .. k, i \notin position + 1 .. position + n
        PROVE  unit(i) \in Nat
    <3>1. i \in 1 .. Len(disk)
      BY <1>1, <2>2, <2>4
    <3>2. disk[i] \in Nat
      BY <2>2, <3>1
    <3>3. QED
      BY <2>4, <3>2
  <2>5. QED
    BY <2>3, <2>4
<1>3. Written(n) = [i \in 1 .. k |-> unit(i)]
  BY DEF Written
<1> HIDE DEF k, unit
<1>4. [i \in 1 .. k |-> unit(i)] \in Seq(Nat)
  BY <1>1, <1>2
<1>5. Len([i \in 1 .. k |-> unit(i)]) = k
  BY <1>1
<1>6. QED
  BY <1>3, <1>4, <1>5 DEF k

LEMMA CutsLength ==
    ASSUME disk \in Seq(Nat), NEW n \in Nat, Cuts(n)
    PROVE  disk' \in Seq(Nat) /\ Len(disk') = n
BY DEF Cuts

LEMMA OldType == Old \in Seq(Nat) /\ Len(Old) = FileLength
BY ServiceBounds DEF Old

LEMMA DiskKept ==
    ASSUME FileTypeOK, PositionInv, FileNext
    PROVE  DiskTypes'
<1>1. DiskTypes /\ context \in Contexts /\ SentTypes
  BY FileTypes
<1>2. UNCHANGED file_open => DiskTypes'
  BY <1>1 DEF DiskTypes, file_open
<1>3. UNCHANGED <<disk, position>> /\ handle' \in {"none", "open", "closed"}
          => DiskTypes'
  BY <1>1 DEF DiskTypes
<1>4. CASE \/ ReceiveDemand \/ NextBlock \/ NothingToClose \/ RespondNoData
           \/ SendMessage \/ Stat \/ ListFile \/ ReadDir \/ StatDirEntry
           \/ HashEntry \/ Interrupt
  BY <1>2, <1>4, Zenon
     DEF ReceiveDemand, NextBlock, NothingToClose, RespondNoData,
         SendMessage, Stat, ListFile, ReadDir, StatDirEntry, HashEntry,
         Interrupt
<1>5. CASE OpenFile
  <2>1. \/ UNCHANGED file_open
        \/ handle' = "open" /\ position' = 0 /\ disk' \in {<<>>, disk}
    BY <1>5 DEF OpenFile, Call, Opens
  <2>2. ASSUME handle' = "open", position' = 0, disk' \in {<<>>, disk}
        PROVE  DiskTypes'
    <3>1. disk' \in Seq(Nat)
      BY <1>1, <2>2, NoUnits DEF DiskTypes
    <3>2. QED
      BY <2>2, <3>1 DEF DiskTypes
  <2>3. QED
    BY <1>2, <2>1, <2>2
<1>6. CASE SeekEnd \/ SeekSet
  <2>1. /\ UNCHANGED <<disk, handle>>
        /\ position' \in {position, Len(disk), context.offset}
    BY <1>6 DEF SeekEnd, SeekSet, Call, Seeks
  <2>2. context.offset \in Nat
    BY <1>1, ContextFields
  <2>3. QED
    BY <1>1, <2>1, <2>2 DEF DiskTypes
<1>7. CASE WriteBlock
  <2>1. \/ UNCHANGED file_open
        \/ \E n \in 1 .. Remaining :
               /\ disk' = Written(n) /\ position' = position + n
               /\ handle # "none" /\ UNCHANGED handle
    BY <1>7 DEF WriteBlock, Call, file_open
  <2>2. ASSUME NEW n \in 1 .. Remaining, disk' = Written(n),
               position' = position + n, handle # "none", UNCHANGED handle
        PROVE  DiskTypes'
    <3>1. position <= Len(disk)
      <4>1. /\ In({"put"}, "request") /\ context.state \in {"none", "lseek"}
            /\ Remaining > 0
        BY <1>7 DEF WriteBlock, Writing
      <4>2. context.state = "lseek"
        BY <2>2, <4>1 DEF PositionInv
      <4>3. Remaining # 0
        BY <4>1
      <4>4. QED
        BY <4>1, <4>2, <4>3 DEF PositionInv
    <3>2. n \in Nat
      OBVIOUS
    <3>3. QED
      BY <1>1, <2>2, <3>1, <3>2, WrittenLength DEF DiskTypes
  <2>3. QED
    BY <1>2, <2>1, <2>2
<1>8. CASE Truncate
  <2>1. UNCHANGED disk \/ Cuts(context.offset)
    BY <1>8 DEF Truncate, Call
  <2>2. UNCHANGED <<position, handle>>
    BY <1>8 DEF Truncate
  <2>3. context.offset \in Nat
    BY <1>1, ContextFields
  <2>4. QED
    BY <1>1, <2>1, <2>2, <2>3, CutsLength DEF DiskTypes
<1>9. CASE ClosePut \/ GetClose \/ CancelClose
  <2>1. /\ UNCHANGED <<disk, position>>
        /\ handle' \in {handle, "closed"}
    BY <1>9 DEF ClosePut, GetClose, CancelClose, Call, Closes
  <2>2. QED
    BY <1>1, <1>3, <2>1 DEF DiskTypes
<1>10. CASE RemoveFile
  <2>1. UNCHANGED <<position, handle>> /\ disk' \in {disk, <<>>}
    BY <1>10 DEF RemoveFile, Removes, Call
  <2>2. QED
    BY <1>1, <2>1, NoUnits DEF DiskTypes
<1>11. CASE ReadFile
  <2>1. UNCHANGED <<disk, handle>>
    BY <1>11 DEF ReadFile
  <2>2. PICK most :
          /\ most = Smaller(Smaller(BlockSize - Len(buffer),
                                    FileLength - context.done), Readable)
          /\ \/ UNCHANGED position
             \/ \E n \in 1 .. most : position' = position + n
    BY <1>11 DEF ReadFile, Call, Reads
  <2>3. position' \in Nat
    BY <1>1, <2>2 DEF DiskTypes
  <2>4. QED
    BY <1>1, <2>1, <2>3 DEF DiskTypes
<1>12. CASE OpenDir
  BY <1>1, <1>3, <1>12 DEF OpenDir, OpensDir, Call, DiskTypes
<1>13. QED
  BY <1>4, <1>5, <1>6, <1>7, <1>8, <1>9, <1>10, <1>11, <1>12, Zenon
     DEF FileNext

LEMMA SentKept ==
    ASSUME FileTypeOK, FileNext
    PROVE  SentTypes'
<1>1. SentTypes /\ DiskTypes /\ context \in Contexts
  BY FileTypes
<1>2. UNCHANGED sent => SentTypes'
  BY <1>1 DEF SentTypes, sent
<1>3. SendBuffer => reply' \in Seq(Nat) /\ buffer' \in Seq(Nat)
  BY <1>1, Joined2 DEF SendBuffer, SentTypes
<1>4. \A c : Finish(c) => SentTypes'
  BY <1>1, <1>3 DEF Finish, Over, SentTypes
<1>5. CASE \/ ReceiveDemand \/ OpenFile \/ SeekEnd \/ SeekSet \/ WriteBlock
           \/ NextBlock \/ Truncate \/ ClosePut \/ NothingToClose
           \/ RemoveFile \/ Stat \/ OpenDir \/ ReadDir \/ StatDirEntry
           \/ Interrupt
  BY <1>2, <1>5, Zenon
     DEF ReceiveDemand, OpenFile, SeekEnd, SeekSet, WriteBlock, NextBlock,
         Truncate, ClosePut, NothingToClose, RemoveFile, Stat, OpenDir,
         ReadDir, StatDirEntry, Interrupt
<1>6. CASE RespondNoData
  BY <1>1, <1>6 DEF RespondNoData, Over, SentTypes
<1>7. CASE ReadFile
  <2>1. UNCHANGED answer
    BY <1>7 DEF ReadFile
  <2>2. PICK most :
          /\ most = Smaller(Smaller(BlockSize - Len(buffer),
                                    FileLength - context.done), Readable)
          /\ \/ UNCHANGED <<buffer, reply>>
             \/ SendBuffer
             \/ buffer' = <<>> /\ UNCHANGED reply
             \/ \E n \in 1 .. most : Reads(n) /\ UNCHANGED reply
    BY <1>7 DEF ReadFile, Call
  <2>3. ASSUME NEW n \in 1 .. most, Reads(n)
        PROVE  buffer' \in Seq(Nat)
    <3>1. position + n <= Len(disk) /\ n \in Nat /\ position \in Nat
          /\ disk \in Seq(Nat) /\ buffer \in Seq(Nat)
      BY <1>1, <2>2, ServiceBounds, ContextFields
         DEF DiskTypes, SentTypes, Readable, Smaller
    <3>2. SubSeq(disk, position + 1, position + n) \in Seq(Nat)
      BY <3>1, PartOf
    <3>3. QED
      BY <2>3, <3>1, <3>2, Joined2 DEF Reads
  <2>4. QED
    BY <1>1, <1>3, <2>1, <2>2, <2>3, NoUnits DEF SentTypes
<1>8. CASE SendMessage
  BY <1>1, <1>3, <1>8 DEF SendMessage, SentTypes
<1>9. CASE GetClose
  <2>1. \/ \E c : Finish(c)
        \/ SendBuffer /\ UNCHANGED answer
        \/ UNCHANGED <<buffer, reply, answer>>
    BY <1>9 DEF GetClose, Call
  <2>2. QED
    BY <1>1, <1>3, <1>4, <2>1 DEF SentTypes
<1>10. CASE ListFile
  <2>1. \/ \E c : Finish(c)
        \/ reply' = <<1>> /\ answer' = "ok" /\ UNCHANGED buffer
        \/ UNCHANGED <<buffer, reply, answer>>
    BY <1>10 DEF ListFile, Call, Over
  <2>2. QED
    BY <1>1, <1>4, <2>1, NoUnits DEF SentTypes
<1>11. CASE HashEntry
  <2>1. reply' \in {reply, Append(reply, context.done + 1)}
    BY <1>11 DEF HashEntry, Call
  <2>2. context.done + 1 \in Nat
    BY <1>1, ContextFields
  <2>3. UNCHANGED <<buffer, answer>>
    BY <1>11 DEF HashEntry
  <2>4. Append(reply, context.done + 1) \in Seq(Nat)
    BY <1>1, <2>2 DEF SentTypes
  <2>5. QED
    BY <1>1, <2>1, <2>3, <2>4 DEF SentTypes
<1>12. CASE CancelClose
  <2>1. UNCHANGED <<buffer, reply>> /\ answer' \in {answer, "cancel"}
    BY <1>12 DEF CancelClose, Call, Over
  <2>2. QED
    BY <1>1, <2>1 DEF SentTypes
<1>13. QED
  BY <1>5, <1>6, <1>7, <1>8, <1>9, <1>10, <1>11, <1>12, Zenon DEF FileNext

LEMMA PhaseKept ==
    ASSUME FileTypeOK, FileNext
    PROVE  PhaseTypes' /\ SlipTypes'
<1>1. PhaseTypes /\ SlipTypes
  BY FileTypes
<1>2. phase' \in {phase, "request", "response", "cancel", "drop", "over"}
  <2>1. CASE \/ ReceiveDemand \/ OpenFile \/ SeekEnd \/ SeekSet \/ WriteBlock
             \/ NextBlock \/ Truncate \/ NothingToClose \/ ReadFile
             \/ SendMessage \/ ReadDir \/ StatDirEntry \/ HashEntry
             \/ Interrupt
    BY <2>1 DEF ReceiveDemand, OpenFile, SeekEnd, SeekSet, WriteBlock,
                NextBlock, Truncate, NothingToClose, ReadFile, SendMessage,
                ReadDir, StatDirEntry, HashEntry, Interrupt, Call
  <2>2. CASE \/ ClosePut \/ RemoveFile \/ RespondNoData \/ GetClose \/ Stat
             \/ OpenDir \/ ListFile \/ CancelClose
    BY <2>2 DEF ClosePut, RemoveFile, RespondNoData, GetClose, Stat, OpenDir,
                ListFile, CancelClose, Call, Over, Finish
  <2>3. QED
    BY <2>1, <2>2, Zenon DEF FileNext
<1>3. demand' = demand \/ demand' \in Demands
  BY Zenon DEF FileNext, ReceiveDemand, OpenFile, SeekEnd, SeekSet,
     WriteBlock, NextBlock, Truncate, ClosePut, NothingToClose, RemoveFile,
     RespondNoData, ReadFile, SendMessage, GetClose, Stat, OpenDir, ListFile,
     ReadDir, StatDirEntry, HashEntry, Interrupt, CancelClose
<1>4. \/ slips' = slips \/ slips' = {"path"}
      \/ \E s \in {"seek", "again", "leak"} : slips' = slips \cup {s}
  <2>1. CASE ReceiveDemand
    BY <2>1 DEF ReceiveDemand
  <2>2. CASE \/ OpenFile \/ SeekEnd \/ SeekSet \/ WriteBlock \/ NextBlock
             \/ Truncate \/ ClosePut \/ NothingToClose \/ RemoveFile
    BY <2>2 DEF OpenFile, SeekEnd, SeekSet, WriteBlock, NextBlock, Truncate,
                ClosePut, NothingToClose, RemoveFile, Call
  <2>3. CASE \/ RespondNoData \/ ReadFile \/ SendMessage \/ GetClose \/ Stat
             \/ OpenDir \/ ListFile \/ ReadDir \/ StatDirEntry \/ HashEntry
             \/ Interrupt
    BY <2>3 DEF RespondNoData, ReadFile, SendMessage, GetClose, Stat, OpenDir,
                ListFile, ReadDir, StatDirEntry, HashEntry, Interrupt
  <2>4. CASE CancelClose
    BY <2>4 DEF CancelClose, Call
  <2>5. QED
    BY <2>1, <2>2, <2>3, <2>4, Zenon DEF FileNext
<1>5. PhaseTypes'
  BY <1>1, <1>2, <1>3 DEF PhaseTypes
<1>6. SlipTypes'
  BY <1>1, <1>4 DEF SlipTypes
<1>7. QED
  BY <1>5, <1>6

LEMMA TypesStay ==
    ASSUME FileTypeOK, ListInv, PositionInv, FileNext
    PROVE  FileTypeOK'
<1>1. CASE ReceiveDemand
  BY <1>1, DemandTypes
<1>2. CASE ~ReceiveDemand
  <2>1. CallTypes'
    BY FileTypes, Counted
  <2>2. QED
    BY <1>2, <2>1, ContextsKept, DiskKept, SentKept, PhaseKept, FileTypesNext
<1>3. QED
  BY <1>1, <1>2
-----------------------------------------------------------------------------
\* Of a callback that is called again, and of one that fails.
LEMMA AgainFields ==
    ASSUME demand \in Demands, NEW c \in Contexts
    PROVE  /\ Again(c).state = c.state /\ Again(c).errnum = c.errnum
           /\ Again(c).dir = c.dir /\ Again(c).block = c.block
           /\ Again(c).done = c.done /\ Again(c).last = c.last
           /\ Again(c).started = c.started
           /\ Again(c).offset = IF demand.op = "put" /\ phase = "request"
                                   /\ c.block = 1
                                THEN demand.offset ELSE c.offset
           /\ Again(c).trunc = (c.trunc \/ (/\ demand.op = "put"
                                            /\ phase = "request"
                                            /\ c.block = 1 /\ demand.trunc))
BY DEF Again, Contexts, Demands

LEMMA WrongFields ==
    ASSUME NEW c \in Contexts
    PROVE  /\ Wrong(c).state = c.state /\ Wrong(c).errnum
           /\ Wrong(c).dir = c.dir /\ Wrong(c).block = c.block
           /\ Wrong(c).done = c.done /\ Wrong(c).last = c.last
           /\ Wrong(c).started = c.started /\ Wrong(c).offset = c.offset
           /\ Wrong(c).trunc = c.trunc
BY DEF Wrong, Contexts

LEMMA NextState ==
    ASSUME NEW c \in Contexts, NEW s
    PROVE  LET e == [c EXCEPT !.state = s] IN
           /\ e.state = s /\ e.errnum = c.errnum
           /\ e.dir = c.dir /\ e.block = c.block
           /\ e.done = c.done /\ e.last = c.last
           /\ e.started = c.started /\ e.offset = c.offset
           /\ e.trunc = c.trunc
BY DEF Contexts
-----------------------------------------------------------------------------
\* The file while it is written.
Newer(m, n) == IF m < n THEN n ELSE m
LEMMA ImageIs ==
    ASSUME demand \in Demands, NEW n \in Nat
    PROVE  /\ Image(demand, n) \in Seq(Nat)
           /\ Len(Image(demand, n))
                  = Newer(OldLength(demand), demand.offset + n)
           /\ \A i \in 1 .. Newer(OldLength(demand), demand.offset + n) :
                  Image(demand, n)[i] =
                      IF i \in demand.offset + 1 .. demand.offset + n
                      THEN i - demand.offset ELSE FileLength + i
<1> DEFINE k == Newer(OldLength(demand), demand.offset + n)
           unit(i) == IF i \in demand.offset + 1 .. demand.offset + n
                    THEN i - demand.offset ELSE FileLength + i
<1>1. demand.offset \in Nat /\ OldLength(demand) \in Nat /\ FileLength \in Nat
  BY DemandFields, ServiceBounds DEF OldLength
<1>2. k \in Nat
  BY <1>1 DEF Newer
<1>3. \A i \in 1 .. k : unit(i) \in Nat
  BY <1>1, <1>2
<1>4. Image(demand, n) = [i \in 1 .. k |-> unit(i)]
  BY DEF Image, Newer
<1> HIDE DEF k, unit
<1>5. /\ [i \in 1 .. k |-> unit(i)] \in Seq(Nat)
      /\ Len([i \in 1 .. k |-> unit(i)]) = k
      /\ \A i \in 1 .. k : [j \in 1 .. k |-> unit(j)][i] = unit(i)
  BY <1>2, <1>3
<1>6. QED
  BY <1>4, <1>5 DEF k, unit

\* Two sequences are the same if their units are.
LEMMA SameUnits ==
    ASSUME NEW s \in Seq(Nat), NEW t \in Seq(Nat), Len(s) = Len(t),
           \A i \in 1 .. Len(s) : s[i] = t[i]
    PROVE  s = t
OBVIOUS

LEMMA ImageNone ==
    ASSUME demand \in Demands, demand.offset <= FileLength
    PROVE  Image(demand, 0) = IF OldLength(demand) = 0 THEN <<>> ELSE Old
<1>1. demand.offset \in Nat /\ FileLength \in Nat /\ FileLength >= 1
  BY DemandFields, ServiceBounds
<1>2. 0 \in Nat
  OBVIOUS
<1>3. CASE demand.trunc /\ demand.offset = 0
  <2>1. OldLength(demand) = 0 /\ Newer(OldLength(demand), demand.offset + 0) = 0
    BY <1>1, <1>3 DEF OldLength, Newer
  <2>2. Image(demand, 0) \in Seq(Nat) /\ Len(Image(demand, 0)) = 0
    BY <1>2, <2>1, ImageIs
  <2>3. Image(demand, 0) = <<>>
    BY <2>2
  <2>4. QED
    BY <2>1, <2>3
<1>4. CASE ~(demand.trunc /\ demand.offset = 0)
  <2>1. OldLength(demand) = FileLength
        /\ Newer(OldLength(demand), demand.offset + 0) = FileLength
    BY <1>1, <1>4 DEF OldLength, Newer
  <2>2. ASSUME NEW i \in 1 .. FileLength
        PROVE  Image(demand, 0)[i] = Old[i]
    <3>1. Image(demand, 0)[i] = IF i \in demand.offset + 1 .. demand.offset + 0
                        THEN i - demand.offset ELSE FileLength + i
      BY <1>2, <2>1, ImageIs
    <3>2. i \notin demand.offset + 1 .. demand.offset + 0
      BY <1>1
    <3>3. QED
      BY <3>1, <3>2 DEF Old
  <2>3. Image(demand, 0) = Old
    BY <1>2, <2>1, <2>2, ImageIs, OldType, SameUnits
  <2>4. QED
    BY <1>1, <2>1, <2>3
<1>5. QED
  BY <1>3, <1>4

LEMMA ImageGrows ==
    ASSUME DiskTypes, context \in Contexts, demand \in Demands,
           NEW w \in Nat, w = Before(context.block) + context.done,
           NEW n \in Nat, ImageOf(w), position = demand.offset + w
    PROVE  Written(n) = Image(demand, w + n)
<1>1. demand.offset \in Nat /\ FileLength \in Nat /\ OldLength(demand) \in Nat
  BY DemandFields, ServiceBounds DEF OldLength
<1>2. disk = Image(demand, w) /\ disk \in Seq(Nat)
      /\ Len(disk) = Newer(OldLength(demand), demand.offset + w)
  BY ImageIs DEF ImageOf
<1>3. w + n \in Nat /\ position \in Nat /\ position <= Len(disk)
  BY <1>1, <1>2 DEF Newer
<1>4. Newer(OldLength(demand), demand.offset + (w + n)) =
          IF Len(disk) < position + n THEN position + n ELSE Len(disk)
  BY <1>1, <1>2, <1>3, SMTT(40) DEF Newer
<1>5. /\ Written(n) \in Seq(Nat)
      /\ Len(Written(n)) = Newer(OldLength(demand), demand.offset + (w + n))
  BY <1>3, <1>4, WrittenLength
<1>6. /\ Image(demand, w + n) \in Seq(Nat)
      /\ Len(Image(demand, w + n))
             = Newer(OldLength(demand), demand.offset + (w + n))
  BY <1>3, ImageIs
<1>7. ASSUME NEW i \in 1 .. Newer(OldLength(demand), demand.offset + (w + n))
      PROVE  Written(n)[i] = Image(demand, w + n)[i]
  <2>1. Image(demand, w + n)[i] =
            IF i \in demand.offset + 1 .. demand.offset + (w + n)
            THEN i - demand.offset ELSE FileLength + i
    BY <1>3, ImageIs
  <2>2. i \in 1 .. (IF Len(disk) < position + n THEN position + n
                                                ELSE Len(disk))
    BY <1>4
  <2>3. Written(n)[i] = IF i \in position + 1 .. position + n
                        THEN w + i - position ELSE disk[i]
    BY <2>2 DEF Written
  <2>4. CASE i \in position + 1 .. position + n
    BY <1>1, <2>1, <2>3, <2>4
  <2>5. CASE i \notin position + 1 .. position + n
    <3>1. i \in 1 .. Newer(OldLength(demand), demand.offset + w)
      BY <1>1, <1>2, <2>2, <2>5 DEF Newer
    <3>2. disk[i] = IF i \in demand.offset + 1 .. demand.offset + w
                    THEN i - demand.offset ELSE FileLength + i
      BY <1>2, <3>1, ImageIs
    <3>3. QED
      BY <1>1, <2>1, <2>3, <2>5, <3>2
  <2>6. QED
    BY <2>4, <2>5
<1>8. QED
  BY <1>5, <1>6, <1>7, SameUnits

LEMMA ImageCut ==
    ASSUME demand \in Demands, disk = Image(demand, FileLength),
           Cuts(demand.offset + FileLength)
    PROVE  disk' = Image(demand, FileLength)
<1>1. /\ demand.offset \in Nat /\ FileLength \in Nat
      /\ OldLength(demand) <= FileLength
      /\ OldLength(demand) \in Nat
  BY DemandFields, ServiceBounds DEF OldLength
<1>2. Newer(OldLength(demand), demand.offset + FileLength)
          = demand.offset + FileLength
  BY <1>1 DEF Newer
<1>3. /\ disk \in Seq(Nat) /\ Len(disk) = demand.offset + FileLength
  BY <1>1, <1>2, ImageIs
<1>4. /\ disk' \in Seq(Nat) /\ Len(disk') = demand.offset + FileLength
  BY <1>1, <1>3, CutsLength
<1>5. \A i \in 1 .. demand.offset + FileLength : disk'[i] = disk[i]
  BY <1>1, <1>3 DEF Cuts
<1>6. QED
  BY <1>3, <1>4, <1>5, SameUnits

LEMMA ImageIsPut ==
    ASSUME demand \in Demands, demand.offset <= FileLength
    PROVE  Image(demand, FileLength) = Put(demand)
<1>1. /\ demand.offset \in Nat /\ FileLength \in Nat
      /\ OldLength(demand) <= FileLength
      /\ OldLength(demand) \in Nat
  BY DemandFields, ServiceBounds DEF OldLength
<1> DEFINE p == SubSeq(Old, 1, demand.offset)
           q == [i \in 1 .. FileLength |-> i]
           r == IF demand.trunc THEN <<>>
                ELSE SubSeq(Old, demand.offset + FileLength + 1, FileLength)
<1>2. p \in Seq(Nat) /\ Len(p) = demand.offset
      /\ \A i \in 1 .. demand.offset : p[i] = FileLength + i
  <2>1. /\ SubSeq(Old, 0 + 1, 0 + demand.offset) \in Seq(Nat)
        /\ Len(SubSeq(Old, 0 + 1, 0 + demand.offset)) = demand.offset
        /\ \A i \in 1 .. demand.offset :
               SubSeq(Old, 0 + 1, 0 + demand.offset)[i] = Old[0 + i]
    <3>1. 0 \in Nat /\ 0 + demand.offset <= Len(Old)
      BY <1>1, OldType
    <3>2. QED
      BY <1>1, <3>1, OldType, PartOf
  <2>2. \A i \in 1 .. demand.offset : Old[0 + i] = FileLength + i
    BY <1>1 DEF Old
  <2>3. 0 + 1 = 1 /\ 0 + demand.offset = demand.offset
    BY <1>1
  <2>4. QED
    BY <2>1, <2>2, <2>3
<1>3. q \in Seq(Nat) /\ Len(q) = FileLength
      /\ \A i \in 1 .. FileLength : q[i] = i
  BY <1>1
<1>4. r = <<>>
  BY <1>1, OldType
<1> HIDE DEF p, q, r
<1>5. Put(demand) = (p \o q) \o r
  BY DEF Put, p, q, r
<1>6. p \o q \in Seq(Nat) /\ Len(p \o q) = demand.offset + FileLength
  <2>1. p \in Seq(Nat) /\ q \in Seq(Nat)
    BY <1>2, <1>3
  <2>2. p \o q \in Seq(Nat) /\ Len(p \o q) = Len(p) + Len(q)
    BY <2>1, Joined2
  <2>3. QED
    BY <1>2, <1>3, <2>2
<1>7. Put(demand) = p \o q
  BY <1>4, <1>5, <1>6
<1>8. Newer(OldLength(demand), demand.offset + FileLength)
          = demand.offset + FileLength
  BY <1>1 DEF Newer
<1>9. /\ Image(demand, FileLength) \in Seq(Nat)
      /\ Len(Image(demand, FileLength)) = demand.offset + FileLength
  BY <1>1, <1>8, ImageIs
<1>10. ASSUME NEW i \in 1 .. demand.offset + FileLength
      PROVE  Image(demand, FileLength)[i] = (p \o q)[i]
  <2>1. Image(demand, FileLength)[i] =
            IF i \in demand.offset + 1 .. demand.offset + FileLength
            THEN i - demand.offset ELSE FileLength + i
    BY <1>1, <1>8, ImageIs
  <2>2. CASE i <= demand.offset
    <3>1. i \in 1 .. demand.offset /\ i \in 1 .. Len(p)
      BY <1>1, <1>2, <2>2
    <3>2. (p \o q)[i] = FileLength + i
      BY <1>2, <1>3, <3>1, Joined2
    <3>3. i \notin demand.offset + 1 .. demand.offset + FileLength
      BY <1>1, <2>2
    <3>4. QED
      BY <2>1, <3>2, <3>3
  <2>3. CASE i > demand.offset
    <3>1. i - demand.offset \in 1 .. FileLength
          /\ Len(p) + (i - demand.offset) = i
      BY <1>1, <1>2, <2>3
    <3>2. (p \o q)[i] = q[i - demand.offset]
      BY <1>2, <1>3, <3>1, Joined2
    <3>3. i \in demand.offset + 1 .. demand.offset + FileLength
      BY <1>1, <2>3
    <3>4. QED
      BY <1>3, <2>1, <3>1, <3>2, <3>3
  <2>4. i <= demand.offset \/ i > demand.offset
    BY <1>1
  <2>5. QED
    BY <2>2, <2>3, <2>4, Zenon
<1>11. QED
  BY <1>6, <1>7, <1>9, <1>10, SameUnits
-----------------------------------------------------------------------------
\* What is sent and what waits to be sent, as the file is read.
LEMMA SentOn ==
    ASSUME demand \in Demands, NEW p \in Seq(Nat), NEW q \in Seq(Nat), NEW n,
           SentTo(demand, p, q, n)
    PROVE  SentTo(demand, p \o q, <<>>, n)
<1>1. /\ p \o q \in Seq(Nat) /\ Len(p \o q) = Len(p) + Len(q)
      /\ \A i \in 1 .. Len(p) : (p \o q)[i] = p[i]
      /\ \A i \in 1 .. Len(q) : (p \o q)[Len(p) + i] = q[i]
  BY Joined2
<1>2. Len(<<>>) = 0 /\ Len(p \o q) + 0 = Len(p) + Len(q)
  BY <1>1, NoUnits
<1>3. ASSUME NEW i \in 1 .. Len(p) + Len(q)
      PROVE  (p \o q)[i] = FileLength + demand.offset + i
  <2>1. CASE i <= Len(p)
    BY <1>1, <2>1 DEF SentTo
  <2>2. CASE i > Len(p)
    <3>1. i - Len(p) \in 1 .. Len(q) /\ Len(p) + (i - Len(p)) = i
      BY <2>2
    <3>2. (p \o q)[i] = q[i - Len(p)]
      BY <1>1, <3>1
    <3>3. q[i - Len(p)] = FileLength + demand.offset + Len(p) + (i - Len(p))
      BY <3>1 DEF SentTo
    <3>4. FileLength + demand.offset + Len(p) + (i - Len(p))
              = FileLength + demand.offset + (Len(p) + (i - Len(p)))
      BY <3>1, ServiceBounds, DemandFields
    <3>5. QED
      BY <3>1, <3>2, <3>3, <3>4
  <2>3. QED
    BY <2>1, <2>2
<1>4. QED
  BY <1>1, <1>2, <1>3 DEF SentTo

LEMMA ReadOn ==
    ASSUME demand \in Demands, NEW p \in Seq(Nat), NEW q \in Seq(Nat),
           NEW n \in Nat, NEW m \in Nat, SentTo(demand, p, q, n),
           demand.offset + n + m <= FileLength
    PROVE  SentTo(demand, p, q \o SubSeq(Old, demand.offset + n + 1,
                                      demand.offset + n + m), n + m)
<1> DEFINE r == SubSeq(Old, demand.offset + n + 1, demand.offset + n + m)
<1>1. demand.offset \in Nat /\ FileLength \in Nat
  BY DemandFields, ServiceBounds
<1>2. /\ r \in Seq(Nat) /\ Len(r) = m
      /\ \A i \in 1 .. m : r[i] = FileLength + (demand.offset + n + i)
  <2>1. demand.offset + n \in Nat /\ demand.offset + n + m <= Len(Old)
    BY <1>1, OldType
  <2>2. /\ r \in Seq(Nat) /\ Len(r) = m
        /\ \A i \in 1 .. m : r[i] = Old[demand.offset + n + i]
    BY <2>1, OldType, PartOf
  <2>3. \A i \in 1 .. m : Old[demand.offset + n + i]
                              = FileLength + (demand.offset + n + i)
    BY <1>1, SMTT(40) DEF Old
  <2>4. QED
    BY <2>2, <2>3
<1> HIDE DEF r
<1>3. /\ q \o r \in Seq(Nat) /\ Len(q \o r) = Len(q) + m
      /\ \A i \in 1 .. Len(q) : (q \o r)[i] = q[i]
      /\ \A i \in 1 .. m : (q \o r)[Len(q) + i] = r[i]
  BY <1>2, Joined2
<1>4. Len(p) + Len(q) = n /\ Len(p) + Len(q \o r) = n + m
      /\ Len(p) \in Nat /\ Len(q) \in Nat
  <2>1. Len(p) \in Nat /\ Len(q) \in Nat
    OBVIOUS
  <2>2. Len(p) + Len(q) = n
    BY DEF SentTo
  <2>3. QED
    BY <1>3, <2>1, <2>2
<1>5. ASSUME NEW i \in 1 .. Len(q) + m
      PROVE  (q \o r)[i] = FileLength + demand.offset + Len(p) + i
  <2>1. CASE i <= Len(q)
    BY <1>3, <2>1 DEF SentTo
  <2>2. CASE i > Len(q)
    <3>1. i - Len(q) \in 1 .. m /\ Len(q) + (i - Len(q)) = i
      BY <2>2
    <3>2. (q \o r)[i] = FileLength + (demand.offset + n + (i - Len(q)))
      BY <1>2, <1>3, <3>1
    <3>3. FileLength + (demand.offset + n + (i - Len(q)))
              = FileLength + demand.offset + Len(p) + i
      BY <1>1, <1>4, <3>1, SMTT(40)
    <3>4. QED
      BY <3>2, <3>3
  <2>3. i <= Len(q) \/ i > Len(q)
    BY <1>4
  <2>4. QED
    BY <2>1, <2>2, <2>3, Zenon
<1>6. SentTo(demand, p, q \o r, n + m)
  BY <1>3, <1>4, <1>5 DEF SentTo
<1>7. QED
  BY <1>6 DEF r

LEMMA SentAll ==
    ASSUME demand \in Demands, demand.offset <= FileLength,
           NEW p \in Seq(Nat),
           SentTo(demand, p, <<>>, FileLength - demand.offset)
    PROVE  p = SubSeq(Old, demand.offset + 1, FileLength)
<1> DEFINE n == FileLength - demand.offset
<1>1. /\ demand.offset \in Nat /\ FileLength \in Nat /\ n \in Nat
      /\ demand.offset + n = FileLength
  BY DemandFields, ServiceBounds
<1>2. Len(p) = n /\ \A i \in 1 .. n : p[i] = FileLength + demand.offset + i
  <2>1. Len(p) + Len(<<>>) = n
        /\ \A i \in 1 .. Len(p) : p[i] = FileLength + demand.offset + i
    BY DEF SentTo
  <2>2. Len(p) = n
    BY <1>1, <2>1, NoUnits
  <2>3. QED
    BY <2>1, <2>2
<1> HIDE DEF n
<1>3. /\ SubSeq(Old, demand.offset + 1, FileLength) \in Seq(Nat)
      /\ Len(SubSeq(Old, demand.offset + 1, FileLength)) = n
      /\ \A i \in 1 .. n : SubSeq(Old, demand.offset + 1, FileLength)[i]
                               = Old[demand.offset + i]
  <2>1. demand.offset + n <= Len(Old)
    BY <1>1, OldType
  <2>2. /\ SubSeq(Old, demand.offset + 1, demand.offset + n) \in Seq(Nat)
        /\ Len(SubSeq(Old, demand.offset + 1, demand.offset + n)) = n
        /\ \A i \in 1 .. n :
               SubSeq(Old, demand.offset + 1, demand.offset + n)[i]
                   = Old[demand.offset + i]
    BY <1>1, <2>1, OldType, PartOf
  <2>3. QED
    BY <1>1, <2>2
<1>4. \A i \in 1 .. n : Old[demand.offset + i] = FileLength + demand.offset + i
  BY <1>1, SMTT(40) DEF Old
<1>5. QED
  BY <1>2, <1>3, <1>4, SameUnits
-----------------------------------------------------------------------------
\* What a step keeps, the types being kept.
LEMMA WorkTypes ==
    ASSUME FileTypeOK
    PROVE  /\ context \in Contexts /\ demand \in Demands
           /\ PhaseTypes /\ DiskTypes /\ SentTypes /\ SlipTypes
           /\ demand.offset \in Nat
BY FileTypes, DemandFields DEF PhaseTypes

LEMMA WorkNext ==
    ASSUME HandleInv', FreshInv', ListInv', PositionInv', StoryInv'
    PROVE  WorkInv'
BY DEF WorkInv

LEMMA ReceiveKeeps ==
    ASSUME FileTypeOK, WorkInv, ReceiveDemand
    PROVE  WorkInv'
<1>1. /\ phase = "none" /\ UNCHANGED <<file_open, sent>>
      /\ phase' \in {"request", "response"}
  BY DEF ReceiveDemand
<1>2. /\ handle' = "none" /\ position' = 0 /\ disk' = Old
      /\ buffer' = <<>> /\ reply' = <<>> /\ answer' = "none" /\ slips = {}
  BY <1>1 DEF WorkInv, FreshInv, file_open, sent
<1> DEFINE n == NewContext(demand')
<1>3. /\ n.state = "none" /\ n.errnum = FALSE /\ n.dir = FALSE /\ n.block = 1
      /\ n.done = 0 /\ n.offset = demand'.offset /\ n.trunc = demand'.trunc
      /\ n.last = FALSE
  BY DEF NewContext
<1>4. demand' \in Demands /\ n \in Contexts
  <2>1. demand' \in Demands
    BY DEF ReceiveDemand
  <2>2. QED
    BY <2>1, DemandFields, NewContexts
<1>5. \/ ~demand'.long /\ context' = n /\ phase' = "request" /\ slips' = slips
      \/ /\ slips' = {"path"} /\ demand'.op = "put" /\ phase' = "request"
         /\ context' = [n EXCEPT !.block = 2, !.trunc = FALSE]
      \/ /\ slips' = {"path"} /\ demand'.op = "get" /\ phase' = "response"
         /\ context' = [n EXCEPT !.state = "lseek"]
      \/ /\ slips' = {"path"} /\ demand'.op = "rm" /\ phase' = "response"
         /\ context' = n
  BY DEF ReceiveDemand
<1> HIDE DEF n
<1>6. \/ ~demand'.long /\ context' = n /\ phase' = "request" /\ slips' = slips
      \/ /\ "path" \in slips' /\ demand'.op = "put"
         /\ context'.state = "none"
      \/ /\ "path" \in slips' /\ demand'.op \in {"get", "rm"}
  BY <1>3, <1>4, <1>5 DEF Contexts
<1>7. HandleInv'
  BY <1>1, <1>2 DEF HandleInv
<1>8. FreshInv'
  BY <1>1, <1>2 DEF FreshInv
<1>9. ListInv'
  BY <1>1, <1>2, <1>3, <1>6 DEF ListInv
<1>10. PositionInv'
  BY <1>1, <1>2, <1>3, <1>6 DEF PositionInv, In
<1>11. StoryInv'
  <2>1. CASE "path" \in slips'
    BY <2>1 DEF StoryInv, Straightforward
  <2>2. CASE context' = n /\ phase' = "request"
    <3>1. Begun'
      BY <1>2, <1>3, <2>2 DEF Begun
    <3>2. PutStory'
      BY <1>2, <1>3, <2>2, <3>1 DEF PutStory
    <3>3. GetStory'
      BY <1>2, <1>3, <2>2, <3>1 DEF GetStory
    <3>4. RemoveStory'
      BY <1>2, <2>2 DEF RemoveStory
    <3>5. QED
      BY <3>2, <3>3, <3>4 DEF StoryInv
  <2>3. QED
    BY <1>6, <2>1, <2>2
<1>12. QED
  BY <1>7, <1>8, <1>9, <1>10, <1>11, WorkNext

LEMMA OpenKeeps ==
    ASSUME FileTypeOK, WorkInv, OpenFile
    PROVE  WorkInv'
<1>1. /\ context \in Contexts /\ demand \in Demands /\ SlipTypes /\ DiskTypes
      /\ demand.offset \in Nat
  BY WorkTypes
<1>2. /\ phase = "request" /\ demand.op \in {"get", "put"}
      /\ context.state = "none" /\ context.block = 1
      /\ UNCHANGED <<demand, sent, slips>>
  BY DEF OpenFile, In
<1>3. /\ handle = "none" /\ buffer' = <<>> /\ reply' = <<>>
      /\ answer' = "none"
  BY <1>2 DEF WorkInv, PositionInv, FreshInv, sent
<1> DEFINE emptied == demand.op = "put" /\ context.trunc /\ context.offset = 0
           c == [context EXCEPT !.trunc = @ /\ ~emptied]
<1>4. \/ /\ handle' = "open" /\ position' = 0
         /\ disk' = IF emptied THEN <<>> ELSE disk
         /\ context' = [c EXCEPT !.state = IF c.offset = 0 THEN "lseek"
                                                          ELSE "open"]
         /\ phase' = IF demand.op = "get" THEN "response" ELSE "request"
      \/ context' = Again(c) /\ UNCHANGED <<file_open, phase>>
      \/ /\ context' = Wrong([c EXCEPT !.state = "closed"])
         /\ phase' = "response" /\ UNCHANGED file_open
  BY DEF OpenFile, Call, Opens
<1>5. /\ c \in Contexts /\ c.state = "none" /\ c.errnum = context.errnum
      /\ c.dir = context.dir /\ c.block = 1 /\ c.done = context.done
      /\ c.last = context.last /\ c.offset = context.offset
      /\ c.trunc = (context.trunc /\ ~emptied)
  BY <1>1, <1>2 DEF Contexts
<1> HIDE DEF c
<1>6. /\ StoryInv /\ ListInv /\ PositionInv
      /\ demand.op # "ls" /\ demand' = demand /\ slips' = slips
  BY <1>2 DEF WorkInv
<1>7. Straightforward /\ Fine =>
          /\ position = 0 /\ disk = Old /\ context.done = 0 /\ ~context.last
          /\ context.offset = demand.offset
          /\ demand.op = "put" => context.trunc = demand.trunc
  BY <1>2, <1>6 DEF StoryInv, PutStory, GetStory, Begun
<1>8. CASE /\ handle' = "open" /\ position' = 0
           /\ disk' = IF emptied THEN <<>> ELSE disk
           /\ context' = [c EXCEPT !.state = IF c.offset = 0 THEN "lseek"
                                                            ELSE "open"]
           /\ phase' = IF demand.op = "get" THEN "response" ELSE "request"
  <2>1. PICK s : s = IF context.offset = 0 THEN "lseek" ELSE "open"
    OBVIOUS
  <2>2. /\ context'.state = s /\ context'.errnum = context.errnum
        /\ context'.block = 1 /\ context'.done = context.done
        /\ context'.last = context.last /\ context'.offset = context.offset
    BY <1>5, <1>8, <2>1 DEF Contexts
  <2>3. HandleInv'
    BY <1>2, <1>6, <1>8, <2>1, <2>2 DEF HandleInv, IsOpen
  <2>4. FreshInv'
    BY <1>3, <1>8, <2>2 DEF FreshInv
  <2>5. ListInv'
    BY <1>6 DEF ListInv
  <2>6. PositionInv'
    <3>1. disk' \in Seq(Nat)
      BY <1>1, <1>8, NoUnits DEF DiskTypes
    <3>2. position' <= Len(disk)'
      BY <1>8, <3>1
    <3>3. QED
      BY <2>1, <2>2, <3>2 DEF PositionInv
  <2>7. ASSUME Straightforward', ~context.errnum, demand.op = "put"
        PROVE  PutStory'
    <3>1. Straightforward /\ Fine
      BY <1>6, <2>7 DEF Straightforward, Fine
    <3>2. CASE s = "open"
      <4>1. demand.offset # 0 /\ Begun'
        BY <1>1, <1>6, <1>7, <1>8, <2>1, <2>2, <3>1, <3>2 DEF Begun
      <4>2. QED
        BY <1>3, <1>6, <1>8, <2>2, <2>7, <3>2, <4>1 DEF PutStory
    <3>3. CASE s = "lseek"
      <4>1. demand.offset = 0 /\ demand.offset <= FileLength
        BY <1>7, <2>1, <3>1, <3>3, ServiceBounds
      <4>2. emptied <=> OldLength(demand) = 0
        BY <1>7, <2>7, <3>1, <4>1, ServiceBounds DEF OldLength
      <4>3. disk' = Image(demand, 0)
        BY <1>1, <1>7, <1>8, <3>1, <4>1, <4>2, ImageNone
      <4>4. (Before(context.block) + context.done)' = 0
        BY <1>7, <2>2, <3>1, BlocksFit DEF Before
      <4>5. QED
        BY <1>3, <1>6, <1>7, <1>8, <2>2, <2>7, <3>1, <3>3, <4>1, <4>3, <4>4,
           ServiceBounds DEF PutStory, ImageOf
    <3>4. QED
      BY <2>1, <3>2, <3>3
  <2>8. ASSUME Straightforward', ~context.errnum, demand.op = "get"
        PROVE  GetStory'
    <3>1. Straightforward /\ Fine /\ ~emptied /\ disk' = Old
      BY <1>6, <1>7, <1>8, <2>8 DEF Straightforward, Fine
    <3>2. CASE s = "open"
      <4>1. Begun'
        BY <1>1, <1>6, <1>7, <1>8, <2>1, <2>2, <3>1, <3>2 DEF Begun
      <4>2. QED
        BY <1>3, <1>6, <1>8, <2>2, <2>8, <3>1, <3>2, <4>1 DEF GetStory
    <3>3. CASE s = "lseek"
      <4>1. demand.offset = 0 /\ demand.offset + 0 <= FileLength
        BY <1>7, <2>1, <3>1, <3>3, ServiceBounds
      <4>2. SentTo(demand, <<>>, <<>>, 0)
        BY NoUnits DEF SentTo
      <4>3. QED
        BY <1>3, <1>6, <1>7, <1>8, <2>2, <2>8, <3>1, <3>3, <4>1, <4>2
           DEF GetStory
    <3>4. QED
      BY <2>1, <3>2, <3>3
  <2>9. StoryInv'
    <3>1. CASE context.errnum
      BY <1>2, <1>3, <1>6, <2>2, <3>1
         DEF StoryInv, PutStory, GetStory, RemoveStory, Fine
    <3>2. CASE ~context.errnum
      BY <1>2, <1>6, <2>7, <2>8, <3>2
         DEF StoryInv, PutStory, GetStory, RemoveStory
    <3>3. QED
      BY <3>1, <3>2
  <2>10. QED
    BY <2>3, <2>4, <2>5, <2>6, <2>9, WorkNext
<1>9. CASE context' = Again(c) /\ UNCHANGED <<file_open, phase>>
  <2>1. /\ context'.state = "none" /\ context'.errnum = context.errnum
        /\ context'.block = 1 /\ context'.done = context.done
        /\ context'.last = context.last
        /\ context'.offset = (IF demand.op = "put" THEN demand.offset
                              ELSE context.offset)
        /\ demand.op = "put" =>
               context'.trunc = ((context.trunc /\ ~emptied) \/ demand.trunc)
    BY <1>1, <1>2, <1>5, <1>9, AgainFields, ZenonT(40)
  <2>2. handle' = "none" /\ position' = position /\ disk' = disk
        /\ phase' = "request"
    BY <1>2, <1>3, <1>9 DEF file_open
  <2>3. HandleInv' /\ ListInv' /\ PositionInv'
    BY <1>6, <2>1, <2>2 DEF HandleInv, ListInv, PositionInv
  <2>4. FreshInv'
    BY <1>3, <2>2 DEF FreshInv
  <2>5. ASSUME Straightforward', ~context.errnum
        PROVE  /\ position' = 0 /\ Begun'
               /\ demand.op = "put" => context'.trunc = demand.trunc
    <3>1. Straightforward /\ Fine
      BY <1>6, <2>5 DEF Straightforward, Fine
    <3>2. context.trunc \in BOOLEAN /\ demand.trunc \in BOOLEAN
      BY <1>1, ContextFields, DemandFields
    <3>3. QED
      BY <1>6, <1>7, <2>1, <2>2, <3>1, <3>2 DEF Begun
  <2>6. (PutStory' /\ GetStory' /\ RemoveStory') \/ ~Straightforward'
    BY <1>2, <1>3, <1>6, <2>1, <2>2, <2>5
       DEF PutStory, GetStory, RemoveStory, Fine
  <2>7. StoryInv'
    BY <2>6 DEF StoryInv
  <2>8. QED
    BY <2>3, <2>4, <2>7, WorkNext
<1>10. CASE /\ context' = Wrong([c EXCEPT !.state = "closed"])
            /\ phase' = "response" /\ UNCHANGED file_open
  <2>1. context'.state = "closed" /\ context'.errnum
    BY <1>5, <1>10 DEF Wrong, Contexts
  <2>2. handle' = "none" /\ phase' = "response"
    BY <1>3, <1>10 DEF file_open
  <2>3. HandleInv' /\ ListInv' /\ PositionInv'
    BY <1>6, <2>1, <2>2 DEF HandleInv, ListInv, PositionInv, In
  <2>4. FreshInv'
    BY <1>3, <2>2 DEF FreshInv
  <2>5. StoryInv'
    BY <1>2, <1>3, <1>6, <2>1, <2>2
       DEF StoryInv, PutStory, GetStory, RemoveStory, Fine
  <2>6. QED
    BY <2>3, <2>4, <2>5, WorkNext
<1>11. QED
  BY <1>4, <1>8, <1>9, <1>10

\* The steps that neither begin nor end a request.
LEMMA SeekEndKeeps ==
    ASSUME FileTypeOK, WorkInv, SeekEnd
    PROVE  WorkInv'
<1>1. /\ context \in Contexts /\ demand \in Demands /\ DiskTypes
      /\ demand.offset \in Nat
  BY WorkTypes
<1>2. /\ \/ phase = "request" /\ demand.op = "put"
         \/ phase = "response" /\ demand.op = "get"
      /\ ~context.errnum /\ context.state = "open"
      /\ phase' = phase /\ demand' = demand /\ disk' = disk
      /\ handle' = handle /\ slips' = slips
      /\ buffer' = buffer /\ reply' = reply /\ answer' = answer
  BY DEF SeekEnd, Positioning, In, Fine, sent
<1>3. HandleInv /\ FreshInv /\ PositionInv /\ StoryInv
  BY DEF WorkInv
<1>4. \/ context' = Wrong(context) /\ UNCHANGED position
      \/ context' = Again(context) /\ UNCHANGED position
      \/ /\ context' = [context EXCEPT !.state = "lseek1"]
         /\ ~(Len(disk) < context.offset) /\ position' = Len(disk)
  BY DEF SeekEnd, Call, Seeks
<1>5. \/ context'.errnum /\ context'.state = "open"
      \/ /\ context'.errnum = FALSE /\ context'.state = "open"
         /\ context'.block = context.block /\ context'.done = context.done
         /\ context'.last = context.last
         /\ context'.offset \in {context.offset, demand.offset}
      \/ /\ context'.errnum = FALSE /\ context'.state = "lseek1"
         /\ context'.block = context.block /\ context'.done = context.done
         /\ context'.last = context.last
         /\ context'.offset = context.offset
         /\ context.offset <= Len(disk) /\ position' = Len(disk)
  <2>1. CASE context' = Wrong(context)
    BY <1>1, <1>2, <2>1, WrongFields
  <2>2. CASE context' = Again(context)
    BY <1>1, <1>2, <2>2, AgainFields, ContextFields
  <2>3. CASE /\ context' = [context EXCEPT !.state = "lseek1"]
             /\ ~(Len(disk) < context.offset) /\ position' = Len(disk)
    <3>1. context.offset \in Nat /\ Len(disk) \in Nat
      BY <1>1, ContextFields DEF DiskTypes
    <3>2. QED
      BY <1>1, <1>2, <2>3, <3>1, NextState, ContextFields
  <2>4. QED
    BY <1>4, <2>1, <2>2, <2>3
<1>6. HandleInv'
  BY <1>2, <1>3, <1>5 DEF HandleInv, IsOpen
<1>7. FreshInv'
  BY <1>2, <1>3 DEF FreshInv
<1>8. ListInv'
  BY <1>2 DEF ListInv
<1>9. PositionInv'
  <2>1. Len(disk)' = Len(disk) /\ Len(disk) <= Len(disk)
    BY <1>1, <1>2 DEF DiskTypes
  <2>2. QED
    BY <1>2, <1>5, <2>1 DEF PositionInv
<1>10. StoryInv'
  <2>1. ASSUME Straightforward'
        PROVE  /\ demand.offset # 0 \/ demand.op = "get"
               /\ Begun /\ handle = "open"
               /\ demand.op = "get" => buffer = <<>> /\ reply = <<>>
    BY <1>2, <1>3, <2>1
       DEF StoryInv, Straightforward, PutStory, GetStory, Fine
  <2>2. ASSUME Straightforward'
        PROVE  /\ ~context'.errnum => Begun'
               /\ context'.state = "lseek1" => demand.offset <= FileLength
    <3>1. Begun
      BY <2>1, <2>2
    <3>2. Len(disk) = FileLength
      BY <3>1, OldType DEF Begun
    <3>3. QED
      BY <1>2, <1>5, <3>1, <3>2 DEF Begun
  <2>3. ASSUME Straightforward'
        PROVE  PutStory' /\ GetStory' /\ RemoveStory'
    <3>1. answer' # "ok"
      BY <1>2, <1>3 DEF FreshInv
    <3>2. CASE context'.errnum
      BY <1>2, <3>1, <3>2 DEF PutStory, GetStory, RemoveStory, Fine
    <3>3. CASE ~context'.errnum
      <4>1. /\ Begun' /\ context'.state \in {"open", "lseek1"}
            /\ context'.state = "lseek1" => demand.offset <= FileLength
        BY <1>5, <2>2, <2>3, <3>3
      <4>2. PutStory'
        BY <1>2, <2>1, <2>3, <3>1, <4>1 DEF PutStory
      <4>3. disk' = Old
        BY <4>1 DEF Begun
      <4>4. GetStory'
        BY <1>2, <2>1, <2>3, <3>1, <4>1, <4>3 DEF GetStory
      <4>5. QED
        BY <1>2, <4>2, <4>4 DEF RemoveStory
    <3>4. QED
      BY <3>2, <3>3
  <2>4. QED
    BY <2>3 DEF StoryInv
<1>11. QED
  BY <1>6, <1>7, <1>8, <1>9, <1>10, WorkNext

LEMMA SeekSetKeeps ==
    ASSUME FileTypeOK, WorkInv, SeekSet
    PROVE  WorkInv'
<1>1. /\ context \in Contexts /\ demand \in Demands /\ DiskTypes
      /\ demand.offset \in Nat
  BY WorkTypes
<1>2. /\ \/ phase = "request" /\ demand.op = "put"
         \/ phase = "response" /\ demand.op = "get"
      /\ ~context.errnum /\ context.state = "lseek1"
      /\ phase' = phase /\ demand' = demand /\ disk' = disk
      /\ handle' = handle
      /\ buffer' = buffer /\ reply' = reply /\ answer' = answer
  BY DEF SeekSet, Positioning, In, Fine, sent
<1>3. HandleInv /\ FreshInv /\ PositionInv /\ StoryInv
  BY DEF WorkInv
<1> DEFINE c == [context EXCEPT !.state = "lseek"]
<1>4. \/ context' = Wrong(context) /\ UNCHANGED <<position, slips>>
      \/ /\ context' = Again(c) /\ UNCHANGED position
         /\ slips' = slips \cup {"seek"}
      \/ context' = c /\ position' = context.offset /\ slips' = slips
  BY DEF SeekSet, Call, Seeks
<1>5. c \in Contexts
  BY <1>1 DEF Contexts, FileStates
<1>6. /\ c.state = "lseek" /\ c.errnum = FALSE
      /\ c.block = context.block /\ c.done = context.done
      /\ c.last = context.last /\ c.offset = context.offset
  BY <1>1, <1>2, ContextFields, NextState
<1> HIDE DEF c
<1>7. \/ /\ context'.errnum /\ context'.state = "lseek1"
         /\ context'.offset = context.offset
         /\ position' = position /\ slips' = slips
      \/ /\ "seek" \in slips' /\ context'.state = "lseek"
         /\ position' = position /\ slips \subseteq slips'
      \/ /\ context'.errnum = FALSE /\ context'.state = "lseek"
         /\ context'.block = context.block /\ context'.done = context.done
         /\ context'.last = context.last
         /\ context'.offset = context.offset
         /\ position' = context.offset /\ slips' = slips
  <2>1. CASE context' = Wrong(context) /\ UNCHANGED <<position, slips>>
    BY <1>1, <1>2, <2>1, WrongFields
  <2>2. CASE /\ context' = Again(c) /\ UNCHANGED position
             /\ slips' = slips \cup {"seek"}
    BY <1>1, <1>5, <1>6, <2>2, AgainFields
  <2>3. CASE context' = c /\ position' = context.offset /\ slips' = slips
    BY <1>6, <2>3
  <2>4. QED
    BY <1>4, <2>1, <2>2, <2>3
<1>8. HandleInv'
  BY <1>2, <1>3, <1>7 DEF HandleInv, IsOpen
<1>9. FreshInv'
  BY <1>2, <1>3 DEF FreshInv
<1>10. ListInv'
  BY <1>2 DEF ListInv
<1>11. PositionInv'
  <2>1. Len(disk)' = Len(disk)
    BY <1>2
  <2>2. demand.op = "put" =>
            context.offset <= Len(disk) /\ position <= Len(disk)
    BY <1>2, <1>3 DEF PositionInv, In
  <2>3. demand.op # "put" => ~In({"put"}, "request")'
    BY <1>2 DEF In
  <2>4. QED
    BY <1>2, <1>7, <2>1, <2>2, <2>3 DEF PositionInv
<1>12. StoryInv'
  <2>1. ASSUME Straightforward'
        PROVE  /\ demand.offset # 0 \/ demand.op = "get"
               /\ Begun /\ handle = "open" /\ demand.offset <= FileLength
               /\ demand.op = "get" => buffer = <<>> /\ reply = <<>>
    <3>1. slips' = slips
      BY <1>7, <2>1 DEF Straightforward
    <3>2. QED
      BY <1>2, <1>3, <2>1, <3>1
         DEF StoryInv, Straightforward, PutStory, GetStory, Fine
  <2>2. ASSUME Straightforward'
        PROVE  PutStory' /\ GetStory' /\ RemoveStory'
    <3>1. answer' # "ok" /\ slips' = slips
      BY <1>2, <1>3, <1>7, <2>2 DEF FreshInv, Straightforward
    <3>2. CASE context'.errnum
      BY <1>2, <3>1, <3>2 DEF PutStory, GetStory, RemoveStory, Fine
    <3>3. CASE ~context'.errnum
      <4>1. /\ context'.errnum = FALSE /\ context'.state = "lseek"
            /\ context'.block = 1 /\ context'.done = 0
            /\ context'.last = FALSE
            /\ context'.offset = demand.offset
            /\ position' = demand.offset /\ disk' = Old
        BY <1>1, <1>2, <1>7, <2>1, <2>2, <3>1, <3>3, ContextFields
           DEF Straightforward, Begun
      <4>2. (Before(context.block) + context.done)' = 0
        BY <4>1, BlocksFit DEF Before
      <4>3. demand.op = "put" => disk' = Image(demand, 0)
        <5>1. demand.op = "put" => OldLength(demand) # 0
          BY <2>1, <2>2, ServiceBounds DEF OldLength
        <5>2. QED
          BY <1>1, <2>1, <2>2, <4>1, <5>1, ImageNone
      <4>4. SentTo(demand, <<>>, <<>>, 0)
        BY NoUnits DEF SentTo
      <4>5. demand.offset + 0 = demand.offset /\ 0 <= FileLength
        BY <1>1, ServiceBounds
      <4>6. PutStory'
        BY <1>2, <2>1, <2>2, <3>1, <4>1, <4>2, <4>3, <4>5
           DEF PutStory, ImageOf
      <4>7. GetStory'
        BY <1>2, <2>1, <2>2, <3>1, <4>1, <4>4, <4>5 DEF GetStory
      <4>8. QED
        BY <1>2, <4>6, <4>7 DEF RemoveStory
    <3>4. QED
      BY <3>2, <3>3
  <2>3. QED
    BY <2>2 DEF StoryInv
<1>13. QED
  BY <1>8, <1>9, <1>10, <1>11, <1>12, WorkNext

\* A block that is written to its end.
LEMMA BlockEnds ==
    ASSUME context \in Contexts
    PROVE  /\ \A n \in 1 .. Remaining :
                  Before(context.block) + context.done + n <= FileLength
           /\ Remaining = 0 /\ context.block = LastBlock =>
                  Before(context.block) + context.done = FileLength
           /\ Remaining = 0 /\ context.block < LastBlock =>
                  Before(context.block + 1) + 0
                      = Before(context.block) + context.done
<1>1. /\ context.block \in 1 .. LastBlock /\ context.done \in Nat
      /\ LastBlock \in Nat /\ BlockSize \in Nat /\ FileLength \in Nat
  BY ContextFields, BlocksFit, ServiceBounds
<1>2. /\ Before(context.block) \in Nat /\ Before(context.block) < FileLength
  BY <1>1, BlocksFit
<1> DEFINE b == Before(context.block)
<1>3. Remaining = Smaller(BlockSize, FileLength - b) - context.done
  BY DEF Remaining
<1>4. context.block = LastBlock => b + BlockSize >= FileLength
  BY BlocksFit
<1>5. context.block < LastBlock =>
          /\ Before(context.block + 1) = b + BlockSize
          /\ b + BlockSize < FileLength
  BY <1>1, BlocksFit
<1> HIDE DEF b
<1>6. b \in Nat /\ b < FileLength
  BY <1>2 DEF b
<1>7. \A n \in 1 .. Remaining : b + context.done + n <= FileLength
  BY <1>1, <1>3, <1>6 DEF Smaller
<1>8. Remaining = 0 /\ context.block = LastBlock
          => b + context.done = FileLength
  BY <1>1, <1>3, <1>4, <1>6 DEF Smaller
<1>9. Remaining = 0 /\ context.block < LastBlock =>
          Before(context.block + 1) + 0 = b + context.done
  <2>1. ASSUME Remaining = 0, context.block < LastBlock
        PROVE  Before(context.block + 1) + 0 = b + context.done
    <3>1. Before(context.block + 1) = b + BlockSize
          /\ b + BlockSize < FileLength
      BY <1>5, <2>1
    <3>2. context.done = BlockSize
      BY <1>1, <1>3, <1>6, <2>1, <3>1 DEF Smaller
    <3>3. QED
      BY <1>1, <1>6, <3>1, <3>2
  <2>2. QED
    BY <2>1
<1>10. QED
  BY <1>7, <1>8, <1>9 DEF b

\* Where a put is whose blocks were written once.
LEMMA WritingIs ==
    ASSUME FileTypeOK, WorkInv, Writing, Straightforward
    PROVE  LET w == Before(context.block) + context.done IN
           /\ context.state = "lseek" /\ handle = "open"
           /\ w \in Nat /\ w <= FileLength /\ ImageOf(w)
           /\ position = demand.offset + w /\ context.offset = position
<1>1. /\ phase = "request" /\ demand.op = "put" /\ Fine
      /\ context.state \in {"none", "lseek"}
      /\ context.state = "none" => context.block > 1
  BY DEF Writing, In
<1>2. PutStory
  BY DEF WorkInv, StoryInv
<1>3. context.block \in Nat /\ ~(1 > 1)
  BY WorkTypes, ContextFields, BlocksFit
<1>4. context.state = "lseek"
  BY <1>1, <1>2, <1>3 DEF PutStory, Begun
<1>5. Before(context.block) + context.done \in Nat
  BY WorkTypes, ContextFields, BlocksFit
<1>6. QED
  BY <1>1, <1>2, <1>4, <1>5 DEF PutStory

LEMMA WriteKeeps ==
    ASSUME FileTypeOK, WorkInv, WriteBlock
    PROVE  WorkInv'
<1>1. /\ context \in Contexts /\ demand \in Demands /\ DiskTypes
      /\ demand.offset \in Nat
  BY WorkTypes
<1>2. /\ phase = "request" /\ demand.op = "put" /\ Writing /\ Remaining > 0
      /\ ~context.errnum /\ context.state \in {"none", "lseek"}
      /\ phase' = phase /\ demand' = demand /\ handle' = handle
      /\ buffer' = buffer /\ reply' = reply /\ answer' = answer
  BY DEF WriteBlock, Writing, In, Fine, sent
<1>3. HandleInv /\ FreshInv /\ PositionInv /\ StoryInv
  BY DEF WorkInv
<1>4. \/ /\ \E n \in 1 .. Remaining :
                /\ context' = [context EXCEPT !.done = @ + n,
                                              !.offset = @ + n]
                /\ IF handle = "none" THEN UNCHANGED <<disk, position>>
                   ELSE disk' = Written(n) /\ position' = position + n
         /\ UNCHANGED slips
      \/ /\ context' = Again(context) /\ UNCHANGED <<disk, position>>
         /\ slips' = IF context.block = 1 /\ context.done > 0
                     THEN slips \cup {"again"} ELSE slips
      \/ context' = Wrong(context) /\ UNCHANGED <<disk, position, slips>>
  BY DEF WriteBlock, Call
<1>5. /\ context'.state = context.state
      /\ \/ context'.errnum /\ UNCHANGED <<disk, position, slips>>
         \/ /\ ~context'.errnum /\ UNCHANGED <<disk, position>>
            /\ context'.block = context.block /\ context'.done = context.done
            /\ context'.offset = IF context.block = 1 THEN demand.offset
                                 ELSE context.offset
            /\ slips' = IF context.block = 1 /\ context.done > 0
                        THEN slips \cup {"again"} ELSE slips
         \/ /\ ~context'.errnum /\ slips' = slips
            /\ context'.block = context.block
            /\ \E n \in 1 .. Remaining :
                   /\ context'.done = context.done + n
                   /\ context'.offset = context.offset + n
                   /\ IF handle = "none" THEN UNCHANGED <<disk, position>>
                      ELSE disk' = Written(n) /\ position' = position + n
  <2>1. CASE context' = Wrong(context) /\ UNCHANGED <<disk, position, slips>>
    BY <1>1, <2>1, WrongFields
  <2>2. CASE /\ context' = Again(context) /\ UNCHANGED <<disk, position>>
             /\ slips' = IF context.block = 1 /\ context.done > 0
                         THEN slips \cup {"again"} ELSE slips
    BY <1>1, <1>2, <2>2, AgainFields
  <2>3. ASSUME NEW n \in 1 .. Remaining, slips' = slips,
               context' = [context EXCEPT !.done = @ + n, !.offset = @ + n],
               IF handle = "none" THEN UNCHANGED <<disk, position>>
               ELSE disk' = Written(n) /\ position' = position + n
        PROVE  /\ context'.state = context.state
               /\ ~context'.errnum /\ context'.block = context.block
               /\ context'.done = context.done + n
               /\ context'.offset = context.offset + n
    BY <1>1, <1>2, <2>3 DEF Contexts
  <2>4. QED
    BY <1>4, <2>1, <2>2, <2>3
<1>6. position <= Len(disk) \/ context.state = "none"
  <2>1. Remaining # 0
    BY <1>2
  <2>2. QED
    BY <1>2, <1>3, <2>1 DEF PositionInv, In
<1>7. HandleInv'
  BY <1>2, <1>3, <1>5 DEF HandleInv, IsOpen
<1>8. FreshInv'
  BY <1>2, <1>3 DEF FreshInv
<1>9. ListInv'
  BY <1>2 DEF ListInv
<1>10. context.state = "lseek" => position' <= Len(disk')
  <2>1. CASE UNCHANGED <<disk, position>>
    BY <1>6, <2>1
  <2>2. ASSUME NEW n \in 1 .. Remaining, context.state = "lseek",
               disk' = Written(n), position' = position + n
        PROVE  position' <= Len(disk')
    <3>1. n \in Nat /\ position \in Nat /\ Len(disk) \in Nat
      BY <1>1 DEF DiskTypes
    <3>2. Len(disk') = IF Len(disk) < position + n THEN position + n
                                                   ELSE Len(disk)
      BY <1>1, <1>6, <2>2, <3>1, WrittenLength
    <3>3. QED
      BY <2>2, <3>1, <3>2
  <2>3. QED
    BY <1>5, <2>1, <2>2
<1>11. PositionInv'
  BY <1>2, <1>3, <1>5, <1>10 DEF PositionInv
<1>12. StoryInv'
  <2>1. CASE context'.errnum \/ "again" \in slips'
    BY <1>2, <1>3, <2>1
       DEF StoryInv, Straightforward, PutStory, GetStory, RemoveStory, Fine,
           FreshInv
  <2>2. CASE ~context'.errnum /\ "again" \notin slips'
    <3>1. slips' = slips
      BY <1>5, <2>2
    <3> DEFINE w == Before(context.block) + context.done
    <3>2. ASSUME Straightforward
          PROVE  \E n \in Nat :
                     /\ context'.state = "lseek" /\ handle = "open"
                     /\ (Before(context.block) + context.done)' = w + n
                     /\ w + n <= FileLength
                     /\ position' = demand.offset + (w + n)
                     /\ context'.offset = demand.offset + (w + n)
                     /\ disk' = Image(demand, w + n)
                     /\ demand.offset <= FileLength
      <4>1. /\ context.state = "lseek" /\ handle = "open"
            /\ w \in Nat /\ w <= FileLength /\ ImageOf(w)
            /\ position = demand.offset + w /\ context.offset = position
        BY <1>2, <3>2, WritingIs
      <4> HIDE DEF w
      <4>2. CASE /\ UNCHANGED <<disk, position>>
                 /\ context'.block = context.block
                 /\ context'.done = context.done
                 /\ context'.offset = IF context.block = 1 THEN demand.offset
                                      ELSE context.offset
                 /\ slips' = IF context.block = 1 /\ context.done > 0
                             THEN slips \cup {"again"} ELSE slips
        <5>1. ~(context.block = 1 /\ context.done > 0)
          BY <2>2, <4>2
        <5>2. context.done \in Nat
          BY <1>1, ContextFields, ServiceBounds
        <5>3. context.block = 1 => w = 0
          BY <5>1, <5>2, BlocksFit DEF w
        <5>4. (Before(context.block) + context.done)' = w
          BY <4>2 DEF w, Before
        <5>5. context'.offset = demand.offset + w
          BY <1>1, <4>1, <4>2, <5>3
        <5>6. WITNESS 0 \in Nat
        <5>7. w + 0 = w
          BY <4>1
        <5>8. QED
          BY <1>5, <4>1, <4>2, <5>4, <5>5, <5>7 DEF ImageOf
      <4>3. ASSUME NEW n \in 1 .. Remaining,
                   context'.block = context.block,
                   context'.done = context.done + n,
                   context'.offset = context.offset + n,
                   disk' = Written(n), position' = position + n
            PROVE  /\ n \in Nat
                   /\ (Before(context.block) + context.done)' = w + n
                   /\ w + n <= FileLength
                   /\ position' = demand.offset + (w + n)
                   /\ context'.offset = demand.offset + (w + n)
                   /\ disk' = Image(demand, w + n)
        <5>1. n \in Nat /\ context.done \in Nat /\ Before(context.block) \in Nat
          BY <1>1, ContextFields, ServiceBounds, BlocksFit
        <5>2. w + n <= FileLength
          BY <1>1, BlockEnds DEF w
        <5>3. (Before(context.block) + context.done)' = w + n
          <6>1. Before(context'.block) = Before(context.block)
            BY <4>3
          <6>2. Before(context'.block) + context'.done = w + n
            BY <4>3, <5>1, <6>1 DEF w
          <6>3. QED
            BY <6>2 DEF Before
        <5>4. disk' = Image(demand, w + n)
          BY <1>1, <4>1, <4>3, <5>1, ImageGrows DEF w
        <5>5. QED
          BY <1>1, <4>1, <4>3, <5>1, <5>2, <5>3, <5>4
      <4>4. QED
        BY <1>5, <2>2, <4>1, <4>2, <4>3 DEF ImageOf
    <3>3. ASSUME Straightforward'
          PROVE  PutStory'
      <4>1. Straightforward
        BY <3>1, <3>3 DEF Straightforward
      <4>2. answer' # "ok"
        BY <1>2, <1>3 DEF FreshInv
      <4> HIDE DEF w
      <4>3. PICK n \in Nat :
                     /\ context'.state = "lseek" /\ handle = "open"
                     /\ (Before(context.block) + context.done)' = w + n
                     /\ w + n <= FileLength
                     /\ position' = demand.offset + (w + n)
                     /\ context'.offset = demand.offset + (w + n)
                     /\ disk' = Image(demand, w + n)
                     /\ demand.offset <= FileLength
        BY <3>2, <4>1
      <4>4. PICK m : m = w + n
        OBVIOUS
      <4>5. QED
        BY <1>2, <4>2, <4>3, <4>4 DEF PutStory, ImageOf
    <3>4. QED
      BY <1>2, <3>3 DEF StoryInv, GetStory, RemoveStory
  <2>3. QED
    BY <2>1, <2>2
<1>13. QED
  BY <1>7, <1>8, <1>9, <1>11, <1>12, WorkNext

LEMMA NextBlockKeeps ==
    ASSUME FileTypeOK, WorkInv, NextBlock
    PROVE  WorkInv'
<1>1. context \in Contexts /\ demand \in Demands /\ DiskTypes
  BY WorkTypes
<1>2. /\ phase = "request" /\ demand.op = "put" /\ Writing /\ Remaining = 0
      /\ ~context.errnum /\ context.state \in {"none", "lseek"}
      /\ context.block < LastBlock
      /\ context' = [context EXCEPT !.block = @ + 1, !.done = 0]
      /\ phase' = phase /\ demand' = demand /\ handle' = handle
      /\ disk' = disk /\ position' = position /\ slips' = slips
      /\ buffer' = buffer /\ reply' = reply /\ answer' = answer
  BY DEF NextBlock, Writing, In, Fine, sent, file_open
<1>3. /\ context'.state = context.state /\ context'.errnum = context.errnum
      /\ context'.block = context.block + 1 /\ context'.done = 0
      /\ context'.offset = context.offset
  BY <1>1, <1>2 DEF Contexts
<1>4. HandleInv /\ FreshInv /\ PositionInv
  BY DEF WorkInv
<1>5. HandleInv'
  BY <1>2, <1>3, <1>4 DEF HandleInv, IsOpen
<1>6. FreshInv'
  BY <1>2, <1>4 DEF FreshInv
<1>7. ListInv'
  BY <1>2 DEF ListInv
<1>8. PositionInv'
  <2>1. context.block # LastBlock
    BY <1>1, <1>2, ContextFields, BlocksFit
  <2>2. context.state = "lseek" => position <= Len(disk)
    BY <1>2, <1>4, <2>1 DEF PositionInv, In
  <2>3. QED
    BY <1>2, <1>3, <1>4, <2>2 DEF PositionInv
<1>9. StoryInv'
  <2> DEFINE w == Before(context.block) + context.done
  <2>1. ASSUME Straightforward'
        PROVE  PutStory'
    <3>1. /\ context.state = "lseek" /\ handle = "open"
          /\ w \in Nat /\ w <= FileLength /\ ImageOf(w)
          /\ position = demand.offset + w /\ context.offset = position
      BY <1>2, <2>1, WritingIs DEF Straightforward
    <3>2. (Before(context.block) + context.done)' = w
      <4>1. Before(context.block + 1) + 0 = w
        BY <1>1, <1>2, BlockEnds
      <4>2. QED
        BY <1>3, <4>1 DEF Before
    <3>3. answer' # "ok"
      BY <1>2, <1>4 DEF FreshInv
    <3> HIDE DEF w
    <3>4. QED
      BY <1>2, <1>3, <3>1, <3>2, <3>3 DEF PutStory, ImageOf
  <2>2. QED
    BY <1>2, <2>1 DEF StoryInv, GetStory, RemoveStory
<1>10. QED
  BY <1>5, <1>6, <1>7, <1>8, <1>9, WorkNext

LEMMA TruncateKeeps ==
    ASSUME FileTypeOK, WorkInv, Truncate
    PROVE  WorkInv'
<1>1. context \in Contexts /\ demand \in Demands /\ DiskTypes
      /\ demand.offset \in Nat
  BY WorkTypes
<1>2. /\ phase = "request" /\ demand.op = "put" /\ Writing /\ Remaining = 0
      /\ ~context.errnum /\ context.state \in {"none", "lseek"}
      /\ context.block = LastBlock /\ context.trunc
      /\ phase' = phase /\ demand' = demand /\ handle' = handle
      /\ position' = position
      /\ buffer' = buffer /\ reply' = reply /\ answer' = answer
  BY DEF Truncate, Writing, In, Fine, sent
<1> DEFINE c == [context EXCEPT !.trunc = FALSE]
           e == [context EXCEPT !.done = 0]
<1>3. \/ Cuts(context.offset) /\ context' = c /\ slips' = slips
      \/ /\ context' = Again(e) /\ slips' = slips \cup {"again"}
         /\ disk' = disk
      \/ context' = Wrong(c) /\ disk' = disk /\ slips' = slips
  BY DEF Truncate, Call
<1>4. HandleInv /\ FreshInv /\ PositionInv
  BY DEF WorkInv
<1>5. /\ c \in Contexts /\ c.state = context.state /\ c.errnum = FALSE
      /\ c.block = context.block /\ c.done = context.done
      /\ c.offset = context.offset /\ c.trunc = FALSE
  BY <1>1, <1>2 DEF Contexts
<1>6. e \in Contexts /\ e.state = context.state
  <2>1. 0 \in Counts
    BY ServiceBounds DEF Counts
  <2>2. QED
    BY <1>1, <2>1 DEF Contexts
<1> HIDE DEF c, e
<1>7. /\ context'.state = context.state
      /\ \/ /\ context'.errnum = FALSE /\ context'.block = context.block
            /\ context'.done = context.done /\ context'.trunc = FALSE
            /\ context'.offset = context.offset
            /\ Cuts(context.offset) /\ slips' = slips
         \/ "again" \in slips' /\ disk' = disk
         \/ /\ context'.errnum /\ context'.block = context.block
            /\ context'.done = context.done /\ context'.trunc = FALSE
            /\ disk' = disk
  <2>1. CASE Cuts(context.offset) /\ context' = c /\ slips' = slips
    BY <1>5, <2>1
  <2>2. CASE /\ context' = Again(e) /\ slips' = slips \cup {"again"}
             /\ disk' = disk
    BY <1>1, <1>6, <2>2, AgainFields
  <2>3. CASE context' = Wrong(c) /\ disk' = disk /\ slips' = slips
    BY <1>5, <2>3, WrongFields
  <2>4. QED
    BY <1>3, <2>1, <2>2, <2>3
<1>8. HandleInv'
  BY <1>2, <1>4, <1>7 DEF HandleInv, IsOpen
<1>9. FreshInv'
  BY <1>2, <1>4 DEF FreshInv
<1>10. ListInv'
  BY <1>2 DEF ListInv
<1>11. PositionInv'
  <2>1. context'.block = context.block /\ context'.done = context.done =>
            Remaining' = 0
    BY <1>2 DEF Remaining, Before
  <2>2. context.state = "lseek" => position <= Len(disk)
    BY <1>2, <1>4 DEF PositionInv, In
  <2>3. QED
    BY <1>2, <1>4, <1>7, <2>1, <2>2 DEF PositionInv
<1>12. StoryInv'
  <2>1. CASE context'.errnum \/ "again" \in slips'
    BY <1>2, <1>4, <2>1
       DEF StoryInv, Straightforward, PutStory, GetStory, RemoveStory, Fine,
           FreshInv
  <2>2. CASE ~context'.errnum /\ "again" \notin slips'
    <3>1. slips' = slips
      BY <1>7, <2>2
    <3> DEFINE w == Before(context.block) + context.done
    <3>2. ASSUME Straightforward'
          PROVE  PutStory'
      <4>1. /\ context.state = "lseek" /\ handle = "open"
            /\ w \in Nat /\ w <= FileLength /\ ImageOf(w)
            /\ position = demand.offset + w /\ context.offset = position
        BY <1>2, <3>1, <3>2, WritingIs DEF Straightforward
      <4>2. w = FileLength
        BY <1>1, <1>2, BlockEnds
      <4>3. (Before(context.block) + context.done)' = w
        BY <1>7, <2>2 DEF Before
      <4> HIDE DEF w
      <4>4. disk' = Image(demand, w)
        BY <1>1, <1>7, <2>2, <4>1, <4>2, ImageCut DEF ImageOf
      <4>5. answer' # "ok"
        BY <1>2, <1>4 DEF FreshInv
      <4>6. QED
        BY <1>2, <1>7, <2>2, <4>1, <4>3, <4>4, <4>5 DEF PutStory, ImageOf
    <3>3. QED
      BY <1>2, <3>2 DEF StoryInv, GetStory, RemoveStory
  <2>3. QED
    BY <2>1, <2>2
<1>13. QED
  BY <1>8, <1>9, <1>10, <1>11, <1>12, WorkNext

LEMMA ClosePutKeeps ==
    ASSUME FileTypeOK, WorkInv, ClosePut
    PROVE  WorkInv'
<1>1. context \in Contexts /\ demand \in Demands
  BY WorkTypes
<1>2. /\ phase = "request" /\ demand.op = "put" /\ PutDone
      /\ context.state # "none"
      /\ demand' = demand /\ disk' = disk /\ position' = position
      /\ slips' = slips
      /\ buffer' = buffer /\ reply' = reply /\ answer' = answer
  BY DEF ClosePut, In, sent
<1> DEFINE c == [context EXCEPT !.state = "closed"]
           h == IF handle = "open" THEN "closed" ELSE handle
<1>3. \/ handle' = h /\ context' = c /\ phase' = "response"
      \/ /\ context' = [context EXCEPT !.state = "closing"]
         /\ handle' = handle /\ phase' = phase
      \/ handle' = h /\ context' = Wrong(c) /\ phase' = "response"
  BY DEF ClosePut, Call, Closes
<1>4. HandleInv /\ FreshInv /\ PositionInv
  BY DEF WorkInv
<1>5. c \in Contexts /\ c.state = "closed" /\ c.errnum = context.errnum
  BY <1>1 DEF Contexts, FileStates
<1> HIDE DEF c
<1>6. \/ /\ handle' # "open" /\ phase' = "response"
         /\ context'.state = "closed"
         /\ context'.errnum \/ context'.errnum = context.errnum
      \/ /\ handle' = handle /\ phase' = "request"
         /\ context'.state = "closing" /\ context'.errnum = context.errnum
  <2>1. CASE handle' = h /\ context' = c /\ phase' = "response"
    BY <1>5, <2>1
  <2>2. CASE /\ context' = [context EXCEPT !.state = "closing"]
             /\ handle' = handle /\ phase' = phase
    BY <1>1, <1>2, <2>2, NextState
  <2>3. CASE handle' = h /\ context' = Wrong(c) /\ phase' = "response"
    BY <1>5, <2>3, WrongFields
  <2>4. QED
    BY <1>3, <2>1, <2>2, <2>3
<1>7. HandleInv'
  BY <1>2, <1>4, <1>6 DEF HandleInv, IsOpen
<1>8. FreshInv'
  BY <1>2, <1>4, <1>6 DEF FreshInv
<1>9. ListInv'
  BY <1>2 DEF ListInv
<1>10. PositionInv'
  BY <1>2, <1>6 DEF PositionInv, In
<1>11. StoryInv'
  <2>1. ASSUME Straightforward', ~context'.errnum
        PROVE  ImageOf(FileLength)
    <3>1. Straightforward /\ Fine
      BY <1>2, <1>6, <2>1 DEF Straightforward, Fine
    <3>2. CASE context.state = "closing"
      BY <1>2, <1>4, <3>1, <3>2 DEF WorkInv, StoryInv, PutStory
    <3>3. CASE Writing /\ Remaining = 0 /\ context.block = LastBlock
      <4>1. ImageOf(Before(context.block) + context.done)
        BY <3>1, <3>3, WritingIs
      <4>2. Before(context.block) + context.done = FileLength
        BY <1>1, <3>3, BlockEnds
      <4>3. QED
        BY <4>1, <4>2
    <3>4. QED
      BY <1>2, <3>1, <3>2, <3>3 DEF PutDone, Fine
  <2>2. ASSUME Straightforward'
        PROVE  PutStory'
    <3>1. answer' # "ok"
      BY <1>2, <1>4 DEF FreshInv
    <3>2. QED
      BY <1>2, <1>6, <2>1, <2>2, <3>1 DEF PutStory, ImageOf, Fine
  <2>3. QED
    BY <1>2, <2>2 DEF StoryInv, GetStory, RemoveStory
<1>12. QED
  BY <1>7, <1>8, <1>9, <1>10, <1>11, WorkNext

LEMMA NothingKeeps ==
    ASSUME FileTypeOK, WorkInv, NothingToClose
    PROVE  WorkInv'
<1>1. /\ phase = "request" /\ demand.op = "put" /\ PutDone
      /\ context.state = "none" /\ phase' = "response"
      /\ demand' = demand /\ context' = context
      /\ disk' = disk /\ position' = position /\ handle' = handle
      /\ slips' = slips
      /\ buffer' = buffer /\ reply' = reply /\ answer' = answer
  BY DEF NothingToClose, In, file_open, sent
<1>2. HandleInv /\ FreshInv /\ PositionInv
  BY DEF WorkInv
<1>3. handle = "none" /\ answer = "none"
  BY <1>1, <1>2 DEF PositionInv, FreshInv
<1>4. HandleInv' /\ FreshInv' /\ ListInv' /\ PositionInv'
  BY <1>1, <1>2, <1>3 DEF HandleInv, FreshInv, ListInv, PositionInv, In
<1>5. ASSUME Straightforward' PROVE ~Fine'
  <2>1. Straightforward
    BY <1>1, <1>5 DEF Straightforward
  <2>2. ~Writing
    BY <1>1, <2>1, WritingIs
  <2>3. QED
    BY <1>1, <2>2 DEF PutDone, Fine
<1>6. StoryInv'
  BY <1>1, <1>3, <1>5 DEF StoryInv, PutStory, GetStory, RemoveStory
<1>7. QED
  BY <1>4, <1>6, WorkNext

LEMMA RemoveKeeps ==
    ASSUME FileTypeOK, WorkInv, RemoveFile
    PROVE  WorkInv'
<1>1. context \in Contexts
  BY WorkTypes
<1>2. /\ phase = "request" /\ demand.op = "rm" /\ demand' = demand
      /\ position' = position /\ handle' = handle /\ slips' = slips
      /\ buffer' = buffer /\ reply' = reply /\ answer' = answer
  BY DEF RemoveFile, In, sent
<1>3. \/ disk' = <<>> /\ phase' = "response" /\ context' = context
      \/ disk' = disk /\ phase' = phase /\ context' = context
      \/ disk' = disk /\ phase' = "response" /\ context' = Wrong(context)
  BY DEF RemoveFile, Removes, Call
<1>4. /\ context'.state = context.state
      /\ \/ disk' = <<>> /\ phase' = "response"
         \/ phase' = "request"
         \/ phase' = "response" /\ context'.errnum
  BY <1>1, <1>2, <1>3, WrongFields
<1>5. HandleInv /\ FreshInv /\ PositionInv
  BY DEF WorkInv
<1>6. HandleInv' /\ FreshInv' /\ ListInv' /\ PositionInv'
  BY <1>2, <1>4, <1>5 DEF HandleInv, FreshInv, ListInv, PositionInv, In
<1>7. StoryInv'
  BY <1>2, <1>4, <1>5
     DEF StoryInv, PutStory, GetStory, RemoveStory, Fine, FreshInv
<1>8. QED
  BY <1>6, <1>7, WorkNext

LEMMA RespondKeeps ==
    ASSUME FileTypeOK, WorkInv, RespondNoData
    PROVE  WorkInv'
<1>1. /\ phase = "response" /\ demand.op \in {"put", "rm"}
      /\ answer' = (IF Fine THEN "ok" ELSE "error") /\ phase' = "over"
      /\ demand' = demand /\ context' = context
      /\ disk' = disk /\ position' = position /\ handle' = handle
      /\ slips' = slips /\ buffer' = buffer /\ reply' = reply
  BY DEF RespondNoData, Over, In, file_open
<1>2. HandleInv /\ FreshInv /\ PositionInv /\ StoryInv
  BY DEF WorkInv
<1>3. HandleInv' /\ ListInv' /\ PositionInv'
  BY <1>1, <1>2 DEF HandleInv, IsOpen, ListInv, PositionInv, In
<1>4. FreshInv'
  BY <1>1, <1>2 DEF FreshInv, Fine
<1>5. StoryInv'
  BY <1>1, <1>2
     DEF StoryInv, Straightforward, PutStory, GetStory, RemoveStory, ImageOf,
         Fine
<1>6. QED
  BY <1>3, <1>4, <1>5, WorkNext

\* The answer of a get, as far as it was read.
LEMMA ReadingIs ==
    ASSUME FileTypeOK, WorkInv, In({"get"}, "response"), Fine, Straightforward
    PROVE  /\ disk = Old /\ context.state # "none"
           /\ context.state \in {"open", "lseek1"} => ~GetDone
           /\ context.state \in {"lseek", "closing"} =>
                  /\ SentTo(demand, reply, buffer, context.done)
                  /\ demand.offset + context.done <= FileLength
                  /\ GetDone => demand.offset + context.done = FileLength
           /\ context.state \in {"open", "lseek1", "lseek", "closing"}
           /\ context.state = "lseek" =>
                  handle = "open" /\ position = demand.offset + context.done
<1>1. phase = "response" /\ demand.op = "get" /\ GetStory
  BY DEF In, WorkInv, StoryInv
<1>2. context.done \in Nat /\ demand.offset \in Nat /\ FileLength \in Nat
      /\ FileLength >= 1
  BY WorkTypes, ContextFields, ServiceBounds
<1>3. context.state \in {"open", "lseek1"} => ~GetDone
  BY <1>1, <1>2 DEF GetStory, Begun, GetDone
<1>4. context.state \in {"lseek", "closing"} =>
          (GetDone => demand.offset + context.done = FileLength)
  BY <1>1, <1>2 DEF GetStory, GetDone
<1>5. QED
  BY <1>1, <1>3, <1>4 DEF GetStory

LEMMA ReadKeeps ==
    ASSUME FileTypeOK, WorkInv, ReadFile
    PROVE  WorkInv'
<1>1. /\ context \in Contexts /\ demand \in Demands /\ DiskTypes /\ SentTypes
      /\ demand.offset \in Nat
  BY WorkTypes
<1>2. /\ phase = "response" /\ demand.op = "get" /\ ~context.errnum
      /\ In({"get"}, "response") /\ Fine
      /\ context.state = "lseek" /\ ~GetDone /\ Len(buffer) < BlockSize
      /\ phase' = phase /\ demand' = demand /\ disk' = disk
      /\ handle' = handle /\ answer' = answer /\ slips' = slips
  BY DEF ReadFile, In, Fine
<1>3. HandleInv /\ FreshInv /\ PositionInv
  BY DEF WorkInv
<1>4. PICK most :
        /\ most = Smaller(Smaller(BlockSize - Len(buffer),
                                  FileLength - context.done), Readable)
        /\ \/ /\ most = 0 /\ context' = [context EXCEPT !.last = TRUE]
              /\ UNCHANGED <<buffer, position, reply>>
           \/ /\ most # 0 /\ UNCHANGED reply
              /\ \E n \in 1 .. most :
                     /\ Reads(n)
                     /\ context' = [context EXCEPT !.done = @ + n]
           \/ /\ SendBuffer /\ UNCHANGED position
              /\ context' = [context EXCEPT !.started = @ \/ buffer # <<>>]
           \/ context' = Wrong(context)
  BY DEF ReadFile, Call
<1>5. /\ context'.state = "lseek"
      /\ \/ /\ most = 0 /\ context'.errnum = FALSE
            /\ context'.done = context.done
            /\ UNCHANGED <<buffer, position, reply>>
         \/ /\ context'.errnum = FALSE /\ context'.last = FALSE
            /\ reply' = reply
            /\ \E n \in 1 .. most :
                   Reads(n) /\ context'.done = context.done + n
         \/ /\ SendBuffer /\ UNCHANGED position /\ context'.errnum = FALSE
            /\ context'.last = FALSE /\ context'.done = context.done
         \/ context'.errnum
  <2>1. context.last = FALSE
    BY <1>1, <1>2, ContextFields DEF GetDone
  <2>2. CASE /\ most = 0 /\ context' = [context EXCEPT !.last = TRUE]
             /\ UNCHANGED <<buffer, position, reply>>
    BY <1>1, <1>2, <2>2 DEF Contexts
  <2>3. CASE /\ most # 0 /\ UNCHANGED reply
             /\ \E n \in 1 .. most :
                    /\ Reads(n)
                    /\ context' = [context EXCEPT !.done = @ + n]
    <3>1. PICK n \in 1 .. most :
              Reads(n) /\ context' = [context EXCEPT !.done = @ + n]
      BY <2>3
    <3>2. /\ context'.state = "lseek" /\ context'.errnum = FALSE
          /\ context'.last = FALSE /\ context'.done = context.done + n
      BY <1>1, <1>2, <2>1, <3>1 DEF Contexts
    <3>3. QED
      BY <2>3, <3>1, <3>2
  <2>4. CASE /\ SendBuffer /\ UNCHANGED position
             /\ context' = [context EXCEPT !.started = @ \/ buffer # <<>>]
    BY <1>1, <1>2, <2>1, <2>4 DEF Contexts
  <2>5. CASE context' = Wrong(context)
    BY <1>1, <1>2, <2>5, WrongFields
  <2>6. QED
    BY <1>4, <2>2, <2>3, <2>4, <2>5
<1>6. HandleInv'
  BY <1>2, <1>3, <1>5 DEF HandleInv, IsOpen
<1>7. FreshInv'
  BY <1>2, <1>3 DEF FreshInv
<1>8. ListInv' /\ PositionInv'
  BY <1>2, <1>5 DEF ListInv, PositionInv, In
<1>9. StoryInv'
  <2>1. ASSUME Straightforward', ~context'.errnum
        PROVE  /\ SentTo(demand, reply', buffer', context'.done)
               /\ demand.offset + context'.done <= FileLength
               /\ context'.last => demand.offset + context'.done = FileLength
               /\ position' = demand.offset + context'.done
               /\ disk = Old /\ handle = "open"
    <3>1. /\ SentTo(demand, reply, buffer, context.done)
          /\ demand.offset + context.done <= FileLength
          /\ position = demand.offset + context.done
          /\ disk = Old /\ handle = "open"
      BY <1>2, <2>1, ReadingIs DEF Straightforward
    <3>2. /\ context.done \in Nat /\ FileLength \in Nat /\ BlockSize \in Nat
          /\ context.done < FileLength
          /\ Len(buffer) \in Nat /\ reply \in Seq(Nat) /\ buffer \in Seq(Nat)
      BY <1>1, <1>2, ContextFields, ServiceBounds DEF SentTypes, GetDone
    <3>3. Readable = FileLength - (demand.offset + context.done)
      BY <1>1, <3>1, <3>2, OldType DEF Readable
    <3>4. CASE /\ most = 0 /\ context'.done = context.done
               /\ UNCHANGED <<buffer, position, reply>>
      <4>1. demand.offset + context.done = FileLength
        <5>1. BlockSize - Len(buffer) > 0 /\ FileLength - context.done > 0
          BY <1>2, <3>2
        <5>2. Smaller(BlockSize - Len(buffer), FileLength - context.done) > 0
          BY <5>1 DEF Smaller
        <5>3. 0 = Smaller(Smaller(BlockSize - Len(buffer),
                                  FileLength - context.done), Readable)
          BY <1>4, <3>4
        <5>4. Readable = 0
          BY <5>2, <5>3 DEF Smaller
        <5>5. demand.offset + context.done \in Nat
          BY <1>1, <3>2
        <5>6. QED
          BY <3>2, <3>3, <5>4, <5>5
      <4>2. QED
        BY <3>1, <3>4, <4>1
    <3>5. ASSUME NEW n \in 1 .. most, Reads(n), reply' = reply,
                 context'.done = context.done + n, context'.last = FALSE
          PROVE  /\ SentTo(demand, reply', buffer', context'.done)
                 /\ demand.offset + context'.done <= FileLength
                 /\ position' = demand.offset + context'.done
      <4>1. n \in Nat /\ demand.offset + context.done + n <= FileLength
        BY <1>1, <1>2, <1>4, <3>1, <3>2, <3>3, SMTT(40) DEF Smaller
      <4>2. /\ buffer' = buffer \o SubSeq(Old, demand.offset + context.done + 1,
                                          demand.offset + context.done + n)
            /\ position' = demand.offset + context.done + n
        BY <3>1, <3>5 DEF Reads
      <4>3. SentTo(demand, reply, buffer', context.done + n)
        BY <1>1, <3>1, <3>2, <4>1, <4>2, ReadOn
      <4>4. demand.offset + (context.done + n)
                = demand.offset + context.done + n
        BY <1>1, <3>2, <4>1
      <4>5. SentTo(demand, reply', buffer', context'.done)
        BY <3>5, <4>3
      <4>6. QED
        BY <3>5, <4>1, <4>2, <4>4, <4>5
    <3>6. CASE /\ SendBuffer /\ UNCHANGED position
               /\ context'.last = FALSE /\ context'.done = context.done
      BY <1>1, <3>1, <3>2, <3>6, SentOn DEF SendBuffer
    <3>7. QED
      BY <1>5, <2>1, <3>1, <3>4, <3>5, <3>6
  <2>2. ASSUME Straightforward'
        PROVE  GetStory'
    <3>1. answer' # "ok"
      BY <1>2, <1>3 DEF FreshInv
    <3>2. QED
      BY <1>2, <1>5, <2>1, <2>2, <3>1 DEF GetStory, Fine
  <2>3. QED
    BY <1>2, <2>2 DEF StoryInv, PutStory, RemoveStory
<1>10. QED
  BY <1>6, <1>7, <1>8, <1>9, WorkNext

LEMMA SendKeeps ==
    ASSUME FileTypeOK, WorkInv, SendMessage
    PROVE  WorkInv'
<1>1. /\ context \in Contexts /\ demand \in Demands /\ SentTypes
  BY WorkTypes
<1>2. /\ phase = "response" /\ demand.op = "get" /\ ~context.errnum
      /\ In({"get"}, "response") /\ Fine
      /\ context.state = "lseek" /\ ~GetDone /\ SendBuffer
      /\ context' = [context EXCEPT !.started = TRUE]
      /\ phase' = phase /\ demand' = demand /\ disk' = disk
      /\ position' = position
      /\ handle' = handle /\ answer' = answer /\ slips' = slips
  BY DEF SendMessage, In, Fine, file_open
<1>3. /\ context'.state = "lseek" /\ context'.errnum = FALSE
      /\ context'.done = context.done /\ context'.last = context.last
  BY <1>1, <1>2 DEF Contexts
<1>4. HandleInv /\ FreshInv
  BY DEF WorkInv
<1>5. HandleInv' /\ FreshInv' /\ ListInv' /\ PositionInv'
  BY <1>2, <1>3, <1>4 DEF HandleInv, IsOpen, FreshInv, ListInv, PositionInv, In
<1>6. StoryInv'
  <2>1. ASSUME Straightforward'
        PROVE  GetStory'
    <3>1. /\ SentTo(demand, reply, buffer, context.done)
          /\ demand.offset + context.done <= FileLength
          /\ position = demand.offset + context.done
          /\ disk = Old /\ handle = "open"
      BY <1>2, <2>1, ReadingIs DEF Straightforward
    <3>2. SentTo(demand, reply', buffer', context.done)
      BY <1>1, <1>2, <3>1, SentOn DEF SendBuffer, SentTypes
    <3>3. answer' # "ok" /\ ~context.last
      BY <1>2, <1>4 DEF FreshInv, GetDone
    <3>4. QED
      BY <1>2, <1>3, <3>1, <3>2, <3>3 DEF GetStory
  <2>2. QED
    BY <1>2, <2>1 DEF StoryInv, PutStory, RemoveStory
<1>7. QED
  BY <1>5, <1>6, WorkNext

LEMMA GetCloseKeeps ==
    ASSUME FileTypeOK, WorkInv, GetClose
    PROVE  WorkInv'
<1>1. /\ context \in Contexts /\ demand \in Demands /\ SentTypes
      /\ demand.offset \in Nat
  BY WorkTypes
<1>2. /\ phase = "response"
      /\ \/ demand.op = "get" /\ (GetDone \/ ~Fine)
         \/ demand.op = "ls" /\ context.dir /\ (context.last \/ ~Fine)
      /\ demand' = demand /\ disk' = disk /\ position' = position
      /\ slips' = slips
  BY DEF GetClose, In
<1>3. HandleInv /\ FreshInv /\ PositionInv /\ ListInv /\ StoryInv
  BY DEF WorkInv
<1> DEFINE c == [context EXCEPT !.state = "closed"]
           e == [context EXCEPT !.state = "closing", !.started = @ \/ Fine]
           h == IF handle = "open" THEN "closed" ELSE handle
<1>4. \/ ~IsOpen /\ Finish(context) /\ context' = context /\ handle' = handle
      \/ IsOpen /\ handle' = h /\ context' = c /\ Finish(c)
      \/ /\ IsOpen /\ context' = e
         /\ IF Fine THEN SendBuffer ELSE UNCHANGED <<buffer, reply>>
         /\ UNCHANGED <<handle, answer, phase>>
      \/ IsOpen /\ handle' = h /\ context' = Wrong(c) /\ Finish(Wrong(c))
  BY DEF GetClose, Call, Closes
<1>5. /\ c \in Contexts /\ c.state = "closed" /\ c.errnum = context.errnum
      /\ c.dir = context.dir /\ c.done = context.done /\ c.last = context.last
  BY <1>1 DEF Contexts, FileStates
<1>6. /\ e.state = "closing" /\ e.errnum = context.errnum
      /\ e.dir = context.dir /\ e.done = context.done /\ e.last = context.last
  BY <1>1 DEF Contexts
<1> HIDE DEF c, e
<1>7. /\ context'.dir = context.dir /\ context'.done = context.done
      /\ context'.last = context.last
      /\ \/ /\ phase' = "over" /\ handle' # "open" /\ answer' # "ok"
            /\ buffer' = buffer /\ reply' = reply
         \/ /\ phase' = "over" /\ handle' # "open" /\ answer' = "ok"
            /\ Fine /\ SendBuffer /\ context'.errnum = FALSE
         \/ /\ phase' = "response" /\ handle' = handle /\ answer' = answer
            /\ context'.errnum = context.errnum
            /\ IF Fine THEN SendBuffer ELSE UNCHANGED <<buffer, reply>>
            /\ context'.state = "closing"
      /\ \/ context'.state \in {"closed", "closing"}
         \/ context'.state = context.state /\ handle' = handle /\ ~IsOpen
  <2>1. CASE ~IsOpen /\ Finish(context) /\ context' = context
             /\ handle' = handle
    BY <1>1, <1>3, <2>1, ContextFields DEF Finish, Over, Fine, HandleInv
  <2>2. CASE IsOpen /\ handle' = h /\ context' = c /\ Finish(c)
    BY <1>1, <1>5, <2>2, ContextFields DEF Finish, Over, Fine
  <2>3. CASE /\ IsOpen /\ context' = e
             /\ IF Fine THEN SendBuffer ELSE UNCHANGED <<buffer, reply>>
             /\ UNCHANGED <<handle, answer, phase>>
    BY <1>2, <1>6, <2>3
  <2>4. CASE IsOpen /\ handle' = h /\ context' = Wrong(c) /\ Finish(Wrong(c))
    BY <1>5, <2>4, WrongFields DEF Finish, Over
  <2>5. QED
    BY <1>4, <2>1, <2>2, <2>3, <2>4
<1>8. HandleInv'
  BY <1>2, <1>3, <1>7 DEF HandleInv, IsOpen
<1>9. FreshInv'
  BY <1>2, <1>3, <1>7 DEF FreshInv, Fine
<1>10. ListInv'
  <2>1. ASSUME demand.op = "ls"
        PROVE  buffer' = <<>> /\ reply' = reply
    <3>1. buffer = <<>>
      BY <1>3, <2>1 DEF ListInv
    <3>2. reply \o <<>> = reply
      BY <1>1 DEF SentTypes
    <3>3. QED
      BY <1>7, <3>1, <3>2 DEF SendBuffer
  <2>2. ASSUME demand.op = "ls"
        PROVE  /\ context.dir /\ reply = [i \in 1 .. context.done |-> i]
               /\ context.last => context.done = FileLength
               /\ answer # "ok"
    BY <1>2, <1>3, <2>2 DEF ListInv, FreshInv
  <2>3. ASSUME demand.op = "ls", answer' = "ok"
        PROVE  reply' = [i \in 1 .. FileLength |-> i]
    <3>1. Fine /\ context.last
      BY <1>2, <1>7, <2>2, <2>3
    <3>2. QED
      BY <2>1, <2>2, <2>3, <3>1
  <2>4. ASSUME demand.op = "ls"
        PROVE  context'.state \notin {"readdir", "stat_dir_entry"}
    BY <1>7 DEF IsOpen
  <2>5. QED
    BY <1>2, <1>7, <2>1, <2>2, <2>3, <2>4 DEF ListInv
<1>11. PositionInv'
  BY <1>2, <1>3, <1>7 DEF PositionInv, In
<1>12. StoryInv'
  <2>1. ASSUME Straightforward', demand.op = "get", Fine, SendBuffer
        PROVE  /\ SentTo(demand, reply', buffer', context.done)
               /\ buffer' = <<>>
               /\ disk = Old /\ demand.offset + context.done = FileLength
    <3>1. Straightforward /\ In({"get"}, "response") /\ GetDone
      BY <1>2, <2>1 DEF Straightforward, In
    <3>2. /\ SentTo(demand, reply, buffer, context.done)
          /\ disk = Old /\ demand.offset + context.done = FileLength
      BY <2>1, <3>1, ReadingIs
    <3>3. QED
      BY <1>1, <2>1, <3>2, SentOn DEF SendBuffer, SentTypes
  <2>2. ASSUME Straightforward', demand.op = "get"
        PROVE  GetStory'
    <3>1. context.done \in Nat /\ FileLength \in Nat
      BY <1>1, ContextFields, ServiceBounds
    <3>2. CASE phase' = "over" /\ answer' # "ok"
      BY <1>2, <3>2 DEF GetStory
    <3>3. CASE phase' = "over" /\ answer' = "ok"
      <4>1. Fine /\ SendBuffer
        BY <1>7, <3>3
      <4>2. /\ SentTo(demand, reply', <<>>, context.done) /\ buffer' = <<>>
            /\ disk = Old /\ demand.offset <= FileLength
            /\ context.done = FileLength - demand.offset
        BY <1>1, <2>1, <2>2, <3>1, <4>1
      <4>3. QED
        BY <1>2, <3>3, <4>2 DEF GetStory
    <3>4. CASE phase' = "response"
      <4>1. /\ answer' = answer /\ context'.errnum = context.errnum
            /\ IF Fine THEN SendBuffer ELSE UNCHANGED <<buffer, reply>>
            /\ context'.state = "closing"
        BY <1>7, <3>4
      <4>2. answer' # "ok"
        BY <1>2, <1>3, <4>1 DEF FreshInv
      <4>3. CASE ~Fine
        BY <1>2, <3>4, <4>1, <4>2, <4>3 DEF GetStory, Fine
      <4>4. CASE Fine
        BY <1>1, <1>2, <1>7, <2>1, <2>2, <3>1, <3>4, <4>1, <4>2, <4>4
           DEF GetStory
      <4>5. QED
        BY <4>3, <4>4
    <3>5. QED
      BY <1>7, <3>2, <3>3, <3>4
  <2>3. QED
    BY <1>2, <2>2 DEF StoryInv, PutStory, GetStory, RemoveStory
<1>13. QED
  BY <1>8, <1>9, <1>10, <1>11, <1>12, WorkNext

\* A list of entries, one longer.
LEMMA OneEntryMore ==
    ASSUME NEW s \in Seq(Nat), NEW n \in Nat, s = [i \in 1 .. n |-> i]
    PROVE  Append(s, n + 1) = [i \in 1 .. (n + 1) |-> i]
<1>1. Len(s) = n /\ \A i \in 1 .. n : s[i] = i
  OBVIOUS
<1>2. /\ Append(s, n + 1) \in Seq(Nat) /\ Len(Append(s, n + 1)) = n + 1
      /\ \A i \in 1 .. n : Append(s, n + 1)[i] = s[i]
      /\ Append(s, n + 1)[n + 1] = n + 1
  BY <1>1
<1>3. /\ [i \in 1 .. (n + 1) |-> i] \in Seq(Nat)
      /\ Len([i \in 1 .. (n + 1) |-> i]) = n + 1
      /\ \A i \in 1 .. (n + 1) : [j \in 1 .. (n + 1) |-> j][i] = i
  OBVIOUS
<1>4. ASSUME NEW i \in 1 .. (n + 1)
      PROVE  Append(s, n + 1)[i] = i
  <2>1. i \in 1 .. n \/ i = n + 1
    OBVIOUS
  <2>2. QED
    BY <1>1, <1>2, <2>1
<1>5. QED
  BY <1>2, <1>3, <1>4, SameUnits

LEMMA NoEntries == <<>> = [i \in 1 .. 0 |-> i]
OBVIOUS

LEMMA OneEntry == <<1>> = [i \in 1 .. 1 |-> i]
<1>1. /\ [i \in 1 .. 1 |-> i] \in Seq(Nat) /\ Len([i \in 1 .. 1 |-> i]) = 1
      /\ [i \in 1 .. 1 |-> i][1] = 1
  OBVIOUS
<1>2. <<1>> \in Seq(Nat) /\ Len(<<1>>) = 1 /\ <<1>>[1] = 1
  OBVIOUS
<1>3. QED
  BY <1>1, <1>2

LEMMA StatKeeps ==
    ASSUME FileTypeOK, WorkInv, Stat
    PROVE  WorkInv'
<1>1. context \in Contexts
  BY WorkTypes
<1>2. /\ phase = "request" /\ demand.op = "ls" /\ context.state = "none"
      /\ demand' = demand /\ handle' = handle /\ slips' = slips
      /\ buffer' = buffer /\ reply' = reply /\ answer' = answer
  BY DEF Stat, In, file_open, sent
<1>3. \/ \E dir \in BOOLEAN :
             /\ context' = [context EXCEPT !.state = "stat", !.dir = dir]
             /\ phase' = IF dir THEN phase ELSE "response"
      \/ context' = context /\ phase' = phase
      \/ context' = Wrong(context) /\ phase' = "response"
  BY DEF Stat, Stats, Call
<1>4. /\ context'.done = context.done /\ context'.last = context.last
      /\ \/ context'.state = "stat" /\ context'.dir /\ phase' = "request"
         \/ context'.state = "stat" /\ ~context'.dir /\ phase' = "response"
         \/ context'.state = "none" /\ phase' \in {"request", "response"}
  <2>1. ASSUME NEW dir \in BOOLEAN,
               context' = [context EXCEPT !.state = "stat", !.dir = dir],
               phase' = IF dir THEN phase ELSE "response"
        PROVE  /\ context'.done = context.done /\ context'.last = context.last
               /\ context'.state = "stat" /\ context'.dir = dir
    BY <1>1, <2>1 DEF Contexts
  <2>2. CASE context' = Wrong(context) /\ phase' = "response"
    BY <1>1, <1>2, <2>2, WrongFields
  <2>3. QED
    BY <1>2, <1>3, <2>1, <2>2
<1>5. FreshInv /\ ListInv /\ PositionInv
  BY DEF WorkInv
<1>6. /\ handle = "none" /\ answer = "none" /\ reply = <<>> /\ buffer = <<>>
      /\ context.done = 0 /\ ~context.last
  BY <1>2, <1>5 DEF FreshInv, ListInv, PositionInv
<1>7. HandleInv' /\ FreshInv' /\ PositionInv' /\ StoryInv'
  BY <1>2, <1>4, <1>6
     DEF HandleInv, FreshInv, PositionInv, In, StoryInv, PutStory, GetStory,
         RemoveStory
<1>8. ListInv'
  BY <1>2, <1>4, <1>6, NoEntries DEF ListInv
<1>9. QED
  BY <1>7, <1>8, WorkNext

LEMMA OpenDirKeeps ==
    ASSUME FileTypeOK, WorkInv, OpenDir
    PROVE  WorkInv'
<1>1. context \in Contexts
  BY WorkTypes
<1>2. /\ phase = "request" /\ demand.op = "ls" /\ context.state = "stat"
      /\ demand' = demand /\ slips' = slips
      /\ buffer' = buffer /\ reply' = reply /\ answer' = answer
  BY DEF OpenDir, In, sent
<1>3. \/ /\ handle' = "open" /\ phase' = "response"
         /\ context' = [context EXCEPT !.state = "open"]
      \/ context' = context /\ handle' = handle /\ phase' = phase
      \/ context' = Wrong(context) /\ phase' = "response" /\ handle' = handle
  BY DEF OpenDir, OpensDir, Call
<1>4. /\ context'.done = context.done /\ context'.last = context.last
      /\ context'.dir = context.dir
      /\ phase' \in {"request", "response"}
      /\ \/ context'.state = "open"
         \/ context'.state = "stat" /\ handle' = handle
  <2>1. CASE /\ handle' = "open" /\ phase' = "response"
             /\ context' = [context EXCEPT !.state = "open"]
    BY <1>1, <2>1, NextState
  <2>2. CASE /\ context' = Wrong(context) /\ phase' = "response"
             /\ handle' = handle
    BY <1>1, <1>2, <2>2, WrongFields
  <2>3. QED
    BY <1>2, <1>3, <2>1, <2>2
<1>5. HandleInv /\ FreshInv /\ ListInv /\ PositionInv
  BY DEF WorkInv
<1>6. /\ handle # "open" /\ answer = "none" /\ reply = <<>> /\ buffer = <<>>
      /\ context.done = 0 /\ ~context.last /\ context.dir
  BY <1>2, <1>5 DEF HandleInv, IsOpen, FreshInv, ListInv
<1>7. HandleInv' /\ FreshInv' /\ PositionInv' /\ StoryInv'
  BY <1>2, <1>4, <1>6
     DEF HandleInv, IsOpen, FreshInv, PositionInv, In, StoryInv, PutStory,
         GetStory, RemoveStory
<1>8. ListInv'
  BY <1>2, <1>4, <1>6, NoEntries DEF ListInv
<1>9. QED
  BY <1>7, <1>8, WorkNext

LEMMA ListFileKeeps ==
    ASSUME FileTypeOK, WorkInv, ListFile
    PROVE  WorkInv'
<1>1. context \in Contexts
  BY WorkTypes
<1>2. /\ phase = "response" /\ demand.op = "ls" /\ ~context.dir
      /\ demand' = demand /\ slips' = slips
      /\ handle' = handle
  BY DEF ListFile, In, file_open
<1>3. \/ context.errnum /\ Finish(context) /\ context' = context
      \/ /\ ~context.errnum /\ context' = context
         /\ reply' = <<1>> /\ answer' = "ok" /\ phase' = "over"
         /\ buffer' = buffer
      \/ UNCHANGED <<buffer, reply, answer, phase, context>>
      \/ context' = Wrong(context) /\ Finish(Wrong(context))
  BY DEF ListFile, Call, Over, Fine
<1>4. /\ context'.state = context.state /\ context'.dir = context.dir
      /\ context'.done = context.done /\ context'.last = context.last
      /\ buffer' = buffer
      /\ \/ phase' = "over" /\ answer' # "ok"
         \/ phase' = "response" /\ answer' = answer
         \/ /\ phase' = "over" /\ answer' = "ok" /\ reply' = <<1>>
            /\ ~context'.errnum
  <2>1. CASE context.errnum /\ Finish(context) /\ context' = context
    BY <2>1 DEF Finish, Over
  <2>2. CASE context' = Wrong(context) /\ Finish(Wrong(context))
    BY <1>1, <2>2, WrongFields DEF Finish, Over
  <2>3. QED
    BY <1>2, <1>3, <2>1, <2>2
<1>5. HandleInv /\ FreshInv /\ ListInv /\ PositionInv
  BY DEF WorkInv
<1>6. handle # "open" /\ answer = "none" /\ buffer = <<>>
  BY <1>2, <1>5 DEF HandleInv, FreshInv, ListInv
<1>7. HandleInv' /\ FreshInv' /\ PositionInv' /\ StoryInv'
  BY <1>2, <1>4, <1>5, <1>6
     DEF HandleInv, FreshInv, PositionInv, In, StoryInv, PutStory, GetStory,
         RemoveStory, Fine
<1>8. ListInv'
  BY <1>2, <1>4, <1>5, <1>6, OneEntry DEF ListInv
<1>9. QED
  BY <1>7, <1>8, WorkNext

LEMMA EntryKeeps ==
    ASSUME FileTypeOK, WorkInv, ReadDir \/ StatDirEntry \/ HashEntry
    PROVE  WorkInv'
<1>1. context \in Contexts /\ SentTypes /\ context.done \in Nat
      /\ context.done <= FileLength /\ FileLength \in Nat
  BY WorkTypes, ContextFields, ServiceBounds
<1>2. /\ phase = "response" /\ demand.op = "ls" /\ context.dir
      /\ ~context.last /\ ~context.errnum
      /\ context.state \in {"open", "readdir", "stat_dir_entry"}
      /\ demand' = demand /\ slips' = slips /\ phase' = phase
      /\ handle' = handle /\ buffer' = buffer /\ answer' = answer
  BY DEF ReadDir, StatDirEntry, HashEntry, Listing, In, Fine, file_open, sent
<1>3. HandleInv /\ FreshInv /\ ListInv /\ PositionInv
  BY DEF WorkInv
<1>4. /\ reply = [i \in 1 .. context.done |-> i] /\ buffer = <<>>
      /\ answer = "none"
      /\ context.state \in {"readdir", "stat_dir_entry"} =>
             context.done < FileLength
  BY <1>2, <1>3 DEF ListInv, FreshInv
<1>5. /\ context'.state \in {"open", "readdir", "stat_dir_entry"}
      /\ context'.dir
      /\ \/ /\ reply' = reply /\ context'.done = context.done
            /\ ~context'.last \/ context.done = FileLength
            /\ context'.state \in {"readdir", "stat_dir_entry"} =>
                   context.done < FileLength
         \/ /\ reply' = Append(reply, context.done + 1)
            /\ context'.done = context.done + 1 /\ ~context'.last
            /\ context'.state = "open"
  <2>1. CASE context' = context /\ reply' = reply
    BY <1>2, <1>4, <2>1
  <2>2. CASE context' = Wrong(context) /\ reply' = reply
    BY <1>1, <1>2, <1>4, <2>2, WrongFields
  <2>3. CASE ReadDir
    <3>1. reply' = reply
      BY <2>3 DEF ReadDir, sent
    <3>2. \/ context' \in {context, Wrong(context)}
          \/ /\ context.done < FileLength
             /\ context' = [context EXCEPT !.state = "readdir"]
          \/ /\ ~(context.done < FileLength)
             /\ context' = [context EXCEPT !.last = TRUE]
      BY <2>3 DEF ReadDir, NextEntry, Call
    <3>3. CASE /\ context.done < FileLength
               /\ context' = [context EXCEPT !.state = "readdir"]
      BY <1>1, <1>2, <3>1, <3>3, NextState
    <3>4. CASE /\ ~(context.done < FileLength)
               /\ context' = [context EXCEPT !.last = TRUE]
      <4>1. context.state = "open" /\ context.done = FileLength
        BY <1>1, <1>2, <1>4, <3>4
      <4>2. /\ context'.state = "open" /\ context'.dir = context.dir
            /\ context'.done = context.done
        BY <1>1, <3>4, <4>1 DEF Contexts
      <4>3. QED
        BY <1>2, <3>1, <4>1, <4>2
    <3>5. QED
      BY <2>1, <2>2, <3>1, <3>2, <3>3, <3>4
  <2>4. CASE StatDirEntry
    <3>1. reply' = reply /\ context.state = "readdir"
      BY <2>4 DEF StatDirEntry, Listing, sent
    <3>2. \/ context' \in {context, Wrong(context)}
          \/ context' = [context EXCEPT !.state = "stat_dir_entry"]
      BY <2>4 DEF StatDirEntry, Call
    <3>3. CASE context' = [context EXCEPT !.state = "stat_dir_entry"]
      BY <1>1, <1>2, <1>4, <3>1, <3>3, NextState
    <3>4. QED
      BY <2>1, <2>2, <3>1, <3>2, <3>3
  <2>5. CASE HashEntry
    <3>1. \/ context' = context /\ reply' = reply
          \/ context' = Wrong(context) /\ reply' = reply
          \/ /\ context' = [context EXCEPT !.state = "open", !.done = @ + 1,
                                           !.started = TRUE]
             /\ reply' = Append(reply, context.done + 1)
      BY <2>5 DEF HashEntry, Call
    <3>2. CASE /\ context' = [context EXCEPT !.state = "open", !.done = @ + 1,
                                             !.started = TRUE]
               /\ reply' = Append(reply, context.done + 1)
      BY <1>1, <1>2, <3>2 DEF Contexts
    <3>3. QED
      BY <2>1, <2>2, <3>1, <3>2
  <2>6. QED
    BY <2>3, <2>4, <2>5
<1>6. HandleInv' /\ FreshInv' /\ PositionInv' /\ StoryInv'
  BY <1>2, <1>3, <1>4, <1>5
     DEF HandleInv, IsOpen, FreshInv, PositionInv, In, StoryInv, PutStory,
         GetStory, RemoveStory
<1>7. reply' = [i \in 1 .. context'.done |-> i]
  BY <1>1, <1>4, <1>5, OneEntryMore DEF SentTypes
<1>8. ListInv'
  BY <1>2, <1>4, <1>5, <1>7 DEF ListInv
<1>9. QED
  BY <1>6, <1>8, WorkNext

LEMMA InterruptKeeps ==
    ASSUME FileTypeOK, WorkInv, Interrupt
    PROVE  WorkInv'
<1>1. /\ phase \in {"request", "response"} /\ phase' \in {"cancel", "drop"}
      /\ demand' = demand /\ context' = context /\ slips' = slips
      /\ handle' = handle
      /\ buffer' = buffer /\ reply' = reply /\ answer' = answer
  BY DEF Interrupt, file_open, sent
<1>2. HandleInv /\ FreshInv /\ ListInv /\ PositionInv
  BY DEF WorkInv
<1>3. answer = "none"
  BY <1>1, <1>2 DEF FreshInv
<1>4. HandleInv' /\ FreshInv' /\ ListInv' /\ PositionInv' /\ StoryInv'
  BY <1>1, <1>2, <1>3
     DEF HandleInv, IsOpen, FreshInv, ListInv, PositionInv, In, StoryInv,
         PutStory, GetStory, RemoveStory
<1>5. QED
  BY <1>4, WorkNext

LEMMA CancelKeeps ==
    ASSUME FileTypeOK, WorkInv, CancelClose
    PROVE  WorkInv'
<1>1. context \in Contexts
  BY WorkTypes
<1>2. /\ phase \in {"cancel", "drop"}
      /\ demand' = demand /\ buffer' = buffer /\ reply' = reply
  BY DEF CancelClose
<1> DEFINE c == [context EXCEPT !.state = "closed"]
           h == IF handle = "open" THEN "closed" ELSE handle
<1>3. \/ /\ ~IsOpen /\ context' = context /\ handle' = handle
         /\ answer' = "cancel" /\ phase' = "over" /\ slips' = slips
      \/ /\ context' \in {c, Wrong(c)} /\ handle' = h
         /\ answer' = "cancel" /\ phase' = "over" /\ slips' = slips
      \/ /\ context' = [context EXCEPT !.state = "closing"]
         /\ handle' = handle
         /\ \/ phase' = phase /\ answer' = answer /\ slips' = slips
            \/ /\ answer' = "cancel" /\ phase' = "over"
               /\ slips' = slips \cup {"leak"}
  BY DEF CancelClose, Call, Closes, Over
<1>4. c \in Contexts /\ c.state = "closed" /\ c.dir = context.dir
      /\ c.done = context.done /\ c.last = context.last
  BY <1>1 DEF Contexts, FileStates
<1> HIDE DEF c
<1>5. HandleInv /\ FreshInv /\ ListInv /\ PositionInv
  BY DEF WorkInv
<1>6. /\ context'.done = context.done /\ context'.last = context.last
      /\ context'.dir = context.dir
      /\ phase' \in {"cancel", "drop", "over"} /\ answer' # "ok"
      /\ phase' # "over" => answer' = "none"
      /\ \/ /\ handle' # "open"
            /\ \/ context'.state = "closed"
               \/ context'.state = context.state /\ handle' = handle
         \/ /\ context'.state = "closing" /\ handle' = handle
            /\ phase' = "over" => "leak" \in slips'
  <2>1. CASE /\ ~IsOpen /\ context' = context /\ handle' = handle
             /\ answer' = "cancel" /\ phase' = "over" /\ slips' = slips
    BY <1>5, <2>1 DEF HandleInv
  <2>2. CASE /\ context' \in {c, Wrong(c)} /\ handle' = h
             /\ answer' = "cancel" /\ phase' = "over" /\ slips' = slips
    BY <1>4, <2>2, WrongFields
  <2>3. CASE /\ context' = [context EXCEPT !.state = "closing"]
             /\ handle' = handle
             /\ \/ phase' = phase /\ answer' = answer /\ slips' = slips
                \/ /\ answer' = "cancel" /\ phase' = "over"
                   /\ slips' = slips \cup {"leak"}
    <3>1. answer = "none"
      BY <1>2, <1>5 DEF FreshInv
    <3>2. /\ context'.done = context.done /\ context'.last = context.last
          /\ context'.dir = context.dir /\ context'.state = "closing"
      BY <1>1, <2>3, NextState
    <3>3. QED
      BY <1>2, <2>3, <3>1, <3>2
  <2>4. QED
    BY <1>3, <2>1, <2>2, <2>3
<1>7. HandleInv' /\ FreshInv' /\ ListInv' /\ PositionInv' /\ StoryInv'
  BY <1>2, <1>5, <1>6
     DEF HandleInv, IsOpen, FreshInv, ListInv, PositionInv, In, StoryInv,
         PutStory, GetStory, RemoveStory
<1>8. QED
  BY <1>7, WorkNext

LEMMA SessionStep == SessionInv /\ [FileNext]_fileVars => SessionInv'
<1> SUFFICES ASSUME SessionInv, [FileNext]_fileVars
             PROVE  SessionInv'
  OBVIOUS
<1>1. FileTypeOK /\ WorkInv /\ ListInv /\ PositionInv
  BY DEF SessionInv, WorkInv
<1>2. CASE FileNext
  <2>1. FileTypeOK'
    BY <1>1, <1>2, TypesStay
  <2>2. WorkInv'
    <3>1. CASE ReceiveDemand \/ OpenFile \/ SeekEnd \/ SeekSet \/ WriteBlock
      BY <1>1, <3>1, ReceiveKeeps, OpenKeeps, SeekEndKeeps, SeekSetKeeps,
         WriteKeeps
    <3>2. CASE NextBlock \/ Truncate \/ ClosePut \/ NothingToClose
      BY <1>1, <3>2, NextBlockKeeps, TruncateKeeps, ClosePutKeeps,
         NothingKeeps
    <3>3. CASE RemoveFile \/ RespondNoData \/ ReadFile \/ SendMessage
               \/ GetClose
      BY <1>1, <3>3, RemoveKeeps, RespondKeeps, ReadKeeps, SendKeeps,
         GetCloseKeeps
    <3>4. CASE \/ Stat \/ OpenDir \/ ListFile \/ ReadDir \/ StatDirEntry
               \/ HashEntry
      BY <1>1, <3>4, StatKeeps, OpenDirKeeps, ListFileKeeps, EntryKeeps
    <3>5. CASE Interrupt \/ CancelClose
      BY <1>1, <3>5, InterruptKeeps, CancelKeeps
    <3>6. QED
      BY <1>2, <3>1, <3>2, <3>3, <3>4, <3>5, Zenon DEF FileNext
  <2>3. QED
    BY <2>1, <2>2 DEF SessionInv
<1>3. CASE UNCHANGED fileVars
  <2>1. /\ phase' = phase /\ demand' = demand /\ context' = context
        /\ disk' = disk /\ position' = position /\ handle' = handle
        /\ buffer' = buffer /\ reply' = reply /\ answer' = answer
        /\ busy' = busy /\ failed' = failed /\ slips' = slips
    BY <1>3 DEF fileVars, file_open, sent, calls
  <2>2. FileTypeOK'
    BY <1>1, <2>1 DEF FileTypeOK
  <2>3. HandleInv' /\ FreshInv' /\ ListInv'
    BY <1>1, <2>1 DEF WorkInv, HandleInv, IsOpen, FreshInv, ListInv, Fine
  <2>4. PositionInv'
    BY <1>1, <2>1 DEF PositionInv, In, Remaining, Before
  <2>5. StoryInv'
    BY <1>1, <2>1
       DEF WorkInv, StoryInv, Straightforward, PutStory, GetStory,
           RemoveStory, Begun, ImageOf, Fine, Before
  <2>6. QED
    BY <2>2, <2>3, <2>4, <2>5, WorkNext DEF SessionInv
<1>4. QED
  BY <1>2, <1>3

LEMMA SessionBegins == FileInit => SessionInv
<1> SUFFICES ASSUME FileInit
             PROVE  SessionInv
  OBVIOUS
<1>1. /\ phase = "none" /\ disk = Old /\ position = 0 /\ handle = "none"
      /\ buffer = <<>> /\ reply = <<>> /\ answer = "none"
      /\ busy = 0 /\ failed = 0 /\ slips = {}
  BY DEF FileInit
<1>2. /\ demand = [op |-> "rm", offset |-> 0, trunc |-> FALSE, long |-> FALSE]
      /\ context = NewContext(demand)
  BY DEF FileInit
<1>3. demand \in Demands /\ demand.op = "rm" /\ demand.offset = 0
      /\ demand.trunc = FALSE
  BY <1>2 DEF Demands, Offsets
<1>4. context \in Contexts
  BY <1>2, <1>3, NewContexts
<1>5. FileTypeOK
  <2>1. PhaseTypes /\ DiskTypes /\ SentTypes /\ CallTypes /\ SlipTypes
    BY <1>1, <1>3, OldType, NoUnits, ServiceBounds
       DEF PhaseTypes, DiskTypes, SentTypes, CallTypes, SlipTypes
  <2>2. QED
    BY <1>4, <2>1, FileTypes
<1>6. context.errnum = FALSE
  BY <1>2 DEF NewContext
<1>7. WorkInv
  BY <1>1, <1>3, <1>6
     DEF WorkInv, HandleInv, FreshInv, ListInv, PositionInv, In, StoryInv,
         PutStory, GetStory, RemoveStory, Fine
<1>8. QED
  BY <1>5, <1>7 DEF SessionInv

LEMMA SessionAlways == FileSpec => []SessionInv
BY SessionBegins, SessionStep, PTL DEF FileSpec

\* What was told was done.
LEMMA SessionNow == SessionInv => SessionSafe
<1> SUFFICES ASSUME SessionInv
             PROVE  SessionSafe
  OBVIOUS
<1>1. FileTypeOK /\ WorkInv
  BY DEF SessionInv
<1>2. /\ demand \in Demands /\ SentTypes
  BY <1>1, WorkTypes
<1>3. HandleInv /\ FreshInv /\ ListInv /\ StoryInv
  BY <1>1 DEF WorkInv
<1>4. HandleClosed
  BY <1>3 DEF HandleClosed, HandleInv
<1>5. ASSUME answer = "ok", Straightforward
      PROVE  CASE demand.op = "put" -> disk = Put(demand)
               [] demand.op = "get" ->
                      /\ disk = Old
                      /\ reply = SubSeq(Old, demand.offset + 1, FileLength)
               [] demand.op = "rm" -> disk = <<>>
               [] OTHER -> reply = [i \in 1 .. (IF context.dir THEN FileLength
                                                ELSE 1) |-> i]
  <2>1. CASE demand.op = "put"
    <3>1. ImageOf(FileLength)
      BY <1>3, <1>5, <2>1 DEF StoryInv, PutStory
    <3>2. disk = Put(demand)
      BY <1>2, <3>1, ImageIsPut DEF ImageOf
    <3>3. QED
      BY <2>1, <3>2
  <2>2. CASE demand.op = "get"
    <3>1. /\ disk = Old /\ demand.offset <= FileLength
          /\ SentTo(demand, reply, <<>>, FileLength - demand.offset)
      BY <1>3, <1>5, <2>2 DEF StoryInv, GetStory
    <3>2. reply = SubSeq(Old, demand.offset + 1, FileLength)
      BY <1>2, <3>1, SentAll DEF SentTypes
    <3>3. QED
      BY <2>2, <3>1, <3>2
  <2>3. CASE demand.op = "rm"
    BY <1>3, <1>5, <2>3 DEF StoryInv, RemoveStory
  <2>4. CASE demand.op = "ls"
    BY <1>3, <1>5, <2>4 DEF ListInv
  <2>5. QED
    BY <1>2, <2>1, <2>2, <2>3, <2>4, DemandFields
<1>6. DoneAsTold
  BY <1>5 DEF DoneAsTold, Straightforward
<1>7. QED
  BY <1>4, <1>6 DEF SessionSafe

(* A request of the cloud for a file, its file, its answer and what is open *)
(* keep their types, for every length of file and of block.                 *)
THEOREM FileTypeCorrect == FileSpec => []FileTypeOK
<1>1. SessionInv => FileTypeOK
  BY DEF SessionInv
<1>2. QED
  BY <1>1, SessionAlways, PTL

(* What the cloud is told was done with a file, was done: the file is the   *)
(* one that was put, the part asked for was sent, the file is gone, each    *)
(* entry is listed; and when a session is over what it had opened is        *)
(* closed: unless the path was too long, the second seek was busy, a block  *)
(* was written again, or the close was busy when the connection was lost.   *)
THEOREM SessionIsSafe == FileSpec => []SessionSafe
BY SessionNow, SessionAlways, PTL
-----------------------------------------------------------------------------
(* FirmwareService.                                                        *)

USE FirmwareAssumption

Refusals == {"abort", "error", "denied", "mixed"}

\* The image that has come when the next block is number n.
BlocksBefore(n) == [i \in 1 .. n - 1 |-> i]

\* The message, if it is for the download of the cloud and as it should be.
ForIt(op) ==
    message.op = op /\ ~message.short /\ message.target = cloud.target

InPacket == packet_out = "response"

\* A message is kept until its response is sent, unless its handler forgot
\* that; and a response that waits behind another one has spoilt it.
Buffer ==
    /\ fw.busy /\ ~fw.owed =>
           /\ message.op # "none"
           /\ message.op = "download" => message.target \notin Targets
    /\ fw.busy /\ InPacket => response = "mixed"
    /\ fw.owed => "unsent" \in lapses

\* The cloud will hear that its download is over; or the response is lost.
DownloadRefused ==
    \/ InPacket /\ response \in Refusals
    \/ fw.busy /\ (fw.owed \/ response \in Refusals)

\* Both flags are up, for the target of the cloud.
Under == fw.started /\ app.started /\ fw.target = cloud.target

Requested ==
    /\ cloud.waits /\ cloud.next = 1
    /\ \/ ForIt("download")
       \/ message.op = "none"
          /\ \/ DownloadRefused
             \/ ~fw.busy /\ Under /\ app.image = <<>>
                /\ InPacket /\ response = "download"

\* A response to an earlier download was taken for the one to this.
Early == /\ ~fw.busy /\ ~InPacket
         /\ ForIt("download") /\ cloud.next = 1 /\ ~cloud.waits

InStep ==
    /\ Under
    /\ InPacket => response \in {"download", "ack"}
    /\ InPacket /\ response = "ack" => cloud.waits /\ message.op = "none"
    /\ cloud.waits =>
           \/ message.op \in {"block", "complete"}
           \/ InPacket /\ response = "ack"
    /\ message.op \notin {"abort", "reset"}
    /\ \/ /\ ~fw.busy /\ ForIt("block")
          /\ message.block + 1 = cloud.next
          /\ message.ack = cloud.waits
          /\ app.image = BlocksBefore(message.block)
       \/ /\ ~fw.busy /\ ~ForIt("block")
          /\ app.image = BlocksBefore(cloud.next)
          /\ ForIt("complete") => cloud.waits /\ cloud.next = ImageBlocks + 1
       \/ /\ fw.busy /\ response = "ack" /\ cloud.waits
          /\ app.image = BlocksBefore(cloud.next)

ToldComplete ==
    /\ ~app.started /\ app.image = BlocksBefore(ImageBlocks + 1)
    /\ response = "complete" /\ cloud.waits
    /\ \/ ~fw.busy /\ InPacket /\ message.op = "none"
       \/ fw.busy /\ message.op = "complete"

Sending == DownloadRefused \/ Early \/ InStep \/ ToldComplete

DownloadTold ==
    /\ ~app.started /\ app.image = BlocksBefore(ImageBlocks + 1)
    /\ message.op = "download" => message.short \/ message.target \notin Targets

\* No message was answered with the response to another, and no download
\* changed its target.
Straight == lapses \cap {"swallowed", "retargeted"} = {}

DownloadStages ==
    /\ cloud.at \in {"idle", "told"} => ~cloud.waits
    /\ Straight =>
           /\ cloud.at = "requested" => Requested
           /\ cloud.at = "sending" => Sending
           /\ cloud.at = "told" => DownloadTold

FwInv == FirmwareTypeOK /\ FlagsAgree /\ Buffer /\ DownloadStages
-----------------------------------------------------------------------------
(* How the records change.                                                 *)

LEMMA StateFields ==
    ASSUME NEW f \in FwStates
    PROVE  /\ f.started \in BOOLEAN /\ f.busy \in BOOLEAN /\ f.owed \in BOOLEAN
           /\ f.target \in Targets
BY DEF FwStates

LEMMA SetTarget ==
    ASSUME NEW f \in FwStates, NEW t \in Targets, NEW g,
           g = [f EXCEPT !.target = t]
    PROVE  /\ g \in FwStates
           /\ g.started = f.started /\ g.target = t
           /\ g.busy = f.busy /\ g.owed = f.owed
BY DEF FwStates

LEMMA SetDownload ==
    ASSUME NEW f \in FwStates, NEW t \in Targets, NEW g,
           g = [f EXCEPT !.started = TRUE, !.target = t]
    PROVE  /\ g \in FwStates
           /\ g.started = TRUE /\ g.target = t
           /\ g.busy = f.busy /\ g.owed = f.owed
BY DEF FwStates

LEMMA AppFields ==
    ASSUME NEW a \in FwApps
    PROVE  a.started \in BOOLEAN /\ a.image \in Seq(1 .. ImageBlocks)
BY DEF FwApps

LEMMA AppBegun ==
    /\ [started |-> TRUE, image |-> <<>>] \in FwApps
    /\ [started |-> TRUE, image |-> <<>>].started = TRUE
    /\ [started |-> TRUE, image |-> <<>>].image = <<>>
<1>1. <<>> \in Seq(1 .. ImageBlocks)
  OBVIOUS
<1>2. QED
  BY <1>1 DEF FwApps

LEMMA AppEnded ==
    ASSUME app \in FwApps
    PROVE  AppEnds \in FwApps /\ AppEnds.started = FALSE
           /\ AppEnds.image = app.image
BY DEF FwApps, AppEnds

LEMMA AppGrown ==
    ASSUME NEW a \in FwApps, NEW b \in 1 .. ImageBlocks
    PROVE  /\ [a EXCEPT !.image = Append(@, b)] \in FwApps
           /\ [a EXCEPT !.image = Append(@, b)].started = a.started
           /\ [a EXCEPT !.image = Append(@, b)].image = Append(a.image, b)
<1>1. Append(a.image, b) \in Seq(1 .. ImageBlocks)
  BY AppFields
<1>2. QED
  BY <1>1 DEF FwApps

LEMMA MessageFields ==
    ASSUME NEW m \in FwMessages
    PROVE  /\ m.op \in {"none", "info", "download", "block", "abort",
                        "complete", "reset", "unknown"}
           /\ m.target \in 0 .. 2 /\ m.block \in 0 .. ImageBlocks
           /\ m.ack \in BOOLEAN /\ m.short \in BOOLEAN
           /\ NoMessage \in FwMessages /\ NoMessage.op = "none"
BY DEF FwMessages, NoMessage, Message

\* c, its stage, target, next block, and whether it waits.
IsCloud(c, p, t, n, w) ==
    /\ c \in FwClouds
    /\ c.at = p /\ c.target = t /\ c.next = n /\ c.waits = w

LEMMA CloudFields ==
    ASSUME NEW c \in FwClouds
    PROVE  /\ c.at \in {"idle", "requested", "sending", "told"}
           /\ c.target \in Targets /\ c.next \in 1 .. ImageBlocks + 1
           /\ c.waits \in BOOLEAN
BY DEF FwClouds

LEMMA CloudHasRequested ==
    ASSUME NEW t \in Targets
    PROVE  IsCloud([at |-> "requested", target |-> t, next |-> 1,
                    waits |-> TRUE], "requested", t, 1, TRUE)
BY DEF FwClouds, IsCloud

LEMMA CloudSent ==
    ASSUME NEW c \in FwClouds, NEW w \in BOOLEAN, c.next <= ImageBlocks
    PROVE  IsCloud([c EXCEPT !.next = @ + 1, !.waits = w], c.at, c.target,
                   c.next + 1, w)
<1>1. c.next + 1 \in 1 .. ImageBlocks + 1
  BY CloudFields
<1>2. QED
  BY <1>1 DEF FwClouds, IsCloud

LEMMA CloudWaits ==
    ASSUME NEW c \in FwClouds, NEW w \in BOOLEAN
    PROVE  IsCloud([c EXCEPT !.waits = w], c.at, c.target, c.next, w)
BY DEF FwClouds, IsCloud

LEMMA CloudIs ==
    ASSUME NEW c \in FwClouds, NEW w \in BOOLEAN,
           NEW p \in {"idle", "requested", "sending", "told"}
    PROVE  IsCloud([c EXCEPT !.at = p, !.waits = w], p, c.target, c.next, w)
BY DEF FwClouds, IsCloud

LEMMA CloudAt ==
    ASSUME NEW c \in FwClouds,
           NEW p \in {"idle", "requested", "sending", "told"}
    PROVE  IsCloud([c EXCEPT !.at = p], p, c.target, c.next, c.waits)
BY DEF FwClouds, IsCloud
-----------------------------------------------------------------------------
(* What the handlers do.                                                   *)

LEMMA SentAsResponse ==
    ASSUME FirmwareTypeOK, NEW f \in FwStates, NEW a \in Responses,
           NEW kept \in BOOLEAN, NEW l, SendResponse(f, a, kept, l)
    PROVE  /\ fw' \in FwStates
           /\ fw'.started = f.started /\ fw'.target = f.target
           /\ fw'.busy = (packet_out # "none")
           /\ fw'.owed = (packet_out # "none" /\ ~kept)
           /\ response' = IF InPacket THEN "mixed" ELSE a
           /\ response' \in Responses
           /\ packet_out' = IF packet_out = "none" THEN "response"
                            ELSE packet_out
           /\ message' = IF packet_out # "none" /\ kept THEN message
                         ELSE NoMessage
           /\ lapses' = (l \cup (IF InPacket THEN {"mixed"} ELSE {}))
                          \cup (IF packet_out # "none" /\ ~kept THEN {"unsent"}
                                ELSE {})
<1>1. /\ fw' \in FwStates
      /\ fw'.started = f.started /\ fw'.target = f.target
      /\ fw'.busy = (packet_out # "none")
      /\ fw'.owed = (packet_out # "none" /\ ~kept)
  <2> DEFINE b == packet_out # "none"
             o == packet_out # "none" /\ ~kept
  <2>1. b \in BOOLEAN /\ o \in BOOLEAN /\ fw' = [f EXCEPT !.busy = b, !.owed = o]
    BY DEF SendResponse
  <2> HIDE DEF b, o
  <2>2. /\ fw' \in FwStates
        /\ fw'.started = f.started /\ fw'.target = f.target
        /\ fw'.busy = b /\ fw'.owed = o
    BY <2>1 DEF FwStates
  <2>3. QED
    BY <2>2 DEF b, o
<1>2. QED
  BY <1>1 DEF SendResponse, InPacket, Responses

LEMMA Aborted ==
    ASSUME FirmwareTypeOK, NEW a \in {"abort", "error"}, NEW t,
           NEW kept \in BOOLEAN, SendAbort(a, t, kept)
    PROVE  /\ fw' \in FwStates
           /\ fw'.started = (fw.started /\ fw.target # t)
           /\ fw'.target = fw.target
           /\ fw'.busy = (packet_out # "none")
           /\ fw'.owed = (packet_out # "none" /\ ~kept)
           /\ response' = IF InPacket THEN "mixed" ELSE a
           /\ response' \in Responses
           /\ packet_out' = IF packet_out = "none" THEN "response"
                            ELSE packet_out
           /\ message' = IF packet_out # "none" /\ kept THEN message
                         ELSE NoMessage
           /\ lapses' \subseteq lapses \cup {"dropped", "mixed", "unsent"}
           /\ lapses \subseteq lapses'
           /\ fw.started /\ fw.target = t /\ app'.started => "dropped" \in lapses'
           /\ packet_out # "none" /\ ~kept => "unsent" \in lapses'
<1> DEFINE stops == fw.started /\ fw.target = t
           f == [fw EXCEPT !.started = @ /\ ~stops]
           l == lapses \cup (IF stops /\ app'.started THEN {"dropped"} ELSE {})
<1>1. fw \in FwStates /\ fw.started \in BOOLEAN
  BY StateFields DEF FirmwareTypeOK
<1>2. f \in FwStates /\ f.started = (fw.started /\ ~stops) /\ f.target = fw.target
  BY <1>1 DEF FwStates
<1>3. SendResponse(f, a, kept, l)
  BY DEF SendAbort
<1>4. a \in Responses
  BY DEF Responses
<1> HIDE DEF f, l
<1>5. /\ fw' \in FwStates
      /\ fw'.started = f.started /\ fw'.target = f.target
      /\ fw'.busy = (packet_out # "none")
      /\ fw'.owed = (packet_out # "none" /\ ~kept)
      /\ response' = IF InPacket THEN "mixed" ELSE a
      /\ response' \in Responses
      /\ packet_out' = IF packet_out = "none" THEN "response" ELSE packet_out
      /\ message' = IF packet_out # "none" /\ kept THEN message ELSE NoMessage
      /\ lapses' = (l \cup (IF InPacket THEN {"mixed"} ELSE {}))
                     \cup (IF packet_out # "none" /\ ~kept THEN {"unsent"}
                           ELSE {})
  BY <1>2, <1>3, <1>4, SentAsResponse
<1>6. QED
  BY <1>2, <1>5 DEF l

\* Types, of an action that answers, or does not.
LEMMA KeepsTypes ==
    ASSUME FirmwareTypeOK, UNCHANGED <<cloud, bads, others>>,
           fw' \in FwStates, app' \in FwApps,
           response' \in Responses \cup {"none"},
           packet_out' \in {"none", "other", "info", "response"},
           message' \in {message, NoMessage},
           lapses' \subseteq {"uninitialised", "dropped", "reset", "swallowed",
                              "unsent", "mixed", "retargeted"}
    PROVE  FirmwareTypeOK'
BY MessageFields DEF FirmwareTypeOK

LEMMA AnswerTypes ==
    ASSUME FirmwareTypeOK, UNCHANGED <<cloud, bads, others>>, app' \in FwApps,
           \/ \E f \in FwStates, a \in Responses, kept \in BOOLEAN,
                 l \in SUBSET {"uninitialised", "dropped", "reset", "swallowed",
                               "unsent", "mixed", "retargeted"} :
                 SendResponse(f, a, kept, l)
           \/ \E a \in {"abort", "error"}, t \in 0 .. 2, kept \in BOOLEAN :
                 SendAbort(a, t, kept)
    PROVE  FirmwareTypeOK'
<1>1. packet_out' \in {"none", "other", "info", "response"} =>
          (message' \in {message, NoMessage} =>
            (response' \in Responses => (fw' \in FwStates =>
             (lapses' \subseteq {"uninitialised", "dropped", "reset", "swallowed",
                                 "unsent", "mixed", "retargeted"}
              => FirmwareTypeOK'))))
  BY KeepsTypes
<1>2. ASSUME NEW f \in FwStates, NEW a \in Responses, NEW kept \in BOOLEAN,
             NEW l \in SUBSET {"uninitialised", "dropped", "reset", "swallowed",
                               "unsent", "mixed", "retargeted"},
             SendResponse(f, a, kept, l)
      PROVE  FirmwareTypeOK'
  <2>1. /\ fw' \in FwStates /\ response' \in Responses
        /\ message' \in {message, NoMessage}
        /\ packet_out' \in {packet_out, "response"}
        /\ lapses' \subseteq l \cup {"mixed", "unsent"}
    BY <1>2, SentAsResponse
  <2>2. QED
    BY <2>1, <1>1 DEF FirmwareTypeOK
<1>3. ASSUME NEW a \in {"abort", "error"}, NEW t \in 0 .. 2,
             NEW kept \in BOOLEAN, SendAbort(a, t, kept)
      PROVE  FirmwareTypeOK'
  <2>1. /\ fw' \in FwStates /\ response' \in Responses
        /\ message' \in {message, NoMessage}
        /\ packet_out' \in {packet_out, "response"}
        /\ lapses' \subseteq lapses \cup {"dropped", "mixed", "unsent"}
    BY <1>3, Aborted
  <2>2. QED
    BY <2>1, <1>1 DEF FirmwareTypeOK
<1>4. QED
  BY <1>2, <1>3

LEMMA CloudAdvances ==
    ASSUME FirmwareTypeOK, NEW a
    PROVE  LET c == CloudHears(a) IN
           /\ c \in FwClouds /\ c.target = cloud.target /\ c.next = cloud.next
           /\ \/ /\ a \in Refusals /\ c.at = "idle" /\ ~c.waits
              \/ /\ a = "download" /\ cloud.at = "requested"
                 /\ c.at = "sending" /\ ~c.waits
              \/ /\ a = "ack" /\ cloud.at = "sending"
                 /\ c.at = "sending" /\ ~c.waits
              \/ /\ a = "complete" /\ cloud.at = "sending"
                 /\ c.at = "told" /\ ~c.waits
              \/ /\ a = "incomplete" /\ cloud.at = "sending"
                 /\ c.at = "idle" /\ ~c.waits
              \/ /\ a \notin Refusals /\ c = cloud
                 /\ ~(a = "download" /\ cloud.at = "requested")
                 /\ ~(a = "ack" /\ cloud.at = "sending")
                 /\ ~(a = "complete" /\ cloud.at = "sending")
<1>1. CASE a \in Refusals
  <2>1. CloudHears(a) = [cloud EXCEPT !.at = "idle", !.waits = FALSE]
    BY <1>1 DEF CloudHears, Refusals
  <2>2. IsCloud(CloudHears(a), "idle", cloud.target, cloud.next, FALSE)
    BY <2>1, CloudIs DEF FirmwareTypeOK
  <2>3. QED
    BY <1>1, <2>2 DEF IsCloud
<1>2. CASE a = "download" /\ cloud.at = "requested"
  <2>1. CloudHears(a) = [cloud EXCEPT !.at = "sending", !.waits = FALSE]
    BY <1>2 DEF CloudHears
  <2>2. IsCloud(CloudHears(a), "sending", cloud.target, cloud.next, FALSE)
    BY <2>1, CloudIs DEF FirmwareTypeOK
  <2>3. QED
    BY <1>2, <2>2 DEF IsCloud
<1>3. CASE a = "ack" /\ cloud.at = "sending"
  <2>1. CloudHears(a) = [cloud EXCEPT !.waits = FALSE]
    BY <1>3 DEF CloudHears
  <2>2. IsCloud(CloudHears(a), cloud.at, cloud.target, cloud.next, FALSE)
    BY <2>1, CloudWaits DEF FirmwareTypeOK
  <2>3. QED
    BY <1>3, <2>2 DEF IsCloud
<1>4. CASE a \in {"complete", "incomplete"} /\ cloud.at = "sending"
  <2> DEFINE next == IF a = "complete" THEN "told" ELSE "idle"
  <2>1. CloudHears(a) = [cloud EXCEPT !.waits = FALSE, !.at = next]
    BY <1>4 DEF CloudHears
  <2>2. IsCloud([cloud EXCEPT !.at = next, !.waits = FALSE], next,
                cloud.target, cloud.next, FALSE)
    BY CloudIs DEF FirmwareTypeOK
  <2>3. CloudHears(a) = [cloud EXCEPT !.at = next, !.waits = FALSE]
    BY <2>1 DEF FirmwareTypeOK, FwClouds
  <2>4. QED
    BY <1>4, <2>2, <2>3 DEF IsCloud
<1>5. CASE /\ a \notin Refusals
           /\ ~(a = "download" /\ cloud.at = "requested")
           /\ ~(a = "ack" /\ cloud.at = "sending")
           /\ ~(a \in {"complete", "incomplete"} /\ cloud.at = "sending")
  <2>1. CloudHears(a) = cloud
    BY <1>5 DEF CloudHears, Refusals
  <2>2. QED
    BY <1>5, <2>1 DEF FirmwareTypeOK
<1>6. QED
  BY <1>1, <1>2, <1>3, <1>4, <1>5
-----------------------------------------------------------------------------
(* The types are kept.                                                     *)
LEMMA TypeStep == FirmwareTypeOK /\ [FirmwareNext]_fwVars => FirmwareTypeOK'
<1> SUFFICES ASSUME FirmwareTypeOK, [FirmwareNext]_fwVars PROVE FirmwareTypeOK'
  OBVIOUS
<1>1. CASE UNCHANGED fwVars
  BY <1>1 DEF fwVars, FirmwareTypeOK
<1>2. CASE CloudSends
  <2>1. cloud' \in FwClouds /\ message' \in FwMessages
        /\ bads' \in 0 .. MaxBad
        /\ (message'.op = "block" => message'.block # 0)
    <3>1. CASE CloudAborts
      <4>1. IsCloud(cloud', "idle", cloud.target, cloud.next, FALSE)
        BY <3>1, CloudIs DEF CloudAborts, Say, FirmwareTypeOK
      <4>2. cloud'.target \in 0 .. 2
        BY <4>1, CloudFields DEF IsCloud, Targets
      <4>3. QED
        BY <3>1, <4>1, <4>2
        DEF CloudAborts, Bad, Say, Message, FwMessages, IsCloud, FirmwareTypeOK
    <3>2. CASE CloudDemands
      <4>1. PICK t \in Targets : Say("download",
              [at |-> "requested", target |-> t, next |-> 1, waits |-> TRUE])
        BY <3>2 DEF CloudDemands
      <4>2. IsCloud(cloud', "requested", t, 1, TRUE)
        BY <4>1, CloudHasRequested DEF Say
      <4>3. cloud'.target \in 0 .. 2
        BY <4>2 DEF IsCloud, Targets
      <4>4. message' = Message("download", cloud'.target, 0, FALSE, FALSE)
        BY <4>1 DEF Say
      <4>5. QED
        BY <3>2, <4>2, <4>3, <4>4
        DEF CloudDemands, Message, FwMessages, IsCloud, FirmwareTypeOK
    <3>3. CASE CloudSendsBlock
      <4>1. PICK w \in BOOLEAN :
              /\ message' = Message("block", cloud.target, cloud.next, w, FALSE)
              /\ cloud' = [cloud EXCEPT !.next = @ + 1, !.waits = w]
        BY <3>3 DEF CloudSendsBlock
      <4>2. cloud \in FwClouds /\ cloud.next <= ImageBlocks
        BY <3>3 DEF FirmwareTypeOK, CloudSendsBlock
      <4>3. IsCloud(cloud', cloud.at, cloud.target, cloud.next + 1, w)
        BY <4>1, <4>2, CloudSent
      <4>4. cloud.target \in 0 .. 2 /\ cloud.next \in 1 .. ImageBlocks
        BY <4>2, CloudFields DEF Targets
      <4>5. message' \in FwMessages /\ message'.block = cloud.next
        BY <4>1, <4>4 DEF Message, FwMessages
      <4>6. bads' = bads
        BY <3>3 DEF CloudSendsBlock
      <4>7. QED
        BY <4>3, <4>4, <4>5, <4>6 DEF IsCloud, FirmwareTypeOK
    <3>4. CASE CloudSlips
      <4>1. PICK o \in {"info", "download", "block", "complete", "unknown"},
                 t \in 0 .. 2, s \in BOOLEAN :
              message' = Message(o, t, IF o = "block" THEN 1 ELSE 0, FALSE, s)
        BY <3>4 DEF CloudSlips
      <4> DEFINE b == IF o = "block" THEN 1 ELSE 0
      <4>2. b \in 0 .. ImageBlocks /\ message' = Message(o, t, b, FALSE, s)
        BY <4>1
      <4> HIDE DEF b
      <4>3. o \in {"info", "download", "block", "complete", "unknown"}
            /\ t \in 0 .. 2 /\ s \in BOOLEAN
        OBVIOUS
      <4>4. message' \in FwMessages /\ message'.op = o /\ message'.block = b
        BY <4>2, <4>3 DEF Message, FwMessages
      <4>5. bads' \in 0 .. MaxBad /\ cloud' = cloud
        BY <3>4 DEF CloudSlips, Bad, FirmwareTypeOK
      <4>6. QED
        BY <4>4, <4>5 DEF b, FirmwareTypeOK
    <3>5. CASE CloudCompletes
      <4>1. IsCloud(cloud', cloud.at, cloud.target, cloud.next, TRUE)
        BY <3>5, CloudWaits DEF CloudCompletes, Say, FirmwareTypeOK
      <4>2. cloud'.target \in 0 .. 2
        BY <4>1, CloudFields DEF IsCloud, Targets
      <4>3. QED
        BY <3>5, <4>1, <4>2
        DEF CloudCompletes, Say, Message, FwMessages, IsCloud, FirmwareTypeOK
    <3>6. CASE CloudResets
      <4>1. IsCloud(cloud', "idle", cloud.target, cloud.next, cloud.waits)
        BY <3>6, CloudAt DEF CloudResets, Say, FirmwareTypeOK
      <4>2. cloud'.target \in 0 .. 2
        BY <4>1, CloudFields DEF IsCloud, Targets
      <4>3. QED
        BY <3>6, <4>1, <4>2
        DEF CloudResets, Bad, Say, Message, FwMessages, IsCloud, FirmwareTypeOK
    <3>7. QED
      BY <1>2, <3>1, <3>2, <3>3, <3>4, <3>5, <3>6 DEF CloudSends
  <2>2. QED
    BY <1>2, <2>1 DEF CloudSends, FirmwareTypeOK
<1>3. CASE ProcessMessage
  <2> UNCHANGED <<cloud, bads, others>> /\ message.op # "none"
    BY <1>3 DEF ProcessMessage
  <2>1. CASE fw.busy
    <3> DEFINE b == packet_out # "none"
               o == fw.owed /\ packet_out # "none"
    <3>1. b \in BOOLEAN /\ o \in BOOLEAN
          /\ fw' = [fw EXCEPT !.busy = b, !.owed = o]
      BY <1>3, <2>1, StateFields DEF ProcessMessage, WaitedResponse, FirmwareTypeOK
    <3> HIDE DEF b, o
    <3>2. fw' \in FwStates
      BY <3>1 DEF FwStates, FirmwareTypeOK
    <3>3. QED
      BY <1>3, <2>1, <3>2, KeepsTypes
      DEF ProcessMessage, WaitedResponse, FirmwareTypeOK
  <2>2. ASSUME UNCHANGED app,
               SendAbort("error", message.target, TRUE)
        PROVE  FirmwareTypeOK'
    BY <2>2, AnswerTypes, MessageFields DEF FirmwareTypeOK
  <2>3. CASE message.target \in Targets /\ InfoRequest(message)
    <3>1. CASE message.short
      BY <2>2, <2>3, <3>1 DEF InfoRequest
    <3>2. CASE ~message.short
      <4>1. fw' \in FwStates
        BY <2>3, <3>2, SetTarget DEF InfoRequest, FirmwareTypeOK
      <4>2. QED
        BY <2>3, <3>2, <4>1, KeepsTypes
        DEF InfoRequest, Retargets, FirmwareTypeOK
    <3>3. QED
      BY <3>1, <3>2
  <2>4. CASE message.target \in Targets /\ DownloadRequest(message)
    <3> DEFINE f == [fw EXCEPT !.started = TRUE, !.target = message.target]
    <3>1. f \in FwStates /\ fw \in FwStates
      BY <2>4, SetDownload DEF FirmwareTypeOK
    <3> HIDE DEF f
    <3>2. AppDownload(message) \in FwApps /\ app \in FwApps
      BY AppBegun DEF AppDownload, FirmwareTypeOK
    <3>3. {"denied", "download"} \subseteq Responses
      BY DEF Responses
    <3>4. app' \in FwApps
      BY <2>4, <3>2 DEF DownloadRequest
    <3>5. \/ SendResponse(fw, "denied", FALSE, lapses)
          \/ SendResponse(f, "download", FALSE,
                          (lapses \cup {"uninitialised"}) \cup Retargets(message))
          \/ SendResponse(f, "download", FALSE, lapses)
          \/ SendAbort("abort", message.target, FALSE)
      BY <2>4 DEF DownloadRequest, f
    <3>6. QED
      BY <3>1, <3>3, <3>4, <3>5, AnswerTypes, MessageFields
      DEF Retargets, FirmwareTypeOK
  <2>5. CASE message.op = "block" /\ BinaryBlock(message)
    <3>1. message.block \in 1 .. ImageBlocks /\ message.target \in 0 .. 2
      BY <2>5, MessageFields DEF FirmwareTypeOK
    <3>2. AppImage(message) \in FwApps /\ app \in FwApps
      BY <3>1, AppGrown DEF AppImage, FirmwareTypeOK
    <3>3. app' \in FwApps
      BY <2>5, <3>2 DEF BinaryBlock
    <3>4. \/ SendAbort("error", message.target, TRUE)
          \/ SendAbort("abort", message.target, TRUE)
          \/ SendResponse(fw, "ack", TRUE, lapses)
          \/ message' = NoMessage
             /\ UNCHANGED <<fw, response, packet_out, lapses>>
      BY <2>5 DEF BinaryBlock
    <3>5. QED
      BY <3>1, <3>3, <3>4, AnswerTypes, KeepsTypes DEF Responses, FirmwareTypeOK
  <2>6. CASE AbortDownload(message)
    <3>1. fw \in FwStates /\ fw.started \in BOOLEAN
      BY StateFields DEF FirmwareTypeOK
    <3>2. fw' \in FwStates
      <4> DEFINE s == fw.started /\ ~(fw.started /\ fw.target = message.target)
      <4>1. fw' = [fw EXCEPT !.started = s] /\ s \in BOOLEAN
        BY <2>6, <3>1 DEF AbortDownload
      <4> HIDE DEF s
      <4>2. QED
        BY <3>1, <4>1 DEF FwStates
    <3>3. app' \in FwApps
      BY <2>6, AppEnded DEF AbortDownload, FirmwareTypeOK
    <3>4. QED
      BY <2>6, <3>2, <3>3, KeepsTypes DEF AbortDownload, FirmwareTypeOK
  <2>7. CASE CompleteDownload(message)
    <3> DEFINE f == [fw EXCEPT !.started = FALSE]
               a == IF app.started THEN "complete" ELSE "incomplete"
    <3>1. f \in FwStates
      BY DEF FwStates, FirmwareTypeOK
    <3> a \in Responses
      BY DEF Responses
    <3>2. AppEnds \in FwApps /\ app \in FwApps
      BY AppEnded DEF FirmwareTypeOK
    <3>3. \/ UNCHANGED app /\ SendAbort("error", message.target, TRUE)
          \/ app' = AppEnds /\ SendResponse(f, a, TRUE, lapses)
      BY <2>7 DEF CompleteDownload
    <3> HIDE DEF f, a
    <3>4. QED
      BY <2>2, <3>1, <3>2, <3>3, AnswerTypes DEF FirmwareTypeOK
  <2>8. CASE TargetReset(message)
    <3>1. app' \in FwApps
      BY <2>8, AppEnded DEF TargetReset, FirmwareTypeOK
    <3>2. QED
      BY <2>8, <3>1, KeepsTypes DEF TargetReset, FirmwareTypeOK
  <2>9. QED
    BY <1>3, <2>1, <2>2, <2>3, <2>4, <2>5, <2>6, <2>7, <2>8 DEF ProcessMessage
<1>4. CASE OtherSends
  BY <1>4 DEF OtherSends, FirmwareTypeOK
<1>5. CASE PacketOut
  <2>1. cloud' \in FwClouds
    BY <1>5, CloudAdvances DEF PacketOut, FirmwareTypeOK
  <2>2. QED
    BY <1>5, <2>1 DEF PacketOut, FirmwareTypeOK
<1>6. CASE Reconnected
  <2>1. IsCloud(cloud', "idle", cloud.target, cloud.next, FALSE)
    BY <1>6, CloudIs DEF Reconnected, FirmwareTypeOK
  <2>2. message' \in {message, NoMessage} /\ NoMessage \in FwMessages
        /\ NoMessage.op # "block"
    BY <1>6, MessageFields DEF Reconnected, FirmwareTypeOK
  <2>3. QED
    BY <1>6, <2>1, <2>2 DEF Reconnected, IsCloud, FirmwareTypeOK
<1>7. QED
  BY <1>1, <1>2, <1>3, <1>4, <1>5, <1>6 DEF FirmwareNext
-----------------------------------------------------------------------------
(* What comes of a response, when none waits.                              *)

\* The message may wait for its response.
MayWait ==
    /\ message.op # "none"
    /\ message.op = "download" => message.target \notin Targets

LEMMA ResponseOutcome ==
    ASSUME FirmwareTypeOK, NEW f \in FwStates, NEW a \in Responses,
           NEW kept \in BOOLEAN, NEW l, SendResponse(f, a, kept, l),
           kept => MayWait
    PROVE  /\ fw'.started = f.started /\ fw'.target = f.target
           /\ message' = message \/ message'.op = "none"
           /\ l \subseteq lapses'
           /\ Buffer'
           /\ \/ DownloadRefused'
              \/ /\ packet_out = "none" /\ InPacket' /\ response' = a
                 /\ ~fw'.busy /\ message'.op = "none"
              \/ /\ ~InPacket /\ ~InPacket' /\ response' = a
                 /\ kept /\ fw'.busy /\ message' = message
<1>1. /\ fw' \in FwStates
      /\ fw'.started = f.started /\ fw'.target = f.target
      /\ fw'.busy = (packet_out # "none")
      /\ fw'.owed = (packet_out # "none" /\ ~kept)
      /\ response' = IF InPacket THEN "mixed" ELSE a
      /\ packet_out' = IF packet_out = "none" THEN "response" ELSE packet_out
      /\ message' = IF packet_out # "none" /\ kept THEN message ELSE NoMessage
      /\ lapses' = (l \cup (IF InPacket THEN {"mixed"} ELSE {}))
                     \cup (IF packet_out # "none" /\ ~kept THEN {"unsent"}
                           ELSE {})
  BY SentAsResponse
<1>2. NoMessage.op = "none"
  BY MessageFields DEF FirmwareTypeOK
<1>3. Buffer'
  BY <1>1, <1>2 DEF Buffer, InPacket, MayWait
<1>4. CASE packet_out = "none"
  BY <1>1, <1>2, <1>3, <1>4 DEF InPacket
<1>5. CASE InPacket
  BY <1>1, <1>2, <1>3, <1>5 DEF InPacket, DownloadRefused, Refusals
<1>6. CASE packet_out # "none" /\ ~InPacket /\ ~kept
  BY <1>1, <1>2, <1>3, <1>6 DEF InPacket, DownloadRefused
<1>7. CASE packet_out # "none" /\ ~InPacket /\ kept
  BY <1>1, <1>2, <1>3, <1>7 DEF InPacket, DownloadRefused
<1>8. QED
  BY <1>4, <1>5, <1>6, <1>7

LEMMA AbortOutcome ==
    ASSUME FirmwareTypeOK, NEW a \in {"abort", "error"}, NEW t,
           NEW kept \in BOOLEAN, SendAbort(a, t, kept), kept => MayWait
    PROVE  /\ fw'.started = (fw.started /\ fw.target # t)
           /\ fw'.target = fw.target
           /\ message' = message \/ message'.op = "none"
           /\ lapses \subseteq lapses'
           /\ fw.started /\ fw.target = t /\ app'.started => "dropped" \in lapses'
           /\ Buffer'
           /\ DownloadRefused'
<1>1. /\ fw'.started = (fw.started /\ fw.target # t)
      /\ fw'.target = fw.target
      /\ fw'.busy = (packet_out # "none")
      /\ fw'.owed = (packet_out # "none" /\ ~kept)
      /\ response' = IF InPacket THEN "mixed" ELSE a
      /\ packet_out' = IF packet_out = "none" THEN "response" ELSE packet_out
      /\ message' = IF packet_out # "none" /\ kept THEN message ELSE NoMessage
      /\ lapses \subseteq lapses'
      /\ fw.started /\ fw.target = t /\ app'.started => "dropped" \in lapses'
      /\ packet_out # "none" /\ ~kept => "unsent" \in lapses'
  BY Aborted
<1>2. NoMessage.op = "none"
  BY MessageFields DEF FirmwareTypeOK
<1>3. Buffer'
  BY <1>1, <1>2 DEF Buffer, InPacket, MayWait
<1>4. DownloadRefused'
  BY <1>1 DEF DownloadRefused, InPacket, Refusals
<1>5. QED
  BY <1>1, <1>2, <1>3, <1>4

\* Once the cloud is going to hear of a refusal, the rest may be anything.
LEMMA RefusedStages ==
    ASSUME FwInv, cloud' = cloud, DownloadRefused',
           message' = message \/ message'.op = "none",
           Straight' => Straight,
           cloud.at = "told" /\ Straight =>
               ~app'.started /\ app'.image = app.image
    PROVE  DownloadStages'
<1>1. Straight' /\ cloud'.at = "requested" => Requested'
  BY DEF FwInv, DownloadStages, Requested, ForIt
<1>2. Straight' /\ cloud'.at = "sending" => Sending'
  BY DEF Sending
<1>3. Straight' /\ cloud'.at = "told" => DownloadTold'
  BY DEF FwInv, DownloadStages, DownloadTold, BlocksBefore
<1>4. QED
  BY <1>1, <1>2, <1>3 DEF FwInv, DownloadStages

\* A message that is refused.
LEMMA RefusedMessage ==
    ASSUME FwInv, UNCHANGED <<app, cloud>>, NEW a \in {"abort", "error"},
           NEW kept \in BOOLEAN, SendAbort(a, message.target, kept),
           kept => MayWait
    PROVE  FlagsAgree' /\ Buffer' /\ DownloadStages'
<1>1. /\ fw'.started = (fw.started /\ fw.target # message.target)
      /\ message' = message \/ message'.op = "none"
      /\ lapses \subseteq lapses'
      /\ fw.started /\ fw.target = message.target /\ app'.started
             => "dropped" \in lapses'
      /\ Buffer' /\ DownloadRefused'
  BY AbortOutcome DEF FwInv
<1>2. FlagsAgree'
  BY <1>1 DEF FwInv, FlagsAgree
<1>3. Straight' => Straight
  BY <1>1 DEF Straight
<1>4. cloud.at = "told" /\ Straight => ~app'.started /\ app'.image = app.image
  BY DEF FwInv, DownloadStages, DownloadTold
<1>5. DownloadStages'
  BY <1>1, <1>3, <1>4, RefusedStages
<1>6. QED
  BY <1>1, <1>2, <1>5
-----------------------------------------------------------------------------
(* Each handler of a message keeps the invariant.                          *)

\* A message is looked at, and no response waits.
Handling ==
    /\ FwInv /\ ~fw.busy /\ cloud' = cloud
    /\ message.op # "none" /\ message.target \in Targets

LEMMA WhenHandling ==
    ASSUME Handling
    PROVE  /\ ~fw.owed \/ "unsent" \in lapses
           /\ fw.started \in BOOLEAN /\ app.started \in BOOLEAN
           /\ Straight =>
                /\ cloud.at = "requested" =>
                       ForIt("download") /\ cloud.waits /\ cloud.next = 1
                /\ cloud.at = "sending" =>
                       \/ DownloadRefused \/ Early
                       \/ /\ InStep
                          /\ \/ /\ ForIt("block")
                                /\ message.block + 1 = cloud.next
                                /\ message.ack = cloud.waits
                                /\ app.image = BlocksBefore(message.block)
                             \/ /\ ~ForIt("block")
                                /\ app.image = BlocksBefore(cloud.next)
                                /\ ForIt("complete") =>
                                       /\ cloud.waits
                                       /\ cloud.next = ImageBlocks + 1
                /\ cloud.at = "told" => DownloadTold
BY StateFields, AppFields
DEF Handling, FwInv, FirmwareTypeOK, Buffer, DownloadStages, Requested, Sending, ToldComplete,
    InStep

LEMMA InfoKept ==
    ASSUME Handling, message.op = "info", InfoRequest(message)
    PROVE  FlagsAgree' /\ Buffer' /\ DownloadStages'
<1>1. CASE message.short
  BY <1>1, RefusedMessage DEF Handling, InfoRequest, MayWait
<1>2. CASE ~message.short
  <2>1. /\ fw'.started = fw.started /\ fw'.target = message.target
        /\ ~fw'.busy /\ fw'.owed = fw.owed
        /\ app' = app /\ response' = response
        /\ InPacket' = InPacket
        /\ message' = message \/ message' = NoMessage
        /\ lapses' = lapses \cup Retargets(message)
    BY <1>2, SetTarget
    DEF InfoRequest, Handling, FwInv, FirmwareTypeOK, InPacket
  <2>2. NoMessage.op = "none" /\ message.op = "info"
    BY MessageFields DEF Handling, FwInv, FirmwareTypeOK
  <2>3. FlagsAgree'
    BY <2>1 DEF FlagsAgree, Handling, FwInv
  <2>4. Buffer'
    BY <2>1 DEF Buffer, Handling, FwInv
  <2>5. Straight' => Straight /\ (fw.started => fw'.target = fw.target)
    BY <2>1 DEF Straight, Retargets
  <2>6. Straight' => cloud.at # "requested"
    BY <2>2, <2>5, WhenHandling DEF ForIt
  <2>7. ASSUME Straight', cloud.at = "sending" PROVE Sending'
    <3>1. CASE DownloadRefused
      BY <2>1, <3>1 DEF DownloadRefused, Sending, Handling, InPacket
    <3>2. CASE Early
      BY <2>2, <3>2 DEF Early, ForIt
    <3>3. CASE InStep
      BY <2>1, <2>2, <2>5, <2>7, <3>3, WhenHandling
      DEF InStep, Under, ForIt, Handling, Sending, InPacket, BlocksBefore
    <3>4. QED
      BY <2>5, <2>7, <3>1, <3>2, <3>3, WhenHandling
  <2>8. Straight' /\ cloud.at = "told" => DownloadTold'
    BY <2>1, <2>2, <2>5, WhenHandling DEF DownloadTold, BlocksBefore
  <2>9. QED
    BY <2>3, <2>4, <2>6, <2>7, <2>8 DEF DownloadStages, Handling, FwInv
<1>3. QED
  BY <1>1, <1>2, MessageFields DEF Handling, FwInv, FirmwareTypeOK

LEMMA DownloadKept ==
    ASSUME Handling, message.op = "download", DownloadRequest(message)
    PROVE  FlagsAgree' /\ Buffer' /\ DownloadStages'
<1> DEFINE f == [fw EXCEPT !.started = TRUE, !.target = message.target]
<1>1. /\ f \in FwStates /\ fw \in FwStates /\ FirmwareTypeOK
      /\ f.started = TRUE /\ f.target = message.target
      /\ {"denied", "download"} \subseteq Responses
  <2>1. fw \in FwStates /\ message.target \in Targets /\ FirmwareTypeOK
    BY DEF Handling, FwInv, FirmwareTypeOK
  <2>2. f \in FwStates /\ f.started = TRUE /\ f.target = message.target
    BY <2>1, SetDownload, ZenonT(40)
  <2>3. QED
    BY <2>1, <2>2 DEF Responses
<1>2. NoMessage.op = "none" /\ fw.started \in BOOLEAN /\ app.started \in BOOLEAN
  BY MessageFields, WhenHandling DEF Handling, FwInv, FirmwareTypeOK
<1> HIDE DEF f
<1>3. CASE SendAbort("abort", message.target, FALSE) /\ app' = app
  BY <1>3, RefusedMessage DEF Handling
<1>4. CASE SendResponse(fw, "denied", FALSE, lapses) /\ app' = app
  <2>1. /\ fw'.started = fw.started /\ lapses \subseteq lapses' /\ Buffer'
        /\ message' = message \/ message'.op = "none"
        /\ \/ DownloadRefused'
           \/ InPacket' /\ response' = "denied"
    BY <1>1, <1>4, ResponseOutcome
  <2>2. DownloadRefused'
    BY <2>1 DEF DownloadRefused, Refusals
  <2>3. FlagsAgree'
    BY <1>4, <2>1 DEF FlagsAgree, Handling, FwInv
  <2>4. Straight' => Straight
    BY <2>1 DEF Straight
  <2>5. cloud.at = "told" /\ Straight =>
            ~app'.started /\ app'.image = app.image
    BY <1>4, WhenHandling DEF DownloadTold
  <2>6. QED
    BY <2>1, <2>2, <2>3, <2>4, <2>5, RefusedStages DEF Handling
<1>5. CASE /\ message.short /\ app' = app
           /\ SendResponse(f, "download", FALSE,
                           (lapses \cup {"uninitialised"}) \cup Retargets(message))
  <2> DEFINE l == (lapses \cup {"uninitialised"}) \cup Retargets(message)
  <2>1. /\ fw'.started = TRUE /\ fw'.target = message.target
        /\ l \subseteq lapses' /\ Buffer'
        /\ message' = message \/ message'.op = "none"
        /\ \/ DownloadRefused'
           \/ /\ packet_out = "none" /\ InPacket' /\ response' = "download"
              /\ ~fw'.busy /\ message'.op = "none"
    <3> SendResponse(f, "download", FALSE, l)
      BY <1>5
    <3> HIDE DEF l
    <3> QED
      BY <1>1, ResponseOutcome
  <2>2. FlagsAgree'
    BY <2>1 DEF FlagsAgree
  <2>3. Straight' => Straight /\ (fw.started => fw'.target = fw.target)
    BY <2>1 DEF Straight, Retargets
  <2>4. CASE DownloadRefused'
    <3>1. cloud.at = "told" /\ Straight =>
              ~app'.started /\ app'.image = app.image
      BY <1>5, WhenHandling DEF DownloadTold
    <3>2. QED
      BY <2>1, <2>2, <2>3, <2>4, <3>1, RefusedStages DEF Handling
  <2>5. CASE /\ packet_out = "none" /\ InPacket' /\ response' = "download"
             /\ ~fw'.busy /\ message'.op = "none"
    <3>1. Straight' => cloud.at # "requested"
      BY <1>5, <2>3, WhenHandling DEF ForIt
    <3>2. ASSUME Straight', cloud.at = "sending" PROVE Sending'
      <4>1. InStep
        BY <1>5, <2>3, <2>5, <3>2, WhenHandling
        DEF DownloadRefused, InPacket, Early, ForIt, Handling
      <4>2. QED
        BY <1>2, <1>5, <2>1, <2>3, <2>5, <3>2, <4>1, WhenHandling
        DEF InStep, Under, ForIt, Handling, Sending, InPacket, BlocksBefore
    <3>3. Straight' /\ cloud.at = "told" => DownloadTold'
      BY <1>5, <2>3, <2>5, WhenHandling DEF DownloadTold, BlocksBefore
    <3>4. QED
      BY <2>1, <2>2, <3>1, <3>2, <3>3 DEF DownloadStages, Handling, FwInv
  <2>6. QED
    BY <2>1, <2>4, <2>5
<1>6. CASE /\ ~message.short /\ ~fw.started /\ ~app.started
           /\ app' = AppDownload(message)
           /\ SendResponse(f, "download", FALSE, lapses)
  <2>1. app'.started = TRUE /\ app'.image = <<>>
    BY <1>6, AppBegun DEF AppDownload
  <2>2. /\ fw'.started = TRUE /\ fw'.target = message.target
        /\ lapses \subseteq lapses' /\ Buffer'
        /\ message' = message \/ message'.op = "none"
        /\ \/ DownloadRefused'
           \/ /\ packet_out = "none" /\ InPacket' /\ response' = "download"
              /\ ~fw'.busy /\ message'.op = "none"
    BY <1>1, <1>6, ResponseOutcome
  <2>3. FlagsAgree'
    BY <2>1, <2>2 DEF FlagsAgree
  <2>4. Straight' => Straight /\ cloud.at # "told"
    BY <1>6, <2>2, WhenHandling DEF Straight, DownloadTold, Handling
  <2>5. CASE DownloadRefused'
    <3>1. cloud.at = "told" /\ Straight' => FALSE
      BY <2>4
    <3>2. cloud.at = "told" /\ Straight =>
              ~app'.started /\ app'.image = app.image
      BY <1>6, WhenHandling DEF DownloadTold, Handling
    <3>3. QED
      BY <2>2, <2>3, <2>4, <2>5, <3>2, RefusedStages DEF Handling
  <2>6. CASE /\ packet_out = "none" /\ InPacket' /\ response' = "download"
             /\ ~fw'.busy /\ message'.op = "none"
    <3>1. Straight' /\ cloud.at = "requested" => Requested'
      BY <2>1, <2>2, <2>4, <2>6, WhenHandling
      DEF Requested, Under, ForIt, Handling
    <3>2. ASSUME Straight', cloud.at = "sending" PROVE Sending'
      <4>1. Early
        BY <1>6, <2>4, <2>6, <3>2, WhenHandling
        DEF DownloadRefused, InPacket, InStep, Under, Handling
      <4>2. app'.image = BlocksBefore(1) /\ BlocksBefore(1) = BlocksBefore(1)'
        BY <2>1 DEF BlocksBefore
      <4>3. InStep'
        BY <2>1, <2>2, <2>6, <4>1, <4>2
        DEF InStep, Early, Under, ForIt, Handling, InPacket
      <4>4. QED
        BY <4>3 DEF Sending
    <3>3. QED
      BY <2>2, <2>3, <2>4, <3>1, <3>2 DEF DownloadStages, Handling, FwInv
  <2>7. QED
    BY <2>2, <2>5, <2>6
<1>7. QED
  BY <1>2, <1>3, <1>4, <1>5, <1>6 DEF DownloadRequest, AppDownload, f

\* The image grows by the block that follows it.
LEMMA SameList ==
    ASSUME NEW p \in Seq(Nat), NEW q \in Seq(Nat), Len(p) = Len(q),
           \A i \in 1 .. Len(p) : p[i] = q[i]
    PROVE  p = q
BY SMTT(40)

LEMMA BlockComes ==
    ASSUME NEW n \in 1 .. ImageBlocks
    PROVE  Append(BlocksBefore(n), n) = BlocksBefore(n + 1)
<1>1. BlocksBefore(n) \in Seq(Nat) /\ Len(BlocksBefore(n)) = n - 1
  BY DEF BlocksBefore
<1>2. Append(BlocksBefore(n), n) \in Seq(Nat) /\ Len(Append(BlocksBefore(n), n)) = n
  BY <1>1
<1>3. BlocksBefore(n + 1) \in Seq(Nat) /\ Len(BlocksBefore(n + 1)) = n
  BY DEF BlocksBefore
<1>4. ASSUME NEW i \in 1 .. n
      PROVE  Append(BlocksBefore(n), n)[i] = BlocksBefore(n + 1)[i]
  <2>1. CASE i = n
    BY <1>1, <2>1 DEF BlocksBefore
  <2>2. CASE i # n
    BY <1>1, <2>2 DEF BlocksBefore
  <2>3. QED
    BY <2>1, <2>2
<1>5. QED
  BY <1>2, <1>3, <1>4, SameList

LEMMA BlockKept ==
    ASSUME Handling, message.op = "block", BinaryBlock(message)
    PROVE  FlagsAgree' /\ Buffer' /\ DownloadStages'
<1>1. /\ NoMessage.op = "none" /\ MayWait
      /\ message.block \in 1 .. ImageBlocks /\ message.ack \in BOOLEAN
      /\ fw \in FwStates /\ app \in FwApps /\ FirmwareTypeOK
      /\ cloud.waits \in BOOLEAN
  BY MessageFields, CloudFields DEF Handling, FwInv, FirmwareTypeOK, MayWait
<1>2. Straight => cloud.at # "requested"
  BY WhenHandling DEF ForIt
<1>3. Straight /\ cloud.at = "told" => ~app.started
  BY WhenHandling DEF DownloadTold
<1>4. CASE ~fw.started
  <2>1. message' = NoMessage
        /\ UNCHANGED <<fw, app, response, packet_out, lapses>>
    BY <1>4 DEF BinaryBlock
  <2>2. FlagsAgree' /\ Buffer'
    BY <2>1 DEF FlagsAgree, Buffer, Handling, FwInv
  <2>3. Straight' /\ cloud.at = "sending" => Sending'
    BY <1>1, <1>4, <2>1, WhenHandling
    DEF Sending, DownloadRefused, Early, InStep, Under, ForIt, InPacket, Straight
  <2>4. QED
    BY <1>1, <1>2, <2>1, <2>2, <2>3, WhenHandling
    DEF DownloadStages, Handling, FwInv, Straight, DownloadTold, BlocksBefore
<1>5. CASE SendAbort("error", message.target, TRUE) /\ app' = app
  BY <1>1, <1>5, RefusedMessage DEF Handling
<1>6. CASE /\ fw.started /\ ~message.short /\ message.target = fw.target
           /\ ~app.started /\ app' = AppImage(message)
           /\ SendAbort("abort", message.target, TRUE)
  BY <1>1, <1>6, RefusedMessage DEF Handling, AppImage
<1>7. CASE /\ fw.started /\ ~message.short /\ message.target = fw.target
           /\ app.started /\ app' = AppImage(message)
  <2>1. app'.started = TRUE /\ app'.image = Append(app.image, message.block)
    BY <1>1, <1>7, AppGrown DEF AppImage
  <2>2. ASSUME Straight, cloud.at = "sending", ~DownloadRefused
        PROVE  /\ ForIt("block") /\ message.block + 1 = cloud.next
               /\ message.ack = cloud.waits
               /\ app'.image = BlocksBefore(cloud.next)
               /\ InStep
    <3>1. InStep /\ message.target = cloud.target
      BY <1>7, <2>2, WhenHandling DEF Early, ForIt, InStep, Under
    <3>2. /\ ForIt("block") /\ message.block + 1 = cloud.next
          /\ message.ack = cloud.waits
          /\ app.image = BlocksBefore(message.block)
      BY <1>7, <2>2, <3>1, WhenHandling DEF ForIt, Early
    <3>3. QED
      BY <1>1, <2>1, <3>1, <3>2, BlockComes
  <2>3. CASE message.ack /\ SendResponse(fw, "ack", TRUE, lapses)
    <3>1. /\ fw'.started = fw.started /\ fw'.target = fw.target
          /\ message' = message \/ message'.op = "none"
          /\ lapses \subseteq lapses' /\ Buffer'
          /\ \/ DownloadRefused'
             \/ /\ packet_out = "none" /\ InPacket' /\ response' = "ack"
                /\ ~fw'.busy /\ message'.op = "none"
             \/ /\ ~InPacket /\ ~InPacket' /\ response' = "ack"
                /\ fw'.busy /\ message' = message
      BY <1>1, <2>3, ResponseOutcome DEF Responses
    <3>2. FlagsAgree'
      BY <1>7, <2>1, <3>1 DEF FlagsAgree
    <3>3. Straight' => Straight
      BY <3>1 DEF Straight
    <3>4. CASE DownloadRefused'
      BY <1>3, <1>7, <3>1, <3>2, <3>3, <3>4, RefusedStages DEF Handling
    <3>5. CASE ~DownloadRefused'
      <4>1. ~DownloadRefused
        BY <3>1, <3>5 DEF DownloadRefused, InPacket, Handling
      <4>2. ASSUME Straight', cloud.at = "sending" PROVE Sending'
        <5>1. BlocksBefore(cloud.next) = BlocksBefore(cloud.next)' /\ message.op = "block"
          BY DEF BlocksBefore, Handling
        <5>2. InStep'
          BY <1>7, <2>1, <2>2, <2>3, <3>1, <3>3, <3>5, <4>1, <4>2, <5>1
          DEF InStep, Under, ForIt, Handling, InPacket
        <5>3. QED
          BY <5>2 DEF Sending
      <4>3. QED
        BY <1>2, <1>3, <1>7, <3>1, <3>2, <3>3, <4>2
        DEF DownloadStages, Handling, FwInv
    <3>6. QED
      BY <3>4, <3>5
  <2>4. CASE /\ ~message.ack /\ message' = NoMessage
             /\ UNCHANGED <<fw, response, packet_out, lapses>>
    <3>1. FlagsAgree' /\ Buffer'
      BY <1>7, <2>1, <2>4 DEF FlagsAgree, Buffer, Handling, FwInv
    <3>2. ASSUME Straight', cloud.at = "sending" PROVE Sending'
      <4>1. CASE DownloadRefused
        BY <2>4, <4>1 DEF Sending, DownloadRefused, InPacket
      <4>2. CASE ~DownloadRefused
        <5>1. BlocksBefore(cloud.next) = BlocksBefore(cloud.next)' /\ Straight
          BY <2>4, <3>2 DEF BlocksBefore, Straight, Handling
        <5>2. InStep'
          BY <1>1, <1>7, <2>1, <2>2, <2>4, <3>2, <4>2, <5>1
          DEF InStep, Under, ForIt, Handling, InPacket
        <5>3. QED
          BY <5>2 DEF Sending
      <4>3. QED
        BY <4>1, <4>2
    <3>3. QED
      BY <1>2, <1>3, <1>7, <2>4, <3>1, <3>2
      DEF DownloadStages, Handling, FwInv, Straight
  <2>5. QED
    BY <1>7, <2>3, <2>4 DEF BinaryBlock
<1>8. QED
  BY <1>4, <1>5, <1>6, <1>7 DEF BinaryBlock

LEMMA AbortKept ==
    ASSUME Handling, message.op = "abort", AbortDownload(message)
    PROVE  FlagsAgree' /\ Buffer' /\ DownloadStages'
<1> DEFINE stops == fw.started /\ fw.target = message.target
<1>1. /\ fw'.started = (fw.started /\ ~stops) /\ fw'.target = fw.target
      /\ fw'.busy = fw.busy /\ fw'.owed = fw.owed
  <2> DEFINE s == fw.started /\ ~stops
  <2>1. s \in BOOLEAN /\ fw' = [fw EXCEPT !.started = s] /\ fw \in FwStates
    BY WhenHandling DEF AbortDownload, Handling, FwInv, FirmwareTypeOK
  <2> HIDE DEF s
  <2>2. /\ fw'.started = s /\ fw'.target = fw.target
        /\ fw'.busy = fw.busy /\ fw'.owed = fw.owed
    BY <2>1 DEF FwStates
  <2>3. QED
    BY <2>2 DEF s
<1>2. /\ app'.image = app.image
      /\ app'.started = (app.started /\ ~stops)
  BY WhenHandling, AppEnded DEF AbortDownload, Handling, FwInv, FirmwareTypeOK
<1>3. message'.op = "none" /\ UNCHANGED <<response, packet_out, lapses>>
  BY MessageFields DEF AbortDownload, Handling, FwInv, FirmwareTypeOK
<1>4. FlagsAgree' /\ Buffer'
  BY <1>1, <1>2, <1>3 DEF FlagsAgree, Buffer, Handling, FwInv
<1>5. Straight => cloud.at # "requested"
  BY WhenHandling DEF ForIt
<1>6. Straight /\ cloud.at = "sending" => DownloadRefused'
  BY <1>1, <1>3, WhenHandling DEF DownloadRefused, InPacket, Early, ForIt, InStep
<1>7. Straight /\ cloud.at = "told" => DownloadTold'
  BY <1>2, <1>3, WhenHandling DEF DownloadTold, BlocksBefore
<1>8. QED
  BY <1>3, <1>4, <1>5, <1>6, <1>7
  DEF DownloadStages, Handling, FwInv, Sending, Straight

LEMMA ResetKept ==
    ASSUME Handling, message.op = "reset", TargetReset(message)
    PROVE  FlagsAgree' /\ Buffer' /\ DownloadStages'
<1>1. app'.image = app.image /\ app'.started = FALSE
  BY AppEnded DEF TargetReset, Handling, FwInv, FirmwareTypeOK
<1>2. message'.op = "none" /\ UNCHANGED <<fw, response, packet_out>>
      /\ lapses' = lapses \cup (IF fw.started THEN {"reset"} ELSE {})
  BY MessageFields DEF TargetReset, Handling, FwInv, FirmwareTypeOK
<1>3. FlagsAgree' /\ Buffer' /\ (Straight' => Straight)
  BY <1>1, <1>2 DEF FlagsAgree, Buffer, Handling, FwInv, Straight
<1>4. Straight => cloud.at # "requested"
  BY WhenHandling DEF ForIt
<1>5. Straight /\ cloud.at = "sending" => DownloadRefused'
  BY <1>2, WhenHandling DEF DownloadRefused, InPacket, Early, ForIt, InStep
<1>6. Straight /\ cloud.at = "told" => DownloadTold'
  BY <1>1, <1>2, WhenHandling DEF DownloadTold, BlocksBefore
<1>7. QED
  BY <1>3, <1>4, <1>5, <1>6 DEF DownloadStages, Handling, FwInv, Sending

LEMMA CompleteKept ==
    ASSUME Handling, message.op = "complete", CompleteDownload(message)
    PROVE  FlagsAgree' /\ Buffer' /\ DownloadStages'
<1> DEFINE f == [fw EXCEPT !.started = FALSE]
           a == IF app.started THEN "complete" ELSE "incomplete"
<1>1. MayWait /\ FirmwareTypeOK
  BY DEF MayWait, Handling, FwInv
<1>2. CASE app' = app /\ SendAbort("error", message.target, TRUE)
  BY <1>1, <1>2, RefusedMessage DEF Handling
<1>3. CASE /\ ~message.short /\ fw.target = message.target
           /\ app' = AppEnds /\ SendResponse(f, a, TRUE, lapses)
  <2>1. app'.image = app.image /\ app'.started = FALSE
    BY <1>1, <1>3, AppEnded DEF FirmwareTypeOK
  <2>2. f \in FwStates /\ f.started = FALSE /\ a \in Responses
    BY <1>1 DEF FirmwareTypeOK, FwStates, Responses
  <2> HIDE DEF f
  <2>3. /\ fw'.started = FALSE
        /\ message' = message \/ message'.op = "none"
        /\ lapses \subseteq lapses' /\ Buffer'
        /\ \/ DownloadRefused'
           \/ /\ packet_out = "none" /\ InPacket' /\ response' = a
              /\ ~fw'.busy /\ message'.op = "none"
           \/ /\ ~InPacket /\ ~InPacket' /\ response' = a
              /\ fw'.busy /\ message' = message
    <3> HIDE DEF a
    <3> QED
      BY <1>1, <1>3, <2>2, ResponseOutcome
  <2>4. FlagsAgree' /\ (Straight' => Straight)
    BY <2>1, <2>3 DEF FlagsAgree, Straight
  <2>5. CASE DownloadRefused'
    BY <2>1, <2>3, <2>4, <2>5, WhenHandling, RefusedStages DEF Handling, DownloadTold
  <2>6. CASE ~DownloadRefused'
    <3>1. ~DownloadRefused
      BY <2>3, <2>6 DEF DownloadRefused, InPacket, Handling
    <3>2. Straight => cloud.at # "requested"
      BY WhenHandling DEF ForIt
    <3>3. ASSUME Straight', cloud.at = "sending" PROVE ToldComplete'
      <4>1. Straight /\ InStep /\ app.started
        BY <2>4, <3>1, <3>3, WhenHandling DEF Early, ForIt, InStep, Under
      <4>2. ForIt("complete") /\ ~ForIt("block")
        BY <1>3, <4>1 DEF ForIt, InStep, Under
      <4>3. cloud.waits /\ cloud.next = ImageBlocks + 1
            /\ app.image = BlocksBefore(cloud.next)
        BY <3>1, <3>3, <4>1, <4>2, WhenHandling DEF Early, ForIt
      <4>4. BlocksBefore(ImageBlocks + 1)' = BlocksBefore(ImageBlocks + 1)
        BY DEF BlocksBefore
      <4>5. QED
        BY <2>1, <2>3, <2>6, <4>1, <4>3, <4>4 DEF ToldComplete, Handling
    <3>4. Straight /\ cloud.at = "told" => DownloadTold'
      BY <2>1, <2>3, WhenHandling DEF DownloadTold, BlocksBefore
    <3>5. QED
      BY <2>3, <2>4, <3>2, <3>3, <3>4 DEF DownloadStages, Handling, FwInv, Sending
  <2>7. QED
    BY <2>5, <2>6
<1>4. QED
  BY <1>2, <1>3 DEF CompleteDownload

\* A response that waited goes out, or waits on.
LEMMA WaitedKept ==
    ASSUME FwInv, fw.busy, cloud' = cloud, message.op # "none", WaitedResponse
    PROVE  FlagsAgree' /\ Buffer' /\ DownloadStages'
<1>1. /\ fw'.started = fw.started /\ fw'.target = fw.target
      /\ fw'.busy = (packet_out # "none")
      /\ fw'.owed = (fw.owed /\ packet_out # "none")
  <2> DEFINE b == packet_out # "none"
             o == fw.owed /\ packet_out # "none"
  <2>1. b \in BOOLEAN /\ o \in BOOLEAN /\ fw \in FwStates
        /\ fw' = [fw EXCEPT !.busy = b, !.owed = o]
    BY StateFields DEF WaitedResponse, FwInv, FirmwareTypeOK
  <2> HIDE DEF b, o
  <2>2. /\ fw'.started = fw.started /\ fw'.target = fw.target
        /\ fw'.busy = b /\ fw'.owed = o
    BY <2>1 DEF FwStates
  <2>3. QED
    BY <2>2 DEF b, o
<1>2. /\ UNCHANGED <<app, response>>
      /\ packet_out' = IF packet_out = "none" THEN "response" ELSE packet_out
      /\ lapses' = lapses \cup (IF fw.owed THEN {"swallowed"} ELSE {})
  BY DEF WaitedResponse
<1>3. IF packet_out = "none" THEN message'.op = "none" ELSE message' = message
  BY MessageFields DEF WaitedResponse, FwInv, FirmwareTypeOK
<1>4. FlagsAgree' /\ Buffer'
  BY <1>1, <1>2, <1>3 DEF FlagsAgree, Buffer, FwInv, InPacket
<1>5. /\ Straight' => Straight /\ ~fw.owed
      /\ ~fw.owed /\ message.op = "download" => message.target \notin Targets
      /\ InPacket => response = "mixed"
      /\ cloud.target \in Targets
  BY <1>2, CloudFields DEF Straight, Buffer, FwInv, FirmwareTypeOK
<1>6. Straight' => cloud.at # "requested"
  BY <1>5 DEF DownloadStages, Requested, ForIt, FwInv
<1>7. ASSUME Straight', cloud.at = "sending" PROVE Sending'
  <2>1. CASE DownloadRefused
    BY <1>1, <1>2, <1>5, <1>7, <2>1 DEF DownloadRefused, InPacket, Sending
  <2>2. CASE InStep
    <3>1. /\ Under /\ ~InPacket /\ response = "ack" /\ cloud.waits
          /\ app.image = BlocksBefore(cloud.next)
          /\ message.op \in {"block", "complete"}
      BY <1>5, <2>2 DEF InStep
    <3>2. BlocksBefore(cloud.next)' = BlocksBefore(cloud.next) /\ Under'
      BY <1>1, <1>2, <3>1 DEF BlocksBefore, Under
    <3>3. InStep'
      BY <1>1, <1>2, <1>3, <3>1, <3>2 DEF InStep, ForIt, InPacket
    <3>4. QED
      BY <3>3 DEF Sending
  <2>3. CASE ToldComplete
    BY <1>1, <1>2, <1>3, <2>3 DEF ToldComplete, InPacket, Sending, BlocksBefore
  <2>4. QED
    BY <1>5, <1>7, <2>1, <2>2, <2>3 DEF DownloadStages, Sending, Early, FwInv
<1>8. Straight' /\ cloud.at = "told" => DownloadTold'
  BY <1>2, <1>3, <1>5 DEF DownloadStages, DownloadTold, BlocksBefore, FwInv
<1>9. QED
  BY <1>4, <1>6, <1>7, <1>8 DEF DownloadStages, FwInv

LEMMA ProcessKept ==
    ASSUME FwInv, ProcessMessage
    PROVE  FlagsAgree' /\ Buffer' /\ DownloadStages'
<1>1. cloud' = cloud /\ message.op # "none"
  BY DEF ProcessMessage
<1>2. CASE fw.busy
  BY <1>1, <1>2, WaitedKept DEF ProcessMessage
<1>3. CASE /\ MayWait /\ app' = app
           /\ SendAbort("error", message.target, TRUE)
  BY <1>1, <1>3, RefusedMessage
<1>4. CASE ~fw.busy /\ message.target \notin Targets
  BY <1>1, <1>3, <1>4 DEF ProcessMessage, MayWait
<1>5. CASE ~fw.busy /\ message.target \in Targets
  <2>1. Handling
    BY <1>1, <1>5 DEF Handling
  <2>2. CASE message.op = "unknown"
    BY <1>3, <1>5, <2>2 DEF ProcessMessage, MayWait
  <2>3. CASE message.op # "unknown"
    BY <1>5, <2>1, <2>3, InfoKept, DownloadKept, BlockKept, AbortKept,
       CompleteKept, ResetKept DEF ProcessMessage
  <2>4. QED
    BY <2>2, <2>3
<1>6. QED
  BY <1>2, <1>4, <1>5
-----------------------------------------------------------------------------
(* The other actions keep it.                                              *)

\* A packet of somebody else is no concern of the download.
LEMMA OtherKept ==
    ASSUME FwInv, OtherSends
    PROVE  FlagsAgree' /\ Buffer' /\ DownloadStages'
<1>1. UNCHANGED <<fw, app, message, response, cloud, lapses>>
      /\ ~InPacket /\ ~InPacket'
  BY DEF OtherSends, InPacket
<1>2. Requested' = Requested /\ Sending' = Sending /\ DownloadTold' = DownloadTold
      /\ Straight' = Straight
  BY <1>1 DEF Requested, Sending, DownloadTold, Straight, DownloadRefused, Early, InStep,
     ToldComplete, Under, ForIt, BlocksBefore
<1>3. QED
  BY <1>1, <1>2 DEF FlagsAgree, Buffer, DownloadStages, FwInv

LEMMA ReconnectedKept ==
    ASSUME FwInv, Reconnected
    PROVE  FlagsAgree' /\ Buffer' /\ DownloadStages'
<1>1. IsCloud(cloud', "idle", cloud.target, cloud.next, FALSE)
  BY CloudIs DEF Reconnected, FwInv, FirmwareTypeOK
<1>2. UNCHANGED <<fw, app, response, lapses>> /\ packet_out' = "none"
      /\ (fw.busy => message' = message)
  BY DEF Reconnected
<1>3. QED
  BY <1>1, <1>2 DEF IsCloud, FlagsAgree, Buffer, DownloadStages, FwInv, InPacket

\* The cloud hears the response, at the stage that it is for.
LEMMA PacketOutKept ==
    ASSUME FwInv, PacketOut
    PROVE  FlagsAgree' /\ Buffer' /\ DownloadStages'
<1>1. UNCHANGED <<fw, app, message, response, lapses>> /\ ~InPacket'
      /\ cloud' = IF InPacket THEN CloudHears(response) ELSE cloud
  BY DEF PacketOut, InPacket
<1>2. FlagsAgree' /\ Buffer' /\ Straight' = Straight
  BY <1>1 DEF FlagsAgree, Buffer, Straight, FwInv
<1>3. CASE ~InPacket
  <2>1. Requested' = Requested /\ Sending' = Sending /\ DownloadTold' = DownloadTold
    BY <1>1, <1>3 DEF Requested, Sending, DownloadTold, DownloadRefused, Early, InStep,
       ToldComplete, Under, ForIt, BlocksBefore
  <2>2. QED
    BY <1>1, <1>2, <1>3, <2>1 DEF DownloadStages, FwInv
<1>4. CASE InPacket
  <2>1. /\ cloud'.target = cloud.target /\ cloud'.next = cloud.next
        /\ fw.busy => response \in Refusals
    BY <1>1, <1>4, CloudAdvances DEF FwInv, Buffer, Refusals
  <2>2. CASE response \in Refusals \/ (cloud'.at = "idle" /\ ~cloud'.waits)
    <3>1. cloud'.at = "idle" /\ ~cloud'.waits
      BY <1>1, <1>4, <2>2, CloudAdvances DEF FwInv, Refusals
    <3>2. QED
      BY <1>2, <3>1 DEF DownloadStages
  <2>3. CASE /\ response = "download" /\ cloud.at = "requested"
             /\ cloud'.at = "sending" /\ ~cloud'.waits
    <3>1. ~fw.busy /\ ~DownloadRefused
      BY <2>1, <2>3 DEF Refusals, DownloadRefused
    <3>2. CASE ForIt("download") /\ cloud.next = 1
      BY <1>1, <1>2, <2>1, <2>3, <3>1, <3>2
      DEF Early, ForIt, Sending, DownloadStages
    <3>3. CASE /\ message.op = "none" /\ Under /\ app.image = <<>>
               /\ cloud.next = 1
      <4>1. app.image = BlocksBefore(cloud.next)' /\ Under'
        BY <1>1, <2>1, <3>3 DEF BlocksBefore, Under
      <4>2. InStep'
        BY <1>1, <2>3, <3>1, <3>3, <4>1 DEF InStep, ForIt
      <4>3. QED
        BY <1>2, <2>3, <4>2 DEF Sending, DownloadStages
    <3>4. QED
      BY <1>2, <2>3, <3>1, <3>2, <3>3 DEF DownloadStages, Requested, FwInv
  <2>4. CASE /\ response = "ack" /\ cloud.at = "sending"
             /\ cloud'.at = "sending" /\ ~cloud'.waits
    <3>1. Straight => InStep
      BY <1>4, <2>1, <2>4
      DEF DownloadStages, Sending, DownloadRefused, Refusals, Early, ToldComplete, FwInv
    <3>2. Straight => message.op = "none" /\ ~fw.busy /\ Under
                      /\ app.image = BlocksBefore(cloud.next)
      BY <1>4, <2>1, <2>4, <3>1 DEF InStep, ForIt, Refusals
    <3>3. BlocksBefore(cloud.next)' = BlocksBefore(cloud.next) /\ Under' = Under
      BY <1>1, <2>1 DEF BlocksBefore, Under
    <3>4. Straight => InStep'
      BY <1>1, <2>4, <3>2, <3>3 DEF InStep, ForIt
    <3>5. QED
      BY <1>2, <2>4, <3>4 DEF Sending, DownloadStages
  <2>5. CASE /\ response = "complete" /\ cloud.at = "sending"
             /\ cloud'.at = "told" /\ ~cloud'.waits
    <3>1. Straight => ToldComplete /\ ~fw.busy
      BY <1>4, <2>1, <2>5
      DEF DownloadStages, Sending, DownloadRefused, Refusals, Early, InStep, FwInv
    <3>2. Straight => DownloadTold'
      BY <1>1, <3>1 DEF ToldComplete, DownloadTold, BlocksBefore
    <3>3. QED
      BY <1>2, <2>5, <3>2 DEF DownloadStages
  <2>6. CASE /\ cloud' = cloud /\ response \notin Refusals
             /\ ~(response = "download" /\ cloud.at = "requested")
             /\ ~(response = "ack" /\ cloud.at = "sending")
             /\ ~(response = "complete" /\ cloud.at = "sending")
    <3>1. ~DownloadRefused
      BY <2>1, <2>6 DEF DownloadRefused
    <3>2. Straight /\ cloud.at = "requested" => Requested'
      BY <1>1, <2>6, <3>1 DEF DownloadStages, Requested, ForIt, FwInv
    <3>3. ASSUME Straight, cloud.at = "sending" PROVE InStep'
      <4>1. InStep /\ response = "download"
        BY <1>4, <2>6, <3>1, <3>3
        DEF DownloadStages, Sending, Early, ToldComplete, InStep, FwInv
      <4>2. BlocksBefore(cloud.next)' = BlocksBefore(cloud.next)
            /\ BlocksBefore(message.block)' = BlocksBefore(message.block)
        BY <1>1, <2>6 DEF BlocksBefore
      <4>3. QED
        BY <1>1, <2>6, <4>1, <4>2 DEF InStep, ForIt, Under
    <3>4. Straight /\ cloud.at = "told" => DownloadTold'
      BY <1>1 DEF DownloadStages, DownloadTold, BlocksBefore, FwInv
    <3>5. QED
      BY <1>2, <2>6, <3>2, <3>3, <3>4 DEF DownloadStages, Sending, FwInv
  <2>7. QED
    BY <1>1, <1>4, <2>2, <2>3, <2>4, <2>5, <2>6, CloudAdvances DEF FwInv
<1>5. QED
  BY <1>3, <1>4

\* The cloud says the next thing, or something that is not for its download.
LEMMA CloudSendsKept ==
    ASSUME FwInv, CloudSends
    PROVE  FlagsAgree' /\ Buffer' /\ DownloadStages'
<1>1. UNCHANGED <<fw, app, response, packet_out, lapses>> /\ message.op = "none"
      /\ InPacket' = InPacket /\ DownloadRefused' = DownloadRefused /\ Straight' = Straight
  BY DEF CloudSends, InPacket, DownloadRefused, Straight
<1>2. FlagsAgree' /\ Buffer' /\ (fw.busy => fw.owed)
  BY <1>1 DEF FlagsAgree, Buffer, FwInv
<1>3. FirmwareTypeOK /\ cloud \in FwClouds
  BY DEF FwInv, FirmwareTypeOK
\* What there is to know of a download of which the cloud awaits nothing.
<1>4. ASSUME Straight, cloud.at = "sending", ~cloud.waits, ~DownloadRefused
      PROVE  /\ InStep /\ ~fw.busy /\ app.image = BlocksBefore(cloud.next)
             /\ InPacket => response = "download"
  BY <1>1, <1>4 DEF DownloadStages, Sending, Early, ToldComplete, InStep, ForIt, FwInv
<1>5. CASE CloudAborts
  <2>1. IsCloud(cloud', "idle", cloud.target, cloud.next, FALSE)
    BY <1>3, <1>5, CloudIs DEF CloudAborts, Say
  <2>2. QED
    BY <1>2, <2>1 DEF DownloadStages, IsCloud
<1>6. CASE ~cloud.waits /\ CloudResets
  <2>1. IsCloud(cloud', "idle", cloud.target, cloud.next, cloud.waits)
    BY <1>3, <1>6, CloudAt DEF CloudResets, Say
  <2>2. QED
    BY <1>2, <1>6, <2>1 DEF DownloadStages, IsCloud
<1>7. CASE CloudDemands
  <2>1. PICK t \in Targets : Say("download",
          [at |-> "requested", target |-> t, next |-> 1, waits |-> TRUE])
    BY <1>7 DEF CloudDemands
  <2>2. IsCloud(cloud', "requested", t, 1, TRUE)
    BY <2>1, CloudHasRequested DEF Say
  <2>3. message'.op = "download" /\ ~message'.short /\ message'.target = t
    BY <2>1 DEF Say, Message
  <2>4. QED
    BY <1>2, <2>2, <2>3 DEF DownloadStages, Requested, ForIt, IsCloud
<1>8. CASE ~cloud.waits /\ CloudSendsBlock
  <2>1. PICK w \in BOOLEAN :
          /\ message' = Message("block", cloud.target, cloud.next, w, FALSE)
          /\ cloud' = [cloud EXCEPT !.next = @ + 1, !.waits = w]
    BY <1>8 DEF CloudSendsBlock
  <2>2. cloud.at = "sending" /\ cloud.next <= ImageBlocks
    BY <1>8 DEF CloudSendsBlock
  <2>3. IsCloud(cloud', "sending", cloud.target, cloud.next + 1, w)
    BY <1>3, <2>1, <2>2, CloudSent
  <2>4. /\ message'.op = "block" /\ message'.target = cloud.target
        /\ message'.block = cloud.next /\ message'.ack = w /\ ~message'.short
    BY <2>1 DEF Message
  <2>5. ASSUME Straight, ~DownloadRefused PROVE InStep'
    <3>1. /\ InStep /\ ~fw.busy /\ app.image = BlocksBefore(cloud.next)
          /\ InPacket => response = "download"
      BY <1>4, <1>8, <2>2, <2>5
    <3>2. app'.image = BlocksBefore(message'.block) /\ Under'
      BY <1>1, <2>3, <2>4, <3>1 DEF InStep, Under, BlocksBefore, IsCloud
    <3>3. app'.image = BlocksBefore(message.block)'
      BY <3>2 DEF BlocksBefore
    <3>4. QED
      BY <1>1, <2>3, <2>4, <3>1, <3>2, <3>3 DEF InStep, ForIt, IsCloud
  <2>6. QED
    BY <1>1, <1>2, <2>3, <2>5 DEF DownloadStages, Sending, IsCloud
<1>9. CASE ~cloud.waits /\ CloudCompletes
  <2>1. IsCloud(cloud', "sending", cloud.target, cloud.next, TRUE)
    BY <1>3, <1>9, CloudWaits DEF CloudCompletes, Say
  <2>2. message'.op = "complete"
    BY <1>9 DEF CloudCompletes, Say, Message
  <2>3. cloud.at = "sending" /\ cloud.next = ImageBlocks + 1
    BY <1>3, <1>9, CloudFields DEF CloudCompletes
  <2>4. ASSUME Straight, ~DownloadRefused PROVE InStep'
    <3>1. /\ InStep /\ ~fw.busy /\ app.image = BlocksBefore(cloud.next)
          /\ InPacket => response = "download"
      BY <1>4, <1>9, <2>3, <2>4
    <3>2. app'.image = BlocksBefore(cloud.next)' /\ Under'
      BY <1>1, <2>1, <3>1 DEF InStep, Under, BlocksBefore, IsCloud
    <3>3. QED
      BY <1>1, <2>1, <2>2, <2>3, <3>1, <3>2 DEF InStep, ForIt, IsCloud
  <2>5. QED
    BY <1>1, <1>2, <2>1, <2>4 DEF DownloadStages, Sending, IsCloud
<1>10. CASE ~cloud.waits /\ CloudSlips
  <2>1. PICK o \in {"info", "download", "block", "complete", "unknown"},
             t \in 0 .. 2, s \in BOOLEAN :
          /\ o \in {"block", "complete"} /\ cloud.at = "sending" =>
                 s \/ t # cloud.target
          /\ o = "download" => s \/ t = 2 \/ cloud.at = "sending"
          /\ message' = Message(o, t, IF o = "block" THEN 1 ELSE 0, FALSE, s)
    BY <1>10 DEF CloudSlips
  <2>2. message'.op = o /\ message'.target = t /\ message'.short = s
        /\ cloud' = cloud
    BY <1>10, <2>1 DEF CloudSlips, Message
  <2>3. Straight => cloud.at # "requested"
    BY <1>10 DEF DownloadStages, Requested, FwInv
  <2>4. ASSUME Straight, cloud.at = "sending", ~DownloadRefused PROVE InStep'
    <3>1. /\ InStep /\ ~fw.busy /\ app.image = BlocksBefore(cloud.next)
          /\ InPacket => response = "download"
      BY <1>4, <1>10, <2>4
    <3>2. app'.image = BlocksBefore(cloud.next)' /\ Under'
      BY <1>1, <2>2, <3>1 DEF InStep, Under, BlocksBefore
    <3>3. ~ForIt("block")' /\ ~ForIt("complete")'
      BY <2>1, <2>2, <2>4 DEF ForIt
    <3>4. message'.op \notin {"abort", "reset"}
      BY <2>2
    <3>5. QED
      BY <1>1, <1>10, <2>2, <3>1, <3>2, <3>3, <3>4 DEF InStep
  <2>5. Straight /\ cloud.at = "told" => DownloadTold'
    <3>1. 2 \notin Targets
      BY DEF Targets
    <3>2. QED
      BY <1>1, <2>1, <2>2, <3>1 DEF DownloadStages, DownloadTold, BlocksBefore, FwInv
  <2>6. QED
    BY <1>1, <1>2, <1>10, <2>2, <2>3, <2>4, <2>5 DEF DownloadStages, Sending
<1>11. QED
  BY <1>5, <1>6, <1>7, <1>8, <1>9, <1>10 DEF CloudSends
-----------------------------------------------------------------------------
LEMMA Inductive == FwInv /\ [FirmwareNext]_fwVars => FwInv'
<1> SUFFICES ASSUME FwInv, [FirmwareNext]_fwVars PROVE FwInv'
  OBVIOUS
<1>1. FirmwareTypeOK'
  BY TypeStep DEF FwInv
<1>2. FlagsAgree' /\ Buffer' /\ DownloadStages'
  <2>1. CASE UNCHANGED fwVars
    BY <2>1 DEF fwVars, FwInv, FlagsAgree, Buffer, DownloadStages, Straight, Requested,
       Sending, DownloadRefused, Early, InStep, ToldComplete, DownloadTold, Under, ForIt, InPacket,
       BlocksBefore
  <2>2. CASE FirmwareNext
    BY <2>2, CloudSendsKept, ProcessKept, OtherKept, PacketOutKept,
       ReconnectedKept DEF FirmwareNext
  <2>3. QED
    BY <2>1, <2>2
<1>3. QED
  BY <1>1, <1>2 DEF FwInv

LEMMA Initially == FirmwareInit => FwInv
<1> SUFFICES ASSUME FirmwareInit PROVE FwInv
  OBVIOUS
<1>1. FirmwareTypeOK
  <2>1. <<>> \in Seq(1 .. ImageBlocks) /\ 1 \in 1 .. ImageBlocks + 1
    OBVIOUS
  <2>2. NoMessage \in FwMessages /\ NoMessage.op = "none"
    BY DEF NoMessage, Message, FwMessages
  <2>3. QED
    BY <2>1, <2>2
    DEF FirmwareInit, FirmwareTypeOK, FwStates, FwApps, FwClouds, Targets
<1>2. QED
  BY <1>1 DEF FirmwareInit, FwInv, FlagsAgree, Buffer, DownloadStages

LEMMA InductiveIsSafe == FwInv => DownloadSafe
<1> SUFFICES ASSUME FwInv PROVE DownloadSafe
  OBVIOUS
<1>1. WholeImage
  BY DEF FwInv, DownloadStages, Straight, DownloadTold, WholeImage, BlocksBefore
<1>2. AnswerComes
  <2> SUFFICES ASSUME cloud.waits, message.op = "none", ~InPacket,
                      lapses \cap {"unsent", "swallowed", "retargeted"} = {}
               PROVE  FALSE
    BY DEF AnswerComes, InPacket
  <2>1. Straight /\ ~fw.owed /\ ~fw.busy
    BY DEF Straight, FwInv, Buffer
  <2>2. cloud.at \in {"requested", "sending"}
    BY CloudFields DEF FwInv, DownloadStages, FirmwareTypeOK
  <2>3. ~DownloadRefused
    BY <2>1 DEF DownloadRefused
  <2>4. QED
    BY <2>1, <2>2, <2>3
    DEF FwInv, DownloadStages, Requested, Sending, Early, InStep, ToldComplete, ForIt
<1>3. QED
  BY <1>1, <1>2 DEF FwInv, DownloadSafe

(* What the firmware service, the application and the cloud keep is of its *)
(* type, whatever of the cloud's messages is out of order.                 *)
THEOREM FirmwareTypes == FirmwareSpec => []FirmwareTypeOK
<1>1. FirmwareInit => FirmwareTypeOK
  BY Initially DEF FwInv
<1>2. QED
  BY <1>1, TypeStep, PTL DEF FirmwareSpec

(* The flags of the connector and the application agree, the image is      *)
(* whole when the cloud is told so, and an answer is on its way, with the  *)
(* exceptions that are counted in lapses; for images of any length.        *)
THEOREM DownloadIsSafe == FirmwareSpec => []DownloadSafe
BY Initially, Inductive, InductiveIsSafe, PTL DEF FirmwareSpec
=============================================================================
