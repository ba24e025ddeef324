------------------------------ MODULE LifeCycle ------------------------------
(***************************************************************************)
(* How the gateway starts and stops: core/Main.cpp with iot_start and      *)
(* iot_stop of resourcemgr/client.cpp, cloud_init and cloud_deinit of the  *)
(* connector's platform, and the threads that these start and stop.        *)
(*                                                                         *)
(* The handler of SIGSEGV and SIGINT stops the system on the thread the    *)
(* signal comes to, which stays where it was, with the locks it holds.  A  *)
(* cancelled thread ends where it waits in a call that is a cancellation   *)
(* point; to wait for a mutex is none, nor is the loop in which a schedule *)
(* waits for its time.  The mutexes api_lock and read_lock stay locked     *)
(* when their holder ends; ResourceLock is unlocked by its guard.  One     *)
(* signal comes, and the list has one resource.  What a call does besides  *)
(* is in RequestPath and Scheduling; the application thread of the         *)
(* connector ends by itself.                                               *)
(***************************************************************************)
EXTENDS Naturals

CONSTANTS
    Main,         \* the thread that starts the held
    Receiver,     \* of the multicasts, Bcastid
    Connector,    \* connector_thread
    UiReceiver,   \* UiRecvid
    Observer,     \* observer_thread
    Schedular,    \* schedular_thread of the resource
    NoThread

Workers == {Receiver, Connector, UiReceiver, Observer, Schedular}
Requesters == {Connector, UiReceiver}
AllThreads == Workers \cup {Main}
Setters == Requesters \cup {Schedular}
Locks == {"api", "resource", "read"}

ASSUME LifeCycleAssumption ==
    /\ NoThread \notin AllThreads /\ Main \notin Workers
    /\ Receiver # Observer /\ {Receiver, Observer} \cap Setters = {}
    /\ Schedular \notin Requesters
    /\ Connector # UiReceiver

VARIABLES
    main,              \* what main starts next
    at,                \* where a thread is
    cancelled,         \* those with a cancellation pending
    Iot_Status, Cloud_Status,
    locks,             \* their holders
    abandoned,         \* those whose holder has ended
    stopper,           \* where SystemStop, or the handler, is
    stopsOn,           \* the thread it runs on
    freed,             \* the list of resources has been freed
    overtaken          \* ghost: a start, request or FINDME met the stop

statuses == <<Iot_Status, Cloud_Status>>
stop == <<stopper, stopsOn, freed>>
locking == <<locks, abandoned>>
lifeVars == <<main, at, cancelled, statuses, locking, stop, overtaken>>

Ended == {"ended", "joined"}
Waiting == {"point", "answer", "join"}    \* cancellation points

LifeTypeOK ==
    /\ main \in {"iot", "status", "receiver", "cloud", "ui", "loop", "failed"}
    /\ at \in [Workers -> {"none", "point", "ask", "call", "send", "answer",
                           "walk", "stop", "join", "find", "start", "spin"}
                          \cup Ended]
    /\ cancelled \subseteq {w \in Workers : at[w] # "none"}
    /\ Iot_Status \in BOOLEAN /\ Cloud_Status \in BOOLEAN    \* TRUE is 0
    /\ locks \in [Locks -> Workers \cup {NoThread}]
    /\ abandoned \subseteq {l \in Locks : locks[l] = NoThread}
    /\ stopper \in {"none", "schedular", "join_schedular", "observers",
                    "cancel", "join", "free", "receiver", "join_receiver",
                    "cloud", "join_cloud", "ui", "join_ui",
                    "kill", "gone", "dead"}
    /\ stopsOn \in AllThreads \cup {NoThread}
    /\ freed \in BOOLEAN /\ overtaken \in BOOLEAN

LifeInit ==
    /\ main = "iot" /\ at = [w \in Workers |-> "none"] /\ cancelled = {}
    /\ Iot_Status = FALSE /\ Cloud_Status = FALSE
    /\ locks = [l \in Locks |-> NoThread] /\ abandoned = {}
    /\ stopper = "none" /\ stopsOn = NoThread /\ freed = FALSE
    /\ overtaken = FALSE

\* What goes on after a stop that ended with its thread is left out.
Up == stopper \notin {"gone", "dead"}
\* A thread goes on, unless it waits where its cancellation reaches it.
Moves(w, from, to) ==
    /\ Up /\ stopsOn # w
    /\ from \in {"point", "answer"} => w \notin cancelled
    /\ at[w] = from /\ at' = [at EXCEPT ![w] = to]

StopInProgress == stopper \notin {"none", "dead", "gone"}
-----------------------------------------------------------------------------
(* SystemStart and main.                                                   *)
Starting(from) == Up /\ main = from /\ stopsOn # Main

\* iot_start: the observer thread runs before the discovery is sent.
IotStart ==
    /\ Starting("iot")
    /\ \/ main' = "status" /\ at' = [at EXCEPT ![Observer] = "point"]
       \/ main' = "failed" /\ UNCHANGED at
    /\ UNCHANGED <<cancelled, statuses, locking, stop, overtaken>>

\* Discovery may raise an exception.
SetIotStatus ==
    /\ Starting("status")
    /\ \/ main' = "receiver" /\ Iot_Status' = TRUE
       \/ main' = "failed" /\ UNCHANGED Iot_Status
    /\ UNCHANGED <<at, cancelled, Cloud_Status, locking, stop, overtaken>>

StartBcastReceiver ==
    /\ Starting("receiver")
    /\ \/ main' = "cloud" /\ at' = [at EXCEPT ![Receiver] = "point"]
       \/ main' = "failed" /\ UNCHANGED at
    /\ UNCHANGED <<cancelled, statuses, locking, stop, overtaken>>

\* It fails without the thread of the connector, or with it.
CloudStart ==
    /\ Starting("cloud")
    /\ \/ /\ main' = "ui" /\ Cloud_Status' = TRUE
          /\ at' = [at EXCEPT ![Connector] = "point"]
       \/ /\ main' = "failed" /\ UNCHANGED Cloud_Status
          /\ \/ UNCHANGED at
             \/ at' = [at EXCEPT ![Connector] = "point"]
    /\ UNCHANGED <<cancelled, Iot_Status, locking, stop, overtaken>>

\* Its thread can be had.
StartUI ==
    /\ Starting("ui") /\ main' = "loop"
    /\ at' = [at EXCEPT ![UiReceiver] = "point"]
    /\ UNCHANGED <<cancelled, statuses, locking, stop, overtaken>>

InCall == {"call", "send", "answer"}
\* A bound: nothing new begins in a stop that something has met.
Overtaken == ~overtaken /\ overtaken' = (stopper # "none")
-----------------------------------------------------------------------------
(* The threads at work: requests of cloud and UI, in iot_request_response. *)
AskIot(w) ==
    /\ Moves(w, "point", "ask")
    /\ Overtaken
    /\ UNCHANGED <<main, cancelled, statuses, locking, stop>>

FreeLock(l) == locks[l] = NoThread /\ l \notin abandoned
Release(w) == [l \in Locks |-> IF locks[l] = w THEN NoThread ELSE locks[l]]

\* set_sensor and its like, and Start_Observe: a thread has ResourceLock, and
\* then read_lock, or waits for it.  Who reads has the resource, so that
\* read_lock is free unless it is abandoned.
Enter(w, from, held) ==
    LET in == IF ~FreeLock("resource") THEN "call"
              ELSE IF w = Observer THEN "walk"
              ELSE IF FreeLock("read") THEN "answer" ELSE "send"
    IN
    /\ Moves(w, from, in)
    /\ locks' = [k \in Locks |->
                    IF \/ k \in held
                       \/ k = "resource" /\ in # "call"
                       \/ k = "read" /\ in = "answer"
                    THEN w ELSE locks[k]]
    /\ UNCHANGED <<main, cancelled, statuses, abandoned, stop, overtaken>>

CallIot(w) == FreeLock("api") /\ Enter(w, "ask", {"api"})

LockResource(w) == FreeLock("resource") /\ Enter(w, "call", {})

\* The answer, or no answer in 30 seconds.
ReturnIot(w) ==
    /\ Moves(w, "answer", IF w = Schedular THEN "spin" ELSE "point")
    /\ locks' = Release(w)
    /\ UNCHANGED <<main, cancelled, statuses, abandoned, stop, overtaken>>

(* A schedule begins.  It sets the resource, from time to time; it is over *)
(* or, at the output before it sets the resource, cancelled.               *)
StartSchedular(w) ==
    /\ Up /\ stopsOn # w /\ at[w] \in {"send", "answer"}
    /\ at[Schedular] \in {"none", "ended"}
    /\ at' = [at EXCEPT ![w] = "point", ![Schedular] = "spin"]
    /\ cancelled' = cancelled \ {Schedular}
    /\ stopper' = IF stopper = "join_schedular" THEN "observers" ELSE stopper
    /\ locks' = Release(w)
    /\ UNCHANGED <<main, statuses, abandoned, stopsOn, freed, overtaken>>

Schedule ==
    \/ Enter(Schedular, "spin", {})
    \/ /\ Moves(Schedular, "spin", IF Schedular \in cancelled THEN "ended"
                                                          ELSE "none")
       /\ UNCHANGED <<main, cancelled, statuses, locking, stop, overtaken>>

(* FINDME: send_unicast_request on the receiver.                           *)
Findme ==
    /\ Moves(Receiver, "point", "stop")
    /\ Overtaken
    /\ UNCHANGED <<main, cancelled, statuses, locking, stop>>

\* To cancel a thread that has been joined is undefined: nothing, or a crash.
CancelObserver(go, crash) ==
    IF at[Observer] = "joined" THEN UNCHANGED cancelled /\ (go \/ crash)
    ELSE cancelled' = cancelled \cup {Observer} /\ go

ReceiverCancels ==
    /\ Moves(Receiver, "stop", IF at[Observer] = "joined" THEN "find"
                                                          ELSE "join")
    /\ CancelObserver(UNCHANGED stopper, stopper' = "gone")
    /\ UNCHANGED <<main, statuses, locking, stopsOn, freed, overtaken>>

\* A thread that another one joins already is not waited for.
ReceiverJoins ==
    /\ Up /\ stopsOn # Receiver /\ at[Receiver] = "join"
    /\ Receiver \notin cancelled
    /\ \/ /\ at[Observer] \in Ended
          /\ at' = [at EXCEPT ![Receiver] = "find", ![Observer] = "joined"]
          /\ cancelled' = cancelled \ {Observer}
       \/ /\ stopper = "join"
          /\ at' = [at EXCEPT ![Receiver] = "find"]
          /\ UNCHANGED cancelled
    /\ UNCHANGED <<main, statuses, locking, stop, overtaken>>

FindResource ==
    /\ Moves(Receiver, "find", "start")
    /\ UNCHANGED <<main, cancelled, statuses, locking, stop, overtaken>>

\* The one a stop still waits for has ended by now.
StartObserver ==
    /\ Up /\ stopsOn # Receiver /\ at[Receiver] = "start"
    /\ at' = [at EXCEPT ![Receiver] = "point", ![Observer] = "point"]
    /\ cancelled' = cancelled \ {Observer}
    /\ stopper' = IF stopper = "join" THEN "free" ELSE stopper
    /\ locks' = Release(Observer)
    /\ UNCHANGED <<main, statuses, abandoned, stopsOn, freed, overtaken>>

(* The observer thread after 5 seconds.                                    *)
Walk == Enter(Observer, "point", {})

EndWalk ==
    /\ Moves(Observer, "walk", "ended")
    /\ locks' = Release(Observer)
    /\ UNCHANGED <<main, cancelled, statuses, abandoned, stop, overtaken>>

\* The signal handler's calls are cancellation points, too.
Ends(w) ==
    /\ Up /\ w \in cancelled
    /\ IF stopsOn = w
       THEN stopper' = "dead" /\ UNCHANGED <<at, locking>>
       ELSE /\ at[w] \in Waiting /\ at' = [at EXCEPT ![w] = "ended"]
            /\ abandoned' =
                   abandoned \cup {l \in {"api", "read"} : locks[l] = w}
            /\ locks' = Release(w)
            /\ UNCHANGED stopper
    /\ UNCHANGED <<main, cancelled, statuses, stopsOn, freed, overtaken>>
-----------------------------------------------------------------------------
(* sigsegv, or the stop after a start that failed.                         *)
Stopping(from, to) == stopper = from /\ stopper' = to

Begin(t) ==
    /\ Stopping("none", IF Iot_Status THEN "schedular" ELSE "cloud")
    /\ stopsOn' = t
    /\ overtaken' = \/ \E w \in Requesters : at[w] \in {"ask"} \cup InCall
                    \/ at[Receiver] \notin {"none", "point"}
                    \/ main \notin {"loop", "failed"}
    /\ UNCHANGED <<main, at, cancelled, statuses, locking, freed>>

Sigsegv(t) ==
    /\ \/ t = Main /\ main # "failed"
       \/ t \in Workers /\ at[t] \notin Ended \cup {"none"}
    /\ Begin(t)

StartFailed == main = "failed" /\ Begin(Main)

\* stop_all_schedular_threads of iot_stop, with no lock.
StopSchedular ==
    /\ IF at[Schedular] = "none"
       THEN Stopping("schedular", "observers") /\ UNCHANGED cancelled
       ELSE /\ Stopping("schedular", "join_schedular")
            /\ cancelled' = cancelled \cup {Schedular}
    /\ UNCHANGED <<main, at, statuses, locking, stopsOn, freed, overtaken>>

\* Stop_Observe takes the ResourceLock, and gives it back.
StopResObserver ==
    /\ Stopping("observers", "cancel")
    /\ FreeLock("resource")
    /\ UNCHANGED <<main, at, cancelled, statuses, locking, stopsOn, freed,
                   overtaken>>

StopObserverThread ==
    /\ CancelObserver(
           Stopping("cancel", IF at[Observer] = "joined" THEN "free"
                                                         ELSE "join"),
           Stopping("cancel", "gone"))
    /\ UNCHANGED <<main, at, statuses, locking, stopsOn, freed, overtaken>>

\* Mutant: the thread is not waited for.
JoinObserver_NoWait ==
    /\ Stopping("join", "free")
    /\ UNCHANGED <<main, at, cancelled, statuses, locking, stopsOn, freed,
                   overtaken>>

JoinObserver ==
    /\ Stopping("join", "free")
    /\ \/ /\ at[Observer] \in Ended
          /\ at' = [at EXCEPT ![Observer] = "joined"]
          /\ cancelled' = cancelled \ {Observer}
       \/ at[Receiver] = "join" /\ UNCHANGED <<at, cancelled>>
    /\ UNCHANGED <<main, statuses, locking, stopsOn, freed, overtaken>>

\* stop_load_analysys, free_list, and the status.
FreeLists ==
    /\ Stopping("free", "receiver")
    /\ freed' = TRUE /\ Iot_Status' = FALSE
    /\ UNCHANGED <<main, at, cancelled, Cloud_Status, locking, stopsOn,
                   overtaken>>

\* pthread_cancel and pthread_join; a thread is not waited for by itself.
\* The id of a thread that was never created is 0: the call is a crash.
Cancel(w, from, to) ==
    /\ \/ /\ at[w] # "none" /\ Stopping(from, to)
          /\ cancelled' = cancelled \cup {w}
       \/ at[w] = "none" /\ Stopping(from, "gone") /\ UNCHANGED cancelled
    /\ UNCHANGED <<main, at, statuses, locking, stopsOn, freed, overtaken>>

Join(w, from, to) ==
    /\ Stopping(from, to) /\ w # stopsOn
    /\ at[w] \in Ended
    /\ at' = [at EXCEPT ![w] = "joined"]

JoinSchedular ==
    /\ Stopping("join_schedular", "observers") /\ Schedular # stopsOn
    /\ at[Schedular] = "ended"
    /\ at' = [at EXCEPT ![Schedular] = "none"]
    /\ cancelled' = cancelled \ {Schedular}
    /\ UNCHANGED <<main, statuses, locking, stopsOn, freed, overtaken>>

StopBcastReceiver == Cancel(Receiver, "receiver", "join_receiver")

JoinReceiver ==
    /\ Join(Receiver, "join_receiver", "cloud")
    /\ UNCHANGED <<main, cancelled, statuses, locking, stopsOn, freed,
                   overtaken>>

\* Mutant: the connector is waited for and not cancelled.
CloudStop_NoCancel ==
    \/ /\ Cloud_Status /\ Stopping("cloud", "join_cloud")
       /\ UNCHANGED <<main, at, cancelled, statuses, locking, stopsOn, freed,
                      overtaken>>
    \/ /\ ~Cloud_Status /\ Stopping("cloud", "ui")
       /\ UNCHANGED <<main, at, cancelled, statuses, locking, stopsOn, freed,
                      overtaken>>

CloudStop ==
    \/ Cloud_Status /\ Cancel(Connector, "cloud", "join_cloud")
    \/ /\ ~Cloud_Status /\ Stopping("cloud", "ui")
       /\ UNCHANGED <<main, at, cancelled, statuses, locking, stopsOn, freed,
                      overtaken>>

JoinConnector ==
    /\ Join(Connector, "join_cloud", "ui")
    /\ Cloud_Status' = FALSE
    /\ UNCHANGED <<main, cancelled, Iot_Status, locking, stopsOn, freed,
                   overtaken>>

StopUi == Cancel(UiReceiver, "ui", "join_ui")

JoinUi ==
    /\ Join(UiReceiver, "join_ui", "kill")
    /\ UNCHANGED <<main, cancelled, statuses, locking, stopsOn, freed,
                   overtaken>>

Exit ==
    /\ Stopping("kill", "gone")
    /\ UNCHANGED <<main, at, cancelled, statuses, locking, stopsOn, freed,
                   overtaken>>
-----------------------------------------------------------------------------
StopSteps ==
    \/ StartFailed \/ StopSchedular \/ JoinSchedular \/ StopResObserver
    \/ StopObserverThread \/ JoinObserver \/ FreeLists \/ StopBcastReceiver
    \/ JoinReceiver \/ CloudStop \/ JoinConnector \/ StopUi \/ JoinUi
    \/ Exit

StartSteps ==
    IotStart \/ SetIotStatus \/ StartBcastReceiver \/ CloudStart \/ StartUI

ReceiverSteps ==
    ReceiverCancels \/ ReceiverJoins \/ FindResource \/ StartObserver

ObserverSteps == Walk \/ EndWalk

Locking(w) == LockResource(w) \/ (w \in Requesters /\ CallIot(w))

ThreadSteps(w) ==
    \/ Ends(w)
    \/ w = Receiver /\ ReceiverSteps
    \/ w = Observer /\ ObserverSteps
    \/ w \in Setters /\ ReturnIot(w)

LifeNext ==
    \/ StartSteps \/ StopSteps \/ Findme \/ Schedule
    \/ \E w \in Requesters : AskIot(w) \/ StartSchedular(w)
    \/ \E w \in Setters \cup {Observer} : Locking(w)
    \/ \E w \in Workers : ThreadSteps(w)
    \/ \E t \in AllThreads : Sigsegv(t)

\* Threads run and their waits end; requests, and the short walks of the
\* observer thread, leave the time between them to others that want a lock.
LifeFairness ==
    /\ WF_lifeVars(StartSteps \/ StopSteps)
    /\ SF_lifeVars(StopResObserver)
    /\ \A w \in Setters \cup {Observer} : SF_lifeVars(Locking(w))
    /\ \A w \in Workers : WF_lifeVars(ThreadSteps(w))

LifeSpec == LifeInit /\ [][LifeNext]_lifeVars /\ LifeFairness
-----------------------------------------------------------------------------
\* Nobody will unlock it: its holder ended, or is where the signal came to.
Orphaned ==
    \/ abandoned # {}
    \/ \E l \in Locks : locks[l] # NoThread /\ locks[l] = stopsOn

\* A schedule whose time has not come, or that keeps its setting: no
\* cancellation point is on the way.
Spins == stopper = "join_schedular" /\ at[Schedular] = "spin"

(* A stop ends in the end of the process, unless a lock that it needs, or  *)
(* that a thread it joins waits for, will never be unlocked, or a schedule *)
(* it joins goes on waiting for its time, or it was stopped itself, having *)
(* cancelled the thread it runs on.                                        *)
StopEnds == <>[](~StopInProgress \/ Orphaned \/ Spins)

(* Unless a request, FINDME or the start meets a stop, nothing uses the    *)
(* list once it is freed, and the observer thread is joined by one thread. *)
FreedUnused ==
    freed /\ ~overtaken =>
        /\ at[Observer] \notin {"call", "walk"}
        /\ at[Schedular] = "none"
        /\ \A w \in Requesters : at[w] \notin InCall
        /\ at[Receiver] # "join"

(* And at the exit of a system that had started, no thread of it runs.     *)
NothingRunsAtExit ==
    stopper = "kill" /\ ~overtaken /\ main = "loop" =>
        \A w \in Workers :
            at[w] \in Ended \/ (w = Schedular /\ at[w] = "none")

(* A stop leaves nothing behind that could still run or be used.           *)
StopSafe == FreedUnused /\ NothingRunsAtExit
=============================================================================
