--------------------------- MODULE ServerResource ---------------------------
(***************************************************************************)
(* One resource of the device server: testserver/simpleserver.cpp with     *)
(* testserver/hal.cpp.  Its fields are shared with no lock by the stack's  *)
(* thread, which runs the entity handler for one request at a time; by the *)
(* thread NotifyResourceChange, which watches them; by the thread          *)
(* intensity_controller, which toggles the power pin; and by the threads   *)
(* of the automatic mode.                                                  *)
(*                                                                         *)
(* The server runs with its default, notifyAllObservers: the stack then    *)
(* asks the entity handler, in turn with other requests, what to send.     *)
(* The devices are open and their ioctl does not fail.  The resource is a  *)
(* device, of type 1 to 3; one access to a field is one step.              *)
(***************************************************************************)
EXTENDS SwitchPort

CONSTANTS
    SwitchPin, PowerPin,
    Types,         \* resource types: 1 state and power, 2 state, 3 power
    Puts,          \* what PUT and POST carry
    Observers,
    MaxPuts        \* bound: PUT and POST requests

Absent == -1    \* POST carries no auto_status

ASSUME ServerResourceAssumption ==
    /\ Pins = {SwitchPin, PowerPin} /\ SwitchPin # PowerPin
    /\ Types \subseteq 1 .. 3
    /\ Puts \subseteq [state : 0 .. 1, power : Nat, auto : {0, 1, Absent}]
    /\ MaxPuts \in Nat

VARIABLES
    type,            \* resource_type
    m_state, m_power, auto_status,
    intens,          \* res_intens.pin_value
    delay_ns,
    port,            \* the pins that are on
    handler,         \* where put is, "idle" between two requests
    put,             \* the representation it handles
    observers,       \* those the stack knows
    startedThread, gObservation,
    notifier,        \* where NotifyResourceChange is
    old_power, old_state,
    controller,      \* where intensity_controller is
    held,            \* the pin_value it is about to store
    is_auto_thread_running,
    auto,            \* the threads of the automatic mode
    puts,            \* PUT and POST requests so far
    sent,            \* ghost: what each observer was sent last
    outpaced         \* ghost: a request overtook the notifier

values == <<m_state, m_power, auto_status>>
hardware == <<intens, delay_ns, port>>
observation == <<observers, startedThread, gObservation, sent>>
watcher == <<notifier, old_power, old_state>>
pulse == <<controller, held>>
automatic == <<is_auto_thread_running, auto>>
request == <<handler, put, puts, outpaced>>
serverVars == <<type, values, hardware, observation, watcher, pulse, automatic,
                request>>

Threads == 1 .. MaxPuts
NoPut == [state |-> 0, power |-> 0, auto |-> Absent]
ServerTypeOK ==
    /\ type \in Types
    /\ m_state \in 0 .. 1 /\ m_power \in Nat /\ auto_status \in 0 .. 1
    /\ intens \in 0 .. 1 /\ held \in 0 .. 1 /\ delay_ns \in 0 .. 10
    /\ port \in SUBSET Pins
    /\ handler \in {"idle", "switch", "power", "intensity", "delay", "auto",
                    "auto_test", "flag"}
    /\ put \in Puts \cup {NoPut}
    /\ observers \in SUBSET Observers
    /\ startedThread \in 0 .. 1 /\ gObservation \in 0 .. 1
    /\ notifier \in {"none", "test", "power", "state", "copy_power",
                     "copy_state", "notify"}
    /\ old_power \in Nat /\ old_state \in 0 .. 1
    /\ controller \in {"ioctl", "delay", "level", "store"}
    /\ is_auto_thread_running \in BOOLEAN
    /\ auto \in [Threads -> {"none", "loop", "left", "ended"}]
    /\ puts \in 0 .. MaxPuts
    /\ sent \in [Observers -> [state : 0 .. 1, power : Nat]]
    /\ outpaced \in BOOLEAN

ServerInit ==
    /\ type \in Types
    /\ m_state = 0 /\ m_power = 0 /\ auto_status = 0
    /\ intens = 0 /\ delay_ns = 0 /\ port = {}
    /\ handler = "idle" /\ put = NoPut /\ puts = 0
    /\ observers = {} /\ startedThread = 0 /\ gObservation = 0
    /\ sent = [o \in Observers |-> [state |-> 0, power |-> 0]]
    /\ outpaced = FALSE
    /\ notifier = "none" /\ old_power = 0 /\ old_state = 0
    /\ controller = "ioctl" /\ held = 0
    /\ is_auto_thread_running = FALSE
    /\ auto = [t \in Threads |-> "none"]

Current == [state |-> m_state, power |-> m_power]
Level(v) == IF v = 0 THEN Zero ELSE One

Handle(from, to) == handler = from /\ handler' = to
Watch(from, to) == notifier = from /\ notifier' = to
Control(from, to) == controller = from /\ controller' = to

Watched(r) ==
    CASE type = 1 -> r [] type = 2 -> r.state [] type = 3 -> r.power

\* The notifier has nothing to see that it has not seen.
Noticed ==
    notifier \in {"test", "power", "state"} =>
        Watched(Current) = Watched([state |-> old_state, power |-> old_power])

\* Threads that run look at the fields between two requests.
Arrives == outpaced' = (outpaced \/ ~Noticed)
-----------------------------------------------------------------------------
(* PUT and POST, both through put.                                         *)
Put(r) ==
    /\ Handle("idle", "switch")
    /\ puts < MaxPuts
    /\ puts' = puts + 1
    /\ put' = r
    /\ m_state' = r.state
    /\ Arrives
    /\ UNCHANGED <<type, m_power, auto_status, hardware, observation, watcher,
                   pulse, automatic>>

SetSwitchState ==
    /\ Handle("switch", "power")
    /\ port' = Stored(port, SwitchPin, Level(m_state))
    /\ UNCHANGED <<type, values, intens, delay_ns, observation, watcher,
                   pulse, automatic, put, puts, outpaced>>

PutPower ==
    /\ Handle("power", "intensity")
    /\ m_power' = put.power
    /\ UNCHANGED <<type, m_state, auto_status, hardware, observation, watcher,
                   pulse, automatic, put, puts, outpaced>>

\* Powers of 1 to 9, and above 100, are refused: the result is not looked at.
SetIntensity ==
    /\ IF m_power = 0 \/ m_power \in 10 .. 100
       THEN /\ Handle("intensity", "delay")
            /\ intens' = IF m_power = 100 THEN 1 ELSE 0
       ELSE Handle("intensity", "auto") /\ UNCHANGED intens
    /\ UNCHANGED <<type, values, delay_ns, port, observation, watcher, pulse,
                   automatic, put, puts, outpaced>>

SetDelay ==
    /\ Handle("delay", "auto")
    /\ delay_ns' = IF m_power \in {0, 100} THEN 0 ELSE 100 \div m_power
    /\ UNCHANGED <<type, values, intens, port, observation, watcher, pulse,
                   automatic, put, puts, outpaced>>

PutAuto ==
    /\ IF put.auto = Absent
       THEN Handle("auto", "idle") /\ put' = NoPut /\ UNCHANGED auto_status
       ELSE /\ Handle("auto", "auto_test")
            /\ auto_status' = put.auto
            /\ UNCHANGED put
    /\ UNCHANGED <<type, m_state, m_power, hardware, observation, watcher,
                   pulse, automatic, puts, outpaced>>

Answered == put' = NoPut

StartAuto ==
    /\ Handle("auto_test", "flag")
    /\ auto_status = 1 /\ ~is_auto_thread_running
    /\ auto' = [auto EXCEPT ![puts] = "loop"]
    /\ UNCHANGED <<type, values, hardware, observation, watcher, pulse,
                   is_auto_thread_running, put, puts, outpaced>>

RaiseFlag ==
    /\ Handle("flag", "idle") /\ Answered
    /\ is_auto_thread_running' = TRUE
    /\ UNCHANGED <<type, values, hardware, observation, watcher, pulse, auto,
                   puts, outpaced>>

\* pthread_create fails.
NoAutoThread ==
    /\ Handle("auto_test", "idle") /\ Answered
    /\ auto_status = 1 /\ ~is_auto_thread_running
    /\ auto_status' = 0
    /\ UNCHANGED <<type, m_state, m_power, hardware, observation, watcher,
                   pulse, automatic, puts, outpaced>>

KeepAuto ==
    /\ Handle("auto_test", "idle") /\ Answered
    /\ auto_status = 1 <=> is_auto_thread_running
    /\ UNCHANGED <<type, values, hardware, observation, watcher, pulse,
                   automatic, puts, outpaced>>

\* Mutant: the flag stays up when the mode is turned off.
StopAuto_KeepFlag ==
    /\ Handle("auto_test", "idle") /\ Answered
    /\ auto_status = 0 /\ is_auto_thread_running
    /\ UNCHANGED <<type, values, hardware, observation, watcher, pulse,
                   automatic, puts, outpaced>>

StopAuto ==
    /\ Handle("auto_test", "idle") /\ Answered
    /\ auto_status = 0 /\ is_auto_thread_running
    /\ is_auto_thread_running' = FALSE
    /\ UNCHANGED <<type, values, hardware, observation, watcher, pulse, auto,
                   puts, outpaced>>
-----------------------------------------------------------------------------
(* Registration, whose response is a GET, and the end of an observation.   *)
StartObserving(o) ==
    /\ handler = "idle" /\ o \notin observers
    /\ observers' = observers \cup {o}
    /\ sent' = [sent EXCEPT ![o] = Current]
    /\ Arrives
    /\ IF startedThread = 0
       THEN notifier' = "test" /\ gObservation' = 1 /\ startedThread' = 1
       ELSE UNCHANGED <<notifier, gObservation, startedThread>>
    /\ UNCHANGED <<type, values, hardware, old_power, old_state, pulse,
                   automatic, handler, put, puts>>

Cancel(o) ==
    /\ handler = "idle" /\ o \in observers
    /\ observers' = observers \ {o}
    /\ UNCHANGED <<type, values, hardware, startedThread, gObservation, sent,
                   watcher, pulse, automatic, request>>
-----------------------------------------------------------------------------
(* NotifyResourceChange.                                                   *)
Watching ==
    UNCHANGED <<type, values, hardware, observation, pulse, automatic,
                request>>

TestObservation ==
    /\ Watch("test", IF type = 2 THEN "state" ELSE "power")
    /\ gObservation = 1
    /\ UNCHANGED <<old_power, old_state>> /\ Watching

\* Mutant: a resource with state and power is watched for its power only.
WatchPower_Only ==
    /\ m_power # old_power /\ Watch("power", "copy_power")
    /\ UNCHANGED <<old_power, old_state>> /\ Watching

\* After a change it sleeps for a second, and then copies the fields.
WatchPower ==
    /\ \/ m_power # old_power /\ Watch("power", "copy_power")
       \/ m_power = old_power /\ type = 1 /\ Watch("power", "state")
    /\ UNCHANGED <<old_power, old_state>> /\ Watching

WatchState ==
    /\ \/ /\ m_state # old_state
          /\ Watch("state", IF type = 1 THEN "copy_power" ELSE "copy_state")
       \/ m_state = old_state /\ type = 1 /\ Watch("state", "power")
    /\ UNCHANGED <<old_power, old_state>> /\ Watching

CopyPower ==
    /\ Watch("copy_power", IF type = 1 THEN "copy_state" ELSE "notify")
    /\ old_power' = m_power
    /\ UNCHANGED old_state /\ Watching

CopyState ==
    /\ Watch("copy_state", "notify")
    /\ old_state' = m_state
    /\ UNCHANGED old_power /\ Watching

NotifyAllObservers ==
    /\ Watch("notify", "test")
    /\ handler = "idle"
    /\ sent' = [o \in Observers |->
                    IF o \in observers THEN Current ELSE sent[o]]
    /\ gObservation' = IF observers = {} THEN 0 ELSE gObservation
    /\ UNCHANGED <<type, values, hardware, observers, startedThread,
                   old_power, old_state, pulse, automatic, request>>
-----------------------------------------------------------------------------
(* intensity_controller.                                                   *)
Controlling ==
    UNCHANGED <<type, values, delay_ns, observation, watcher, automatic,
                request>>

SetForIntensity ==
    /\ Control("ioctl", "delay")
    /\ port' = Stored(port, PowerPin, Level(intens))
    /\ UNCHANGED <<intens, held>> /\ Controlling

Toggle ==
    /\ \/ delay_ns > 0 /\ Control("delay", "store") /\ held' = 1 - intens
       \/ delay_ns = 0 /\ Control("delay", "level") /\ UNCHANGED held
    /\ UNCHANGED <<intens, port>> /\ Controlling

\* Mutant: the pin value is left as set_intensity or the last toggle set it.
SteadyLevel_Trusting ==
    /\ Control("level", "ioctl")
    /\ UNCHANGED <<held, intens, port>> /\ Controlling

SteadyLevel ==
    /\ \/ m_power \in {0, 100} /\ Control("level", "store")
          /\ held' = IF m_power = 100 THEN 1 ELSE 0
       \/ m_power \notin {0, 100} /\ Control("level", "ioctl")
          /\ UNCHANGED held
    /\ UNCHANGED <<intens, port>> /\ Controlling

StorePinValue ==
    /\ Control("store", "ioctl")
    /\ intens' = held
    /\ UNCHANGED <<port, held>> /\ Controlling
-----------------------------------------------------------------------------
(* StartAutoMode, which does nothing but look at auto_status.              *)
LeaveLoop(t) ==
    /\ auto[t] = "loop" /\ auto_status # 1
    /\ auto' = [auto EXCEPT ![t] = "left"]
    /\ UNCHANGED <<type, values, hardware, observation, watcher, pulse,
                   is_auto_thread_running, request>>

EndAuto(t) ==
    /\ auto[t] = "left"
    /\ auto' = [auto EXCEPT ![t] = "ended"]
    /\ is_auto_thread_running' = FALSE
    /\ UNCHANGED <<type, values, hardware, observation, watcher, pulse,
                   request>>
-----------------------------------------------------------------------------
Handler ==
    \/ SetSwitchState \/ PutPower \/ SetIntensity \/ SetDelay \/ PutAuto
    \/ StartAuto \/ RaiseFlag \/ NoAutoThread \/ KeepAuto \/ StopAuto

Notifier ==
    \/ TestObservation \/ WatchPower \/ WatchState
    \/ CopyPower \/ CopyState \/ NotifyAllObservers

Controller == SetForIntensity \/ Toggle \/ SteadyLevel \/ StorePinValue

ServerNext ==
    \/ \E r \in Puts : Put(r)
    \/ Handler \/ Notifier \/ Controller
    \/ \E o \in Observers : StartObserving(o) \/ Cancel(o)
    \/ \E t \in Threads : LeaveLoop(t) \/ EndAuto(t)

\* Threads run: the kernel schedules them all.
ServerFairness ==
    WF_serverVars(Handler) /\ WF_serverVars(Notifier) /\ WF_serverVars(Controller)

ServerSpec == ServerInit /\ [][ServerNext]_serverVars /\ ServerFairness
-----------------------------------------------------------------------------
(* Between two requests, automatic mode on means that a thread is at work  *)
(* on it, even if it was turned off and on while the thread was leaving.   *)
AutoHasThread ==
    handler = "idle" /\ auto_status = 1 => \E t \in Threads : auto[t] = "loop"

(* An observer that stays is in the end sent the values that the resource  *)
(* keeps, however the changes fall between the steps of the notifier, as   *)
(* long as the notifier looked at the fields between any two requests and  *)
(* never found itself without observers.                                   *)
ObserversSentLast ==
    \A o \in Observers :
        <>[](o \in observers /\ gObservation = 1 /\ ~outpaced)
            => <>[](Watched(sent[o]) = Watched(Current))

(* Whatever the controller did while put changed its parameters, the power *)
(* pin ends up steady for 0 and 100, and pulsing for what is between.      *)
PinFollowsPower ==
    /\ <>[](m_power = 100 /\ handler = "idle") => <>[](PowerPin \in port)
    /\ <>[](m_power = 0 /\ handler = "idle") => <>[](PowerPin \notin port)
    /\ <>[](m_power \in 10 .. 99 /\ handler = "idle")
        => []<>(PowerPin \in port) /\ []<>(PowerPin \notin port)
=============================================================================
