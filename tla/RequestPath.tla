---------------------------- MODULE RequestPath ----------------------------
(***************************************************************************)
(* The request path of the home gateway (testclient): a thread that wants  *)
(* to read or write a resource (the UI socket thread, the cloud thread, a  *)
(* scheduler thread) sends a CoAP request through the OC stack and sleeps  *)
(* on a pipe until the callback of the answer writes a result code in it.  *)
(*                                                                         *)
(* Three locks are taken, in this order: api_lock (core/Main.cpp), the     *)
(* ResourceLock of the resource (resourcemgr/client.cpp) and read_lock     *)
(* (resourcemgr/error_response_handler.cpp).  The pipe and read_lock are   *)
(* file statics, so one pair serves every resource, and the constructor of *)
(* every new ResourceParam makes a new pipe and re-initialises the lock.   *)
(*                                                                         *)
(* A "setting" stands for the pair state, power; a result code is 0 or -1. *)
(* The answers in the pipe and in "got" are ghosts: the code writes only a *)
(* result code (always 0) there, and never learns whose answer it was.     *)
(***************************************************************************)
EXTENDS Integers, Sequences, FiniteSets

CONSTANTS
    Apis,         \* threads that enter through iot_request_response
    Scheds,       \* scheduler threads: they call set_sensor directly
    Resources,    \* resources the gateway may learn of
    Known,        \* those already in the list when the model starts
    Settings,     \* values of the pair state, power
    Cmds,         \* commands the Apis issue
    MaxCalls,     \* bound: calls of each thread
    Calm,         \* TRUE: every device answers OK, within the 30 seconds
    NoThread,     \* the owner of a free lock
    NoCall,       \* what an idle thread executes
    NoAnswer      \* nothing was read from the pipe

Threads == Apis \cup Scheds

ASSUME RequestPathAssumption ==
    /\ Apis \cap Scheds = {}
    /\ NoThread \notin Threads
    /\ Known \subseteq Resources
    /\ Cmds \subseteq {"GET", "SET", "POST", "MODE"}
    /\ MaxCalls \in [Apis \cup Scheds -> Nat]
    /\ Calm \in BOOLEAN

VARIABLES
    listed,       \* resources in the linked list of resource_list.cpp
    cached,       \* ResourceParam::state and power, per resource
    api_lock,     \* owner of api_lock
    ResourceLock, \* owner of the ResourceLock of each resource
    read_lock,    \* owner of read_lock
    pipe,         \* content of the pipe file_pipes refers to now
    pc,           \* where each thread is
    call,         \* the call each thread executes
    made,         \* how many calls each thread has made
    fd,           \* the pipe a thread selects on, see FoundResource
    resp,         \* resp of the waiting function
    got,          \* ghost: the answer the thread read
    expired,      \* ghost: how many waits gave up
    net           \* requests and answers in flight

vars == <<listed, cached, api_lock, ResourceLock, read_lock, pipe, pc, call,
          made, fd, resp, got, expired, net>>
locks == <<api_lock, ResourceLock, read_lock>>
outcome == <<fd, resp, got, expired>>

Id == Threads \X Nat
Calls == [cmd : {"GET", "SET", "POST", "MODE"}, res : Resources, arg : Settings]
Messages == [type : {"req", "ok", "err"}, id : Id, res : Resources, val : Settings]
PCs == {"idle", "api", "find", "lock", "send", "rlock", "select", "read", "ret"}

\* The (ghost) identity of the call that thread t executes.
IdOf(t) == <<t, made[t]>>

Move(t, from, to) == pc[t] = from /\ pc' = [pc EXCEPT ![t] = to]
-----------------------------------------------------------------------------
Init ==
    /\ listed = Known
    /\ cached \in [Resources -> Settings]
    /\ api_lock = NoThread
    /\ ResourceLock = [r \in Resources |-> NoThread]
    /\ read_lock = NoThread
    /\ pipe = <<>>
    /\ pc = [t \in Threads |-> "idle"]
    /\ call = [t \in Threads |-> NoCall]
    /\ made = [t \in Threads |-> 0]
    /\ fd = [t \in Threads |-> "live"]
    /\ resp = [t \in Threads |-> -1]
    /\ got = [t \in Threads |-> NoAnswer]
    /\ expired = 0
    /\ net = {}

\* A UI or cloud command reaches iot_request_response.
ApiCall(t, c) ==
    /\ Move(t, "idle", "api")
    /\ made[t] < MaxCalls[t]
    /\ c.cmd \in Cmds
    /\ call' = [call EXCEPT ![t] = c]
    /\ made' = [made EXCEPT ![t] = @ + 1]
    /\ UNCHANGED <<listed, cached, locks, pipe, outcome, net>>

\* schedule_mytask writes the scheduled values in the ResourceParam, with no
\* lock, and calls set_sensor.  Its comparison with the values it finds there
\* is left out here (Scheduling has it): it may write them again.
SchedCall(t, c) ==
    /\ Move(t, "idle", "find")
    /\ made[t] < MaxCalls[t]
    /\ c.cmd = "SET"
    /\ c.res \in listed
    /\ cached' = [cached EXCEPT ![c.res] = c.arg]
    /\ call' = [call EXCEPT ![t] = c]
    /\ made' = [made EXCEPT ![t] = @ + 1]
    /\ UNCHANGED <<listed, locks, pipe, outcome, net>>

\* Mutant: the mutex is not taken.
LockApi_NoLock(t) ==
    /\ Move(t, "api", "find")
    /\ UNCHANGED <<listed, cached, locks, pipe, call, made, outcome, net>>

LockApi(t) ==
    /\ Move(t, "api", "find")
    /\ api_lock = NoThread
    /\ api_lock' = t
    /\ UNCHANGED <<listed, cached, ResourceLock, read_lock, pipe, call, made,
                   outcome, net>>

\* find_by_ip, the first line of every *_sensor function.
Find(t) ==
    /\ Move(t, "find", "lock")
    /\ call[t].res \in listed
    /\ UNCHANGED <<listed, cached, locks, pipe, call, made, outcome, net>>

\* The call returns: iot_request_response unlocks api_lock, a scheduler thread
\* does not hold it.
Leave(t) ==
    /\ pc' = [pc EXCEPT ![t] = "idle"]
    /\ api_lock' = IF t \in Apis THEN NoThread ELSE api_lock
    /\ call' = [call EXCEPT ![t] = NoCall]
    /\ resp' = [resp EXCEPT ![t] = -1]
    /\ got' = [got EXCEPT ![t] = NoAnswer]
    /\ UNCHANGED <<listed, cached, read_lock, pipe, made, fd, expired, net>>

NotFound(t) ==
    /\ pc[t] = "find"
    /\ call[t].res \notin listed
    /\ Leave(t)
    /\ UNCHANGED ResourceLock

\* Mutant: no lock_guard.
Lock_NoGuard(t) ==
    /\ Move(t, "lock", "send")
    /\ cached' = IF call[t].cmd \in {"SET", "POST"}
                 THEN [cached EXCEPT ![call[t].res] = call[t].arg] ELSE cached
    /\ UNCHANGED <<listed, locks, pipe, call, made, outcome, net>>

\* The lock_guard and the assignments that follow it: a set or a post changes
\* the cached setting before anything is sent.
Lock(t) ==
    LET r == call[t].res IN
    /\ Move(t, "lock", "send")
    /\ ResourceLock[r] = NoThread
    /\ ResourceLock' = [ResourceLock EXCEPT ![r] = t]
    /\ cached' = IF call[t].cmd \in {"SET", "POST"}
                 THEN [cached EXCEPT ![r] = call[t].arg] ELSE cached
    /\ UNCHANGED <<listed, api_lock, read_lock, pipe, call, made, outcome,
                   net>>

\* setDevice, postDevice and getDeviceValue fill the representation from the
\* ResourceParam and hand it to the OC stack.
Send(t) ==
    LET r == call[t].res IN
    /\ Move(t, "send", "rlock")
    /\ net' = net \cup {[type |-> "req", id |-> IdOf(t), res |-> r,
                         val |-> cached[r]]}
    /\ UNCHANGED <<listed, cached, locks, pipe, call, made, outcome>>

\* Mutant: the reader does not wait for read_lock.
LockRead_NoLock(t) ==
    /\ Move(t, "rlock", "select")
    /\ fd' = [fd EXCEPT ![t] = "live"]
    /\ UNCHANGED <<listed, cached, locks, pipe, call, made, resp, got,
                   expired, net>>

\* ErrhandleGetRespMessage: lock read_lock, FD_SET the current pipe.
LockRead(t) ==
    /\ Move(t, "rlock", "select")
    /\ read_lock = NoThread
    /\ read_lock' = t
    /\ fd' = [fd EXCEPT ![t] = "live"]
    /\ UNCHANGED <<listed, cached, api_lock, ResourceLock, pipe, call, made,
                   resp, got, expired, net>>

\* What the descriptor in the fd_set of thread t has to read.
Readable(t) == fd[t] = "full" \/ (fd[t] = "live" /\ pipe # <<>>)

SelectReady(t) ==
    /\ Move(t, "select", "read")
    /\ Readable(t)
    /\ UNCHANGED <<listed, cached, locks, pipe, call, made, outcome, net>>

\* select returns 0 after 30 seconds.
SelectTimeout(t) ==
    /\ Move(t, "select", "ret")
    /\ ~Calm
    /\ ~Readable(t)
    /\ read_lock' = NoThread
    /\ resp' = [resp EXCEPT ![t] = -1]
    /\ expired' = expired + 1
    /\ UNCHANGED <<listed, cached, api_lock, ResourceLock, pipe, call, made,
                   fd, got, net>>

\* Mutant: the caller is given the byte count that read returns.
Read_Count(t) ==
    /\ Move(t, "read", "ret")
    /\ pipe # <<>>
    /\ got' = [got EXCEPT ![t] = Head(pipe)]
    /\ pipe' = Tail(pipe)
    /\ resp' = [resp EXCEPT ![t] = 4]
    /\ read_lock' = NoThread
    /\ UNCHANGED <<listed, cached, api_lock, ResourceLock, call, made, fd,
                   expired, net>>

\* read looks up file_pipes[0] again and has no timeout.
Read(t) ==
    /\ Move(t, "read", "ret")
    /\ pipe # <<>>
    /\ got' = [got EXCEPT ![t] = Head(pipe)]
    /\ pipe' = Tail(pipe)
    /\ resp' = [resp EXCEPT ![t] = 0]
    /\ read_lock' = NoThread
    /\ UNCHANGED <<listed, cached, api_lock, ResourceLock, call, made, fd,
                   expired, net>>

\* Mutant: an early return that leaves the ResourceLock locked.
Return_Locked(t) ==
    /\ pc[t] = "ret"
    /\ Leave(t)
    /\ UNCHANGED ResourceLock

\* The *_sensor function returns resp (get_sensor copies the cached values
\* first) and its lock_guard unlocks the ResourceLock.
Return(t) ==
    /\ pc[t] = "ret"
    /\ ResourceLock' = [ResourceLock EXCEPT ![call[t].res] = NoThread]
    /\ Leave(t)

\* The device serves a request and answers with a setting of its own: a PUT
\* may be clamped or refused, and a switch may be moved by hand.
DeviceAnswer(m) ==
    /\ m \in net /\ m.type = "req"
    /\ \E type \in IF Calm THEN {"ok"} ELSE {"ok", "err"}, v \in Settings :
          net' = (net \ {m}) \cup {[m EXCEPT !.type = type, !.val = v]}
    /\ UNCHANGED <<listed, cached, locks, pipe, pc, call, made, outcome>>

\* LowQos messages: a request or an answer is lost.
Lose(m) ==
    /\ ~Calm
    /\ m \in net
    /\ net' = net \ {m}
    /\ UNCHANGED <<listed, cached, locks, pipe, pc, call, made, outcome>>

\* Mutant: the values of the answer are not copied.
OnOk_NoCopy(m) ==
    /\ m \in net /\ m.type = "ok"
    /\ net' = net \ {m}
    /\ pipe' = Append(pipe, m)
    /\ UNCHANGED <<listed, cached, locks, pc, call, made, outcome>>

\* Mutant: the result code is posted twice.
OnOk_Twice(m) ==
    /\ m \in net /\ m.type = "ok"
    /\ net' = net \ {m}
    /\ cached' = [cached EXCEPT ![m.res] = m.val]
    /\ pipe' = pipe \o <<m, m>>
    /\ UNCHANGED <<listed, locks, pc, call, made, outcome>>

\* onSet, onPost and onGet of an answer that is OK: with no lock, they update
\* the cached setting and post a result code.
OnOk(m) ==
    /\ m \in net /\ m.type = "ok"
    /\ net' = net \ {m}
    /\ cached' = [cached EXCEPT ![m.res] = m.val]
    /\ pipe' = Append(pipe, m)
    /\ UNCHANGED <<listed, locks, pc, call, made, outcome>>

\* onSet, onPost and onGet of an error: nothing is posted.
OnError(m) ==
    /\ m \in net /\ m.type = "err"
    /\ net' = net \ {m}
    /\ UNCHANGED <<listed, cached, locks, pipe, pc, call, made, outcome>>

\* foundResource of a resource that is not in the list.  The constructor of its
\* ResourceParam runs ErrhandleReqRespInit: read_lock is re-initialised, and a
\* new pipe replaces the one threads may be waiting on ("full" or "empty" for
\* ever, since nothing reads or writes it any more).
FoundResource(r) ==
    /\ r \notin listed
    /\ listed' = listed \cup {r}
    /\ read_lock' = NoThread
    /\ pipe' = <<>>
    /\ fd' = [t \in Threads |-> IF fd[t] # "live" THEN fd[t]
                                ELSE IF pipe # <<>> THEN "full" ELSE "empty"]
    /\ UNCHANGED <<cached, api_lock, ResourceLock, pc, call, made, resp, got,
                   expired, net>>
-----------------------------------------------------------------------------
\* The steps a thread takes once it has made its call.
Step(t) ==
    \/ LockApi(t) \/ Find(t) \/ NotFound(t) \/ Lock(t) \/ Send(t)
    \/ LockRead(t) \/ SelectReady(t) \/ SelectTimeout(t) \/ Read(t) \/ Return(t)

Network == \E m \in net : DeviceAnswer(m) \/ Lose(m) \/ OnOk(m) \/ OnError(m)

Next ==
    \/ \E t \in Apis, c \in Calls : ApiCall(t, c)
    \/ \E t \in Scheds, c \in Calls : SchedCall(t, c)
    \/ \E t \in Threads : Step(t)
    \/ Network
    \/ \E r \in Resources : FoundResource(r)

\* A thread that can run runs, and select returns after 30 seconds at the
\* latest.  The devices answer only where Calm says so.
Fairness ==
    /\ \A t \in Threads : WF_vars(Step(t))
    /\ Calm => WF_vars(Network)

Spec == Init /\ [][Next]_vars /\ Fairness
-----------------------------------------------------------------------------
TypeOK ==
    /\ listed \subseteq Resources
    /\ cached \in [Resources -> Settings]
    /\ api_lock \in Threads \cup {NoThread}
    /\ ResourceLock \in [Resources -> Threads \cup {NoThread}]
    /\ read_lock \in Threads \cup {NoThread}
    /\ pipe \in Seq(Messages)
    /\ pc \in [Threads -> PCs]
    /\ call \in [Threads -> Calls \cup {NoCall}]
    /\ made \in [Threads -> Nat]
    /\ fd \in [Threads -> {"live", "full", "empty"}]
    /\ resp \in [Threads -> {0, -1}]
    /\ got \in [Threads -> Messages \cup {NoAnswer}]
    /\ expired \in Nat
    /\ net \in SUBSET Messages

\* Where a thread holds the ResourceLock of its resource.
InDevice == {"send", "rlock", "select", "read", "ret"}
\* Where it holds read_lock.
InReader == {"select", "read"}

\* As long as no resource is discovered, a read of the pipe finds a result code,
\* so the 30 seconds of the select before it bound the whole wait
\* (error_response_handler.cpp:48-67).
ReadNeverBlocks ==
    listed = Known => \A t \in Threads : pc[t] = "read" => pipe # <<>>

\* At most one request of a resource is being waited for, whoever asked.
OneWaiterPerResource ==
    \A s, t \in Threads :
        /\ pc[s] \in InDevice /\ pc[t] \in InDevice
        /\ call[s].res = call[t].res
        => s = t

\* A caller told that its call succeeded was woken by the answer to this call.
OwnAnswer ==
    \A t \in Threads : pc[t] = "ret" /\ resp[t] = 0 => got[t].id = IdOf(t)

\* A successful get returns the setting the device reported in its answer.
GetReportsAnswer ==
    \A t \in Threads :
        pc[t] = "ret" /\ resp[t] = 0 /\ call[t].cmd = "GET"
        => got[t].id = IdOf(t) /\ cached[call[t].res] = got[t].val

\* The request sent for a set or a post carries the setting its caller asked
\* for, although it is filled from the shared ResourceParam.
RequestCarriesArgument ==
    \A t \in Threads, m \in net :
        /\ m.type = "req" /\ m.id = IdOf(t)
        /\ pc[t] \in InDevice /\ call[t].cmd \in {"SET", "POST"}
        => m.val = call[t].arg

\* So settings pass unchanged both ways between a caller and its device.
SettingsCarried == GetReportsAnswer /\ RequestCarriesArgument

\* Every message that outlives its call, and so may wake a later caller, is paid
\* for by a wait that gave up: with no thread waiting, the pipe and the network
\* together hold at most one message for each of those.
Waiting == {t \in Threads : pc[t] \in {"rlock", "select", "read"}}
StaleAnswersBounded == Waiting = {} => Len(pipe) + Cardinality(net) <= expired

\* Every call returns, unless a resource is discovered meanwhile: the pipe a
\* call waits on may then be gone.
CallsReturn ==
    \A t \in Threads : pc[t] # "idle" ~> pc[t] = "idle" \/ listed # Known
=============================================================================
