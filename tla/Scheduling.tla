----------------------------- MODULE Scheduling -----------------------------
(***************************************************************************)
(* The schedule of one resource of the gateway: SetScheduling and          *)
(* set_sensor of resourcemgr/client.cpp, called by one thread at a time    *)
(* since api_lock serialises the UI and the cloud, and the threads of      *)
(* intelligence/schedule_res.cpp that apply the schedule and restore the   *)
(* previous setting.                                                       *)
(*                                                                         *)
(* A setting is the pair state, power.  The wait for an answer is one step *)
(* here (RequestPath has its detail): the answer arrives, or the request   *)
(* or its answer is lost and the wait gives up.                            *)
(***************************************************************************)
EXTENDS Naturals

CONSTANTS
    Values,        \* values of the pair state, power
    Schedules,     \* schedules the user submits
    Ops,           \* operations the user calls: "start", "stop", "set"
    MaxOps,        \* bound: how many
    MaxTime,       \* bound: the clock stops there
    Outputs,       \* values of output
    MaxLost,       \* bound: requests or answers lost
    NoSetting      \* old_state and old_power are -1

ASSUME SchedulingAssumption ==
    /\ Schedules \subseteq [set : Values, start : Nat, end : Nat,
                            repeat : BOOLEAN]
    /\ Ops \subseteq {"start", "stop", "set"}
    /\ MaxOps \in Nat /\ MaxTime \in Nat /\ MaxLost \in Nat
    /\ Outputs \subseteq BOOLEAN
    /\ NoSetting \notin Values

\* Scheduler threads, numbered in the order of their creation.
Slots == 1 .. MaxOps
Api == 0
Nobody == MaxOps + 1

VARIABLES
    now,              \* time(NULL)
    output,           \* resource_type is 1, 2 or 3, an output device
    setting,          \* cached: ResourceParam::state and power
    device,           \* the setting of the device
    lock,             \* owner of ResourceLock: Api, a slot or Nobody
    schedule_staus,   \* 1: scheduled, 0: not
    schedule,         \* schedule_state, _power, _start_time, _end_time, repeat
    running,          \* is_schedule_task_running
    schedular_thread, \* the last thread created, 0 if none
    api,              \* where the caller is
    request,          \* the operation it executes
    ops,              \* operations called so far
    sent,             \* the setting in the request the lock owner sent
    lost,             \* messages lost so far
    tpc,              \* where each thread is
    start_time, old,  \* its local variables start_time, old_state/old_power
    ior,              \* the setting it passes to set_sensor
    restoring,        \* TRUE: its set_sensor restores the previous setting
    cancelled,        \* pthread_cancel was called
    submitted,        \* ghost: when the schedule was submitted
    before            \* ghost: the setting of the device then

called == <<request, ops, submitted, before>>
client == <<api, called>>
params == <<schedule_staus, schedule>>
handle == <<running, schedular_thread>>
thread == <<tpc, start_time, old, ior, restoring, cancelled>>
schedulingVars == <<now, output, setting, device, lock, params, handle, client,
                    sent, lost, thread>>

Requests == [op : {"start"}, arg : Schedules]
              \cup [op : {"set"}, arg : Values] \cup {[op |-> "stop"]}

Go(s, from, to) == tpc[s] = from /\ tpc' = [tpc EXCEPT ![s] = to]
ApiGo(from, to) == api = from /\ api' = to
Unlock == lock' = Nobody
-----------------------------------------------------------------------------
SchedulingInit ==
    /\ now = 0
    /\ output \in Outputs
    /\ setting \in Values
    /\ device = setting
    /\ lock = Nobody
    /\ schedule_staus = 0
    /\ schedule = [set |-> setting, start |-> 0, end |-> 0, repeat |-> FALSE]
    /\ running = FALSE
    /\ schedular_thread = 0
    /\ api = "idle"
    /\ request = [op |-> "stop"]
    /\ ops = 0
    /\ sent = setting
    /\ lost = 0
    /\ tpc = [s \in Slots |-> "none"]
    /\ start_time = [s \in Slots |-> 0]
    /\ old = [s \in Slots |-> NoSetting]
    /\ ior = [s \in Slots |-> setting]
    /\ restoring = [s \in Slots |-> FALSE]
    /\ cancelled = [s \in Slots |-> FALSE]
    /\ submitted = 0
    /\ before = setting

Tick ==
    /\ now < MaxTime
    /\ now' = now + 1
    /\ UNCHANGED <<output, setting, device, lock, params, handle,
                   client, sent, lost, thread>>

Call(r) ==
    /\ ApiGo("idle", "lock")
    /\ ops < MaxOps
    /\ r.op \in Ops
    /\ request' = r
    /\ ops' = ops + 1
    /\ UNCHANGED <<now, output, setting, device, lock, params, handle,
                   sent, lost, thread, submitted, before>>

\* set_sensor of the user: the lock_guard, the cached setting.
LockSet ==
    /\ ApiGo("lock", "send")
    /\ request.op = "set"
    /\ lock = Nobody
    /\ lock' = Api
    /\ setting' = request.arg
    /\ UNCHANGED <<now, output, device, params, handle, called, sent, lost,
                   thread>>

ApiSend ==
    /\ ApiGo("send", "wait")
    /\ sent' = setting
    /\ UNCHANGED <<now, output, setting, device, lock, params, handle,
                   called, lost, thread>>

\* The end of a set_sensor: the answer came (its callback writes the setting
\* it reports), or the wait gave up because a message was lost.
SetSensorEnds ==
    /\ Unlock
    /\ \/ device' = sent /\ setting' = sent /\ lost' = lost
       \/ lost < MaxLost /\ lost' = lost + 1
          /\ device' \in {device, sent} /\ setting' = setting

ApiAnswer ==
    /\ ApiGo("wait", "idle")
    /\ SetSensorEnds
    /\ UNCHANGED <<now, output, params, handle, called, sent, thread>>

\* SetScheduling, status 1: the setting is copied first, the times next; the
\* thread reads them with no lock.
LockStart ==
    /\ ApiGo("lock", "times")
    /\ request.op = "start"
    /\ lock = Nobody
    /\ lock' = Api
    /\ schedule_staus' = 1
    /\ schedule' = [schedule EXCEPT !.set = request.arg.set]
    /\ submitted' = now
    /\ before' = device
    /\ UNCHANGED <<now, output, setting, device, handle, request, ops, sent,
                   lost, thread>>

CopyTimes ==
    /\ ApiGo("times", "create")
    /\ schedule' = request.arg
    /\ UNCHANGED <<now, output, setting, device, lock, schedule_staus,
                   handle, called, sent, lost, thread>>

\* start_schedular: a thread that runs already is kept, with its start time.
KeepThread ==
    /\ ApiGo("create", "idle")
    /\ running
    /\ Unlock
    /\ UNCHANGED <<now, output, setting, device, params, handle, called, sent,
                   lost, thread>>

\* Mutant: a thread is created although one runs.
CreateThread_Always ==
    LET s == schedular_thread + 1 IN
    /\ ApiGo("create", "flag")
    /\ schedular_thread' = s
    /\ tpc' = [tpc EXCEPT ![s] = "born"]
    /\ UNCHANGED <<now, output, setting, device, lock, params, running,
                   called, sent, lost, start_time, old, ior, restoring,
                   cancelled>>

CreateThread ==
    LET s == schedular_thread + 1 IN
    /\ ApiGo("create", "flag")
    /\ ~running
    /\ schedular_thread' = s
    /\ tpc' = [tpc EXCEPT ![s] = "born"]
    /\ UNCHANGED <<now, output, setting, device, lock, params, running,
                   called, sent, lost, start_time, old, ior, restoring,
                   cancelled>>

\* The flag is set after pthread_create returned.
SetFlag ==
    /\ ApiGo("flag", "idle")
    /\ running' = TRUE
    /\ Unlock
    /\ UNCHANGED <<now, output, setting, device, params, schedular_thread,
                   called, sent, lost, thread>>

\* Mutant: the status of a stopped schedule is 3, "cancealed".
LockStop_Three ==
    /\ ApiGo("lock", IF running THEN "cancel" ELSE "unlock")
    /\ request.op = "stop"
    /\ lock = Nobody
    /\ lock' = Api
    /\ schedule_staus' = 3
    /\ UNCHANGED <<now, output, setting, device, schedule, handle, called,
                   sent, lost, thread>>

\* SetScheduling, status 0, and stop_schedular.
LockStop ==
    /\ ApiGo("lock", IF running THEN "cancel" ELSE "unlock")
    /\ request.op = "stop"
    /\ lock = Nobody
    /\ lock' = Api
    /\ schedule_staus' = 0
    /\ UNCHANGED <<now, output, setting, device, schedule, handle, called,
                   sent, lost, thread>>

\* Mutant: the cancelled thread is not joined.
Cancel_NoJoin ==
    /\ ApiGo("cancel", "unlock")
    /\ cancelled' = [cancelled EXCEPT ![schedular_thread] = TRUE]
    /\ running' = FALSE
    /\ UNCHANGED <<now, output, setting, device, lock, params,
                   schedular_thread, called, sent, lost, tpc, start_time, old,
                   ior, restoring>>

Cancel ==
    /\ ApiGo("cancel", "join")
    /\ cancelled' = [cancelled EXCEPT ![schedular_thread] = TRUE]
    /\ running' = FALSE
    /\ UNCHANGED <<now, output, setting, device, lock, params,
                   schedular_thread, called, sent, lost, tpc, start_time, old,
                   ior, restoring>>

\* pthread_cancel of a thread that has ended may return ESRCH.
CancelFails ==
    /\ ApiGo("cancel", "unlock")
    /\ tpc[schedular_thread] = "done"
    /\ UNCHANGED <<now, output, setting, device, lock, params, handle,
                   called, sent, lost, thread>>

\* pthread_join, with the ResourceLock still held.
Join ==
    /\ ApiGo("join", "unlock")
    /\ tpc[schedular_thread] = "done"
    /\ UNCHANGED <<now, output, setting, device, lock, params, handle,
                   called, sent, lost, thread>>

EndStop ==
    /\ ApiGo("unlock", "idle")
    /\ Unlock
    /\ UNCHANGED <<now, output, setting, device, params, handle, called, sent,
                   lost, thread>>
-----------------------------------------------------------------------------
\* What a thread's step leaves alone.
others == <<now, output, params, schedular_thread, client>>

Begin(s) ==
    /\ Go(s, "born", "loop")
    /\ start_time' = [start_time EXCEPT ![s] = now]
    /\ UNCHANGED <<others, running, setting, device, lock, sent, lost,
                   old, ior, restoring, cancelled>>

Elapsed(s) == now - start_time[s]
Started(s) == schedule.start # 0 /\ Elapsed(s) >= schedule.start
Ended(s) == schedule.end # 0 /\ Elapsed(s) >= schedule.end

\* Mutant: the setting is remembered after it was replaced.
Enforce_LateSave(s) ==
    /\ Go(s, "loop", "print")
    /\ output /\ Started(s)
    /\ setting # schedule.set
    /\ old' = [old EXCEPT ![s] = schedule.set]
    /\ setting' = schedule.set
    /\ ior' = [ior EXCEPT ![s] = schedule.set]
    /\ restoring' = [restoring EXCEPT ![s] = FALSE]
    /\ UNCHANGED <<others, running, device, lock, sent, lost,
                   start_time, cancelled>>

\* Mutant: only the ResourceParam is changed.
Enforce_CacheOnly(s) ==
    /\ tpc[s] = "loop"
    /\ output /\ Started(s)
    /\ setting # schedule.set
    /\ old' = [old EXCEPT ![s] = setting]
    /\ setting' = schedule.set
    /\ UNCHANGED <<others, running, device, lock, sent, lost, tpc,
                   start_time, ior, restoring, cancelled>>

\* The resource is not as scheduled: remember its setting, force the scheduled
\* one, with no lock.
Enforce(s) ==
    /\ Go(s, "loop", "print")
    /\ output /\ Started(s)
    /\ setting # schedule.set
    /\ old' = [old EXCEPT ![s] = setting]
    /\ setting' = schedule.set
    /\ ior' = [ior EXCEPT ![s] = schedule.set]
    /\ restoring' = [restoring EXCEPT ![s] = FALSE]
    /\ UNCHANGED <<others, running, device, lock, sent, lost,
                   start_time, cancelled>>

\* The schedule is over: the remembered setting comes back.
Restore(s) ==
    /\ Go(s, "loop", "print")
    /\ output /\ Started(s) /\ Ended(s)
    /\ setting = schedule.set
    /\ old[s] # NoSetting
    /\ setting' = old[s]
    /\ ior' = [ior EXCEPT ![s] = old[s]]
    /\ restoring' = [restoring EXCEPT ![s] = TRUE]
    /\ UNCHANGED <<others, running, device, lock, sent, lost,
                   start_time, old, cancelled>>

\* Over, with nothing to restore.
Over(s) ==
    /\ tpc[s] = "loop"
    /\ output /\ Started(s) /\ Ended(s)
    /\ setting = schedule.set
    /\ old[s] = NoSetting
    /\ tpc' = [tpc EXCEPT ![s] = "over"]
    /\ UNCHANGED <<others, running, setting, device, lock, sent, lost,
                   start_time, old, ior, restoring, cancelled>>

\* An input device (resource_type > 3) stops or repeats before the end time.
InputOver(s) ==
    /\ Go(s, "loop", "over")
    /\ ~output /\ Started(s) /\ ~Ended(s)
    /\ UNCHANGED <<others, running, setting, device, lock, sent, lost,
                   start_time, old, ior, restoring, cancelled>>

\* std::cout may be a cancellation point; mutexes and time() are none.
Die(s) ==
    /\ cancelled[s]
    /\ tpc[s] = "print" \/ (tpc[s] = "over" /\ ~schedule.repeat)
    /\ tpc' = [tpc EXCEPT ![s] = "done"]
    /\ UNCHANGED <<others, running, setting, device, lock, sent, lost,
                   start_time, old, ior, restoring, cancelled>>

Announce(s) ==
    /\ Go(s, "print", "set")
    /\ UNCHANGED <<others, running, setting, device, lock, sent, lost,
                   start_time, old, ior, restoring, cancelled>>

\* set_sensor, called with the setting the thread wrote in ior.
LockSensor(s) ==
    /\ Go(s, "set", "send")
    /\ lock = Nobody
    /\ lock' = s
    /\ setting' = ior[s]
    /\ UNCHANGED <<others, running, device, sent, lost, start_time, old, ior,
                   restoring, cancelled>>

SendSensor(s) ==
    /\ Go(s, "send", "wait")
    /\ sent' = setting
    /\ UNCHANGED <<others, running, setting, device, lock, lost,
                   start_time, old, ior, restoring, cancelled>>

\* The result of set_sensor is ignored.
Answer(s) ==
    /\ Go(s, "wait", IF restoring[s] THEN "over" ELSE "loop")
    /\ SetSensorEnds
    /\ UNCHANGED <<others, running, sent, start_time, old, ior, restoring,
                   cancelled>>

\* Mutant: is_repeat_next_day is not looked at.
Repeat_Always(s) ==
    /\ Go(s, "over", "loop")
    /\ start_time' = [start_time EXCEPT ![s] = now]
    /\ UNCHANGED <<others, running, setting, device, lock, sent, lost,
                   old, ior, restoring, cancelled>>

Repeat(s) ==
    /\ Go(s, "over", "loop")
    /\ schedule.repeat
    /\ start_time' = [start_time EXCEPT ![s] = now]
    /\ UNCHANGED <<others, running, setting, device, lock, sent, lost,
                   old, ior, restoring, cancelled>>

Exit(s) ==
    /\ Go(s, "over", "done")
    /\ ~schedule.repeat
    /\ running' = FALSE
    /\ UNCHANGED <<others, setting, device, lock, sent, lost,
                   start_time, old, ior, restoring, cancelled>>
-----------------------------------------------------------------------------
ApiStep ==
    \/ LockSet \/ ApiSend \/ ApiAnswer
    \/ LockStart \/ CopyTimes \/ KeepThread \/ CreateThread \/ SetFlag
    \/ LockStop \/ Cancel \/ CancelFails \/ Join \/ EndStop

ThreadStep(s) ==
    \/ Begin(s) \/ Enforce(s) \/ Restore(s) \/ Over(s) \/ InputOver(s)
    \/ Die(s) \/ Announce(s) \/ LockSensor(s) \/ SendSensor(s) \/ Answer(s)
    \/ Repeat(s) \/ Exit(s)

SchedulingNext ==
    \/ Tick
    \/ \E r \in Requests : Call(r)
    \/ ApiStep
    \/ \E s \in Slots : ThreadStep(s)

\* Time passes and no thread is starved.
SchedulingFairness ==
    /\ WF_schedulingVars(Tick) /\ WF_schedulingVars(ApiStep)
    /\ \A s \in Slots : WF_schedulingVars(ThreadStep(s))

SchedulingSpec ==
    SchedulingInit /\ [][SchedulingNext]_schedulingVars /\ SchedulingFairness
-----------------------------------------------------------------------------
TPCs ==
    {"none", "born", "loop", "print", "set", "send", "wait", "over", "done"}
ApiPCs == {"idle", "lock", "send", "wait", "times", "create", "flag", "cancel",
           "join", "unlock"}

SchedulingTypeOK ==
    /\ now \in 0 .. MaxTime
    /\ output \in BOOLEAN
    /\ setting \in Values /\ device \in Values /\ sent \in Values
    /\ lock \in Slots \cup {Api, Nobody}
    /\ schedule_staus \in {0, 1}
    /\ schedule \in [set : Values, start : Nat, end : Nat, repeat : BOOLEAN]
    /\ running \in BOOLEAN
    /\ schedular_thread \in 0 .. MaxOps
    /\ api \in ApiPCs
    /\ request \in Requests
    /\ ops \in 0 .. MaxOps
    /\ lost \in 0 .. MaxLost
    /\ tpc \in [Slots -> TPCs]
    /\ start_time \in [Slots -> 0 .. MaxTime]
    /\ old \in [Slots -> Values \cup {NoSetting}]
    /\ ior \in [Slots -> Values]
    /\ restoring \in [Slots -> BOOLEAN]
    /\ cancelled \in [Slots -> BOOLEAN]
    /\ submitted \in 0 .. MaxTime
    /\ before \in Values

Alive(s) == tpc[s] \notin {"none", "done"}

\* Two scheduler threads never fight over one resource, however starts, stops
\* and threads that end on their own interleave.
AtMostOneScheduler == \A s, t \in Slots : Alive(s) /\ Alive(t) => s = t

\* When is_schedule_task_running is down and no start or stop is at work, no
\* thread is left that would change the resource.
FlagDownNoThread ==
    ~running /\ api \notin {"flag", "join"} => \A s \in Slots : ~Alive(s)

\* Once a schedule that nobody interfered with is over, the device has the
\* setting it had before ("otherwise previous").
RestoresPrevious ==
    \A s \in Slots :
        tpc[s] = "done" /\ ~cancelled[s] /\ output
        => device = before /\ setting = before

\* A schedule with a start and an end that is not repeated comes to its end
\* (within the time the bounded clock can show).
ScheduleEnds ==
    \A s \in Slots :
        /\ tpc[s] = "loop" /\ ~schedule.repeat
        /\ schedule.start # 0 /\ start_time[s] + schedule.start <= MaxTime
        /\ schedule.end # 0 /\ start_time[s] + schedule.end <= MaxTime
        ~> tpc[s] = "done"

\* A schedule with no end time maintains the scheduled setting on the device
\* ("if end time is zero then it will maintain the state of start time").
Maintained ==
    \A s \in Slots :
        /\ tpc[s] = "loop" /\ schedule.end = 0
        /\ schedule.start # 0 /\ start_time[s] + schedule.start <= MaxTime
        ~> [](device = schedule.set)

\* A caller does not join, ResourceLock in hand, a thread that waits for it.
NoJoinUnderLock ==
    ~(api = "join" /\ tpc[schedular_thread] = "set" /\ lock = Api)
=============================================================================
