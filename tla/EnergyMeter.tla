---------------------------- MODULE EnergyMeter ----------------------------
(***************************************************************************)
(* The energy meter of the gateway: onObserve of resourcemgr/client.cpp    *)
(* appends each reported change to resource_database.csv and accounts it   *)
(* in the list of intelligence/power_analysys.cpp; after a crash the list  *)
(* is computed again from the csv, to which populate_prev_resource_status  *)
(* first adds a "down" record for every host of resource_status.txt, the   *)
(* file in which core/MulticastRecv.cpp keeps each host's last ALIVE.      *)
(*                                                                         *)
(* Power ratings are 1 and a unit is one second at power 1.  A callback    *)
(* and a restart take less than a second: the clock does not move between  *)
(* their steps.  The linked list is the set of the resources it holds and  *)
(* their nodes; what a racing insertion does to its links is in Insert.    *)
(***************************************************************************)
EXTENDS Integers, FiniteSets, SequencesExt

CONSTANTS
    Resources, Hosts,
    Host,          \* [Resources -> Hosts], the hostname of a resource
    IpPrefixes,    \* pairs g, h: the ip of g is a prefix of h's, as text
    Reports,       \* values of "state" and "power" in a report
    MaxCallbacks,  \* bound: onObserve callbacks at work at the same time
    MaxTime,       \* bound: the clock stops there
    MaxReports,    \* bound: reports in all
    MaxCrashes     \* bound: how often the gateway dies

ASSUME EnergyMeterAssumption ==
    /\ Host \in [Resources -> Hosts]
    /\ IpPrefixes \subseteq Hosts \X Hosts
    /\ \A h \in Hosts : <<h, h>> \in IpPrefixes
    /\ Reports \subseteq [state : 0 .. 1, power : Nat]
    /\ {MaxCallbacks, MaxTime, MaxReports, MaxCrashes} \subseteq Nat

VARIABLES
    now,        \* time(NULL)
    phase,      \* "up", "down", and between them the steps of iot_start
    job,        \* what the callback of a resource does, "none" if there is none
    rep,        \* the representation it handles
    walked,     \* the list load_insert walked to find its end
    csv,        \* resource_database.csv
    status,     \* resource_status.txt
    listed,     \* the resources with a node in the list load_head
    node,       \* their nodes
    reports,    \* reports so far
    crashes,    \* crashes so far
    seen,       \* ghost: the last report handled, off after a restart
    used,       \* ghost: what resources used as reported while the gateway ran
    alive,      \* ghost: last ALIVE of a host since the gateway started
    uncovered,  \* ghost: resources without a status at a crash
    raced,      \* ghost: two callbacks linked a node to the same end
    lostUse     \* ghost: their reported use between the last ALIVE and a crash

list == <<listed, node>>
files == <<csv, status>>
ghosts == <<used, alive, uncovered, raced, lostUse>>
vars == <<now, phase, job, rep, walked, list, files, reports, crashes, seen,
          ghosts>>

Off == [state |-> 0, power |-> 0]
Nodes == [state : 0 .. 1, power : Nat, prev : Nat, unit : Int]
NoNode == [state |-> 0, power |-> 0, prev |-> 0, unit |-> 0]
Never == -1

Use(r) == IF r.state = 0 THEN 0 ELSE r.power
\* What a node has not yet added to its unit_consume.
Pending(n) == Use(n) * (now - n.prev)

TypeOK ==
    /\ now \in 0 .. MaxTime
    /\ phase \in {"up", "down", "populated", "removed"}
    /\ job \in [Resources -> {"none", "locked", "appended", "inserting"}]
    /\ rep \in [Resources -> Reports \cup {Off}]
    /\ walked \in [Resources -> SUBSET Resources]
    /\ csv \in Seq([res : Resources, rep : Reports, at : Nat]
                     \cup [down : Hosts, at : Nat])
    /\ status \in Seq([host : Hosts, at : Nat])
    /\ listed \in SUBSET Resources
    /\ node \in [Resources -> Nodes]
    /\ reports \in 0 .. MaxReports /\ crashes \in 0 .. MaxCrashes
    /\ seen \in [Resources -> Reports \cup {Off}]
    /\ used \in [Resources -> Nat] /\ lostUse \in [Resources -> Nat]
    /\ alive \in [Hosts -> Nat \cup {Never}]
    /\ uncovered \in SUBSET Resources /\ raced \in BOOLEAN

\* Main starts on an empty database.
Init ==
    /\ now = 0 /\ phase = "up"
    /\ job = [r \in Resources |-> "none"]
    /\ rep = [r \in Resources |-> Off]
    /\ walked = [r \in Resources |-> {}]
    /\ csv = <<>> /\ status = <<>>
    /\ listed = {} /\ node = [r \in Resources |-> NoNode]
    /\ reports = 0 /\ crashes = 0
    /\ seen = [r \in Resources |-> Off]
    /\ used = [r \in Resources |-> 0] /\ lostUse = [r \in Resources |-> 0]
    /\ alive = [h \in Hosts |-> Never] /\ uncovered = {} /\ raced = FALSE
-----------------------------------------------------------------------------
(* update_list and the replay of the csv, as functions of the list.        *)

\* Mutant: a change of power does not close the previous interval.
Updated_KeepsUnit(n, r, t) ==
    IF n.state # 0 /\ r.state = 0
    THEN [state |-> r.state, power |-> r.power, prev |-> t,
          unit |-> n.unit + n.power * (t - n.prev)]
    ELSE [n EXCEPT !.state = r.state, !.power = r.power, !.prev = t]

\* The node after update_list: only a node that was on adds to its unit, and
\* a report that changes neither state nor power leaves it alone.
Updated(n, r, t) ==
    IF n.state # 0 /\ r.state # 0 /\ n.power = r.power THEN n
    ELSE [state |-> r.state, power |-> r.power, prev |-> t,
          unit |-> n.unit + Use(n) * (t - n.prev)]

\* Mutant: prev_time is not set.
Inserted_NoTime(r, t) ==
    [state |-> r.state, power |-> r.power, prev |-> Never, unit |-> 0]

Inserted(r, t) == [state |-> r.state, power |-> r.power, prev |-> t, unit |-> 0]

\* Mutant: a down record switches off the resources of every host.
Accounted_AllHosts(m, record) ==
    IF "down" \in DOMAIN record
    THEN [m EXCEPT !.node = [r \in Resources |->
             IF r \in m.listed THEN Updated(m.node[r], Off, record.at)
                               ELSE m.node[r]]]
    ELSE LET r == record.res IN
         [listed |-> m.listed \cup {r},
          node |-> [m.node EXCEPT ![r] = IF r \in m.listed
                        THEN Updated(@, record.rep, record.at)
                        ELSE Inserted(record.rep, record.at)]]

\* One line of the csv: a down record switches every resource of its host off.
Accounted(m, record) ==
    IF "down" \in DOMAIN record
    THEN [m EXCEPT !.node = [r \in Resources |->
             IF r \in m.listed /\ Host[r] = record.down
             THEN Updated(m.node[r], Off, record.at) ELSE m.node[r]]]
    ELSE LET r == record.res IN
         [listed |-> m.listed \cup {r},
          node |-> [m.node EXCEPT ![r] = IF r \in m.listed
                        THEN Updated(@, record.rep, record.at)
                        ELSE Inserted(record.rep, record.at)]]

\* The list of a gateway that has read nothing.
Nothing == [listed |-> {}, node |-> [r \in Resources |-> NoNode]]

\* The list after each line of the csv, and after the last one.
Replays(log) ==
    LET after[n \in 0 .. Len(log)] ==
            IF n = 0 THEN Nothing ELSE Accounted(after[n - 1], log[n])
    IN after

Replayed(log) == Replays(log)[Len(log)]
-----------------------------------------------------------------------------
(* onObserve.                                                              *)

Working == {r \in Resources : job[r] # "none"}

\* find_by_ip knows the resource, its ResourceLock is free, and its fields
\* take the values reported.  Reports arrive in any order and repeat.
Observe(r, report) ==
    /\ phase = "up" /\ job[r] = "none" /\ reports < MaxReports
    /\ Cardinality(Working) < MaxCallbacks
    /\ job' = [job EXCEPT ![r] = "locked"]
    /\ rep' = [rep EXCEPT ![r] = report]
    /\ reports' = reports + 1
    /\ UNCHANGED <<now, phase, walked, list, files, crashes, seen, ghosts>>

\* create_entry_in_database_file, under database_lock.
AppendEntry(r) ==
    /\ job[r] = "locked"
    /\ job' = [job EXCEPT ![r] = "appended"]
    /\ csv' = Append(csv, [res |-> r, rep |-> rep[r], at |-> now])
    /\ seen' = [seen EXCEPT ![r] = rep[r]]
    /\ UNCHANGED <<now, phase, rep, walked, list, status, reports, crashes,
                   ghosts>>

\* update_list finds the node and updates it.
Update(r) ==
    /\ job[r] = "appended" /\ r \in listed
    /\ job' = [job EXCEPT ![r] = "none"]
    /\ node' = [node EXCEPT ![r] = Updated(@, rep[r], now)]
    /\ rep' = [rep EXCEPT ![r] = Off]
    /\ UNCHANGED <<now, phase, walked, listed, files, reports, crashes, seen,
                   ghosts>>

\* It finds none: load_insert walks to the end of the list.
Walk(r) ==
    /\ job[r] = "appended" /\ r \notin listed
    /\ job' = [job EXCEPT ![r] = "inserting"]
    /\ walked' = [walked EXCEPT ![r] = listed]
    /\ UNCHANGED <<now, phase, rep, list, files, reports, crashes, seen,
                   ghosts>>

\* The node it links takes the place of all that were linked there since the
\* walk; if the node it links to was itself replaced, the new one is lost.
Insert(r) ==
    /\ job[r] = "inserting"
    /\ job' = [job EXCEPT ![r] = "none"]
    /\ IF walked[r] \subseteq listed
       THEN /\ listed' = walked[r] \cup {r}
            /\ node' = [node EXCEPT ![r] = Inserted(rep[r], now)]
       ELSE UNCHANGED list
    /\ rep' = [rep EXCEPT ![r] = Off]
    /\ walked' = [walked EXCEPT ![r] = {}]
    /\ raced' = (raced \/ walked[r] # listed)
    /\ UNCHANGED <<now, phase, files, reports, crashes, seen, used, alive,
                   uncovered, lostUse>>
-----------------------------------------------------------------------------
(* update_resource_live_status.                                            *)

\* Mutant: the time of a host that is in the file is not updated.
Stamped_Stale(h) ==
    IF \E i \in DOMAIN status : <<h, status[i].host>> \in IpPrefixes
    THEN status
    ELSE Append(status, [host |-> h, at |-> now])

\* The file after an ALIVE of h: its record replaces the first one whose
\* text begins with the ip of h, or is added at the end.
Stamped(h) ==
    LET i == SelectInSeq(status, LAMBDA s : <<h, s.host>> \in IpPrefixes)
        record == [host |-> h, at |-> now]
    IN IF i = 0 THEN Append(status, record) ELSE [status EXCEPT ![i] = record]

Alive(h) ==
    /\ phase = "up"
    /\ alive[h] # now
    /\ status' = Stamped(h)
    /\ alive' = [alive EXCEPT ![h] = now]
    /\ UNCHANGED <<now, phase, job, rep, walked, list, csv, reports, crashes,
                   seen, used, uncovered, raced, lostUse>>
-----------------------------------------------------------------------------
(* A crash, and iot_start.                                                 *)

\* The process ends, in the middle of callbacks or of its start.  The ghosts
\* keep what the files will not tell the next process.
Crash ==
    /\ phase # "down" /\ crashes < MaxCrashes
    /\ phase' = "down" /\ crashes' = crashes + 1
    /\ job' = [r \in Resources |-> "none"]
    /\ rep' = [r \in Resources |-> Off]
    /\ walked' = [r \in Resources |-> {}]
    /\ listed' = {} /\ node' = [r \in Resources |-> NoNode]
    /\ seen' = [r \in Resources |-> Off]
    /\ alive' = [h \in Hosts |-> Never]
    /\ LET Unstamped == {r \in Resources : alive[Host[r]] = Never} IN
       IF phase = "up"
       THEN /\ uncovered' = uncovered \cup Unstamped
            /\ lostUse' = [r \in Resources |-> IF r \in Unstamped THEN lostUse[r]
                    ELSE lostUse[r] + Use(seen[r]) * (now - alive[Host[r]])]
       ELSE UNCHANGED <<uncovered, lostUse>>
    /\ UNCHANGED <<now, files, reports, used, raced>>

\* populate_prev_resource_status: a down record for every line of the file,
Populate ==
    /\ phase = "down"
    /\ phase' = "populated"
    /\ csv' = csv \o [i \in DOMAIN status |->
                        [down |-> status[i].host, at |-> status[i].at]]
    /\ UNCHANGED <<now, job, rep, walked, list, status, reports, crashes,
                   seen, ghosts>>

\* then the file is removed.
RemoveStatus ==
    /\ phase = "populated"
    /\ phase' = "removed"
    /\ status' = <<>>
    /\ UNCHANGED <<now, job, rep, walked, list, csv, reports, crashes, seen,
                   ghosts>>

\* start_load_analysys.
LoadAnalysys ==
    /\ phase = "removed"
    /\ phase' = "up"
    /\ listed' = Replayed(csv).listed /\ node' = Replayed(csv).node
    /\ UNCHANGED <<now, job, rep, walked, files, reports, crashes, seen,
                   ghosts>>

Tick ==
    /\ now < MaxTime /\ Working = {} /\ phase \in {"up", "down"}
    /\ now' = now + 1
    /\ used' = IF phase = "up"
               THEN [r \in Resources |-> used[r] + Use(seen[r])] ELSE used
    /\ UNCHANGED <<phase, job, rep, walked, list, files, reports, crashes,
                   seen, alive, uncovered, raced, lostUse>>
-----------------------------------------------------------------------------
Next ==
    \/ \E r \in Resources :
         \/ \E report \in Reports : Observe(r, report)
         \/ AppendEntry(r) \/ Update(r) \/ Walk(r) \/ Insert(r)
    \/ \E h \in Hosts : Alive(h)
    \/ Crash \/ Populate \/ RemoveStatus \/ LoadAnalysys \/ Tick

Spec == Init /\ [][Next]_vars
-----------------------------------------------------------------------------
\* The consumption the meter would report of r now.
Metered(r) == IF r \in listed THEN node[r].unit + Pending(node[r]) ELSE 0

\* As long as the gateway lives and no two callbacks raced, the meter accounts
\* for every resource exactly what it used as reported, whatever order and
\* repetition of reports update_list is called with: each of its four cases
\* closes and opens the right interval.
MeterExact ==
    crashes = 0 /\ ~raced =>
        \A r \in Resources : job[r] = "none" => Metered(r) = used[r]

\* The meter after any crashes, also those in the middle of a callback or of
\* populate_prev_resource_status: of a resource whose host had been ALIVE, the
\* reported use between the last ALIVE and the crash is lost and nothing else;
\* and when callbacks race for the list, at least nothing is counted twice.
CrashLosesSinceAlive ==
    phase = "up" =>
        \A r \in Resources \ uncovered : job[r] = "none" =>
            /\ Metered(r) <= used[r] - lostUse[r]
            /\ ~raced => Metered(r) = used[r] - lostUse[r]

\* What is on record is what is known: the next start would compute the list
\* in memory from the csv, and the last ALIVE of every host ("update the file",
\* MulticastRecv.cpp:139) is there to date a crash.
OnRecord ==
    phase = "up" =>
        /\ ~raced /\ Working = {} =>
               [listed |-> listed, node |-> node] = Replayed(csv)
        /\ \A h \in Hosts : alive[h] # Never =>
               [host |-> h, at |-> alive[h]] \in ToSet(status)

\* consume_unit, "how much it is consumed so far" (resource_param.h line 33),
\* is not negative.
NotNegative == \A r \in listed : node[r].unit >= 0
=============================================================================
