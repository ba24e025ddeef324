------------------------------ MODULE Discovery ------------------------------
(***************************************************************************)
(* How the gateway and the hosts of the device server find each other.     *)
(*                                                                         *)
(* Every 10 seconds a host multicasts FINDME until a request has reached   *)
(* one of its resources, and ALIVE from then on (testserver/               *)
(* MulticastTrans.cpp, simpleserver.cpp).  The gateway's receiver answers  *)
(* FINDME with a discovery of that host (testclient/core/                  *)
(* MulticastRecv.cpp, resourcemgr/client.cpp): it stops the observer       *)
(* thread, sends the query, and starts the thread again.  The callback     *)
(* foundResource puts each resource in the list, in a new node, and makes  *)
(* the thread wait anew; after 5 quiet seconds the thread walks the list,  *)
(* with no lock, and observes what is not observed yet.                    *)
(*                                                                         *)
(* Time goes in steps of 10 / Period seconds, and it goes on when there is *)
(* nothing left to do: threads and messages take less than a step, or are  *)
(* lost.  A host reboots in more time than a walk of the list takes.       *)
(***************************************************************************)
EXTENDS Integers, Sequences, SequencesExt

CONSTANTS
    Hosts, Resources,
    Home,          \* [Resources -> Hosts]
    Uri,           \* the uri of a resource on its host
    Period,        \* steps of the clock in sleep(10)
    Quiet,         \* steps in the 5 seconds of the select
    Boots,         \* the phases of the hosts when the gateway starts
    MaxLost,       \* bound: messages lost
    MaxOutages,    \* bound: reboots of hosts and restarts of the gateway
    None,          \* no node, no host
    Freed          \* a node that has been deleted

ASSUME DiscoveryAssumption ==
    /\ Home \in [Resources -> Hosts]
    /\ Resources = DOMAIN Uri
    /\ {Period, Quiet} \subseteq Nat \ {0} /\ Quiet < Period
    /\ Boots \subseteq [Hosts -> 0 .. Period - 1]
    /\ {MaxLost, MaxOutages} \subseteq Nat
    /\ None \notin Resources \cup Hosts /\ Freed \notin Resources \cup {None}

VARIABLES
    clock,           \* modulo Period
    phase,           \* when a host's sleep ends
    due,             \* hosts whose sleep has ended
    isfound,         \* of each host
    inbox,           \* hosts whose FINDME the receiver has not read
    receiver,        \* where bcastReceiver is
    who,             \* the host whose FINDME it handles
    observer,        \* where the observer thread is
    cancelled,       \* it has been cancelled
    timer,           \* steps since its select began
    at,              \* the node its walk has come to
    tokens,          \* written in observer_pipes and not read
    list,            \* the resources of the list, each in one node
    observer_status, \* in the node of a resource
    queries,         \* hosts a discovery is on its way to
    callbacks,       \* resources foundResource will be called for
    observing,       \* observe requests on their way
    observed,        \* resources that notify the gateway
    lost, outages,
    missed           \* ghost: resources that lost a message nothing repeats

beacons == <<clock, phase, due>>
gateway == <<receiver, who>>
thread == <<observer, cancelled, timer, at>>
nodes == <<list, observer_status>>
network == <<queries, callbacks, observing>>
bounds == <<lost, outages>>
vars == <<beacons, isfound, inbox, gateway, thread, tokens, nodes, network,
          observed, bounds, missed>>

Walking == observer \in {"walk", "observe"}
On(h) == {r \in Resources : Home[r] = h}

TypeOK ==
    /\ clock \in 0 .. Period - 1
    /\ phase \in [Hosts -> 0 .. Period - 1]
    /\ due \subseteq Hosts /\ inbox \subseteq Hosts /\ queries \subseteq Hosts
    /\ isfound \in [Hosts -> BOOLEAN]
    /\ receiver \in {"recv", "stop", "join", "find", "start"}
    /\ who \in Hosts \cup {None}
    /\ observer \in {"ended", "select", "walk", "observe"}
    /\ cancelled \in BOOLEAN
    /\ timer \in 0 .. Quiet
    /\ at \in Resources \cup {None, Freed}
    /\ tokens \in Nat
    /\ list \in Seq(Resources)
    /\ \A i, j \in DOMAIN list : Uri[list[i]] = Uri[list[j]] => i = j
    /\ observer_status \in [Resources -> 0 .. 1]
    /\ callbacks \subseteq Resources /\ observing \subseteq Resources
    /\ observed \subseteq Resources /\ missed \subseteq Resources
    /\ lost \in 0 .. MaxLost /\ outages \in 0 .. MaxOutages

\* The hosts have booted, at any moments, and the gateway starts.
Init ==
    /\ clock = 0 /\ phase \in Boots /\ due = {}
    /\ isfound = [h \in Hosts |-> FALSE]
    /\ inbox = {} /\ receiver = "recv" /\ who = None
    /\ observer = "select" /\ cancelled = FALSE /\ timer = 0 /\ at = None
    /\ tokens = 0
    /\ list = <<>> /\ observer_status = [r \in Resources |-> 0]
    /\ queries = Hosts /\ callbacks = {} /\ observing = {}
    /\ observed = {} /\ missed = {}
    /\ lost = 0 /\ outages = 0
-----------------------------------------------------------------------------
(* bcastTrans of a host.                                                   *)
SendFindme(h) ==
    /\ h \in due /\ ~isfound[h]
    /\ due' = due \ {h}
    /\ inbox' = inbox \cup {h}
    /\ UNCHANGED <<clock, phase, isfound, gateway, thread, tokens, nodes,
                   network, observed, bounds, missed>>

\* ALIVE keeps the status file, which is not modelled here.
SendAlive(h) ==
    /\ h \in due /\ isfound[h]
    /\ due' = due \ {h}
    /\ UNCHANGED <<clock, phase, isfound, inbox, gateway, thread, tokens,
                   nodes, network, observed, bounds, missed>>
-----------------------------------------------------------------------------
(* bcastReceiver and send_unicast_request.                                 *)
Receiver(from, to) == receiver = from /\ receiver' = to

Receive(h) ==
    /\ Receiver("recv", "stop")
    /\ h \in inbox
    /\ inbox' = inbox \ {h} /\ who' = h
    /\ UNCHANGED <<beacons, isfound, thread, tokens, nodes, network, observed,
                   bounds, missed>>

StopObserver ==
    /\ Receiver("stop", "join")
    /\ cancelled' = TRUE
    /\ UNCHANGED <<beacons, isfound, inbox, who, observer, timer, at, tokens,
                   nodes, network, observed, bounds, missed>>

\* Mutant: the thread is cancelled and not joined.
Join_NoWait ==
    /\ Receiver("join", "find")
    /\ cancelled' = FALSE
    /\ UNCHANGED <<beacons, isfound, inbox, who, observer, timer, at, tokens,
                   nodes, network, observed, bounds, missed>>

Join ==
    /\ Receiver("join", "find")
    /\ observer = "ended"
    /\ cancelled' = FALSE
    /\ UNCHANGED <<beacons, isfound, inbox, who, observer, timer, at, tokens,
                   nodes, network, observed, bounds, missed>>

FindResource ==
    /\ Receiver("find", "start")
    /\ queries' = queries \cup {who}
    /\ UNCHANGED <<beacons, isfound, inbox, who, thread, tokens, nodes,
                   callbacks, observing, observed, bounds, missed>>

StartObserver ==
    /\ Receiver("start", "recv")
    /\ who' = None
    /\ observer' = "select" /\ timer' = 0
    /\ UNCHANGED <<beacons, isfound, inbox, cancelled, at, tokens, nodes,
                   network, observed, bounds, missed>>
-----------------------------------------------------------------------------
(* foundResource.                                                          *)

\* Both addresses that find_by_host and delete_node compare are in the one
\* static buffer of getipadr_from_hostaddr: a uri alone makes a match.
Matches(r) == {i \in DOMAIN list : Uri[list[i]] = Uri[r]}

Without(r) ==
    IF Matches(r) = {} THEN list
    ELSE RemoveAt(list, CHOOSE i \in Matches(r) :
                            \A j \in Matches(r) : i <= j)

\* Mutant: the existing node is kept.
FoundResource_Keeps(r) ==
    /\ r \in callbacks
    /\ callbacks' = callbacks \ {r}
    /\ tokens' = tokens + 1
    /\ list' = IF Matches(r) = {} THEN Append(list, r) ELSE list
    /\ missed' = missed \ {r}
    /\ UNCHANGED <<beacons, isfound, inbox, gateway, thread, observer_status,
                   queries, observing, observed, bounds>>

FoundResource(r) ==
    /\ r \in callbacks
    /\ callbacks' = callbacks \ {r}
    /\ tokens' = tokens + 1
    /\ list' = Append(Without(r), r)
    /\ observer_status' = [observer_status EXCEPT ![r] = 0]
    /\ at' = IF at \in Resources /\ Uri[at] = Uri[r] THEN Freed ELSE at
    /\ missed' = missed \ {r}
    /\ UNCHANGED <<beacons, isfound, inbox, gateway, observer, cancelled,
                   timer, queries, observing, observed, bounds>>
-----------------------------------------------------------------------------
(* StartAllObserver, the observer thread.                                  *)
ReadToken ==
    /\ observer = "select" /\ tokens > 0
    /\ tokens' = tokens - 1 /\ timer' = 0
    /\ UNCHANGED <<beacons, isfound, inbox, gateway, observer, cancelled, at,
                   nodes, network, observed, bounds, missed>>

\* The thread goes to node n of the list, or ends after the last.
WalkTo(n) ==
    IF n \in DOMAIN list THEN observer' = "walk" /\ at' = list[n]
    ELSE observer' = "ended" /\ at' = None

SelectTimeout ==
    /\ observer = "select" /\ tokens = 0 /\ timer = Quiet
    /\ WalkTo(1)
    /\ UNCHANGED <<beacons, isfound, inbox, gateway, cancelled, timer, tokens,
                   nodes, network, observed, bounds, missed>>

\* Mutant: the walk ends at a resource that is observed already.
Pass_Ends(n) ==
    /\ observer = "walk" /\ list[n] = at /\ observer_status[at] = 1
    /\ observer' = "ended" /\ at' = None
    /\ UNCHANGED <<beacons, isfound, inbox, gateway, cancelled, timer, tokens,
                   nodes, network, observed, bounds, missed>>

Pass(n) ==
    /\ observer = "walk" /\ list[n] = at /\ observer_status[at] = 1
    /\ WalkTo(n + 1)
    /\ UNCHANGED <<beacons, isfound, inbox, gateway, cancelled, timer, tokens,
                   nodes, network, observed, bounds, missed>>

\* Start_Observe sets the status first,
SetStatus ==
    /\ observer = "walk" /\ observer_status[at] = 0
    /\ observer' = "observe"
    /\ observer_status' = [observer_status EXCEPT ![at] = 1]
    /\ UNCHANGED <<beacons, isfound, inbox, gateway, cancelled, timer, at,
                   tokens, list, network, observed, bounds, missed>>

\* and then sends the request.
Observe(n) ==
    /\ observer = "observe" /\ list[n] = at
    /\ observing' = observing \cup {at}
    /\ WalkTo(n + 1)
    /\ UNCHANGED <<beacons, isfound, inbox, gateway, cancelled, timer, tokens,
                   nodes, queries, callbacks, observed, bounds, missed>>

\* The thread meets a cancellation point: in select, or anywhere in its walk.
Die ==
    /\ cancelled /\ observer # "ended"
    /\ observer' = "ended" /\ at' = None
    /\ missed' = missed \cup IF observer = "observe" THEN {at} ELSE {}
    /\ UNCHANGED <<beacons, isfound, inbox, gateway, cancelled, timer, tokens,
                   nodes, network, observed, bounds>>
-----------------------------------------------------------------------------
(* The network, and the entity handler of a host.                          *)
Answer(h) ==
    /\ h \in queries
    /\ queries' = queries \ {h}
    /\ callbacks' = callbacks \cup On(h)
    /\ UNCHANGED <<beacons, isfound, inbox, gateway, thread, tokens, nodes,
                   observing, observed, bounds, missed>>

Observed(r) ==
    /\ r \in observing
    /\ observing' = observing \ {r}
    /\ observed' = observed \cup {r}
    /\ isfound' = [isfound EXCEPT ![Home[r]] = TRUE]
    /\ UNCHANGED <<beacons, inbox, gateway, thread, tokens, nodes, queries,
                   callbacks, bounds, missed>>

\* A request of the UI, the cloud or a schedule is the first to reach a host.
Requested(h) ==
    /\ ~isfound[h] /\ \E n \in DOMAIN list : Home[list[n]] = h
    /\ isfound' = [isfound EXCEPT ![h] = TRUE]
    /\ missed' = missed \cup On(h)
    /\ UNCHANGED <<beacons, inbox, gateway, thread, tokens, nodes, network,
                   observed, bounds>>

\* A FINDME, a discovery with its answer, or an observe request is lost.
Lose ==
    /\ lost < MaxLost /\ lost' = lost + 1
    /\ \/ \E h \in inbox : inbox' = inbox \ {h}
          /\ UNCHANGED <<queries, observing, missed>>
       \/ \E h \in queries :
             queries' = queries \ {h} /\ missed' = missed \cup On(h)
          /\ UNCHANGED <<inbox, observing>>
       \/ \E r \in observing :
             observing' = observing \ {r} /\ missed' = missed \cup {r}
          /\ UNCHANGED <<inbox, queries>>
    /\ UNCHANGED <<beacons, isfound, gateway, thread, tokens, nodes,
                   callbacks, observed, outages>>

\* If the last walk was cancelled among the resources of h, the next one will
\* make h found before the resources that were observed are looked at again.
Reboot(h) ==
    /\ outages < MaxOutages /\ outages' = outages + 1
    /\ ~Walking /\ observing = {}
    /\ isfound' = [isfound EXCEPT ![h] = FALSE]
    /\ phase' = [phase EXCEPT ![h] = clock] /\ due' = due \ {h}
    /\ observed' = observed \ On(h)
    /\ missed' = missed \cup IF \E n \in DOMAIN list : Home[list[n]] = h
                                          /\ observer_status[list[n]] = 0
                             THEN On(h) ELSE {}
    /\ UNCHANGED <<clock, inbox, gateway, thread, tokens, nodes, network,
                   lost>>

\* The gateway dies and starts again: iot_start sends one multicast.
Restart ==
    /\ outages < MaxOutages /\ outages' = outages + 1
    /\ inbox' = {} /\ receiver' = "recv" /\ who' = None
    /\ observer' = "select" /\ cancelled' = FALSE /\ timer' = 0 /\ at' = None
    /\ tokens' = 0
    /\ list' = <<>> /\ observer_status' = [r \in Resources |-> 0]
    /\ queries' = Hosts /\ callbacks' = {} /\ observing' = {}
    /\ observed' = {} /\ missed' = {}
    /\ UNCHANGED <<beacons, isfound, lost>>

\* Time goes on when nothing is at work.
Tick ==
    /\ due = {} /\ inbox = {} /\ receiver = "recv"
    /\ queries = {} /\ callbacks = {} /\ observing = {}
    /\ \/ observer = "ended"
       \/ observer = "select" /\ tokens = 0 /\ timer < Quiet
    /\ clock' = (clock + 1) % Period
    /\ due' = {h \in Hosts : phase[h] = clock'}
    /\ timer' = IF observer = "select" THEN timer + 1 ELSE timer
    /\ UNCHANGED <<phase, isfound, inbox, gateway, observer, cancelled, at,
                   tokens, nodes, network, observed, bounds, missed>>
-----------------------------------------------------------------------------
Beacons == \E h \in Hosts : SendFindme(h) \/ SendAlive(h)

Receiving ==
    \/ \E h \in Hosts : Receive(h)
    \/ StopObserver \/ Join \/ FindResource \/ StartObserver

Observing ==
    \/ ReadToken \/ SelectTimeout \/ SetStatus \/ Die
    \/ \E n \in DOMAIN list : Pass(n) \/ Observe(n)

Delivery ==
    \/ \E h \in Hosts : Answer(h)
    \/ \E r \in Resources : FoundResource(r) \/ Observed(r)

Next ==
    \/ Beacons \/ Receiving \/ Observing \/ Delivery \/ Tick
    \/ Lose \/ Restart
    \/ \E h \in Hosts : Requested(h) \/ Reboot(h)

\* Threads run, what is not lost arrives, and time goes on.
Fairness ==
    /\ WF_vars(Beacons) /\ WF_vars(Receiving) /\ WF_vars(Observing)
    /\ WF_vars(Delivery) /\ WF_vars(Tick)

Spec == Init /\ [][Next]_vars /\ Fairness
-----------------------------------------------------------------------------
(* The observer thread never stands on a node that foundResource deleted   *)
(* under it: the join before each discovery and the 5 seconds after the    *)
(* last answer keep its walk, which takes no lock, apart from the          *)
(* deletions.                                                              *)
NoUseAfterFree == at # Freed

\* After the FINDME of some host more than 5 seconds pass before the next.
Gap ==
    \E h \in Hosts : \A g \in Hosts :
        (phase[g] - phase[h]) % Period \notin 1 .. Quiet

(* Lost messages, reboots and restarts delay it, but every host is found   *)
(* again, if the FINDMEs leave the observer thread its 5 seconds.          *)
HostsFound == <>[]Gap => \A h \in Hosts : <>[]isfound[h]

(* After the last reboot of a host and restart of the gateway, a resource  *)
(* comes to notify the gateway, unless one of the messages was lost that   *)
(* nothing repeats, or another request reached the host before its FINDME. *)
ResourcesObserved ==
    \A r \in Resources :
        <>[]Gap /\ <>[](r \notin missed) => <>[](r \in observed)
=============================================================================
