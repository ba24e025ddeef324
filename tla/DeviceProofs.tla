---------------------------- MODULE DeviceProofs ----------------------------
(***************************************************************************)
(* Proofs about the devices: how the gateway finds and observes them, what *)
(* a device serves, and the two sides of its ioctl.                        *)
(*                                                                         *)
(* Discovery, for any hosts, resources, periods and bounds.  A node is     *)
(* deleted only in an answer to a discovery, and the observer thread walks *)
(* the list only after it has waited.  The bridge between the two is       *)
(* Apart: a discovery is sent when the thread has been joined, the wait of *)
(* the next thread does not begin to pass before the answers are in, so a  *)
(* thread that has waited, or walks, has none to come.                     *)
(*                                                                         *)
(* ServerResource, for any requests, observers and types.  That automatic  *)
(* mode has its thread rests on what the flag says at each point of put    *)
(* (Automatic): raised, it means that the mode is on, so the thread it     *)
(* stands for cannot have left its loop.                                   *)
(*                                                                         *)
(* SwitchDriver, for any threads, requests and width.  The semaphore       *)
(* admits one thread (Mutex); so what the thread copied in, or read from   *)
(* the port, is still there and still true when it uses it (Copied), which *)
(* is what makes the steps of an ioctl one atomic step.                    *)
(***************************************************************************)
EXTENDS Discovery, ServerResource, SwitchDriver, SequenceTheorems, TLAPS

(* Discovery.                                                              *)

USE DiscoveryAssumption

Apart ==
    /\ receiver # "recv" => who \in Hosts
    /\ receiver \in {"find", "start"} => observer = "ended"
    /\ observer = "select" /\ timer > 0 => queries = {} /\ callbacks = {}
    /\ Walking => queries = {} /\ callbacks = {}
    /\ IF Walking THEN at \in Resources ELSE at = None

IInv == TypeOK /\ Apart

LEMMA Bounds ==
    /\ Period \in Nat /\ Period > 0 /\ Quiet \in Nat /\ Quiet > 0
    /\ MaxLost \in Nat /\ MaxOutages \in Nat
  OBVIOUS

LEMMA InitInv == Init => IInv
<1> SUFFICES ASSUME Init PROVE IInv
  OBVIOUS
<1>1. TypeOK
  <2>1. clock \in 0 .. Period - 1 /\ timer \in 0 .. Quiet
        /\ lost \in 0 .. MaxLost /\ outages \in 0 .. MaxOutages
    BY Bounds DEF Init
  <2>2. list \in Seq(Resources) /\ DOMAIN list = {}
    BY DEF Init
  <2>3. phase \in [Hosts -> 0 .. Period - 1]
    BY DEF Init
  <2>4. \A i, j \in DOMAIN list : Uri[list[i]] = Uri[list[j]] => i = j
    BY <2>2
  <2>5. isfound \in [Hosts -> BOOLEAN]
    BY Zenon DEF Init
  <2>6. observer_status \in [Resources -> 0 .. 1]
    BY DEF Init
  <2>7. cancelled \in BOOLEAN
    BY DEF Init
  <2> QED BY <2>1, <2>2, <2>3, <2>4, <2>5, <2>6, <2>7 DEF Init, TypeOK
<1>2. Apart
  BY DEF Init, Apart, Walking
<1> QED BY <1>1, <1>2 DEF IInv

(* Deleting the node that matches leaves the others, each once.            *)
LEMMA WithoutProperties ==
    ASSUME TypeOK, NEW r \in Resources
    PROVE  /\ Without(r) \in Seq(Resources)
           /\ \A i \in DOMAIN Without(r) : Uri[Without(r)[i]] # Uri[r]
           /\ \A i, j \in DOMAIN Without(r) :
                Uri[Without(r)[i]] = Uri[Without(r)[j]] => i = j
<1> DEFINE W == Without(r)
<1>0. /\ list \in Seq(Resources)
      /\ \A i, j \in DOMAIN list : Uri[list[i]] = Uri[list[j]] => i = j
  BY DEF TypeOK
<1>1. CASE Matches(r) = {}
  BY <1>0, <1>1 DEF Without, Matches
<1>2. CASE Matches(r) # {}
  <2>1. PICK m \in Matches(r) : TRUE
    BY <1>2
  <2>2. \A j \in Matches(r) : j = m
    BY <2>1, <1>0 DEF Matches
  <2>3. m \in 1 .. Len(list) /\ Uri[list[m]] = Uri[r]
    BY <2>1, <1>0 DEF Matches
  <2>4. W = RemoveAt(list, m)
    <3>1. (CHOOSE i \in Matches(r) : \A j \in Matches(r) : i <= j) = m
      <4> DEFINE c == CHOOSE i \in Matches(r) : \A j \in Matches(r) : i <= j
      <4>1. m <= m
        BY <2>3, <1>0
      <4>2. \E i \in Matches(r) : \A j \in Matches(r) : i <= j
        <5>1. \A j \in Matches(r) : m <= j
          BY <4>1, <2>2
        <5> QED BY <5>1, <2>1
      <4>3. c \in Matches(r)
        BY <4>2
      <4> QED BY <4>3, <2>2
    <3> QED BY <3>1, <1>2 DEF Without
  <2> DEFINE A == SubSeq(list, 1, m - 1)
             B == SubSeq(list, m + 1, Len(list))
  <2>5. /\ A \in Seq(Resources) /\ Len(A) = m - 1
        /\ \A i \in 1 .. m - 1 : A[i] = list[i]
    BY <1>0, <2>3, SubSeqProperties
  <2>6. /\ B \in Seq(Resources) /\ Len(B) = Len(list) - m
        /\ \A i \in 1 .. Len(list) - m : B[i] = list[m + i]
    BY <1>0, <2>3, SubSeqProperties
  <2>7. /\ W \in Seq(Resources) /\ Len(W) = Len(list) - 1
        /\ \A i \in 1 .. Len(list) - 1 :
              W[i] = IF i < m THEN list[i] ELSE list[i + 1]
    <3>1. W = A \o B
      BY <2>4 DEF RemoveAt
    <3> HIDE DEF A, B, W
    <3>2. /\ A \o B \in Seq(Resources)
          /\ Len(A \o B) = Len(A) + Len(B)
          /\ \A i \in 1 .. Len(A) + Len(B) :
                (A \o B)[i] = IF i <= Len(A) THEN A[i] ELSE B[i - Len(A)]
      <4>1. A \in Seq(Resources) /\ B \in Seq(Resources)
        BY <2>5, <2>6
      <4> QED BY <4>1, ConcatProperties
    <3>3. m \in Int /\ Len(list) \in Int /\ m >= 1 /\ m <= Len(list)
      BY <2>3, <1>0
    <3>4. W \in Seq(Resources) /\ Len(W) = Len(list) - 1
      BY <3>1, <3>2, <3>3, <2>5, <2>6
    <3>5. ASSUME NEW i \in 1 .. Len(list) - 1
          PROVE  W[i] = IF i < m THEN list[i] ELSE list[i + 1]
      <4>1. CASE i < m
        BY <4>1, <3>1, <3>2, <3>3, <2>5, <2>6
      <4>2. CASE i >= m
        <5>1. i - Len(A) \in 1 .. Len(list) - m
          BY <4>2, <3>3, <2>5
        <5>2. B[i - Len(A)] = list[m + (i - Len(A))]
          BY <5>1, <2>6
        <5>3. m + (i - Len(A)) = i + 1 /\ ~(i <= Len(A))
          BY <4>2, <3>3, <2>5
        <5> QED BY <5>2, <5>3, <4>2, <3>1, <3>2, <3>3, <2>5, <2>6, SMTT(40)
      <4> QED BY <4>1, <4>2, <3>3
    <3> QED BY <3>4, <3>5
  <2> DEFINE old(i) == IF i < m THEN i ELSE i + 1
  <2> HIDE DEF W
  <2>8. \A i \in DOMAIN W : old(i) \in DOMAIN list /\ old(i) # m
                            /\ W[i] = list[old(i)]
    <3>1. DOMAIN W = 1 .. Len(list) - 1 /\ DOMAIN list = 1 .. Len(list)
          /\ Len(list) \in Nat
      BY <2>7, <1>0
    <3> QED BY <3>1, <2>3, <2>7
  <2>9. \A i, j \in DOMAIN W : old(i) = old(j) => i = j
    BY <2>7, <2>3
  <2>10. /\ \A i \in DOMAIN W : Uri[W[i]] # Uri[r]
         /\ \A i, j \in DOMAIN W : Uri[W[i]] = Uri[W[j]] => i = j
    <3> HIDE DEF old
    <3> QED BY <2>8, <2>9, <2>3, <1>0
  <2> QED BY <2>7, <2>10 DEF W
<1> QED BY <1>1, <1>2

(* foundResource keeps the list: one node for every uri in it.             *)
LEMMA ListStep ==
    ASSUME TypeOK, NEW r \in Resources, list' = Append(Without(r), r)
    PROVE  /\ list' \in Seq(Resources)
           /\ \A i, j \in DOMAIN list' : Uri[list'[i]] = Uri[list'[j]] => i = j
<1> DEFINE W == Without(r)
<1>1. /\ W \in Seq(Resources)
      /\ \A i \in DOMAIN W : Uri[W[i]] # Uri[r]
      /\ \A i, j \in DOMAIN W : Uri[W[i]] = Uri[W[j]] => i = j
  BY WithoutProperties
<1> HIDE DEF W
<1>2. /\ list' \in Seq(Resources) /\ Len(list') = Len(W) + 1
      /\ \A i \in 1 .. Len(W) : list'[i] = W[i]
      /\ list'[Len(W) + 1] = r
  BY <1>1, AppendProperties DEF W
<1> QED BY <1>1, <1>2

(* Every step keeps the types.                                             *)
LEMMA TypeStep == IInv /\ [Next]_vars => TypeOK'
<1> SUFFICES ASSUME IInv, [Next]_vars PROVE TypeOK'
  OBVIOUS
<1> USE Bounds DEF IInv, TypeOK, Apart, Receiver, WalkTo, Walking, On,
        beacons, gateway, thread, nodes, network, bounds
<1>1. CASE UNCHANGED vars
  BY <1>1 DEF vars
<1>2. ASSUME NEW h \in Hosts, SendFindme(h) PROVE TypeOK'
  BY <1>2 DEF SendFindme
<1>3. ASSUME NEW h \in Hosts, SendAlive(h) PROVE TypeOK'
  BY <1>3 DEF SendAlive
<1>4. ASSUME NEW h \in Hosts, Receive(h) PROVE TypeOK'
  BY <1>4 DEF Receive
<1>5. ASSUME StopObserver PROVE TypeOK'
  BY <1>5 DEF StopObserver
<1>6. ASSUME Join PROVE TypeOK'
  BY <1>6 DEF Join
<1>7. ASSUME FindResource PROVE TypeOK'
  BY <1>7 DEF FindResource
<1>8. ASSUME StartObserver PROVE TypeOK'
  BY <1>8 DEF StartObserver
<1>9. ASSUME ReadToken PROVE TypeOK'
  BY <1>9 DEF ReadToken
<1>10. ASSUME SelectTimeout PROVE TypeOK'
  BY <1>10 DEF SelectTimeout
<1>11. ASSUME SetStatus PROVE TypeOK'
  BY <1>11 DEF SetStatus
<1>12. ASSUME Die PROVE TypeOK'
  BY <1>12 DEF Die
<1>13. ASSUME NEW n \in DOMAIN list, Pass(n) PROVE TypeOK'
  BY <1>13 DEF Pass
<1>14. ASSUME NEW n \in DOMAIN list, Observe(n) PROVE TypeOK'
  BY <1>14 DEF Observe
<1>15. ASSUME NEW h \in Hosts, Answer(h) PROVE TypeOK'
  BY <1>15 DEF Answer
<1>16. ASSUME NEW r \in Resources, FoundResource(r) PROVE TypeOK'
  <2>1. /\ list' \in Seq(Resources)
        /\ \A i, j \in DOMAIN list' : Uri[list'[i]] = Uri[list'[j]] => i = j
    BY <1>16, ListStep DEF FoundResource
  <2>2. at' \in Resources \cup {None, Freed}
    BY <1>16 DEF FoundResource
  <2>3. /\ callbacks' \subseteq Resources /\ missed' \subseteq Resources
        /\ observer_status' \in [Resources -> 0 .. 1] /\ tokens' \in Nat
    BY <1>16 DEF FoundResource
  <2> QED BY <2>1, <2>2, <2>3, <1>16 DEF FoundResource
<1>17. ASSUME NEW r \in Resources, Observed(r) PROVE TypeOK'
  BY <1>17 DEF Observed
<1>18. ASSUME Tick PROVE TypeOK'
  BY <1>18 DEF Tick
<1>19. ASSUME Lose PROVE TypeOK'
  BY <1>19 DEF Lose
<1>20. ASSUME Restart PROVE TypeOK'
  <2>1. list' \in Seq(Resources) /\ DOMAIN list' = {}
    BY <1>20 DEF Restart
  <2>2. \A i, j \in DOMAIN list' : Uri[list'[i]] = Uri[list'[j]] => i = j
    BY <2>1
  <2>3. outages' \in 0 .. MaxOutages /\ timer' \in 0 .. Quiet
    BY <1>20 DEF Restart
  <2>4. observer_status' \in [Resources -> 0 .. 1]
    BY <1>20 DEF Restart
  <2> QED BY <2>1, <2>2, <2>3, <2>4, <1>20 DEF Restart
<1>21. ASSUME NEW h \in Hosts, Requested(h) PROVE TypeOK'
  BY <1>21 DEF Requested
<1>22. ASSUME NEW h \in Hosts, Reboot(h) PROVE TypeOK'
  BY <1>22 DEF Reboot
<1> QED
  BY <1>1, <1>2, <1>3, <1>4, <1>5, <1>6, <1>7, <1>8, <1>9, <1>10, <1>11,
     <1>12, <1>13, <1>14, <1>15, <1>16, <1>17, <1>18, <1>19, <1>20, <1>21,
     <1>22
  DEF Next, Beacons, Receiving, Observing, Delivery

(* Every step keeps deletions and walks apart.                             *)
LEMMA ApartStep == IInv /\ [Next]_vars => Apart'
<1> SUFFICES ASSUME IInv, [Next]_vars PROVE Apart'
  OBVIOUS
<1> USE Bounds DEF IInv, TypeOK, Apart, Receiver, WalkTo, Walking, On,
        beacons, gateway, thread, nodes, network, bounds
<1>1. CASE UNCHANGED vars
  BY <1>1 DEF vars
<1>2. ASSUME NEW h \in Hosts, SendFindme(h) PROVE Apart'
  BY <1>2 DEF SendFindme
<1>3. ASSUME NEW h \in Hosts, SendAlive(h) PROVE Apart'
  BY <1>3 DEF SendAlive
<1>4. ASSUME NEW h \in Hosts, Receive(h) PROVE Apart'
  BY <1>4 DEF Receive
<1>5. ASSUME StopObserver PROVE Apart'
  BY <1>5 DEF StopObserver
<1>6. ASSUME Join PROVE Apart'
  BY <1>6 DEF Join
<1>7. ASSUME FindResource PROVE Apart'
  BY <1>7 DEF FindResource
<1>8. ASSUME StartObserver PROVE Apart'
  BY <1>8 DEF StartObserver
<1>9. ASSUME ReadToken PROVE Apart'
  BY <1>9 DEF ReadToken
<1>10. ASSUME SelectTimeout PROVE Apart'
  BY <1>10 DEF SelectTimeout
<1>11. ASSUME SetStatus PROVE Apart'
  BY <1>11 DEF SetStatus
<1>12. ASSUME Die PROVE Apart'
  BY <1>12 DEF Die
<1>13. ASSUME NEW n \in DOMAIN list, Pass(n) PROVE Apart'
  BY <1>13 DEF Pass
<1>14. ASSUME NEW n \in DOMAIN list, Observe(n) PROVE Apart'
  BY <1>14 DEF Observe
<1>15. ASSUME NEW h \in Hosts, Answer(h) PROVE Apart'
  BY <1>15 DEF Answer
<1>16. ASSUME NEW r \in Resources, FoundResource(r) PROVE Apart'
  BY <1>16 DEF FoundResource
<1>17. ASSUME NEW r \in Resources, Observed(r) PROVE Apart'
  BY <1>17 DEF Observed
<1>18. ASSUME Tick PROVE Apart'
  BY <1>18 DEF Tick
<1>19. ASSUME Lose PROVE Apart'
  BY <1>19 DEF Lose
<1>20. ASSUME Restart PROVE Apart'
  BY <1>20 DEF Restart
<1>21. ASSUME NEW h \in Hosts, Requested(h) PROVE Apart'
  BY <1>21 DEF Requested
<1>22. ASSUME NEW h \in Hosts, Reboot(h) PROVE Apart'
  BY <1>22 DEF Reboot
<1> QED
  BY <1>1, <1>2, <1>3, <1>4, <1>5, <1>6, <1>7, <1>8, <1>9, <1>10, <1>11,
     <1>12, <1>13, <1>14, <1>15, <1>16, <1>17, <1>18, <1>19, <1>20, <1>21,
     <1>22
  DEF Next, Beacons, Receiving, Observing, Delivery

THEOREM Inductive == Spec => []IInv
<1>1. IInv /\ [Next]_vars => IInv'
  BY TypeStep, ApartStep DEF IInv
<1> QED BY InitInv, <1>1, PTL DEF Spec

(* Every variable keeps its type, and the list has one node for a uri.     *)
THEOREM TypeCorrect == Spec => []TypeOK
<1>1. IInv => TypeOK
  BY DEF IInv
<1> QED BY <1>1, Inductive, PTL

(* The observer thread never stands on a deleted node.                     *)
THEOREM WalkSafe == Spec => []NoUseAfterFree
<1>1. IInv => NoUseAfterFree
  BY DEF IInv, Apart, NoUseAfterFree
<1> QED BY <1>1, Inductive, PTL
-----------------------------------------------------------------------------
(* ServerResource.                                                         *)

HIDE DiscoveryAssumption

USE PinsAssumption, ServerResourceAssumption

\* Where put looks neither at auto_status nor at the flag.
Elsewhere == {"idle", "switch", "power", "intensity", "delay", "auto"}

ALoop == \E t \in Threads : auto[t] = "loop"

Automatic ==
    /\ handler \in Elsewhere => (auto_status = 1 => ALoop)
    /\ handler \in Elsewhere => (is_auto_thread_running => auto_status = 1)
    /\ handler = "auto_test" =>
        (auto_status = 1 /\ is_auto_thread_running => ALoop)
    /\ handler = "flag" => auto_status = 1 /\ ALoop

Handling ==
    /\ handler # "idle" => puts \in Threads /\ put \in Puts
    /\ handler = "auto_test" => put.auto # Absent
    /\ handler = "delay" => m_power = 0 \/ m_power \in 10 .. 100

ServerInv == ServerTypeOK /\ Handling /\ Automatic

LEMMA DelayBounded ==
    ASSUME NEW power \in 10 .. 100 PROVE 100 \div power \in 0 .. 10
OBVIOUS

LEMMA ServerInitInv == ServerInit => ServerInv
<1> SUFFICES ASSUME ServerInit PROVE ServerInv
  OBVIOUS
<1>1. auto \in [Threads -> {"none", "loop", "left", "ended"}]
  BY DEF ServerInit
<1>2. sent \in [Observers -> [state : 0 .. 1, power : Nat]]
  BY DEF ServerInit
<1>3. /\ type \in Types
      /\ m_state \in 0 .. 1 /\ m_power \in Nat /\ auto_status \in 0 .. 1
      /\ intens \in 0 .. 1 /\ held \in 0 .. 1 /\ delay_ns \in 0 .. 10
      /\ port \in SUBSET Pins /\ put = NoPut /\ observers \in SUBSET Observers
      /\ startedThread \in 0 .. 1 /\ gObservation \in 0 .. 1
      /\ old_power \in Nat /\ old_state \in 0 .. 1 /\ puts \in 0 .. MaxPuts
  BY DEF ServerInit
<1>4. ServerTypeOK
  BY <1>1, <1>2, <1>3 DEF ServerInit, ServerTypeOK
<1>5. Handling /\ Automatic
  BY DEF ServerInit, Handling, Automatic, Elsewhere
<1> QED
  BY <1>4, <1>5 DEF ServerInv

(* Every step keeps the types and what put relies on.                      *)
LEMMA ServerTypeStep == ServerInv /\ [ServerNext]_serverVars => ServerTypeOK' /\ Handling'
<1> SUFFICES ASSUME ServerInv, [ServerNext]_serverVars PROVE ServerTypeOK' /\ Handling'
  OBVIOUS
<1> USE DEF ServerInv, ServerTypeOK, Handling, Threads, Absent, Answered, NoPut, values,
        hardware, observation, watcher, pulse, automatic, request
<1>1. CASE UNCHANGED serverVars
  BY <1>1 DEF serverVars
<1>2. ASSUME NEW r \in Puts, Put(r) PROVE ServerTypeOK' /\ Handling'
  BY <1>2 DEF Put, Handle, Arrives, Noticed
<1>3. CASE SetSwitchState
  <2>1. port' \in SUBSET Pins
    BY <1>3 DEF SetSwitchState, Stored
  <2> QED
    BY <1>3, <2>1 DEF SetSwitchState, Handle
<1>4. CASE PutPower
  BY <1>4 DEF PutPower, Handle
<1>5. CASE SetIntensity
  BY <1>5 DEF SetIntensity, Handle
<1>6. CASE SetDelay
  <2>1. delay_ns' \in 0 .. 10
    BY <1>6, DelayBounded DEF SetDelay, Handle
  <2> QED
    BY <1>6, <2>1 DEF SetDelay, Handle
<1>7. CASE PutAuto
  BY <1>7 DEF PutAuto, Handle
<1>8. CASE StartAuto
  BY <1>8 DEF StartAuto, Handle
<1>9. CASE RaiseFlag \/ NoAutoThread \/ KeepAuto \/ StopAuto
  <2>1. CASE RaiseFlag
    BY <2>1 DEF RaiseFlag, Handle
  <2>2. CASE NoAutoThread
    BY <2>2 DEF NoAutoThread, Handle
  <2>3. CASE KeepAuto
    BY <2>3 DEF KeepAuto, Handle
  <2>4. CASE StopAuto
    BY <2>4 DEF StopAuto, Handle
  <2> QED
    BY <1>9, <2>1, <2>2, <2>3, <2>4
<1>10. ASSUME NEW o \in Observers, StartObserving(o) PROVE ServerTypeOK' /\ Handling'
  <2>1. Current \in [state : 0 .. 1, power : Nat]
    BY DEF Current
  <2> QED
    BY <1>10, <2>1 DEF StartObserving, Arrives, Noticed
<1>11. ASSUME NEW o \in Observers, Cancel(o) PROVE ServerTypeOK' /\ Handling'
  BY <1>11 DEF Cancel
<1>12. CASE TestObservation \/ WatchPower \/ WatchState
  <2>1. CASE TestObservation
    BY <2>1 DEF TestObservation, Watch, Watching
  <2>2. CASE WatchPower
    BY <2>2 DEF WatchPower, Watch, Watching
  <2>3. CASE WatchState
    BY <2>3 DEF WatchState, Watch, Watching
  <2> QED
    BY <1>12, <2>1, <2>2, <2>3
<1>13. CASE CopyPower \/ CopyState
  <2>1. CASE CopyPower
    BY <2>1 DEF CopyPower, Watch, Watching
  <2>2. CASE CopyState
    BY <2>2 DEF CopyState, Watch, Watching
  <2> QED
    BY <1>13, <2>1, <2>2
<1>14. CASE NotifyAllObservers
  <2>1. sent' \in [Observers -> [state : 0 .. 1, power : Nat]]
    BY <1>14 DEF NotifyAllObservers, Current
  <2> QED
    BY <1>14, <2>1 DEF NotifyAllObservers, Watch
<1>15. CASE SetForIntensity
  <2>1. port' \in SUBSET Pins
    BY <1>15 DEF SetForIntensity, Stored
  <2> QED
    BY <1>15, <2>1 DEF SetForIntensity, Control, Controlling
<1>16. CASE Toggle \/ SteadyLevel \/ StorePinValue
  <2>1. CASE Toggle
    BY <2>1 DEF Toggle, Control, Controlling
  <2>2. CASE SteadyLevel
    BY <2>2 DEF SteadyLevel, Control, Controlling
  <2>3. CASE StorePinValue
    BY <2>3 DEF StorePinValue, Control, Controlling
  <2> QED
    BY <1>16, <2>1, <2>2, <2>3
<1>17. ASSUME NEW t \in Threads, LeaveLoop(t) \/ EndAuto(t)
       PROVE  ServerTypeOK' /\ Handling'
  <2>1. CASE LeaveLoop(t)
    BY <2>1 DEF LeaveLoop
  <2>2. CASE EndAuto(t)
    <3>1. auto' \in [Threads -> {"none", "loop", "left", "ended"}]
      BY <2>2 DEF EndAuto
    <3>2. is_auto_thread_running' \in BOOLEAN
      BY <2>2 DEF EndAuto
    <3> QED
      BY <2>2, <3>1, <3>2 DEF EndAuto
  <2> QED
    BY <1>17, <2>1, <2>2
<1> QED
  BY <1>1, <1>2, <1>3, <1>4, <1>5, <1>6, <1>7, <1>8, <1>9, <1>10, <1>11,
     <1>12, <1>13, <1>14, <1>15, <1>16, <1>17
     DEF ServerNext, Handler, Notifier, Controller

(* Every step keeps the meaning of the flag; the steps of the notifier and *)
(* of the controller touch none of what it is about.                       *)
LEMMA AutomaticStep == ServerInv /\ [ServerNext]_serverVars => Automatic'
<1> SUFFICES ASSUME ServerInv, [ServerNext]_serverVars PROVE Automatic'
  OBVIOUS
<1> USE DEF ServerInv, ServerTypeOK, Handling, Automatic, ALoop, Elsewhere, Threads,
        Absent, Answered, values, automatic, request, Handle
<1>1. CASE UNCHANGED serverVars
  BY <1>1 DEF serverVars
<1>2. ASSUME NEW r \in Puts, Put(r) PROVE Automatic'
  BY <1>2 DEF Put
<1>3. CASE SetSwitchState \/ PutPower \/ SetIntensity \/ SetDelay
  BY <1>3, SMTT(40) DEF SetSwitchState, PutPower, SetIntensity, SetDelay
<1>4. CASE PutAuto
  BY <1>4 DEF PutAuto
<1>5. CASE StartAuto
  <2>1. auto'[puts] = "loop"
    BY <1>5 DEF StartAuto
  <2> QED
    BY <1>5, <2>1 DEF StartAuto
<1>6. CASE RaiseFlag
  BY <1>6 DEF RaiseFlag
<1>7. CASE NoAutoThread
  BY <1>7 DEF NoAutoThread
<1>8. CASE KeepAuto
  BY <1>8 DEF KeepAuto
<1>9. CASE StopAuto
  BY <1>9 DEF StopAuto
<1>10. CASE Notifier \/ Controller
  BY <1>10, SMTT(40) DEF Notifier, Controller, TestObservation, WatchPower, WatchState,
     CopyPower, CopyState, NotifyAllObservers, Watching,
     SetForIntensity, Toggle, SteadyLevel, StorePinValue, Controlling
<1>11. ASSUME NEW o \in Observers, StartObserving(o) \/ Cancel(o) PROVE Automatic'
  BY <1>11 DEF StartObserving, Cancel
<1>12. ASSUME NEW t \in Threads, LeaveLoop(t) PROVE Automatic'
  BY <1>12 DEF LeaveLoop
<1>13. ASSUME NEW t \in Threads, EndAuto(t) PROVE Automatic'
  <2>1. \A u \in Threads : auto[u] = "loop" => auto'[u] = "loop"
    BY <1>13 DEF EndAuto
  <2> QED
    BY <1>13, <2>1 DEF EndAuto
<1> QED
  BY <1>1, <1>2, <1>3, <1>4, <1>5, <1>6, <1>7, <1>8, <1>9, <1>10, <1>11,
     <1>12, <1>13 DEF ServerNext, Handler

LEMMA ServerInductive == ServerSpec => []ServerInv
<1>1. ServerInv /\ [ServerNext]_serverVars => ServerInv'
  BY ServerTypeStep, AutomaticStep DEF ServerInv
<1> QED
  BY ServerInitInv, <1>1, PTL DEF ServerSpec

(* Every variable keeps its type: delays are bounded because put refuses   *)
(* the powers that would make them longer.                                 *)
THEOREM ServerTypeCorrect == ServerSpec => []ServerTypeOK
<1>1. ServerInv => ServerTypeOK
  BY DEF ServerInv
<1> QED
  BY <1>1, ServerInductive, PTL

(* Between two requests, automatic mode on means that a thread is at work  *)
(* on it, for any sequence of requests and any delay of the threads.       *)
THEOREM AutoHasThreadAlways == ServerSpec => []AutoHasThread
<1>1. ServerInv => AutoHasThread
  BY DEF ServerInv, Automatic, Elsewhere, ALoop, AutoHasThread
<1> QED
  BY <1>1, ServerInductive, PTL
-----------------------------------------------------------------------------
(* SwitchDriver.                                                           *)

USE SwitchDriverAssumption

Mutex ==
    /\ \A p \in Processes : pc[p] \in Critical => sem = 0
    /\ \A p, q \in Processes :
        pc[p] \in Critical /\ pc[q] \in Critical => p = q

Copied ==
    \A p \in Processes :
        /\ pc[p] # "idle" => arg[p] \in Requests
        /\ pc[p] \notin {"up", "return"} => ret[p] = 0
        /\ pc[p] = "switch" =>
            iotr.pin = arg[p].pin /\ iotr.value = arg[p].value
        /\ pc[p] = "copy_to_user" =>
            /\ iotr.pin = arg[p].pin
            /\ \/ arg[p].cmd = "GET_FROM_SWITCH"
                  /\ iotr.value = Bit(myport, arg[p].pin)
               \/ arg[p].cmd = "GET_FROM_SENSOR" /\ iotr.value = myport

DriverInv == DriverTypeOK /\ Mutex /\ Copied

LEMMA DriverStarts == DriverInit => DriverInv
BY DEF DriverInit, DriverInv, DriverTypeOK, Mutex, Copied, Locations, Critical, Zero,
   NoRequest

LEMMA NumberValues ==
    ASSUME NEW levels \in SUBSET Nat, NEW pin \in Nat
    PROVE  Bit(levels, pin) \in SUBSET Nat
BY DEF Bit, One, Zero

(* Every step keeps the types.                                             *)
LEMMA DriverTypeStep == DriverInv /\ [DriverNext]_driverVars => DriverTypeOK'
<1> SUFFICES ASSUME DriverInv, [DriverNext]_driverVars PROVE DriverTypeOK'
  OBVIOUS
<1> USE DEF DriverInv, DriverTypeOK, Goto, Locations
<1>1. CASE UNCHANGED driverVars
  BY <1>1 DEF driverVars
<1>2. ASSUME NEW p \in Processes, NEW r \in Calls, Ioctl(p, r) PROVE DriverTypeOK'
  BY <1>2 DEF Ioctl
<1>3. ASSUME NEW p \in Processes, Down(p) PROVE DriverTypeOK'
  BY <1>3 DEF Down
<1>4. ASSUME NEW p \in Processes, Interrupted(p) PROVE DriverTypeOK'
  BY <1>4 DEF Interrupted
<1>5. ASSUME NEW p \in Processes, CopyFromUser(p) PROVE DriverTypeOK'
  BY <1>5 DEF CopyFromUser, Copied, Requests
<1>6. ASSUME NEW p \in Processes, CopyFault(p) PROVE DriverTypeOK'
  BY <1>6 DEF CopyFault
<1>7. ASSUME NEW p \in Processes, Set(p) PROVE DriverTypeOK'
  BY <1>7 DEF Set
<1>8. ASSUME NEW p \in Processes, GetFromSwitch(p) PROVE DriverTypeOK'
  <2>1. Bit(myport, iotr.pin) \in SUBSET Nat
    BY NumberValues
  <2> QED
    BY <1>8, <2>1 DEF GetFromSwitch
<1>9. ASSUME NEW p \in Processes, GetFromSensor(p) PROVE DriverTypeOK'
  BY <1>9 DEF GetFromSensor
<1>10. ASSUME NEW p \in Processes, Default(p) PROVE DriverTypeOK'
  BY <1>10 DEF Default
<1>11. ASSUME NEW p \in Processes, CopyToUser(p) PROVE DriverTypeOK'
  <2>1. arg[p] \in Requests /\ iotr.pin = arg[p].pin /\ iotr.value \in SUBSET Nat
    BY <1>11 DEF CopyToUser, Copied
  <2>2. [arg[p] EXCEPT !.pin = iotr.pin, !.value = iotr.value] \in Requests
    BY <2>1 DEF Requests
  <2> QED
    BY <1>11, <2>2 DEF CopyToUser
<1>12. ASSUME NEW p \in Processes, Up(p) PROVE DriverTypeOK'
  BY <1>12 DEF Up, Mutex, Critical
<1>13. ASSUME NEW p \in Processes, Return(p) PROVE DriverTypeOK'
  BY <1>13 DEF Return
<1> QED
  BY <1>1, <1>2, <1>3, <1>4, <1>5, <1>6, <1>7, <1>8, <1>9, <1>10, <1>11,
     <1>12, <1>13 DEF DriverNext, Runs

(* Every step keeps at most one thread between Down and Up.                *)
LEMMA MutexStep == DriverInv /\ [DriverNext]_driverVars => Mutex'
<1> SUFFICES ASSUME DriverInv, [DriverNext]_driverVars PROVE Mutex'
  OBVIOUS
<1> USE DEF DriverInv, DriverTypeOK, Mutex, Goto, Locations, Critical
<1>1. CASE UNCHANGED driverVars
  BY <1>1 DEF driverVars
<1>2. ASSUME NEW p \in Processes, NEW r \in Calls, Ioctl(p, r) PROVE Mutex'
  BY <1>2 DEF Ioctl
<1>3. ASSUME NEW p \in Processes, Down(p) PROVE Mutex'
  BY <1>3 DEF Down
<1>4. ASSUME NEW p \in Processes, Interrupted(p) PROVE Mutex'
  BY <1>4 DEF Interrupted
<1>5. ASSUME NEW p \in Processes, Runs(p), ~Up(p), ~Return(p) PROVE Mutex'
  BY <1>5 DEF Runs, CopyFromUser, CopyFault, Set, GetFromSwitch,
     GetFromSensor, Default, CopyToUser
<1>6. ASSUME NEW p \in Processes, Up(p) PROVE Mutex'
  BY <1>6 DEF Up
<1>7. ASSUME NEW p \in Processes, Return(p) PROVE Mutex'
  BY <1>7 DEF Return
<1> QED
  BY <1>1, <1>2, <1>3, <1>4, <1>5, <1>6, <1>7 DEF DriverNext

(* What a thread copied or read is not touched by another: each step of    *)
(* the call happens inside, where no other thread is.                      *)
LEMMA CopiedStep == DriverInv /\ [DriverNext]_driverVars => Copied'
<1> SUFFICES ASSUME DriverInv, [DriverNext]_driverVars PROVE Copied'
  OBVIOUS
<1> USE DEF DriverInv, DriverTypeOK, Mutex, Copied, Goto, Locations, Critical
<1>1. CASE UNCHANGED driverVars
  BY <1>1 DEF driverVars
<1>2. ASSUME NEW p \in Processes, NEW r \in Calls, Ioctl(p, r) PROVE Copied'
  BY <1>2 DEF Ioctl
<1>3. ASSUME NEW p \in Processes, Down(p) PROVE Copied'
  BY <1>3 DEF Down
<1>4. ASSUME NEW p \in Processes, Interrupted(p) PROVE Copied'
  BY <1>4 DEF Interrupted
<1>5. ASSUME NEW p \in Processes, CopyFromUser(p) PROVE Copied'
  BY <1>5 DEF CopyFromUser
<1>6. ASSUME NEW p \in Processes, CopyFault(p) PROVE Copied'
  BY <1>6 DEF CopyFault
<1>7. ASSUME NEW p \in Processes, Set(p) PROVE Copied'
  BY <1>7 DEF Set
<1>8. ASSUME NEW p \in Processes, GetFromSwitch(p) PROVE Copied'
  BY <1>8 DEF GetFromSwitch
<1>9. ASSUME NEW p \in Processes, GetFromSensor(p) PROVE Copied'
  BY <1>9 DEF GetFromSensor
<1>10. ASSUME NEW p \in Processes, Default(p) PROVE Copied'
  BY <1>10 DEF Default
<1>11. ASSUME NEW p \in Processes, CopyToUser(p) PROVE Copied'
  <2>1. [arg[p] EXCEPT !.pin = iotr.pin, !.value = iotr.value] \in Requests
    BY <1>11 DEF CopyToUser, Requests
  <2> QED
    BY <1>11, <2>1 DEF CopyToUser
<1>12. ASSUME NEW p \in Processes, Up(p) PROVE Copied'
  BY <1>12 DEF Up
<1>13. ASSUME NEW p \in Processes, Return(p) PROVE Copied'
  BY <1>13 DEF Return
<1> QED
  BY <1>1, <1>2, <1>3, <1>4, <1>5, <1>6, <1>7, <1>8, <1>9, <1>10, <1>11,
     <1>12, <1>13 DEF DriverNext, Runs

LEMMA DriverHolds == DriverSpec => []DriverInv
<1>1. DriverInv /\ [DriverNext]_driverVars => DriverInv'
  BY DriverTypeStep, MutexStep, CopiedStep DEF DriverInv
<1> QED
  BY DriverStarts, <1>1, PTL DEF DriverSpec

(* Every variable keeps its type: the semaphore counts at most one, and    *)
(* the port is never wider than the register.                              *)
THEOREM DriverTypeCorrect == DriverSpec => []DriverTypeOK
<1>1. DriverInv => DriverTypeOK
  BY DEF DriverInv
<1> QED
  BY <1>1, DriverHolds, PTL

-----------------------------------------------------------------------------
(* A step of the call is a step of the atomic port, or none of it.         *)
LEMMA StepImplements ==
    ASSUME Pins \subseteq 0 .. Width - 1, DriverInv, [DriverNext]_driverVars
    PROVE  [Register!Next]_(Register!vars)
<1> USE DEF DriverInv, DriverTypeOK, Mutex, Copied, Goto, Locations,
        Critical, status,
        Register!Next, Register!vars, Register!Ends
<1>1. CASE UNCHANGED driverVars
  BY <1>1 DEF driverVars
<1>2. ASSUME NEW p \in Processes, NEW r \in Calls, Ioctl(p, r)
      PROVE  Register!Call(p, r)
  BY <1>2 DEF Ioctl, Register!Call
<1>3. ASSUME NEW p \in Processes, Down(p) \/ CopyFromUser(p) \/ Up(p)
      PROVE  UNCHANGED Register!vars
  BY <1>3 DEF Down, CopyFromUser, Up
<1>4. ASSUME NEW p \in Processes,
             Interrupted(p) \/ CopyFault(p) \/ Default(p)
      PROVE  Register!Fail(p)
  <2>1. /\ ret' = [ret EXCEPT ![p] = -1]
        /\ pc[p] \in Locations \ {"idle", "up", "return"}
        /\ \E c \in {"up", "return"} : pc' = [pc EXCEPT ![p] = c]
        /\ UNCHANGED <<myport, arg>>
    BY <1>4 DEF Interrupted, CopyFault, Default
  <2>2. status[p] = "called"
    BY <2>1
  <2>3. status' = [status EXCEPT ![p] = "failed"]
    <3>1. pc'[p] \in {"up", "return"} /\ ret'[p] = -1
      BY <2>1
    <3>2. \A q \in Processes \ {p} : pc'[q] = pc[q] /\ ret'[q] = ret[q]
      BY <2>1
    <3>3. \A q \in Processes \ {p} : status'[q] = status[q]
      BY <3>2
    <3>4. status'[p] = "failed"
      BY <3>1
    <3>5. /\ status = [q \in Processes |-> status[q]]
          /\ status' = [q \in Processes |-> status'[q]]
      OBVIOUS
    <3> HIDE DEF status, DriverInv
    <3> QED
      BY <3>3, <3>4, <3>5
  <2> QED
    BY <2>1, <2>2, <2>3 DEF Register!Fail
<1>5. ASSUME NEW p \in Processes, Set(p) PROVE Register!Set(p)
  <2>1. arg[p].pin \in Pins
    BY <1>5 DEF Set, Requests
  <2>2. myport' = Stored(myport, arg[p].pin, arg[p].value)
    BY <1>5, <2>1 DEF Set, Stored
  <2> QED
    BY <1>5, <2>2, ZenonT(40) DEF Set, Register!Set, Register!Setters, Setters,
       Register!Stored, Stored, Register!Zero, Zero, Register!One, One
<1>6. ASSUME NEW p \in Processes, GetFromSwitch(p) \/ GetFromSensor(p)
      PROVE  UNCHANGED Register!vars
  BY <1>6 DEF GetFromSwitch, GetFromSensor
<1>7. ASSUME NEW p \in Processes, CopyToUser(p)
      PROVE  Register!GetSwitch(p) \/ Register!GetSensor(p)
  <2>1. arg' = [arg EXCEPT ![p].value = iotr.value]
    BY <1>7, ZenonT(40) DEF CopyToUser, Requests
  <2> QED
    BY <1>7, <2>1 DEF CopyToUser, Register!GetSwitch, Register!GetSensor,
       Register!Bit, Bit, Register!Zero, Zero, Register!One, One
<1>8. ASSUME NEW p \in Processes, Return(p) PROVE Register!Return(p)
  <2>1. status[p] \in {"ok", "failed"}
    BY <1>8 DEF Return
  <2>2. status' = [status EXCEPT ![p] = "idle"]
    BY <1>8 DEF Return
  <2>3. UNCHANGED myport /\ arg' = [arg EXCEPT ![p] = Register!NoRequest]
    BY <1>8 DEF Return, Register!NoRequest, NoRequest, Register!Zero, Zero
  <2> QED
    BY <2>1, <2>2, <2>3 DEF Register!Return
<1> QED
  BY <1>1, <1>2, <1>3, <1>4, <1>5, <1>6, <1>7, <1>8 DEF DriverNext, Runs

(* If every configured pin is a bit of the register, the driver is an      *)
(* atomic port to any number of threads and any requests.                  *)
THEOREM ImplementsAtomicPort ==
    ASSUME Pins \subseteq 0 .. Width - 1
    PROVE  DriverSpec => AtomicPort
<1>1. DriverInit => Register!Init
  BY DEF DriverInit, Register!Init, status, Register!NoRequest, NoRequest,
     Register!Zero, Zero
<1>2. DriverInv /\ [DriverNext]_driverVars => [Register!Next]_(Register!vars)
  BY StepImplements
<1> QED
  BY <1>1, <1>2, DriverHolds, PTL DEF DriverSpec, AtomicPort, Register!Spec
=============================================================================
