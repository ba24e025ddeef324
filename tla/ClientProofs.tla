---------------------------- MODULE ClientProofs ----------------------------
(***************************************************************************)
(* Proofs about the two sides of resourcemgr/client.cpp: RequestPath, for  *)
(* every number of threads, resources and calls; and Scheduling, for every *)
(* set of schedules, number of operations, length of time and number of    *)
(* lost messages.                                                          *)
(***************************************************************************)
EXTENDS RequestPath, Scheduling, FiniteSetTheorems, TLAPS

(* RequestPath.                                                            *)

\* A thread in a call has one to execute.
CallOK == \A t \in Threads : pc[t] # "idle" => call[t] \in Calls

TypeInv == TypeOK /\ CallOK

LEMMA InitTypeInv == Init => TypeInv
  BY RequestPathAssumption DEF Init, TypeInv, TypeOK, CallOK, PCs

LEMMA StepTypeInv ==
  ASSUME TypeInv, NEW t \in Threads, Step(t)
  PROVE  TypeInv'
<1> USE DEF TypeInv, TypeOK, CallOK, PCs, locks, outcome, Move
<1>1. CASE LockApi(t)
  BY <1>1 DEF LockApi
<1>2. CASE Find(t)
  BY <1>2 DEF Find
<1>3. CASE NotFound(t)
  BY <1>3 DEF NotFound, Leave
<1>4. CASE Lock(t)
  BY <1>4 DEF Lock, Calls
<1>5. CASE Send(t)
  BY <1>5 DEF Send, Calls, Messages, IdOf, Id
<1>6. CASE LockRead(t)
  BY <1>6 DEF LockRead
<1>7. CASE SelectReady(t)
  BY <1>7 DEF SelectReady
<1>8. CASE SelectTimeout(t)
  BY <1>8 DEF SelectTimeout
<1>9. CASE Read(t)
  BY <1>9 DEF Read
<1>10. CASE Return(t)
  BY <1>10 DEF Return, Leave
<1> QED
  BY <1>1, <1>2, <1>3, <1>4, <1>5, <1>6, <1>7, <1>8, <1>9, <1>10 DEF Step

LEMMA OtherTypeInv ==
  ASSUME TypeInv
  PROVE  /\ \A t \in Apis, c \in Calls : ApiCall(t, c) => TypeInv'
         /\ \A t \in Scheds, c \in Calls : SchedCall(t, c) => TypeInv'
         /\ Network => TypeInv'
         /\ \A r \in Resources : FoundResource(r) => TypeInv'
<1> USE DEF TypeInv, TypeOK, CallOK, PCs, locks, outcome, Move, Threads
<1>1. ASSUME NEW t \in Apis, NEW c \in Calls, ApiCall(t, c) PROVE TypeInv'
  BY <1>1 DEF ApiCall
<1>2. ASSUME NEW t \in Scheds, NEW c \in Calls, SchedCall(t, c) PROVE TypeInv'
  BY <1>2 DEF SchedCall, Calls
<1>3. ASSUME NEW m \in net, DeviceAnswer(m) PROVE TypeInv'
  <2>1. PICK type \in {"ok", "err"}, v \in Settings :
            net' = (net \ {m}) \cup {[m EXCEPT !.type = type, !.val = v]}
    BY <1>3 DEF DeviceAnswer
  <2>2. [m EXCEPT !.type = type, !.val = v] \in Messages
    BY DEF Messages
  <2> QED
    BY <1>3, <2>1, <2>2 DEF DeviceAnswer
<1>4. ASSUME NEW m \in net, Lose(m) \/ OnError(m) PROVE TypeInv'
  BY <1>4 DEF Lose, OnError
<1>5. ASSUME NEW m \in net, OnOk(m) PROVE TypeInv'
  BY <1>5 DEF OnOk, Messages
<1>6. ASSUME NEW r \in Resources, FoundResource(r) PROVE TypeInv'
  BY <1>6 DEF FoundResource
<1> QED
  BY <1>1, <1>2, <1>3, <1>4, <1>5, <1>6 DEF Network

\* Type correctness, and that a thread past iot_request_response has a command.
THEOREM TypeCorrect == Spec => []TypeInv
<1>1. TypeInv /\ [Next]_vars => TypeInv'
  <2> SUFFICES ASSUME TypeInv, [Next]_vars PROVE TypeInv'
    OBVIOUS
  <2>1. CASE UNCHANGED vars
    BY <2>1 DEF vars, TypeInv, TypeOK, CallOK
  <2> QED
    BY <2>1, StepTypeInv, OtherTypeInv DEF Next
<1> QED
  BY InitTypeInv, <1>1, PTL DEF Spec
-----------------------------------------------------------------------------
\* A thread between the lock_guard and its end owns the ResourceLock of its
\* resource, however many times read_lock is re-initialised.
ResourceLockInv ==
    \A t \in Threads : pc[t] \in InDevice => ResourceLock[call[t].res] = t

LEMMA ResourceLockStep ==
  ASSUME TypeInv, ResourceLockInv, [Next]_vars
  PROVE  ResourceLockInv'
<1> USE DEF TypeInv, TypeOK, CallOK, PCs, ResourceLockInv, InDevice, locks,
            outcome, Move, Threads
<1>1. ASSUME NEW t \in Threads, Step(t) PROVE ResourceLockInv'
  <2>1. CASE LockApi(t) \/ Find(t)
    BY <2>1 DEF LockApi, Find
  <2>2. CASE NotFound(t)
    BY <2>2 DEF NotFound, Leave
  <2>3. CASE Lock(t)
    BY <2>3, RequestPathAssumption DEF Lock, Calls
  <2>4. CASE Send(t)
    BY <2>4 DEF Send
  <2>5. CASE LockRead(t) \/ SelectReady(t)
    BY <2>5 DEF LockRead, SelectReady
  <2>6. CASE SelectTimeout(t) \/ Read(t)
    BY <2>6 DEF SelectTimeout, Read
  <2>7. CASE Return(t)
    BY <2>7, RequestPathAssumption DEF Return, Leave, Calls
  <2> QED
    BY <1>1, <2>1, <2>2, <2>3, <2>4, <2>5, <2>6, <2>7 DEF Step
<1>2. ASSUME NEW t \in Apis, NEW c \in Calls, ApiCall(t, c)
      PROVE  ResourceLockInv'
  BY <1>2 DEF ApiCall
<1>3. ASSUME NEW t \in Scheds, NEW c \in Calls, SchedCall(t, c)
      PROVE  ResourceLockInv'
  BY <1>3 DEF SchedCall
<1>4. CASE Network
  BY <1>4 DEF Network, DeviceAnswer, Lose, OnOk, OnError
<1>5. ASSUME NEW r \in Resources, FoundResource(r) PROVE ResourceLockInv'
  BY <1>5 DEF FoundResource
<1>6. CASE UNCHANGED vars
  BY <1>6 DEF vars
<1> QED
  BY <1>1, <1>2, <1>3, <1>4, <1>5, <1>6 DEF Next

\* At most one request of a resource is waited for at any time.
THEOREM OneWaiter == Spec => []OneWaiterPerResource
<1>1. Init => ResourceLockInv
  BY DEF Init, ResourceLockInv, InDevice
<1>2. ResourceLockInv => OneWaiterPerResource
  BY DEF ResourceLockInv, OneWaiterPerResource
<1> QED
  BY <1>1, <1>2, TypeCorrect, ResourceLockStep, PTL DEF Spec
-----------------------------------------------------------------------------
\* With every resource discovered, read_lock makes select and read one step.
ReaderInv ==
    /\ listed = Resources
    /\ \A t \in Threads : pc[t] \in InReader => read_lock = t /\ fd[t] = "live"
    /\ ReadNeverBlocks

LEMMA ReaderStep ==
  ASSUME TypeInv, ReaderInv, [Next]_vars
  PROVE  ReaderInv'
<1> USE DEF TypeInv, TypeOK, CallOK, PCs, ReaderInv, ReadNeverBlocks, InReader,
            locks, outcome, Move, Threads
<1>1. ASSUME NEW t \in Threads, Step(t) PROVE ReaderInv'
  <2>1. CASE LockApi(t) \/ Find(t)
    BY <2>1 DEF LockApi, Find
  <2>2. CASE NotFound(t) \/ Return(t)
    BY <2>2 DEF NotFound, Return, Leave
  <2>3. CASE Lock(t) \/ Send(t)
    BY <2>3 DEF Lock, Send
  <2>4. CASE LockRead(t)
    BY <2>4, RequestPathAssumption DEF LockRead
  <2>5. CASE SelectReady(t)
    BY <2>5 DEF SelectReady, Readable
  <2>6. CASE SelectTimeout(t)
    BY <2>6, RequestPathAssumption DEF SelectTimeout
  <2>7. CASE Read(t)
    BY <2>7, RequestPathAssumption DEF Read
  <2> QED
    BY <1>1, <2>1, <2>2, <2>3, <2>4, <2>5, <2>6, <2>7 DEF Step
<1>2. ASSUME NEW t \in Apis, NEW c \in Calls, ApiCall(t, c) PROVE ReaderInv'
  BY <1>2 DEF ApiCall
<1>3. ASSUME NEW t \in Scheds, NEW c \in Calls, SchedCall(t, c) PROVE ReaderInv'
  BY <1>3 DEF SchedCall
<1>4. ASSUME NEW m \in net, OnOk(m) PROVE ReaderInv'
  <2>1. m \in Messages /\ Append(pipe, m) # <<>>
    OBVIOUS
  <2> QED
    BY <1>4, <2>1 DEF OnOk
<1>5. ASSUME NEW m \in net, DeviceAnswer(m) \/ Lose(m) \/ OnError(m)
      PROVE  ReaderInv'
  BY <1>5 DEF DeviceAnswer, Lose, OnError
<1>6. ASSUME NEW r \in Resources, FoundResource(r) PROVE ReaderInv'
  BY <1>6 DEF FoundResource
<1>7. CASE UNCHANGED vars
  BY <1>7 DEF vars
<1> QED
  BY <1>1, <1>2, <1>3, <1>4, <1>5, <1>6, <1>7 DEF Next, Network

\* While no new resource appears, a read of the pipe never blocks: whatever is
\* lost, late or refused, and with scheduler threads that bypass api_lock.
THEOREM ReadBounded ==
  ASSUME Known = Resources
  PROVE  Spec => []ReadNeverBlocks
<1>1. Init => ReaderInv
  BY Known = Resources DEF Init, ReaderInv, InReader, ReadNeverBlocks
<1>2. ReaderInv => ReadNeverBlocks
  BY DEF ReaderInv
<1> QED
  BY <1>1, <1>2, TypeCorrect, ReaderStep, PTL DEF Spec
-----------------------------------------------------------------------------
\* The devices answer in time, only the UI and the cloud make calls, and no
\* resource is discovered meanwhile.
Serial == Calm /\ Scheds = {} /\ Known = Resources

\* Then api_lock makes the whole call one transaction: the one message of the
\* system is the request or the answer of the thread that waits.
Pending(t) == pc[t] \in {"rlock", "select", "read"}
Changes(t) == call[t].cmd \in {"SET", "POST"}

InFlight(t) ==
    /\ pipe = <<>>
    /\ \E m \in Messages :
          /\ net = {m} /\ m.type # "err"
          /\ m.id = IdOf(t) /\ m.res = call[t].res
          /\ m.type = "req" /\ Changes(t) => m.val = call[t].arg

Answered(t) ==
    /\ net = {}
    /\ \E m \in Messages :
          pipe = <<m>> /\ m.id = IdOf(t) /\ cached[call[t].res] = m.val

SerialInv ==
    /\ \A t \in Threads : pc[t] \notin {"idle", "api"} => api_lock = t
    /\ \A t \in Threads : Pending(t) => InFlight(t) \/ Answered(t)
    /\ (\A t \in Threads : ~Pending(t)) => net = {} /\ pipe = <<>>
    /\ \A t \in Threads :
          pc[t] = "send" /\ Changes(t) => cached[call[t].res] = call[t].arg
    /\ \A t \in Threads :
          pc[t] = "ret" => /\ got[t].id = IdOf(t)
                           /\ cached[call[t].res] = got[t].val

LEMMA SerialFrame ==
  ASSUME NEW s \in Threads, UNCHANGED <<net, pipe, cached>>,
         call'[s] = call[s], made'[s] = made[s]
  PROVE  InFlight(s) \/ Answered(s) => (InFlight(s) \/ Answered(s))'
  BY DEF InFlight, Answered, Changes, IdOf

LEMMA SerialStep ==
  ASSUME Serial, TypeInv, ReaderInv, SerialInv, [Next]_vars
  PROVE  SerialInv'
<1> USE DEF Serial, TypeInv, TypeOK, CallOK, PCs, locks, outcome, Move,
            Pending, Changes, IdOf, Threads
<1>1. ASSUME NEW t \in Threads, Step(t) PROVE SerialInv'
  <2>1. CASE LockApi(t)
    BY <2>1, RequestPathAssumption, ZenonT(40)
       DEF LockApi, SerialInv, InFlight, Answered
  <2>2. CASE Find(t)
    BY <2>2, SerialFrame DEF Find, SerialInv
  <2>3. CASE NotFound(t)
    BY <2>3 DEF NotFound, ReaderInv, Calls
  <2>4. CASE Lock(t)
    <3>1. \A s \in Threads \ {t} : pc[s] \in {"idle", "api"}
      BY <2>4, RequestPathAssumption DEF Lock, SerialInv
    <3>2. call[t] \in Calls
      BY <2>4 DEF Lock
    <3> QED
      BY <2>4, <3>1, <3>2 DEF Lock, SerialInv, Calls
  <2>5. CASE Send(t)
    <3> DEFINE m == [type |-> "req", id |-> IdOf(t), res |-> call[t].res,
                     val |-> cached[call[t].res]]
    <3>1. /\ net = {} /\ pipe = <<>>
          /\ \A s \in Threads \ {t} : pc[s] \in {"idle", "api"}
      BY <2>5, RequestPathAssumption DEF Send, SerialInv
    <3>2. m \in Messages /\ net' = {m}
      BY <2>5, <3>1 DEF Send, Messages, Calls, Id
    <3>3. InFlight(t)'
      BY <2>5, <3>1, <3>2 DEF Send, InFlight, SerialInv
    <3> QED
      BY <2>5, <3>1, <3>3 DEF Send, SerialInv
  <2>6. CASE LockRead(t)
    BY <2>6, SerialFrame DEF LockRead, SerialInv
  <2>7. CASE SelectReady(t)
    BY <2>7, SerialFrame DEF SelectReady, SerialInv
  <2>8. CASE SelectTimeout(t)
    BY <2>8 DEF SelectTimeout
  <2>9. CASE Read(t)
    BY <2>9 DEF Read, SerialInv, InFlight, Answered
  <2>10. CASE Return(t)
    BY <2>10, RequestPathAssumption DEF Return, Leave, SerialInv
  <2> QED
    BY <1>1, <2>1, <2>2, <2>3, <2>4, <2>5, <2>6, <2>7, <2>8, <2>9, <2>10
       DEF Step
<1>2. ASSUME NEW t \in Apis, NEW c \in Calls, ApiCall(t, c) PROVE SerialInv'
  BY <1>2, SerialFrame DEF ApiCall, SerialInv
<1>3. ASSUME NEW m \in net, DeviceAnswer(m) PROVE SerialInv'
  <2>1. PICK t \in Threads : Pending(t) /\ InFlight(t)
    BY <1>3 DEF SerialInv, Answered
  <2>2. PICK v \in Settings :
            net' = (net \ {m}) \cup {[m EXCEPT !.type = "ok", !.val = v]}
    BY <1>3 DEF DeviceAnswer
  <2>3. InFlight(t)'
    <3> DEFINE a == [m EXCEPT !.type = "ok", !.val = v]
    <3>1. m \in Messages /\ net = {m} /\ m.id = IdOf(t) /\ m.res = call[t].res
      BY <2>1 DEF InFlight
    <3>2. a \in Messages /\ a.type = "ok" /\ a.id = m.id /\ a.res = m.res
      BY <3>1 DEF Messages
    <3>3. net' = {a}
      BY <3>1, <2>2
    <3>4. UNCHANGED <<pipe, call, made>>
      BY <1>3 DEF DeviceAnswer
    <3> HIDE DEF a
    <3> QED
      BY <2>1, <3>1, <3>2, <3>3, <3>4 DEF InFlight
  <2>4. \A s \in Threads \ {t} : pc[s] \in {"idle", "api"}
    BY <2>1, RequestPathAssumption DEF SerialInv
  <2> QED
    BY <1>3, <2>1, <2>3, <2>4 DEF DeviceAnswer, SerialInv
<1>4. ASSUME NEW m \in net, OnOk(m) PROVE SerialInv'
  <2>1. PICK t \in Threads : Pending(t) /\ InFlight(t)
    BY <1>4 DEF SerialInv, Answered
  <2>2. m \in Messages /\ Append(<<>>, m) = <<m>>
    OBVIOUS
  <2>3. Answered(t)'
    BY <1>4, <2>1, <2>2 DEF OnOk, InFlight, Answered, Calls
  <2>4. \A s \in Threads \ {t} : pc[s] \in {"idle", "api"}
    BY <2>1, RequestPathAssumption DEF SerialInv
  <2> QED
    BY <1>4, <2>1, <2>3, <2>4 DEF OnOk, SerialInv
<1>5. ASSUME NEW m \in net, Lose(m) \/ OnError(m) PROVE SerialInv'
  <2>1. PICK t \in Threads : Pending(t) /\ InFlight(t)
    BY <1>5 DEF SerialInv, Answered
  <2> QED
    BY <1>5, <2>1 DEF Lose, OnError, InFlight
<1>6. ASSUME NEW r \in Resources, FoundResource(r) PROVE SerialInv'
  BY <1>6 DEF FoundResource, ReaderInv
<1>7. CASE UNCHANGED vars
  BY <1>7, SerialFrame DEF vars, SerialInv
<1> QED
  BY <1>1, <1>2, <1>3, <1>4, <1>5, <1>6, <1>7 DEF Next, Network

\* Called by the UI and the cloud alone, with every answer in time, a call that
\* succeeds was woken by its own answer, a get returns what that answer reports
\* and a request carries what its caller asked for.
THEOREM SerialCallsCorrect ==
  ASSUME Serial
  PROVE  Spec => [](OwnAnswer /\ GetReportsAnswer /\ RequestCarriesArgument)
<1>1. Init => ReaderInv /\ SerialInv
  BY Serial DEF Serial, Init, ReaderInv, InReader, ReadNeverBlocks, SerialInv,
     Pending, InFlight, Answered
<1>2. TypeInv /\ SerialInv => OwnAnswer /\ GetReportsAnswer
  BY DEF SerialInv, OwnAnswer, GetReportsAnswer
<1>3. ASSUME TypeInv, SerialInv PROVE RequestCarriesArgument
  <2> SUFFICES ASSUME NEW t \in Threads, NEW m \in net,
                      m.type = "req", m.id = IdOf(t),
                      pc[t] \in InDevice, call[t].cmd \in {"SET", "POST"}
               PROVE  m.val = call[t].arg
    BY DEF RequestCarriesArgument
  <2>1. PICK s \in Threads : Pending(s) /\ InFlight(s)
    BY <1>3 DEF SerialInv, Answered
  <2>2. s = t
    BY <1>3, <2>1, RequestPathAssumption DEF SerialInv, Pending, InDevice
  <2> QED
    BY <2>1, <2>2 DEF InFlight, Changes
<1> QED
  BY <1>1, <1>2, <1>3, TypeCorrect, ReaderStep, SerialStep, Serial, PTL DEF Spec
-----------------------------------------------------------------------------
\* Each message is paid for by a thread that waits or by a wait that gave up.
StaleInv ==
    /\ IsFiniteSet(net)
    /\ Len(pipe) + Cardinality(net) <= expired + Cardinality(Waiting)

LEMMA AddAtMostOne ==
  ASSUME NEW S, NEW x, IsFiniteSet(S)
  PROVE  /\ IsFiniteSet(S \cup {x})
         /\ Cardinality(S \cup {x}) \in Nat
         /\ Cardinality(S \cup {x}) <= Cardinality(S) + 1
<1> DEFINE T == S \cup {x}
<1>1. IsFiniteSet(T) /\ Cardinality(S) \in Nat /\ Cardinality(T) \in Nat
  BY FS_AddElement, FS_CardinalityType
<1>2. CASE x \in S
  <2>1. T = S
    BY <1>2
  <2> HIDE DEF T
  <2>2. Cardinality(T) = Cardinality(S)
    BY <2>1
  <2>3. Cardinality(T) <= Cardinality(S) + 1
    BY <1>1, <2>2
  <2> QED
    BY <1>1, <2>3 DEF T
<1>3. CASE x \notin S
  <2>1. Cardinality(T) = Cardinality(S) + 1
    BY <1>3, FS_AddElement
  <2> HIDE DEF T
  <2>2. Cardinality(T) <= Cardinality(S) + 1
    BY <1>1, <2>1
  <2> QED
    BY <1>1, <2>2 DEF T
<1> QED
  BY <1>2, <1>3

\* What leaves the set of waiting threads and the messages alone, or removes
\* messages, keeps the balance.
LEMMA StaleFrame ==
  ASSUME TypeInv, TypeInv', IsFiniteSet(Threads), StaleInv,
         Len(pipe') <= Len(pipe), net' \subseteq net,
         expired' = expired, Waiting' = Waiting
  PROVE  StaleInv'
<1>1. IsFiniteSet(Waiting)
  BY FS_Subset DEF Waiting
<1>2. IsFiniteSet(net') /\ Cardinality(net') <= Cardinality(net)
  BY FS_Subset DEF StaleInv
<1>3. /\ Cardinality(net) \in Nat /\ Cardinality(net') \in Nat
      /\ Cardinality(Waiting) \in Nat
  BY <1>1, <1>2, FS_CardinalityType DEF StaleInv
<1>4. Len(pipe) \in Nat /\ Len(pipe') \in Nat /\ expired \in Nat
  BY DEF TypeInv, TypeOK
<1> QED
  BY <1>2, <1>3, <1>4 DEF StaleInv

LEMMA StaleStep ==
  ASSUME TypeInv, TypeInv', IsFiniteSet(Threads), StaleInv, [Next]_vars
  PROVE  StaleInv'
<1>1. /\ IsFiniteSet(Waiting) /\ Cardinality(Waiting) \in Nat
      /\ IsFiniteSet(net) /\ Cardinality(net) \in Nat
      /\ Len(pipe) \in Nat /\ Len(pipe') \in Nat
      /\ expired \in Nat
      /\ Len(pipe) + Cardinality(net) <= expired + Cardinality(Waiting)
  BY FS_Subset, FS_CardinalityType, SMTT(40) DEF Waiting, StaleInv, TypeInv, TypeOK
<1>2. ASSUME NEW t \in Threads, Step(t) PROVE StaleInv'
  <2> USE DEF TypeInv, TypeOK, PCs, Move, locks, outcome, Waiting
  <2>1. CASE LockApi(t) \/ Find(t) \/ NotFound(t) \/ Lock(t)
    BY <2>1, StaleFrame DEF LockApi, Find, NotFound, Leave, Lock
  <2>2. CASE LockRead(t) \/ SelectReady(t) \/ Return(t)
    BY <2>2, StaleFrame, SMTT(40) DEF LockRead, SelectReady, Return, Leave
  <2>3. CASE Send(t)
    <3>1. PICK m : net' = net \cup {m}
      BY <2>3 DEF Send
    <3>2. Waiting' = Waiting \cup {t} /\ t \notin Waiting
      BY <2>3 DEF Send
    <3>3. Cardinality(Waiting') = Cardinality(Waiting) + 1
      <4> HIDE DEF Waiting
      <4> QED
        BY <1>1, <3>2, FS_AddElement
    <3>6. /\ Cardinality(net') <= Cardinality(net) + 1
          /\ IsFiniteSet(net') /\ Cardinality(net') \in Nat
      <4>1. /\ IsFiniteSet(net \cup {m})
            /\ Cardinality(net \cup {m}) <= Cardinality(net) + 1
        BY <1>1, AddAtMostOne
      <4> QED
        BY <4>1, <3>1, FS_CardinalityType
    <3>4. pipe' = pipe /\ expired' = expired
      BY <2>3 DEF Send
    <3> QED
      BY <1>1, <3>3, <3>4, <3>6 DEF StaleInv
  <2>4. CASE SelectTimeout(t) \/ Read(t)
    <3>1. Waiting' = Waiting \ {t} /\ t \in Waiting
      BY <2>4 DEF SelectTimeout, Read
    <3>2. Cardinality(Waiting') = Cardinality(Waiting) - 1
      <4> HIDE DEF Waiting
      <4> QED
        BY <1>1, <3>1, FS_RemoveElement
    <3>3. net' = net /\ (\/ pipe' = pipe /\ expired' = expired + 1
                         \/ Len(pipe') = Len(pipe) - 1 /\ expired' = expired)
      BY <2>4 DEF SelectTimeout, Read
    <3> QED
      BY <1>1, <3>2, <3>3 DEF StaleInv
  <2> QED
    BY <1>2, <2>1, <2>2, <2>3, <2>4 DEF Step
<1>3. ASSUME NEW t \in Apis, NEW c \in Calls, ApiCall(t, c) PROVE StaleInv'
  BY <1>3, StaleFrame
     DEF ApiCall, Move, locks, outcome, Waiting, TypeInv, TypeOK
<1>4. ASSUME NEW t \in Scheds, NEW c \in Calls, SchedCall(t, c) PROVE StaleInv'
  BY <1>4, StaleFrame
     DEF SchedCall, Move, locks, outcome, Waiting, TypeInv, TypeOK
<1>5. ASSUME NEW m \in net, DeviceAnswer(m) PROVE StaleInv'
  <2>1. PICK a : net' = (net \ {m}) \cup {a}
    BY <1>5 DEF DeviceAnswer
  <2>2. /\ IsFiniteSet(net') /\ Cardinality(net') \in Nat
        /\ Cardinality(net') <= Cardinality(net)
    <3>1. /\ IsFiniteSet(net \ {m})
          /\ Cardinality(net \ {m}) = Cardinality(net) - 1
      BY <1>1, FS_RemoveElement
    <3>2. /\ IsFiniteSet((net \ {m}) \cup {a})
          /\ Cardinality((net \ {m}) \cup {a}) <= Cardinality(net)
      <4> DEFINE rest == net \ {m}
      <4>1. /\ IsFiniteSet(rest \cup {a}) /\ Cardinality(rest \cup {a}) \in Nat
            /\ Cardinality(rest \cup {a}) <= Cardinality(rest) + 1
        BY <3>1, AddAtMostOne
      <4>2. Cardinality(rest) = Cardinality(net) - 1
        BY <3>1
      <4> HIDE DEF rest
      <4> QED
        BY <1>1, <4>1, <4>2 DEF rest
    <3> QED
      BY <2>1, <3>2, FS_CardinalityType
  <2>3. pipe' = pipe /\ expired' = expired /\ Waiting' = Waiting
    BY <1>5 DEF DeviceAnswer, outcome, Waiting
  <2> QED
    BY <1>1, <2>2, <2>3 DEF StaleInv
<1>6. ASSUME NEW m \in net, Lose(m) \/ OnError(m) PROVE StaleInv'
  BY <1>6, StaleFrame, <1>1 DEF Lose, OnError, outcome, Waiting
<1>7. ASSUME NEW m \in net, OnOk(m) PROVE StaleInv'
  <2>1. /\ IsFiniteSet(net') /\ Cardinality(net') = Cardinality(net) - 1
    BY <1>1, <1>7, FS_RemoveElement DEF OnOk
  <2>2. Len(pipe') = Len(pipe) + 1
    BY <1>7 DEF OnOk, TypeInv, TypeOK
  <2>3. expired' = expired /\ Waiting' = Waiting
    BY <1>7 DEF OnOk, outcome, Waiting
  <2> QED
    BY <1>1, <2>1, <2>2, <2>3 DEF StaleInv
<1>8. ASSUME NEW r \in Resources, FoundResource(r) PROVE StaleInv'
  BY <1>8, StaleFrame, <1>1 DEF FoundResource, Waiting
<1>9. CASE UNCHANGED vars
  BY <1>9, StaleFrame, <1>1 DEF vars, Waiting
<1> QED
  BY <1>2, <1>3, <1>4, <1>5, <1>6, <1>7, <1>8, <1>9 DEF Next, Network

\* Whatever is lost or late and whoever calls, at most one message outlives its
\* call for each wait that gave up.
THEOREM StaleBounded ==
  ASSUME IsFiniteSet(Threads)
  PROVE  Spec => []StaleAnswersBounded
<1>1. Init => StaleInv
  <2> SUFFICES ASSUME Init PROVE StaleInv
    OBVIOUS
  <2>1. Waiting = {} /\ net = {} /\ Len(pipe) = 0 /\ expired = 0
    BY DEF Init, Waiting
  <2> QED
    BY <2>1, FS_EmptySet DEF StaleInv
<1>2. StaleInv /\ TypeInv => StaleAnswersBounded
  BY FS_EmptySet DEF StaleInv, StaleAnswersBounded, TypeInv, TypeOK
<1> QED
  BY <1>1, <1>2, TypeCorrect, StaleStep, PTL DEF Spec
\* The type invariant alone, as the runs check it.
THEOREM TypesKept == Spec => []TypeOK
<1>1. TypeInv => TypeOK
  BY DEF TypeInv
<1> QED
  BY <1>1, TypeCorrect, PTL

\* Called one at a time, with every answer in time: what set_sensor puts is the
\* setting it was given, and what get_sensor returns is the device's answer.
THEOREM SettingsPass ==
  ASSUME Serial
  PROVE  Spec => []SettingsCarried
<1>1. GetReportsAnswer /\ RequestCarriesArgument => SettingsCarried
  BY DEF SettingsCarried
<1> QED
  BY <1>1, SerialCallsCorrect, PTL
-----------------------------------------------------------------------------
(* Scheduling.                                                             *)

\* Threads are created in order, each for a start of its own.
SlotInv ==
    /\ \A s \in Slots : tpc[s] = "none" <=> s > schedular_thread
    /\ schedular_thread <= ops
    /\ api \in {"lock", "times", "create"} => schedular_thread < ops
    /\ request.op = "start" <=> request \in [op : {"start"}, arg : Schedules]
    /\ api \in {"times", "create", "flag"} => request.op = "start"
    /\ api \in {"send", "wait"} => request.op = "set"

\* Only the last thread may be alive, and only with the flag up, unless the
\* creator has still to raise it or the canceller to join.
LastInv ==
    /\ \A s \in Slots : Alive(s) => s = schedular_thread
    /\ FlagDownNoThread

SchedulingTypeInv == SchedulingTypeOK /\ SlotInv

LEMMA SchedulingInitInv == SchedulingInit => SchedulingTypeInv /\ LastInv
<1> SUFFICES ASSUME SchedulingInit PROVE SchedulingTypeInv /\ LastInv
  OBVIOUS
<1> USE SchedulingAssumption DEF SchedulingInit
<1>1. /\ schedule \in [set : Values, start : Nat, end : Nat, repeat : BOOLEAN]
      /\ request \in Requests
      /\ request.op = "stop" /\ request \notin [op : {"start"}, arg : Schedules]
  BY DEF Requests
<1>2. SchedulingTypeOK
  <2>1. /\ 0 \in 0 .. MaxTime /\ 0 \in 0 .. MaxOps /\ 0 \in 0 .. MaxLost
        /\ lock \in Slots \cup {Api, Nobody}
    BY DEF Nobody
  <2>2. /\ tpc \in [Slots -> TPCs] /\ start_time \in [Slots -> 0 .. MaxTime]
        /\ old \in [Slots -> Values \cup {NoSetting}]
        /\ ior \in [Slots -> Values] /\ restoring \in [Slots -> BOOLEAN]
        /\ cancelled \in [Slots -> BOOLEAN]
    BY <2>1 DEF TPCs
  <2> QED
    BY <1>1, <2>1, <2>2 DEF SchedulingTypeOK, ApiPCs
<1>3. SlotInv
  BY <1>1 DEF SlotInv, Slots
<1>4. LastInv
  BY DEF LastInv, Alive, FlagDownNoThread
<1> QED
  BY <1>2, <1>3, <1>4 DEF SchedulingTypeInv

LEMMA ApiTypeInv == SchedulingTypeInv /\ ApiStep => SchedulingTypeInv'
<1> SUFFICES ASSUME SchedulingTypeInv, ApiStep PROVE SchedulingTypeInv'
  OBVIOUS
<1> USE SchedulingAssumption
    DEF SchedulingTypeInv, SchedulingTypeOK, SlotInv, Slots, ApiPCs, TPCs, ApiGo, Unlock,
        params, handle, called, client, thread, Api, Nobody
<1>1. CASE LockSet
  BY <1>1 DEF LockSet, Requests
<1>2. CASE ApiSend
  BY <1>2 DEF ApiSend
<1>3. CASE ApiAnswer
  BY <1>3 DEF ApiAnswer, SetSensorEnds
<1>4. CASE LockStart
  BY <1>4 DEF LockStart, Requests
<1>5. CASE CopyTimes
  BY <1>5 DEF CopyTimes, Requests
<1>6. CASE KeepThread
  BY <1>6 DEF KeepThread
<1>7. CASE CreateThread
  BY <1>7 DEF CreateThread
<1>8. CASE SetFlag
  BY <1>8 DEF SetFlag
<1>9. CASE LockStop
  BY <1>9 DEF LockStop
<1>10. CASE Cancel
  BY <1>10 DEF Cancel
<1>11. CASE CancelFails
  BY <1>11 DEF CancelFails
<1>12. CASE Join
  BY <1>12 DEF Join
<1>13. CASE EndStop
  BY <1>13 DEF EndStop
<1> QED
  BY <1>1, <1>2, <1>3, <1>4, <1>5, <1>6, <1>7, <1>8, <1>9, <1>10, <1>11,
     <1>12, <1>13
     DEF ApiStep

LEMMA ThreadTypeInv ==
  ASSUME SchedulingTypeInv, NEW s \in Slots, ThreadStep(s)
  PROVE  SchedulingTypeInv'
<1> USE SchedulingAssumption
    DEF SchedulingTypeInv, SchedulingTypeOK, SlotInv, Slots, ApiPCs, TPCs, Go, Unlock, others,
        params, handle, called, client, thread, Api, Nobody
<1>1. CASE Begin(s)
  BY <1>1 DEF Begin
<1>2. CASE Enforce(s)
  BY <1>2 DEF Enforce
<1>3. CASE Restore(s)
  BY <1>3 DEF Restore
<1>4. CASE Over(s)
  BY <1>4, ZenonT(40) DEF Over
<1>11. CASE InputOver(s)
  BY <1>11 DEF InputOver
<1>5. CASE Die(s)
  BY <1>5 DEF Die
<1>12. CASE Announce(s)
  BY <1>12 DEF Announce
<1>6. CASE LockSensor(s)
  BY <1>6 DEF LockSensor
<1>7. CASE SendSensor(s)
  BY <1>7 DEF SendSensor
<1>8. CASE Answer(s)
  BY <1>8 DEF Answer, SetSensorEnds
<1>9. CASE Repeat(s)
  BY <1>9 DEF Repeat
<1>10. CASE Exit(s)
  BY <1>10, ZenonT(40) DEF Exit
<1> QED
  BY <1>1, <1>2, <1>3, <1>4, <1>5, <1>6, <1>7, <1>8, <1>9, <1>10, <1>11,
     <1>12 DEF ThreadStep

\* Type correctness, and that there is a slot for every thread created.
THEOREM SchedulingTypeCorrect == SchedulingSpec => []SchedulingTypeInv
<1>1. SchedulingTypeInv /\ [SchedulingNext]_schedulingVars => SchedulingTypeInv'
  <2> SUFFICES ASSUME SchedulingTypeInv, [SchedulingNext]_schedulingVars PROVE SchedulingTypeInv'
    OBVIOUS
  <2> USE DEF SchedulingTypeInv, SchedulingTypeOK, SlotInv
  <2>1. CASE Tick
    BY <2>1, SchedulingAssumption
       DEF Tick, params, handle, client, called, thread
  <2>2. ASSUME NEW r \in Requests, Call(r) PROVE SchedulingTypeInv'
    BY <2>2, SchedulingAssumption
       DEF Call, ApiGo, params, handle, thread, Requests, ApiPCs
  <2>3. CASE UNCHANGED schedulingVars
    BY <2>3 DEF schedulingVars, params, handle, client, called, thread
  <2> QED
    BY <2>1, <2>2, <2>3, ApiTypeInv, ThreadTypeInv DEF SchedulingNext, SchedulingTypeInv
<1> QED
  BY <1>1, SchedulingInitInv, PTL DEF SchedulingSpec
-----------------------------------------------------------------------------
LEMMA ApiLastInv ==
  ASSUME SchedulingTypeInv, LastInv, ApiStep
  PROVE  LastInv'
<1> USE DEF SchedulingTypeInv, SchedulingTypeOK, SlotInv, LastInv, FlagDownNoThread, Alive, Slots,
            ApiGo, handle, thread
<1>1. CASE LockSet \/ ApiSend \/ ApiAnswer
  BY <1>1 DEF LockSet, ApiSend, ApiAnswer
<1>2. CASE LockStart \/ CopyTimes
  BY <1>2 DEF LockStart, CopyTimes
<1>3. CASE KeepThread
  BY <1>3 DEF KeepThread
<1>4. CASE CreateThread
  BY <1>4, SchedulingAssumption DEF CreateThread
<1>5. CASE SetFlag
  BY <1>5 DEF SetFlag
<1>6. CASE LockStop
  BY <1>6 DEF LockStop
<1>7. CASE Cancel
  BY <1>7 DEF Cancel
<1>8. CASE CancelFails
  BY <1>8 DEF CancelFails
<1>9. CASE Join
  BY <1>9 DEF Join
<1>10. CASE EndStop
  BY <1>10 DEF EndStop
<1> QED
  BY <1>1, <1>2, <1>3, <1>4, <1>5, <1>6, <1>7, <1>8, <1>9, <1>10 DEF ApiStep

LEMMA ThreadLastInv ==
  ASSUME SchedulingTypeInv, LastInv, NEW s \in Slots, ThreadStep(s)
  PROVE  LastInv'
<1>1. CASE Exit(s)
  BY <1>1 DEF Exit, Go, others, called, client, SchedulingTypeInv, SchedulingTypeOK, LastInv,
     FlagDownNoThread, Alive
<1>2. CASE ~Exit(s)
  <2>1. /\ tpc' \in [Slots -> TPCs]
        /\ \A t \in Slots : Alive(t)' => Alive(t)
        /\ UNCHANGED <<running, schedular_thread, api>>
    BY <1>2 DEF ThreadStep, Begin, Enforce, Restore, Over, InputOver, Die, Announce,
       LockSensor, SendSensor, Answer, Repeat, Go, others, called, client,
       SchedulingTypeInv, SchedulingTypeOK, Alive, TPCs
  <2> QED
    BY <2>1 DEF LastInv, FlagDownNoThread
<1> QED
  BY <1>1, <1>2

LEMMA LastStep == SchedulingTypeInv /\ LastInv /\ [SchedulingNext]_schedulingVars => LastInv'
<1> SUFFICES ASSUME SchedulingTypeInv, LastInv, [SchedulingNext]_schedulingVars PROVE LastInv'
  OBVIOUS
<1>1. CASE Tick
  BY <1>1 DEF Tick, handle, client, thread, LastInv, FlagDownNoThread, Alive
<1>2. ASSUME NEW r \in Requests, Call(r) PROVE LastInv'
  BY <1>2 DEF Call, ApiGo, handle, thread, LastInv, FlagDownNoThread, Alive
<1>3. CASE UNCHANGED schedulingVars
  BY <1>3 DEF schedulingVars, handle, client, thread, LastInv, FlagDownNoThread, Alive
<1> QED
  BY <1>1, <1>2, <1>3, ApiLastInv, ThreadLastInv DEF SchedulingNext

\* However starts, stops, sets and threads that end on their own interleave,
\* at most one scheduler thread is alive.
THEOREM OneScheduler == SchedulingSpec => []AtMostOneScheduler
<1>1. LastInv => AtMostOneScheduler
  BY DEF LastInv, AtMostOneScheduler
<1> QED
  BY <1>1, SchedulingInitInv, SchedulingTypeCorrect, LastStep, PTL DEF SchedulingSpec

\* With the flag down and no start or stop at work no thread is left.
THEOREM FlagDownSafe == SchedulingSpec => []FlagDownNoThread
<1>1. LastInv => FlagDownNoThread
  BY DEF LastInv
<1> QED
  BY <1>1, SchedulingInitInv, SchedulingTypeCorrect, LastStep, PTL DEF SchedulingSpec
\* The type invariant alone, as the runs check it.
THEOREM SchedulingTypesKept == SchedulingSpec => []SchedulingTypeOK
<1>1. SchedulingTypeInv => SchedulingTypeOK
  BY DEF SchedulingTypeInv
<1> QED
  BY <1>1, SchedulingTypeCorrect, PTL
-----------------------------------------------------------------------------
(* One call, with nothing lost: a schedule that nobody interferes with.      *)

\* A thread is there for a start, and the caller has done with all but the
\* flag; it is cancelled by no one.
Caller ==
    /\ tpc[1] # "none" =>
           /\ ops = 1 /\ request.op = "start" /\ api \in {"idle", "flag"}
    /\ api \in {"cancel", "join", "unlock"} => request.op = "stop"
    /\ ops = 0 => request.op = "stop"
    /\ ~cancelled[1]

\* With no thread yet, the device is as it was, but for a set.
ThreadWaits ==
    tpc[1] = "none" /\ request.op # "set" =>
        /\ device = setting /\ old[1] = NoSetting
        /\ api \in {"times", "create"} => before = device

\* The thread has not enforced the schedule, or has restored what was before.
AsBefore == device = before /\ setting = before /\ old[1] \in {NoSetting, before}

\* It has enforced it, which it does for an output device only.
Enforced ==
    /\ output /\ device = schedule.set /\ setting = schedule.set
    /\ old[1] = before

\* What it is about to set, and to what; from set_sensor on that is cached.
Setting ==
    /\ output /\ old[1] = before
    /\ ior[1] = IF restoring[1] THEN before ELSE schedule.set
    /\ setting = ior[1]
    /\ tpc[1] = "wait" => sent = ior[1]

AloneInv ==
    /\ Caller
    /\ ThreadWaits
    /\ tpc[1] \in {"born", "over", "done"} => AsBefore
    /\ tpc[1] = "loop" => AsBefore \/ Enforced
    /\ tpc[1] \in {"print", "set", "send", "wait"} => Setting

LEMMA AloneBegins ==
  ASSUME MaxOps = 1, SchedulingInit
  PROVE  AloneInv
<1>1. /\ tpc[1] = "none" /\ old[1] = NoSetting /\ ~cancelled[1]
      /\ device = setting /\ api = "idle" /\ request.op = "stop"
  BY DEF SchedulingInit, Slots
<1> QED
  BY <1>1 DEF AloneInv, Caller, ThreadWaits

LEMMA AloneApi ==
  ASSUME MaxOps = 1, MaxLost = 0, SchedulingTypeInv, AloneInv, ApiStep
  PROVE  AloneInv'
<1>1. /\ 1 \in Slots /\ tpc[1] \in TPCs /\ tpc \in [Slots -> TPCs]
      /\ cancelled \in [Slots -> BOOLEAN]
  BY DEF SchedulingTypeInv, SchedulingTypeOK, Slots
<1>2. /\ tpc[1] = "none" <=> 1 > schedular_thread
      /\ schedular_thread \in {0, 1}
  BY <1>1 DEF SchedulingTypeInv, SchedulingTypeOK, SlotInv
<1>3. CASE LockSet \/ ApiSend \/ ApiAnswer
  BY <1>1, <1>3 DEF LockSet, ApiSend, ApiAnswer, ApiGo, AloneInv, Caller, ThreadWaits,
     called, thread, SchedulingTypeInv, SlotInv
<1>4. CASE LockStart \/ CopyTimes
  BY <1>1, <1>4 DEF LockStart, CopyTimes, ApiGo, AloneInv, Caller, ThreadWaits,
     called, thread
<1>5. CASE KeepThread \/ SetFlag
  BY <1>1, <1>5 DEF KeepThread, SetFlag, ApiGo, AloneInv, Caller, ThreadWaits,
     AsBefore, Enforced, Setting, called, thread, params
<1>6. CASE CreateThread
  <2>1. schedular_thread = 0 /\ tpc[1] = "none"
    BY <1>1, <1>2, <1>6 DEF CreateThread, ApiGo, AloneInv, Caller
  <2>2. /\ tpc'[1] = "born" /\ api' = "flag"
        /\ UNCHANGED <<setting, device, called, ops, old, cancelled>>
    BY <1>1, <1>6, <2>1 DEF CreateThread, ApiGo, called
  <2>3. ops = 1 /\ request.op = "start"
    BY <1>6 DEF CreateThread, ApiGo, SchedulingTypeInv, SchedulingTypeOK, SlotInv
  <2> QED
    BY <1>6, <2>1, <2>2, <2>3
       DEF CreateThread, ApiGo, AloneInv, Caller, ThreadWaits, AsBefore, called
<1>7. CASE LockStop
  BY <1>1, <1>7 DEF LockStop, ApiGo, AloneInv, Caller, ThreadWaits, called, thread
<1>8. CASE Cancel \/ CancelFails \/ Join \/ EndStop
  <2>1. tpc[1] = "none" /\ schedular_thread = 0
    BY <1>2, <1>8 DEF Cancel, CancelFails, Join, EndStop, ApiGo, AloneInv,
       Caller
  <2>2. tpc' = tpc /\ cancelled'[1] = cancelled[1]
    BY <1>1, <1>8, <2>1 DEF Cancel, CancelFails, Join, EndStop, thread
  <2> QED
    BY <1>8, <2>1, <2>2 DEF Cancel, CancelFails, Join, EndStop, ApiGo,
       AloneInv, Caller, ThreadWaits, called, thread
<1> QED
  BY <1>3, <1>4, <1>5, <1>6, <1>7, <1>8 DEF ApiStep

LEMMA AloneThread ==
  ASSUME MaxOps = 1, MaxLost = 0, SchedulingTypeInv, AloneInv, NEW s \in Slots, ThreadStep(s)
  PROVE  AloneInv'
<1>1. s = 1 /\ 1 \in Slots
  BY DEF Slots
<1>2. /\ tpc \in [Slots -> TPCs] /\ old \in [Slots -> Values \cup {NoSetting}]
      /\ ior \in [Slots -> Values] /\ restoring \in [Slots -> BOOLEAN]
      /\ before \in Values /\ NoSetting \notin Values /\ lost = 0
  BY SchedulingAssumption DEF SchedulingTypeInv, SchedulingTypeOK
<1>3. UNCHANGED <<api, request, ops, before, schedule, cancelled, output>>
      /\ tpc'[1] # "none" /\ tpc[1] # "none"
  BY <1>1, <1>2 DEF ThreadStep, Begin, Enforce, Restore, Over, InputOver, Die,
     Announce, LockSensor, SendSensor, Answer, Repeat, Exit, Go, others, called,
     client, params
<1>4. Caller' /\ ThreadWaits'
  BY <1>3 DEF AloneInv, Caller, ThreadWaits
<1> USE <1>1, <1>2, <1>3 DEF AloneInv
<1>5. CASE Begin(s)
  BY <1>4, <1>5 DEF Begin, Go, AsBefore
<1>6. CASE Enforce(s)
  BY <1>4, <1>6 DEF Enforce, Go, AsBefore, Enforced, Setting
<1>7. CASE Restore(s)
  BY <1>4, <1>7 DEF Restore, Go, AsBefore, Enforced, Setting
<1>8. CASE Over(s)
  <2>1. AsBefore
    BY <1>8 DEF Over, Enforced
  <2>2. tpc'[1] = "over" /\ UNCHANGED <<setting, device, old, before>>
    BY <1>8 DEF Over
  <2> QED
    BY <1>4, <2>1, <2>2 DEF AsBefore
<1>9. CASE InputOver(s)
  BY <1>4, <1>9 DEF InputOver, Go, AsBefore, Enforced
<1>10. CASE Die(s)
  BY <1>10 DEF Die, Caller
<1>11. CASE Announce(s) \/ LockSensor(s) \/ SendSensor(s)
  BY <1>4, <1>11 DEF Announce, LockSensor, SendSensor, Go, Setting
<1>12. CASE Answer(s)
  BY <1>4, <1>12 DEF Answer, SetSensorEnds, Go, AsBefore, Enforced, Setting
<1>13. CASE Repeat(s) \/ Exit(s)
  BY <1>4, <1>13 DEF Repeat, Exit, Go, AsBefore
<1> QED
  BY <1>5, <1>6, <1>7, <1>8, <1>9, <1>10, <1>11, <1>12, <1>13 DEF ThreadStep

LEMMA AloneStep ==
  ASSUME MaxOps = 1, MaxLost = 0, SchedulingTypeInv, AloneInv, [SchedulingNext]_schedulingVars
  PROVE  AloneInv'
<1>1. CASE Tick \/ UNCHANGED schedulingVars
  BY <1>1 DEF Tick, schedulingVars, params, handle, client, called, thread, AloneInv,
     Caller, ThreadWaits, AsBefore, Enforced, Setting
<1>2. ASSUME NEW r \in Requests, Call(r) PROVE AloneInv'
  <2>1. ops = 0 /\ ops' = 1 /\ 1 \in Slots
    BY <1>2 DEF Call, SchedulingTypeInv, SchedulingTypeOK, Slots
  <2>2. tpc[1] = "none" /\ request.op = "stop"
    BY <2>1 DEF AloneInv, Caller
  <2> QED
    BY <1>2, <2>1, <2>2 DEF Call, ApiGo, AloneInv, Caller, ThreadWaits, thread
<1> QED
  BY <1>1, <1>2, AloneApi, AloneThread DEF SchedulingNext

\* One call that nobody interferes with, and no message lost: once the thread of
\* the schedule has ended the device and the gateway have the setting from
\* before it, for every schedule (one that begins at once, or ends as it begins),
\* every setting and length of time.
THEOREM PreviousComesBack ==
  ASSUME MaxOps = 1, MaxLost = 0
  PROVE  SchedulingSpec => []RestoresPrevious
<1>1. ASSUME SchedulingTypeInv, AloneInv PROVE RestoresPrevious
  BY <1>1 DEF RestoresPrevious, AloneInv, AsBefore, Slots
<1>2. SchedulingTypeInv /\ AloneInv /\ [SchedulingNext]_schedulingVars => AloneInv'
  BY AloneStep
<1> QED
  BY <1>1, <1>2, AloneBegins, SchedulingTypeCorrect, PTL DEF SchedulingSpec
=============================================================================
