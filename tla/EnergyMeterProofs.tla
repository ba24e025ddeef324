------------------------- MODULE EnergyMeterProofs -------------------------
(***************************************************************************)
(* Proofs about EnergyMeter, with as many resources, reports, seconds and  *)
(* crashes as one likes.  Until the first crash or race of callbacks the   *)
(* meter is exact; after crashes it lacks what was used since the last     *)
(* ALIVE of the host, and nothing else.                                    *)
(*                                                                         *)
(* What the replay of the csv computes takes an induction over the lines.  *)
(* It is made with sets: a set of numbers that has 0 and, with every       *)
(* number, the next one has them all (SetInduction).                       *)
(***************************************************************************)
EXTENDS EnergyMeter, WellFoundedInduction, TLAPS

\* What a report handled is: Reports, and the one that switches off.
Handled == [state : 0 .. 1, power : Nat]

LEMMA ReportsHandled == Reports \cup {Off} \subseteq Handled
PROOF
<1>1. Reports \subseteq Handled
  BY EnergyMeterAssumption DEF EnergyMeterAssumption, Handled
<1>2. Off \in Handled
  BY DEF Handled, Off
<1> QED BY <1>1, <1>2

\* update_list closes the interval of the node at time now and opens one with
\* the use reported: the consumption due at this moment does not change.
LEMMA UpdatedExact ==
    ASSUME now \in Nat, NEW n \in Nodes, NEW r \in Handled
    PROVE  /\ Updated(n, r, now) \in Nodes
           /\ Use(Updated(n, r, now)) = Use(r)
           /\ Updated(n, r, now).unit + Pending(Updated(n, r, now))
                = n.unit + Pending(n)
PROOF
<1> DEFINE u == Updated(n, r, now)
<1>1. Use(n) \in Nat /\ Use(r) \in Nat
  BY DEF Use, Nodes, Handled
<1>2. CASE n.state # 0 /\ r.state # 0 /\ n.power = r.power
  BY <1>2 DEF Updated, Use, Pending
<1>3. CASE ~(n.state # 0 /\ r.state # 0 /\ n.power = r.power)
  <2>1. u = [state |-> r.state, power |-> r.power, prev |-> now,
             unit |-> n.unit + Use(n) * (now - n.prev)]
    BY <1>3 DEF Updated
  <2>2. n.unit + Use(n) * (now - n.prev) \in Int
    BY <1>1 DEF Nodes
  <2>3. u \in Nodes /\ Use(u) = Use(r)
    BY <2>1, <2>2 DEF Nodes, Handled, Use
  <2>4. u.unit + Use(u) * (now - u.prev) = n.unit + Use(n) * (now - n.prev)
    BY <2>1, <2>2, <2>3, <1>1
  <2> QED BY <2>3, <2>4 DEF Pending
<1> QED BY <1>2, <1>3

Typed ==
    /\ now \in Nat
    /\ job \in [Resources -> {"none", "locked", "appended", "inserting"}]
    /\ rep \in [Resources -> Handled]
    /\ walked \in [Resources -> SUBSET Resources]
    /\ listed \in SUBSET Resources
    /\ node \in [Resources -> Nodes]
    /\ seen \in [Resources -> Handled]
    /\ used \in [Resources -> Nat]

\* Where the callback of r is, and what its node and the ghosts say.
Balanced(r) ==
    /\ Metered(r) = used[r]
    /\ job[r] \in {"none", "locked"} =>
          IF r \in listed THEN Use(node[r]) = Use(seen[r]) ELSE Use(seen[r]) = 0
    /\ job[r] \in {"appended", "inserting"} => seen[r] = rep[r]
    /\ job[r] = "inserting" => r \notin listed

\* The inductive invariant.
Living ==
    /\ crashes \in Nat /\ raced \in BOOLEAN
    /\ crashes = 0 /\ ~raced =>
          /\ phase = "up" /\ Typed
          /\ \A r \in Resources : Balanced(r)

LEMMA LivingInit == Init => Living
PROOF
<1> SUFFICES ASSUME Init PROVE Living
  OBVIOUS
<1>1. Off \in Handled /\ NoNode \in Nodes /\ Use(Off) = 0
  BY DEF Off, Handled, NoNode, Nodes, Use
<1>2. Typed
  BY <1>1 DEF Init, Typed
<1>3. \A r \in Resources : Balanced(r)
  BY <1>1 DEF Init, Balanced, Metered
<1> QED BY <1>2, <1>3 DEF Living, Init

LEMMA LivingStep == Living /\ [Next]_vars => Living'
PROOF
<1> SUFFICES ASSUME Living, [Next]_vars PROVE Living'
  OBVIOUS
<1>1. crashes' \in Nat /\ raced' \in BOOLEAN
              /\ (crashes' = 0 => crashes = 0 /\ ~Crash)
              /\ (raced => raced')
  <2>0. crashes \in Nat /\ raced \in BOOLEAN
    BY DEF Living
  <2>1. CASE Crash
    BY <2>0, <2>1 DEF Crash
  <2>2. CASE \E r \in Resources :
               \/ \E report \in Reports : Observe(r, report)
               \/ AppendEntry(r) \/ Update(r) \/ Walk(r) \/ Insert(r)
    <3>1. crashes' = crashes /\ phase' = phase
      BY <2>2 DEF Observe, AppendEntry, Update, Walk, Insert, ghosts
    <3>2. UNCHANGED raced \/ \E r \in Resources : Insert(r)
      BY <2>2 DEF Observe, AppendEntry, Update, Walk, ghosts
    <3>3. ASSUME NEW r \in Resources, Insert(r)
          PROVE  raced' \in BOOLEAN /\ (raced => raced')
      <4>1. raced' = (raced \/ walked[r] # listed)
        BY <3>3 DEF Insert
      <4> QED BY <4>1
    <3>4. raced' \in BOOLEAN /\ (raced => raced')
      BY <3>2, <3>3, <2>0
    <3> QED BY <3>1, <3>4, <2>0 DEF Crash
  <2>3. CASE \E h \in Hosts : Alive(h)
    BY <2>0, <2>3 DEF Alive, Crash
  <2>4. CASE Populate \/ RemoveStatus \/ LoadAnalysys \/ Tick
    BY <2>0, <2>4 DEF Populate, RemoveStatus, LoadAnalysys, Tick, ghosts, Crash
  <2>5. CASE UNCHANGED vars
    BY <2>0, <2>5 DEF vars, ghosts, Crash
  <2> QED BY <2>1, <2>2, <2>3, <2>4, <2>5 DEF Next
<1>2. CASE ~(crashes' = 0 /\ ~raced')
  BY <1>1, <1>2 DEF Living
<1>3. CASE crashes' = 0 /\ ~raced'
  <2>0. phase = "up" /\ Typed /\ ~Crash /\ \A r \in Resources : Balanced(r)
    BY <1>1, <1>3 DEF Living
  <2> SUFFICES phase' = "up" /\ Typed' /\ \A r \in Resources : Balanced(r)'
    BY <1>1 DEF Living
  <2>1. ASSUME NEW r \in Resources, NEW report \in Reports, Observe(r, report)
        PROVE  phase' = "up" /\ Typed' /\ \A s \in Resources : Balanced(s)'
    <3>2. Typed' BY <2>0, <2>1, ReportsHandled DEF Typed, Observe, list, ghosts
    <3>4. ASSUME NEW s \in Resources PROVE Balanced(s)'
      BY <2>0, <2>1 DEF Balanced, Metered, Pending, Observe, Typed, list, ghosts
    <3> QED BY <3>2, <3>4, <2>0, <2>1 DEF Observe
  <2>2. ASSUME NEW r \in Resources, AppendEntry(r)
        PROVE  phase' = "up" /\ Typed' /\ \A s \in Resources : Balanced(s)'
    <3>2. Typed' BY <2>0, <2>2 DEF Typed, AppendEntry, list, ghosts
    <3>4. ASSUME NEW s \in Resources PROVE Balanced(s)'
      BY <2>0, <2>2 DEF Balanced, Metered, Pending, AppendEntry, Typed, list,
                        ghosts
    <3> QED BY <3>2, <3>4, <2>0, <2>2 DEF AppendEntry
  <2>3. ASSUME NEW r \in Resources, Update(r)
        PROVE  phase' = "up" /\ Typed' /\ \A s \in Resources : Balanced(s)'
    <3>1. /\ Updated(node[r], rep[r], now) \in Nodes
          /\ Use(Updated(node[r], rep[r], now)) = Use(rep[r])
          /\ Updated(node[r], rep[r], now).unit
               + Pending(Updated(node[r], rep[r], now))
               = node[r].unit + Pending(node[r])
      BY <2>0, UpdatedExact DEF Typed
    <3> DEFINE u == Updated(node[r], rep[r], now)
    <3> HIDE DEF u
    <3>u. /\ u \in Nodes /\ Use(u) = Use(rep[r])
          /\ u.unit + Pending(u) = node[r].unit + Pending(node[r])
      BY <3>1 DEF u
    <3>v. node' = [node EXCEPT ![r] = u] BY <2>3 DEF Update, u
    <3>2. Typed'
      BY <2>0, <2>3, <3>u, <3>v, ReportsHandled DEF Typed, Update, ghosts
    <3>4. ASSUME NEW s \in Resources PROVE Balanced(s)'
      <4>1. CASE s = r
        <5>1. node'[r] = u /\ job'[r] = "none" /\ r \in listed' /\ now' = now
              /\ used' = used /\ seen' = seen
          BY <2>0, <2>3, <3>v DEF Typed, Update, ghosts
        <5>2. u.unit + Pending(u) = used[r] /\ Use(u) = Use(seen[r])
          BY <2>0, <2>3, <3>u DEF Balanced, Metered, Update
        <5> QED BY <4>1, <5>1, <5>2 DEF Balanced, Metered, Pending
      <4>2. CASE s # r
        BY <4>2, <2>0, <2>3, <3>v DEF Balanced, Metered, Pending, Update, Typed,
           ghosts
      <4> QED BY <4>1, <4>2
    <3> QED BY <3>2, <3>4, <2>0, <2>3 DEF Update
  <2>4. ASSUME NEW r \in Resources, Walk(r)
        PROVE  phase' = "up" /\ Typed' /\ \A s \in Resources : Balanced(s)'
    <3>2. Typed' BY <2>0, <2>4 DEF Typed, Walk, list, ghosts
    <3>4. ASSUME NEW s \in Resources PROVE Balanced(s)'
      BY <2>0, <2>4 DEF Balanced, Metered, Pending, Walk, Typed, list, ghosts
    <3> QED BY <3>2, <3>4, <2>0, <2>4 DEF Walk
  <2>5. ASSUME NEW r \in Resources, Insert(r)
        PROVE  phase' = "up" /\ Typed' /\ \A s \in Resources : Balanced(s)'
    <3> DEFINE n == Inserted(rep[r], now)
    <3>1. n \in Nodes /\ Use(n) = Use(rep[r]) /\ n.unit = 0 /\ Pending(n) = 0
      <4>1. n \in Nodes /\ Use(n) = Use(rep[r]) /\ n.unit = 0 /\ n.prev = now
        BY <2>0 DEF Typed, Inserted, Nodes, Handled, Use
      <4>2. Use(n) \in Nat BY <4>1 DEF Use, Nodes
      <4> QED BY <4>1, <4>2, <2>0 DEF Pending, Typed
    <3> HIDE DEF n
    <3>2. listed' = listed \cup {r} /\ node' = [node EXCEPT ![r] = n]
      BY <2>0, <2>5, <1>3 DEF Insert, n
    <3>3. Typed'
      BY <2>0, <2>5, <3>1, <3>2, ReportsHandled DEF Typed, Insert, ghosts
    <3>5. ASSUME NEW s \in Resources PROVE Balanced(s)'
      <4>1. CASE s = r
        <5>1. used[r] = 0 /\ seen[r] = rep[r]
          BY <2>0, <2>5 DEF Balanced, Insert, Metered
        <5> QED BY <4>1, <5>1, <2>0, <2>5, <3>1, <3>2
              DEF Balanced, Metered, Pending, Insert, Typed, ghosts
      <4>2. CASE s # r
        BY <4>2, <2>0, <2>5, <3>2
           DEF Balanced, Metered, Pending, Insert, Typed
      <4> QED BY <4>1, <4>2
    <3> QED BY <3>3, <3>5, <2>0, <2>5 DEF Insert
  <2>6. ASSUME NEW h \in Hosts, Alive(h)
        PROVE  phase' = "up" /\ Typed' /\ \A s \in Resources : Balanced(s)'
    BY <2>0, <2>6 DEF Alive, list, Typed, Balanced, Metered, Pending
  <2>7. ASSUME Tick
        PROVE  phase' = "up" /\ Typed' /\ \A s \in Resources : Balanced(s)'
    <3>1. \A s \in Resources : Use(seen[s]) \in Nat
      BY <2>0 DEF Typed, Use, Handled
    <3>2. Typed' BY <2>0, <2>7, <3>1 DEF Typed, Tick, list
    <3>4. ASSUME NEW s \in Resources PROVE Balanced(s)'
      <4>0. job[s] = "none" /\ job' = job /\ listed' = listed /\ node' = node
            /\ seen' = seen /\ now' = now + 1
            /\ used'[s] = used[s] + Use(seen[s])
        BY <2>0, <2>7 DEF Tick, Working, list
      <4>1. CASE s \in listed
        <5>1. PICK n \in Nodes : n = node[s] /\ n = node'[s]
          BY <2>0, <4>0 DEF Typed
        <5>2. PICK t \in Nat : t = now /\ t + 1 = now'
          BY <2>0, <4>0 DEF Typed
        <5>3. Use(n) \in Nat /\ Use(n) = Use(seen[s])
          BY <5>1, <4>0, <4>1, <2>0 DEF Balanced, Nodes, Use
        <5>4. n.unit + Use(n) * (t - n.prev) = used[s]
          BY <5>1, <5>2, <4>1, <2>0 DEF Balanced, Metered, Pending
        <5>5. n.unit + Use(n) * (t + 1 - n.prev) = used[s] + Use(n)
          <6>1. /\ n.unit \in Int /\ n.prev \in Nat
                /\ Use(n) * (t - n.prev) \in Int
                /\ Use(n) * (t + 1 - n.prev) = Use(n) * (t - n.prev) + Use(n)
            BY <5>3 DEF Nodes
          <6> QED BY <6>1, <5>3, <5>4
        <5>6. Metered(s)' = n.unit + Use(n) * (t + 1 - n.prev)
          <6>1. Pending(node[s])' = Use(node'[s]) * (now' - node'[s].prev)
            BY DEF Pending
          <6>2. Metered(s)' = node'[s].unit + Pending(node[s])'
            BY <4>0, <4>1 DEF Metered
          <6>3. node'[s] = n /\ now' = t + 1
            BY <5>1, <5>2
          <6> QED BY <6>1, <6>2, <6>3, <5>3 DEF Nodes, Use
        <5> QED BY <5>1, <5>3, <5>5, <5>6, <4>0, <4>1 DEF Balanced
      <4>2. CASE s \notin listed
        BY <4>0, <4>2, <2>0 DEF Balanced, Metered, Typed
      <4> QED BY <4>1, <4>2
    <3> QED BY <3>2, <3>4, <2>0, <2>7 DEF Tick
  <2>8. ASSUME UNCHANGED vars
        PROVE  phase' = "up" /\ Typed' /\ \A s \in Resources : Balanced(s)'
    BY <2>0, <2>8 DEF vars, list, ghosts, Typed, Balanced,
       Metered, Pending
  <2>9. ~Populate /\ ~RemoveStatus /\ ~LoadAnalysys
    BY <2>0 DEF Populate, RemoveStatus, LoadAnalysys
  <2> QED BY <2>1, <2>2, <2>3, <2>4, <2>5, <2>6, <2>7, <2>8, <2>9, <2>0 DEF Next
<1> QED BY <1>1, <1>2, <1>3

\* As long as the gateway lives and callbacks do not race for the list, the
\* meter accounts for every resource exactly what it used as reported,
\* whatever the reports and their order.
THEOREM MeterIsExact == Spec => []MeterExact
PROOF
<1>1. Init => Living
  BY LivingInit
<1>2. Living /\ [Next]_vars => Living'
  BY LivingStep
<1>3. Living => MeterExact
  BY DEF Living, MeterExact, Balanced
<1> QED BY <1>1, <1>2, <1>3, PTL DEF Spec

-----------------------------------------------------------------------------
(* The invariants for the gateway that may crash.                          *)

\* What a node would report at time t.
Worth(n, t) == n.unit + Use(n) * (t - n.prev)

Due(r) == used[r] - lostUse[r]

Records == [res : Resources, rep : Reports, at : Nat]
             \cup [down : Hosts, at : Nat]

Lists == [listed : SUBSET Resources, node : [Resources -> Nodes]]

\* What the ghosts say of the clock, and the callbacks of the gateway.
ClockInv ==
    /\ \A h \in Hosts : alive[h] # Never => phase = "up" /\ alive[h] <= now
    /\ \A r \in Resources :
           /\ phase # "up" => job[r] = "none" /\ seen[r] = Off
           /\ job[r] \in {"appended", "inserting"} => seen[r] = rep[r]
           /\ job[r] = "inserting" => r \notin listed
           /\ job[r] # "none" => rep[r] \in Reports

\* The status file has a record of each host that was alive since the start.
StatusInv ==
    /\ \A i, j \in DOMAIN status : status[i].host = status[j].host => i = j
    /\ phase = "removed" => status = <<>>
    /\ phase = "up" =>
           /\ \A i \in DOMAIN status : status[i].at = alive[status[i].host]
           /\ \A h \in Hosts : alive[h] # Never =>
                  \E i \in DOMAIN status : status[i].host = h

\* The list is that of the csv, but for what a callback is still to do.
Follows(r) ==
    IF job[r] \in {"none", "locked"}
    THEN /\ r \in listed <=> r \in Replayed(csv).listed
         /\ node[r] = Replayed(csv).node[r]
    ELSE /\ r \in Replayed(csv).listed
         /\ Replayed(csv).node[r] =
                IF r \in listed THEN Updated(node[r], rep[r], now)
                                ELSE Inserted(rep[r], now)

ListInv == phase = "up" /\ ~raced => \A r \in Resources : Follows(r)

\* What the csv would make of r: the use due is closed at the time of the
\* down record that was written for its host, or is still to be written.
LogInv(r) ==
    LET n == Replayed(csv).node[r] IN
    IF r \notin Replayed(csv).listed
    THEN Due(r) = 0 /\ Use(seen[r]) = 0
    ELSE /\ phase = "up" => Worth(n, now) = Due(r) /\ Use(n) = Use(seen[r])
         /\ phase # "up" =>
                \/ Use(n) = 0 /\ n.unit = Due(r)
                \/ /\ phase = "down"
                   /\ \E i \in DOMAIN status :
                          /\ status[i].host = Host[r]
                          /\ Worth(n, status[i].at) = Due(r)

\* What the list makes of r is never too much; and a node that an insertion
\* may lose has been inserted since that walk, and has nothing to lose.
AtMost(r) ==
    phase = "up" =>
        IF r \in listed
        THEN /\ Worth(node[r], now) <= Due(r)
             /\ job[r] \in {"none", "locked"} => Use(node[r]) = Use(seen[r])
             /\ \A q \in Resources :
                    job[q] = "inserting" /\ r \notin walked[q] => 0 <= Due(r)
        ELSE 0 <= Due(r)

LedgerInv == \A r \in Resources \ uncovered : LogInv(r) /\ AtMost(r)

-----------------------------------------------------------------------------
(* Induction over the natural numbers, as a fact about sets of them.       *)
Less == {d \in Nat \X Nat : d[1] < d[2]}

LEMMA LeastNumber ==
    ASSUME NEW T \in SUBSET Nat, T # {}
    PROVE  \E m \in T : \A k \in T : m <= k
<1>1. IsWellFoundedOn(Less, Nat)
  BY NatLessThanWellFounded DEF OpToRel, Less
<1>2. \E x \in T : \A y \in T : ~ (<<y, x>> \in Less)
  BY <1>1, WFMin
<1>3. PICK x \in T : \A y \in T : ~ (<<y, x>> \in Less)
  BY <1>2
<1>4. ASSUME NEW y \in T PROVE x <= y
  <2>1. x \in Nat /\ y \in Nat /\ ~ (<<y, x>> \in Less)
    BY <1>3
  <2>2. <<y, x>> \in Nat \X Nat /\ <<y, x>>[1] = y /\ <<y, x>>[2] = x
    BY <2>1
  <2>3. ~ (y < x)
    BY <2>1, <2>2 DEF Less
  <2> QED
    BY <2>1, <2>3
<1> QED
  BY <1>4

LEMMA SetInduction ==
    ASSUME NEW T, 0 \in T, \A n \in Nat : n \in T => n + 1 \in T
    PROVE  \A n \in Nat : n \in T
<1> SUFFICES ASSUME NEW u \in Nat, u \notin T PROVE FALSE
  OBVIOUS
<1>1. PICK m \in Nat \ T : \A k \in Nat \ T : m <= k
  BY LeastNumber
<1>2. m # 0 /\ m - 1 \in Nat
  BY <1>1
<1>3. m - 1 \in T
  BY <1>1, <1>2
<1> QED
  BY <1>1, <1>3

(* The replay of the csv: the function is there, whatever the csv.         *)
LEMMA ReplaysExist ==
    ASSUME NEW log, Len(log) \in Nat
    PROVE  Replays(log) =
               [n \in 0 .. Len(log) |->
                   IF n = 0 THEN Nothing
                   ELSE Accounted(Replays(log)[n - 1], log[n])]
<1> DEFINE T == {k \in Nat : \E g : g = [n \in 0 .. k |->
                   IF n = 0 THEN Nothing ELSE Accounted(g[n - 1], log[n])]}
<1>1. 0 \in T
  <2> DEFINE g == [n \in 0 .. 0 |-> Nothing]
  <2>1. g = [n \in 0 .. 0 |->
                   IF n = 0 THEN Nothing ELSE Accounted(g[n - 1], log[n])]
    OBVIOUS
  <2> HIDE DEF g
  <2> QED
    BY <2>1
<1>2. ASSUME NEW k \in Nat, k \in T PROVE k + 1 \in T
  <2>1. PICK g : g = [n \in 0 .. k |->
                   IF n = 0 THEN Nothing ELSE Accounted(g[n - 1], log[n])]
    BY <1>2
  <2> DEFINE h == [n \in 0 .. k + 1 |->
                   IF n = 0 THEN Nothing ELSE Accounted(g[n - 1], log[n])]
  <2>2. \A n \in 0 .. k : h[n] = g[n]
    BY <2>1
  <2>3. h = [n \in 0 .. k + 1 |->
                   IF n = 0 THEN Nothing ELSE Accounted(h[n - 1], log[n])]
    <3>1. ASSUME NEW n \in 0 .. k + 1, n # 0 PROVE h[n - 1] = g[n - 1]
      <4>1. n - 1 \in 0 .. k
        BY <3>1
      <4> HIDE DEF h
      <4> QED
        BY <2>2, <4>1
    <3>2. \A n \in 0 .. k + 1 :
              (IF n = 0 THEN Nothing ELSE Accounted(g[n - 1], log[n]))
              = (IF n = 0 THEN Nothing ELSE Accounted(h[n - 1], log[n]))
      BY <3>1
    <3> QED
      BY <3>2
  <2> HIDE DEF h
  <2> QED
    BY <2>3
<1> HIDE DEF T
<1>3. Len(log) \in T
  BY <1>1, <1>2, SetInduction
<1>4. \E g : g = [n \in 0 .. Len(log) |->
                   IF n = 0 THEN Nothing ELSE Accounted(g[n - 1], log[n])]
  BY <1>3 DEF T
<1> QED
  BY <1>4 DEF Replays

LEMMA ReplaysStep ==
    ASSUME NEW log, Len(log) \in Nat
    PROVE  /\ Replays(log)[0] = Nothing
           /\ \A n \in 1 .. Len(log) :
                  Replays(log)[n] = Accounted(Replays(log)[n - 1], log[n])
<1> DEFINE g == Replays(log)
<1>1. g = [n \in 0 .. Len(log) |->
                   IF n = 0 THEN Nothing ELSE Accounted(g[n - 1], log[n])]
  BY ReplaysExist
<1> HIDE DEF g
<1>2. /\ g[0] = Nothing
      /\ \A n \in 1 .. Len(log) : g[n] = Accounted(g[n - 1], log[n])
  BY <1>1
<1> QED
  BY <1>2 DEF g

\* What comes after a line changes nothing of the list after it.
LEMMA ReplaysPrefix ==
    ASSUME NEW log, NEW longer, Len(log) \in Nat, Len(longer) \in Nat,
           Len(log) <= Len(longer),
           \A i \in 1 .. Len(log) : longer[i] = log[i]
    PROVE  \A n \in 0 .. Len(log) : Replays(longer)[n] = Replays(log)[n]
<1> DEFINE T == {n \in Nat : n <= Len(log)
                                 => Replays(longer)[n] = Replays(log)[n]}
<1>1. 0 \in T
  BY ReplaysStep
<1>2. ASSUME NEW n \in Nat, n \in T PROVE n + 1 \in T
  <2> SUFFICES ASSUME n + 1 <= Len(log)
               PROVE  Replays(longer)[n + 1] = Replays(log)[n + 1]
    OBVIOUS
  <2>1. /\ Replays(longer)[n] = Replays(log)[n]
        /\ n + 1 \in 1 .. Len(log) /\ n + 1 \in 1 .. Len(longer)
        /\ (n + 1) - 1 = n /\ longer[n + 1] = log[n + 1]
    BY <1>2
  <2>2. /\ Replays(longer)[n + 1] = Accounted(Replays(longer)[n], longer[n + 1])
        /\ Replays(log)[n + 1] = Accounted(Replays(log)[n], log[n + 1])
    BY <2>1, ReplaysStep
  <2> QED
    BY <2>1, <2>2
<1> HIDE DEF T
<1>3. \A n \in Nat : n \in T
  BY <1>1, <1>2, SetInduction
<1> QED
  BY <1>3 DEF T

LEMMA ReplayedEmpty == Replayed(<<>>) = Nothing
BY ReplaysStep DEF Replayed

LEMMA ReplayedAppend ==
    ASSUME NEW log \in Seq(Records), NEW record
    PROVE  Replayed(Append(log, record)) = Accounted(Replayed(log), record)
<1> DEFINE longer == Append(log, record)
<1>1. /\ Len(log) \in Nat /\ Len(longer) = Len(log) + 1
      /\ \A i \in 1 .. Len(log) : longer[i] = log[i]
      /\ longer[Len(log) + 1] = record
  OBVIOUS
<1> HIDE DEF longer
<1>2. Replays(longer)[Len(log)] = Replays(log)[Len(log)]
  BY <1>1, ReplaysPrefix
<1>3. /\ Len(longer) \in Nat /\ Len(log) + 1 \in 1 .. Len(longer)
      /\ (Len(log) + 1) - 1 = Len(log)
  BY <1>1
<1>4. Replays(longer)[Len(log) + 1]
          = Accounted(Replays(longer)[Len(log)], record)
  BY <1>1, <1>3, ReplaysStep
<1>5. Replayed(longer) = Accounted(Replayed(log), record)
  BY <1>1, <1>2, <1>4 DEF Replayed
<1> QED
  BY <1>5 DEF longer

-----------------------------------------------------------------------------
(* What the meter makes of a node.                                         *)
LEMMA WorthFacts ==
    ASSUME NEW n \in Nodes, NEW t \in Nat
    PROVE  /\ Use(n) \in Nat /\ Worth(n, t) \in Int
           /\ Worth(n, t + 1) = Worth(n, t) + Use(n)
           /\ \A s \in Nat : Worth(n, s) = Worth(n, t) - Use(n) * (t - s)
           /\ Use(n) = 0 => Worth(n, t) = n.unit
<1>1. /\ Use(n) \in Nat /\ n.unit \in Int /\ n.prev \in Nat
  BY DEF Nodes, Use
<1> DEFINE u == Use(n)
           p == n.prev
<1>2. u \in Nat /\ p \in Nat
  BY <1>1
<1>3. \A s \in Nat : Worth(n, s) = n.unit + u * (s - p)
  BY DEF Worth
<1> HIDE DEF u, p
<1>4. /\ \A a \in Int : u * a \in Int
      /\ \A a, b \in Int : u * (a - b) = u * a - u * b
  BY <1>2
<1>5. ASSUME NEW s \in Nat
      PROVE  /\ u * (s - p) = u * (t - p) - u * (t - s)
             /\ u * (s - p) \in Int /\ u * (t - p) \in Int
             /\ u * (t - s) \in Int
  <2> DEFINE a == t - p
             b == t - s
  <2>1. a \in Int /\ b \in Int /\ s - p = a - b
    BY <1>2
  <2> HIDE DEF a, b
  <2>2. u * (a - b) = u * a - u * b /\ u * a \in Int /\ u * b \in Int
    BY <1>4, <2>1
  <2>3. u * (s - p) = u * a - u * b
    BY <2>1, <2>2
  <2> QED
    BY <2>2, <2>3 DEF a, b
<1>6. \A s \in Nat : Worth(n, s) = Worth(n, t) - u * (t - s)
                     /\ Worth(n, t) \in Int
  BY <1>1, <1>3, <1>5
<1>7. t + 1 \in Nat /\ u * (t - (t + 1)) = -u
  <2>1. t - (t + 1) = -1
    OBVIOUS
  <2> QED
    BY <1>2, <2>1
<1>8. Worth(n, t + 1) = Worth(n, t) + u
  <2>1. PICK k \in Nat : k = t + 1 /\ u * (t - k) = -u
    BY <1>7
  <2>2. Worth(n, k) = Worth(n, t) - u * (t - k)
    BY <1>6
  <2>3. Worth(n, t) \in Int
    BY <1>6
  <2> QED
    BY <1>2, <2>1, <2>2, <2>3
<1>9. u = 0 => Worth(n, t) = n.unit
  BY <1>1, <1>2, <1>3
<1> QED
  BY <1>1, <1>6, <1>8, <1>9 DEF u

\* update_list closes one interval and opens the next.
LEMMA UpdatedWorth ==
    ASSUME NEW n \in Nodes, NEW r \in Handled, NEW t \in Nat
    PROVE  /\ Updated(n, r, t) \in Nodes
           /\ Use(Updated(n, r, t)) = Use(r)
           /\ Worth(Updated(n, r, t), t) = Worth(n, t)
<1>1. /\ Use(n) \in Nat /\ Use(r) \in Nat
      /\ n.unit \in Int /\ Worth(n, t) \in Int
  BY WorthFacts DEF Nodes, Handled, Use
<1>2. CASE n.state # 0 /\ r.state # 0 /\ n.power = r.power
  BY <1>2 DEF Updated, Use
<1>3. CASE ~ (n.state # 0 /\ r.state # 0 /\ n.power = r.power)
  <2> DEFINE u == [state |-> r.state, power |-> r.power, prev |-> t,
                   unit |-> Worth(n, t)]
  <2>1. Updated(n, r, t) = u
    BY <1>3 DEF Updated, Worth
  <2>2. u \in Nodes /\ Use(u) = Use(r) /\ u.unit = Worth(n, t) /\ u.prev = t
    BY <1>1 DEF Nodes, Handled, Use
  <2> HIDE DEF u
  <2>3. Worth(u, t) = Worth(n, t)
    BY <1>1, <2>2 DEF Worth
  <2> QED
    BY <2>1, <2>2, <2>3
<1> QED
  BY <1>2, <1>3

LEMMA InsertedWorth ==
    ASSUME NEW r \in Handled, NEW t \in Nat
    PROVE  /\ Inserted(r, t) \in Nodes
           /\ Use(Inserted(r, t)) = Use(r) /\ Worth(Inserted(r, t), t) = 0
<1> DEFINE n == Inserted(r, t)
<1>1. n \in Nodes /\ Use(n) = Use(r) /\ n.unit = 0 /\ n.prev = t
  BY DEF Inserted, Nodes, Handled, Use
<1>2. Use(r) \in Nat
  BY DEF Handled, Use
<1> HIDE DEF n
<1>3. Worth(n, t) = 0
  BY <1>1, <1>2 DEF Worth
<1> QED
  BY <1>1, <1>3 DEF n

LEMMA OffIsOff == Off \in Handled /\ Use(Off) = 0 /\ NoNode \in Nodes
BY DEF Off, Handled, Use, NoNode, Nodes

\* A line of the csv keeps the list a list.
LEMMA AccountedList ==
    ASSUME NEW m \in Lists, NEW record \in Records
    PROVE  Accounted(m, record) \in Lists
<1>1. m.listed \in SUBSET Resources /\ m.node \in [Resources -> Nodes]
  BY DEF Lists
<1>2. CASE "down" \in DOMAIN record
  <2>1. record.at \in Nat
    BY DEF Records
  <2> DEFINE f == [r \in Resources |->
             IF r \in m.listed /\ Host[r] = record.down
             THEN Updated(m.node[r], Off, record.at) ELSE m.node[r]]
  <2>2. f \in [Resources -> Nodes]
    BY <1>1, <2>1, OffIsOff, UpdatedWorth
  <2>3. Accounted(m, record) = [m EXCEPT !.node = f]
    BY <1>2 DEF Accounted
  <2> HIDE DEF f
  <2> QED
    BY <2>2, <2>3 DEF Lists
<1>3. CASE "down" \notin DOMAIN record
  <2>1. /\ record.at \in Nat /\ record.res \in Resources
        /\ record.rep \in Handled
    BY <1>3, ReportsHandled DEF Records
  <2> DEFINE r == record.res
             n == IF r \in m.listed
                  THEN Updated(m.node[r], record.rep, record.at)
                  ELSE Inserted(record.rep, record.at)
  <2>2. n \in Nodes
    BY <1>1, <2>1, UpdatedWorth, InsertedWorth
  <2>3. Accounted(m, record) = [listed |-> m.listed \cup {r},
                                node |-> [m.node EXCEPT ![r] = n]]
    BY <1>1, <1>3, <2>1 DEF Accounted
  <2>4. [m.node EXCEPT ![r] = n] \in [Resources -> Nodes]
    BY <1>1, <2>2
  <2> HIDE DEF n
  <2>5. m.listed \cup {r} \in SUBSET Resources
    BY <1>1, <2>1
  <2> HIDE DEF r
  <2> QED
    BY <2>3, <2>4, <2>5 DEF Lists
<1> QED
  BY <1>2, <1>3

LEMMA ReplayedList ==
    ASSUME NEW log \in Seq(Records)
    PROVE  /\ Replayed(log) \in Lists
           /\ \A n \in 0 .. Len(log) : Replays(log)[n] \in Lists
<1> DEFINE T == {n \in Nat : n <= Len(log) => Replays(log)[n] \in Lists}
<1>1. 0 \in T
  <2>1. Nothing \in Lists
    BY OffIsOff DEF Nothing, Lists
  <2> QED
    BY <2>1, ReplaysStep
<1>2. ASSUME NEW n \in Nat, n \in T PROVE n + 1 \in T
  <2> SUFFICES ASSUME n + 1 <= Len(log) PROVE Replays(log)[n + 1] \in Lists
    OBVIOUS
  <2>1. /\ Replays(log)[n] \in Lists /\ n + 1 \in 1 .. Len(log)
        /\ (n + 1) - 1 = n /\ log[n + 1] \in Records
    BY <1>2
  <2>2. Replays(log)[n + 1] = Accounted(Replays(log)[n], log[n + 1])
    BY <2>1, ReplaysStep
  <2> QED
    BY <2>1, <2>2, AccountedList
<1> HIDE DEF T
<1>3. \A n \in Nat : n \in T
  BY <1>1, <1>2, SetInduction
<1> QED
  BY <1>3 DEF T, Replayed

-----------------------------------------------------------------------------
(* Sequences and functions.                                                *)
LEMMA SeqIsFunction ==
    ASSUME NEW S, NEW s \in Seq(S)
    PROVE  /\ Len(s) \in Nat /\ DOMAIN s = 1 .. Len(s)
           /\ s \in [1 .. Len(s) -> S] /\ \A i \in 1 .. Len(s) : s[i] \in S
OBVIOUS

LEMMA FunctionIsSeq ==
    ASSUME NEW S, NEW n \in Nat, NEW s \in [1 .. n -> S]
    PROVE  s \in Seq(S) /\ Len(s) = n
OBVIOUS

(* What one line does to the node of a resource, and what the down records *)
(* of populate_prev_resource_status do.                                    *)
LEMMA AccountedDown ==
    ASSUME NEW m \in Lists, NEW h \in Hosts, NEW t \in Nat
    PROVE  LET next == Accounted(m, [down |-> h, at |-> t]) IN
           /\ next.listed = m.listed
           /\ \A r \in Resources :
                  next.node[r] = IF r \in m.listed /\ Host[r] = h
                                 THEN Updated(m.node[r], Off, t)
                                 ELSE m.node[r]
<1> DEFINE record == [down |-> h, at |-> t]
           f == [r \in Resources |-> IF r \in m.listed /\ Host[r] = h
                                     THEN Updated(m.node[r], Off, t)
                                     ELSE m.node[r]]
<1>1. "down" \in DOMAIN record /\ record.down = h /\ record.at = t
  OBVIOUS
<1> HIDE DEF record
<1>2. Accounted(m, record) = [m EXCEPT !.node = f]
  BY <1>1 DEF Accounted
<1>3. \A r \in Resources : f[r] = IF r \in m.listed /\ Host[r] = h
                                  THEN Updated(m.node[r], Off, t)
                                  ELSE m.node[r]
  OBVIOUS
<1> HIDE DEF f
<1>4. /\ Accounted(m, record).listed = m.listed
      /\ Accounted(m, record).node = f
  BY <1>2 DEF Lists
<1> QED
  BY <1>3, <1>4 DEF record

LEMMA AccountedReport ==
    ASSUME NEW m \in Lists, NEW r \in Resources, NEW v \in Reports,
           NEW t \in Nat
    PROVE  LET next == Accounted(m, [res |-> r, rep |-> v, at |-> t]) IN
           /\ next.listed = m.listed \cup {r}
           /\ next.node[r] = IF r \in m.listed THEN Updated(m.node[r], v, t)
                                               ELSE Inserted(v, t)
           /\ \A s \in Resources \ {r} : next.node[s] = m.node[s]
<1> DEFINE record == [res |-> r, rep |-> v, at |-> t]
           n == IF r \in m.listed THEN Updated(m.node[r], v, t)
                                  ELSE Inserted(v, t)
<1>1. /\ "down" \notin DOMAIN record /\ record.res = r /\ record.rep = v
      /\ record.at = t
  OBVIOUS
<1> HIDE DEF record
<1>2. m.node \in [Resources -> Nodes]
  BY DEF Lists
<1>3. Accounted(m, record) = [listed |-> m.listed \cup {r},
                              node |-> [m.node EXCEPT ![r] = n]]
  BY <1>1, <1>2 DEF Accounted
<1> HIDE DEF n
<1>4. /\ Accounted(m, record).listed = m.listed \cup {r}
      /\ Accounted(m, record).node = [m.node EXCEPT ![r] = n]
  BY <1>3
<1>5. /\ Accounted(m, record).node[r] = n
      /\ \A s \in Resources \ {r} : Accounted(m, record).node[s] = m.node[s]
  BY <1>2, <1>4
<1> QED
  BY <1>4, <1>5 DEF record, n

\* Every listed resource of a host that has a record is switched off at the
\* time of that record, and nothing else happens.
LEMMA ReplayedDowns ==
    ASSUME NEW log \in Seq(Records),
           NEW hosts \in Seq([host : Hosts, at : Nat]),
           \A i, j \in DOMAIN hosts : hosts[i].host = hosts[j].host => i = j
    PROVE  LET downs == [i \in DOMAIN hosts |->
                            [down |-> hosts[i].host, at |-> hosts[i].at]]
               m == Replayed(log)
               next == Replayed(log \o downs)
           IN
           /\ log \o downs \in Seq(Records) /\ next \in Lists
           /\ next.listed = m.listed
           /\ \A r \in Resources :
                  IF /\ r \in m.listed
                     /\ \E i \in DOMAIN hosts : hosts[i].host = Host[r]
                  THEN \E i \in DOMAIN hosts :
                           /\ hosts[i].host = Host[r]
                           /\ next.node[r] =
                                  Updated(m.node[r], Off, hosts[i].at)
                  ELSE next.node[r] = m.node[r]
<1> DEFINE downs == [i \in DOMAIN hosts |->
                        [down |-> hosts[i].host, at |-> hosts[i].at]]
           m == Replayed(log)
           all == log \o downs
           f == Replays(all)
           Done(k) ==
               /\ f[Len(log) + k] \in Lists
               /\ f[Len(log) + k].listed = m.listed
               /\ \A r \in Resources :
                  IF /\ r \in m.listed
                     /\ \E i \in 1 .. k : hosts[i].host = Host[r]
                  THEN \E i \in 1 .. k :
                           /\ hosts[i].host = Host[r]
                           /\ f[Len(log) + k].node[r]
                                  = Updated(m.node[r], Off, hosts[i].at)
                  ELSE f[Len(log) + k].node[r] = m.node[r]
           T == {k \in Nat : k <= Len(hosts) => Done(k)}
<1>1. /\ DOMAIN hosts = 1 .. Len(hosts) /\ Len(hosts) \in Nat
      /\ Len(log) \in Nat /\ downs \in Seq([down : Hosts, at : Nat])
      /\ Len(downs) = Len(hosts)
      /\ \A i \in 1 .. Len(hosts) :
             /\ downs[i] = [down |-> hosts[i].host, at |-> hosts[i].at]
             /\ hosts[i].host \in Hosts /\ hosts[i].at \in Nat
  <2>1. /\ DOMAIN hosts = 1 .. Len(hosts) /\ Len(hosts) \in Nat
        /\ \A i \in 1 .. Len(hosts) : hosts[i] \in [host : Hosts, at : Nat]
    BY SeqIsFunction
  <2>2. \A i \in 1 .. Len(hosts) :
            hosts[i].host \in Hosts /\ hosts[i].at \in Nat
    BY <2>1
  <2>3. /\ downs \in [1 .. Len(hosts) -> [down : Hosts, at : Nat]]
        /\ \A i \in 1 .. Len(hosts) :
               downs[i] = [down |-> hosts[i].host, at |-> hosts[i].at]
    BY <2>1, <2>2
  <2> HIDE DEF downs
  <2>4. Len(downs) = Len(hosts) /\ downs \in Seq([down : Hosts, at : Nat])
    BY <2>1, <2>3, FunctionIsSeq
  <2>5. Len(log) \in Nat
    OBVIOUS
  <2> QED
    BY <2>1, <2>2, <2>3, <2>4, <2>5
<1> HIDE DEF downs
<1>2. /\ downs \in Seq(Records) /\ all \in Seq(Records)
      /\ Len(all) = Len(log) + Len(hosts)
      /\ \A i \in 1 .. Len(log) : all[i] = log[i]
      /\ \A i \in 1 .. Len(hosts) : all[Len(log) + i] = downs[i]
  <2>1. /\ downs \in [1 .. Len(hosts) -> [down : Hosts, at : Nat]]
        /\ Len(hosts) \in Nat
    BY <1>1, SeqIsFunction
  <2>2. downs \in [1 .. Len(hosts) -> Records]
    BY <2>1 DEF Records
  <2>3. downs \in Seq(Records) /\ Len(downs) = Len(hosts)
    BY <2>1, <2>2, FunctionIsSeq
  <2>4. all \in Seq(Records) /\ Len(all) = Len(log) + Len(downs)
    BY <2>3
  <2>5. /\ \A i \in 1 .. Len(log) : all[i] = log[i]
        /\ \A i \in 1 .. Len(downs) : all[Len(log) + i] = downs[i]
    BY <2>3
  <2> QED
    BY <2>3, <2>4, <2>5
<1> HIDE DEF all
<1>3. m \in Lists /\ \A n \in 0 .. Len(all) : f[n] \in Lists
  BY <1>2, ReplayedList
<1>4. f[Len(log)] = m
  <2>1. /\ Len(all) \in Nat /\ Len(log) <= Len(all) /\ Len(log) \in Nat
        /\ Len(log) \in 0 .. Len(log)
    BY <1>1, <1>2
  <2>2. \A n \in 0 .. Len(log) : Replays(all)[n] = Replays(log)[n]
    BY <1>2, <2>1, ReplaysPrefix
  <2>3. f[Len(log)] = Replays(log)[Len(log)]
    BY <2>1, <2>2
  <2> QED
    BY <2>3 DEF Replayed
<1> HIDE DEF m, f
<1>5. 0 \in T
  BY <1>1, <1>3, <1>4
<1>6. ASSUME NEW k \in Nat, k \in T PROVE k + 1 \in T
  <2> SUFFICES ASSUME k + 1 <= Len(hosts) PROVE Done(k + 1)
    OBVIOUS
  <2> DEFINE h == hosts[k + 1].host
             t == hosts[k + 1].at
             old == f[Len(log) + k]
             new == f[Len(log) + (k + 1)]
  <2>1. /\ Done(k) /\ k + 1 \in 1 .. Len(hosts)
        /\ h \in Hosts /\ t \in Nat /\ old \in Lists
        /\ all[Len(log) + (k + 1)] = [down |-> h, at |-> t]
    <3>1. k + 1 \in 1 .. Len(hosts) /\ k <= Len(hosts)
      BY <1>1
    <3>2. Done(k)
      BY <1>6, <3>1
    <3>3. h \in Hosts /\ t \in Nat
      BY <1>1, <3>1
    <3>4. all[Len(log) + (k + 1)] = [down |-> h, at |-> t]
      BY <1>1, <1>2, <3>1
    <3> QED
      BY <3>1, <3>2, <3>3, <3>4
  <2>2. /\ Len(log) + (k + 1) \in 1 .. Len(all) /\ Len(all) \in Nat
        /\ (Len(log) + (k + 1)) - 1 = Len(log) + k
    <3> HIDE DEF Done
    <3>1. /\ Len(log) \in Nat /\ Len(hosts) \in Nat
          /\ Len(all) = Len(log) + Len(hosts) /\ k + 1 <= Len(hosts)
      BY <1>1, <1>2, <2>1
    <3> QED
      BY <3>1
  <2>3. new = Accounted(old, all[Len(log) + (k + 1)])
    BY <2>2, ReplaysStep DEF f
  <2>4. /\ new \in Lists /\ new.listed = old.listed
        /\ \A r \in Resources :
               new.node[r] = IF r \in old.listed /\ Host[r] = h
                             THEN Updated(old.node[r], Off, t)
                             ELSE old.node[r]
    <3> HIDE DEF Done, old, new, h, t
    <3>1. old \in Lists /\ h \in Hosts /\ t \in Nat
      BY <2>1
    <3>2. new = Accounted(old, [down |-> h, at |-> t])
      BY <2>1, <2>3
    <3>3. new \in Lists
      BY <1>3, <2>2 DEF new
    <3> QED
      BY <3>1, <3>2, <3>3, AccountedDown
  <2>5. \A i \in 1 .. k : hosts[i].host # h
    <3> HIDE DEF Done
    <3>1. ASSUME NEW i \in 1 .. k, hosts[i].host = h PROVE FALSE
      <4>1. i \in DOMAIN hosts /\ k + 1 \in DOMAIN hosts /\ i # k + 1
        BY <1>1, <2>1, SMTT(40)
      <4> QED
        BY <3>1, <4>1
    <3> QED
      BY <3>1
  <2>6. /\ old.listed = m.listed
        /\ \A r \in Resources :
               IF /\ r \in m.listed
                  /\ \E i \in 1 .. k : hosts[i].host = Host[r]
               THEN \E i \in 1 .. k :
                        /\ hosts[i].host = Host[r]
                        /\ old.node[r] = Updated(m.node[r], Off, hosts[i].at)
               ELSE old.node[r] = m.node[r]
    BY <2>1
  <2> HIDE DEF h, t, old, new
  <2>7. ASSUME NEW r \in Resources
        PROVE  IF /\ r \in m.listed
                  /\ \E i \in 1 .. (k + 1) : hosts[i].host = Host[r]
               THEN \E i \in 1 .. (k + 1) :
                        /\ hosts[i].host = Host[r]
                        /\ new.node[r] = Updated(m.node[r], Off, hosts[i].at)
               ELSE new.node[r] = m.node[r]
    <3>0. /\ \A i \in 1 .. (k + 1) : i = k + 1 \/ i \in 1 .. k
          /\ \A i \in 1 .. k : i \in 1 .. (k + 1)
          /\ k + 1 \in 1 .. (k + 1)
      BY <1>6
    <3>1. CASE r \notin m.listed
      BY <2>4, <2>6, <3>1
    <3>2. CASE r \in m.listed /\ Host[r] = h
      <4>1. \A i \in 1 .. k : hosts[i].host # Host[r]
        BY <2>5, <3>2
      <4>2. old.node[r] = m.node[r]
        BY <2>6, <4>1
      <4>3. new.node[r] = Updated(m.node[r], Off, t)
        BY <2>4, <2>6, <3>2, <4>2
      <4>4. hosts[k + 1].host = Host[r] /\ t = hosts[k + 1].at
        BY <3>2 DEF h, t
      <4> QED
        BY <3>0, <3>2, <4>3, <4>4
    <3>3. CASE r \in m.listed /\ Host[r] # h
      <4>1. new.node[r] = old.node[r]
        BY <2>4, <3>3
      <4>2. (\E i \in 1 .. (k + 1) : hosts[i].host = Host[r])
                <=> \E i \in 1 .. k : hosts[i].host = Host[r]
        BY <3>0, <3>3 DEF h
      <4>3. CASE \E i \in 1 .. k : hosts[i].host = Host[r]
        <5>1. PICK i \in 1 .. k :
                  /\ hosts[i].host = Host[r]
                  /\ old.node[r] = Updated(m.node[r], Off, hosts[i].at)
          BY <2>6, <3>3, <4>3
        <5> QED
          BY <3>0, <3>3, <4>1, <5>1
      <4>4. CASE ~ \E i \in 1 .. k : hosts[i].host = Host[r]
        BY <2>6, <4>1, <4>2, <4>4
      <4> QED
        BY <4>3, <4>4
    <3> QED
      BY <3>1, <3>2, <3>3
  <2>8. new = f[Len(log) + (k + 1)] /\ new \in Lists /\ new.listed = m.listed
    BY <2>4, <2>6 DEF new
  <2> QED
    BY <2>7, <2>8
<1> HIDE DEF T
<1>7. Len(hosts) \in T
  BY <1>1, <1>5, <1>6, SetInduction
<1>8. Done(Len(hosts))
  BY <1>1, <1>7 DEF T
<1>9. f[Len(log) + Len(hosts)] = Replayed(all)
  BY <1>2 DEF Replayed, f
<1>10. \A r \in Resources :
           IF /\ r \in m.listed
              /\ \E i \in DOMAIN hosts : hosts[i].host = Host[r]
           THEN \E i \in DOMAIN hosts :
                    /\ hosts[i].host = Host[r]
                    /\ Replayed(all).node[r] =
                           Updated(m.node[r], Off, hosts[i].at)
           ELSE Replayed(all).node[r] = m.node[r]
  <2>1. \A r \in Resources :
           IF /\ r \in m.listed
              /\ \E i \in 1 .. Len(hosts) : hosts[i].host = Host[r]
           THEN \E i \in 1 .. Len(hosts) :
                    /\ hosts[i].host = Host[r]
                    /\ f[Len(log) + Len(hosts)].node[r]
                           = Updated(m.node[r], Off, hosts[i].at)
           ELSE f[Len(log) + Len(hosts)].node[r] = m.node[r]
    BY <1>8
  <2> HIDE DEF Done
  <2>2. DOMAIN hosts = 1 .. Len(hosts)
    BY <1>1
  <2> QED
    BY <1>9, <2>1, <2>2
<1>11. /\ all \in Seq(Records) /\ Replayed(all) \in Lists
       /\ Replayed(all).listed = m.listed
  BY <1>2, <1>8, <1>9
<1> QED
  BY <1>10, <1>11 DEF all, downs, m

\* update_resource_live_status replaces a record that begins with the ip of
\* the host, or adds one.
LEMMA StampedHow ==
    ASSUME NEW h \in Hosts, status \in Seq([host : Hosts, at : Nat])
    PROVE  LET record == [host |-> h, at |-> now] IN
           \/ /\ Stamped(h) = Append(status, record)
              /\ \A i \in DOMAIN status :
                     <<h, status[i].host>> \notin IpPrefixes
           \/ \E i \in DOMAIN status :
                  /\ <<h, status[i].host>> \in IpPrefixes
                  /\ Stamped(h) = [status EXCEPT ![i] = record]
<1> DEFINE record == [host |-> h, at |-> now]
           I == {i \in 1 .. Len(status) : <<h, status[i].host>> \in IpPrefixes}
           k == IF I # {} THEN Min(I) ELSE 0
<1>1. Stamped(h) = IF k = 0 THEN Append(status, record)
                            ELSE [status EXCEPT ![k] = record]
  BY DEF Stamped, SelectInSeq
<1>2. DOMAIN status = 1 .. Len(status) /\ Len(status) \in Nat
  OBVIOUS
<1>3. CASE I = {}
  BY <1>1, <1>2, <1>3
<1>4. CASE I # {}
  <2>1. I \in SUBSET Nat
    BY <1>2
  <2> HIDE DEF I
  <2>2. \E m \in I : \A j \in I : m <= j
    BY <1>4, <2>1, LeastNumber
  <2>3. Min(I) \in I
    BY <2>2 DEF Min
  <2>4. k \in I
    BY <1>4, <2>3
  <2>5. k \in 1 .. Len(status) /\ <<h, status[k].host>> \in IpPrefixes
    BY <2>4 DEF I
  <2> HIDE DEF k, record
  <2>6. k # 0 /\ k \in DOMAIN status
    BY <1>2, <2>5
  <2>7. Stamped(h) = [status EXCEPT ![k] = record]
    BY <1>1, <2>6
  <2> QED
    BY <2>5, <2>6, <2>7 DEF record
<1> QED
  BY <1>3, <1>4

-----------------------------------------------------------------------------
(* Types, and what the ghosts say of the clock.                            *)
LEMMA Bounds ==
    /\ MaxTime \in Nat /\ MaxReports \in Nat /\ MaxCrashes \in Nat
    /\ Host \in [Resources -> Hosts]
BY EnergyMeterAssumption DEF EnergyMeterAssumption

LEMMA TypesStart == Init => TypeOK /\ ClockInv
<1> SUFFICES ASSUME Init PROVE TypeOK /\ ClockInv
  OBVIOUS
<1>1. TypeOK
  <2>1. /\ 0 \in 0 .. MaxTime /\ 0 \in 0 .. MaxReports /\ 0 \in 0 .. MaxCrashes
    BY Bounds
  <2>2. /\ csv \in Seq([res : Resources, rep : Reports, at : Nat]
                           \cup [down : Hosts, at : Nat])
        /\ status \in Seq([host : Hosts, at : Nat])
    BY DEF Init
  <2>3. /\ node \in [Resources -> Nodes]
        /\ rep \in [Resources -> Reports \cup {Off}]
        /\ seen \in [Resources -> Reports \cup {Off}]
    BY OffIsOff DEF Init
  <2>4. alive \in [Hosts -> Nat \cup {Never}]
    BY DEF Init
  <2>5. /\ used \in [Resources -> Nat] /\ lostUse \in [Resources -> Nat]
        /\ job \in [Resources -> {"none", "locked", "appended", "inserting"}]
        /\ walked \in [Resources -> SUBSET Resources]
    BY DEF Init
  <2> QED
    BY <2>1, <2>2, <2>3, <2>4, <2>5 DEF Init, TypeOK
<1>2. ClockInv
  BY DEF Init, ClockInv
<1> QED
  BY <1>1, <1>2

LEMMA CallbackTypes ==
    ASSUME TypeOK, ClockInv, NEW r \in Resources,
           \/ \E report \in Reports : Observe(r, report)
           \/ AppendEntry(r) \/ Update(r) \/ Walk(r) \/ Insert(r)
    PROVE  TypeOK'
<1> USE DEF TypeOK
<1>1. /\ rep[r] \in Reports \cup {Off} /\ rep[r] \in Handled /\ now \in Nat
  BY ReportsHandled, Bounds
<1>2. ASSUME NEW report \in Reports, Observe(r, report) PROVE TypeOK'
  <2>1. reports + 1 \in 0 .. MaxReports
    BY <1>2, Bounds DEF Observe
  <2> QED
    BY <1>2, <2>1 DEF Observe, list, files, ghosts
<1>3. ASSUME AppendEntry(r) PROVE TypeOK'
  <2> DEFINE record == [res |-> r, rep |-> rep[r], at |-> now]
             S == [res : Resources, rep : Reports, at : Nat]
                     \cup [down : Hosts, at : Nat]
  <2>1. record \in S
    <3>1. rep[r] \in Reports
      BY <1>3 DEF AppendEntry, ClockInv
    <3> QED
      BY <1>1, <3>1
  <2>2. csv \in Seq(S) /\ csv' = Append(csv, record)
    BY <1>3 DEF AppendEntry
  <2> HIDE DEF record, S
  <2>3. csv' \in Seq(S)
    BY <2>1, <2>2
  <2>4. csv' \in Seq([res : Resources, rep : Reports, at : Nat]
                     \cup [down : Hosts, at : Nat])
    BY <2>3 DEF S
  <2> QED
    BY <1>1, <1>3, <2>4 DEF AppendEntry, list, ghosts
<1>4. ASSUME Update(r) PROVE TypeOK'
  <2>1. Updated(node[r], rep[r], now) \in Nodes
    BY <1>1, UpdatedWorth
  <2> QED
    BY <1>4, <2>1 DEF Update, files, ghosts
<1>5. ASSUME Walk(r) PROVE TypeOK'
  BY <1>5 DEF Walk, list, files, ghosts
<1>6. ASSUME Insert(r) PROVE TypeOK'
  <2>1. Inserted(rep[r], now) \in Nodes
    BY <1>1, InsertedWorth
  <2>2. listed' \in SUBSET Resources /\ node' \in [Resources -> Nodes]
    <3>1. CASE walked[r] \subseteq listed
      <4>1. listed' = walked[r] \cup {r}
            /\ node' = [node EXCEPT ![r] = Inserted(rep[r], now)]
        BY <1>6, <3>1 DEF Insert
      <4> QED
        BY <2>1, <4>1
    <3>2. CASE ~ (walked[r] \subseteq listed)
      BY <1>6, <3>2 DEF Insert, list
    <3> QED
      BY <3>1, <3>2
  <2>3. raced' \in BOOLEAN
    <3>1. raced' = (raced \/ walked[r] # listed)
      BY <1>6 DEF Insert
    <3> QED
      BY <3>1
  <2>4. /\ job' = [job EXCEPT ![r] = "none"] /\ rep' = [rep EXCEPT ![r] = Off]
        /\ walked' = [walked EXCEPT ![r] = {}]
        /\ UNCHANGED <<now, phase, csv, status, reports, crashes, seen, used,
                       alive, uncovered, lostUse>>
    BY <1>6 DEF Insert, files
  <2>5. /\ job' \in [Resources -> {"none", "locked", "appended", "inserting"}]
        /\ rep' \in [Resources -> Reports \cup {Off}]
        /\ walked' \in [Resources -> SUBSET Resources]
    BY <2>4
  <2> QED
    BY <2>2, <2>3, <2>4, <2>5
<1> QED
  BY <1>2, <1>3, <1>4, <1>5, <1>6

LEMMA CrashTypes ==
    ASSUME TypeOK, ClockInv, Crash
    PROVE  TypeOK'
<1> USE DEF TypeOK
<1> DEFINE Unstamped == {r \in Resources : alive[Host[r]] = Never}
<1>1. crashes + 1 \in 0 .. MaxCrashes /\ crashes' = crashes + 1
  BY Bounds DEF Crash
<1>2. uncovered' \in SUBSET Resources /\ lostUse' \in [Resources -> Nat]
  <2>1. CASE phase = "up"
    <3>1. /\ uncovered' = uncovered \cup Unstamped
          /\ lostUse' = [r \in Resources |-> IF r \in Unstamped THEN lostUse[r]
                    ELSE lostUse[r] + Use(seen[r]) * (now - alive[Host[r]])]
      BY <2>1 DEF Crash
    <3>2. ASSUME NEW r \in Resources \ Unstamped
          PROVE  lostUse[r] + Use(seen[r]) * (now - alive[Host[r]]) \in Nat
      <4>1. seen[r] \in Handled
        BY ReportsHandled
      <4>2. Use(seen[r]) \in Nat
        BY <4>1 DEF Use, Handled
      <4>3. now - alive[Host[r]] \in Nat
        <5>1. /\ Host[r] \in Hosts /\ alive[Host[r]] # Never /\ now \in Nat
              /\ alive[Host[r]] \in Nat
          BY Bounds
        <5> QED
          BY <5>1 DEF ClockInv
      <4>4. Use(seen[r]) * (now - alive[Host[r]]) \in Nat
        <5>1. \A a, b \in Nat : a * b \in Nat
          OBVIOUS
        <5> HIDE DEF TypeOK
        <5> QED
          BY <4>2, <4>3, <5>1
      <4>5. PICK c \in Nat : c = Use(seen[r]) * (now - alive[Host[r]])
        BY <4>4
      <4>6. lostUse[r] \in Nat
        OBVIOUS
      <4>7. lostUse[r] + c \in Nat
        BY <4>6
      <4> QED
        BY <4>5, <4>7, Zenon
    <3> HIDE DEF Unstamped
    <3> QED
      BY <3>1, <3>2 DEF Unstamped
  <2>2. CASE phase # "up"
    BY <2>2 DEF Crash
  <2> QED
    BY <2>1, <2>2
<1>3. /\ phase' = "down"
      /\ job' = [r \in Resources |-> "none"]
      /\ rep' = [r \in Resources |-> Off]
      /\ walked' = [r \in Resources |-> {}]
      /\ listed' = {} /\ node' = [r \in Resources |-> NoNode]
      /\ seen' = [r \in Resources |-> Off]
      /\ alive' = [h \in Hosts |-> Never]
      /\ UNCHANGED <<now, csv, status, reports, used, raced>>
  BY DEF Crash, files
<1>4. /\ job' \in [Resources -> {"none", "locked", "appended", "inserting"}]
      /\ rep' \in [Resources -> Reports \cup {Off}]
      /\ walked' \in [Resources -> SUBSET Resources]
      /\ listed' \in SUBSET Resources /\ node' \in [Resources -> Nodes]
      /\ seen' \in [Resources -> Reports \cup {Off}]
      /\ alive' \in [Hosts -> Nat \cup {Never}]
  BY <1>3, OffIsOff
<1> QED
  BY <1>1, <1>2, <1>3, <1>4

LEMMA StartTypes ==
    ASSUME TypeOK, ClockInv,
           \/ \E h \in Hosts : Alive(h)
           \/ RemoveStatus \/ LoadAnalysys \/ Tick \/ UNCHANGED vars
    PROVE  TypeOK'
<1> USE DEF TypeOK
<1>1. ASSUME NEW h \in Hosts, Alive(h) PROVE TypeOK'
  <2> DEFINE record == [host |-> h, at |-> now]
  <2>1. record \in [host : Hosts, at : Nat]
    BY Bounds
  <2>2. \/ Stamped(h) = Append(status, record)
        \/ \E i \in DOMAIN status : Stamped(h) = [status EXCEPT ![i] = record]
    BY StampedHow
  <2> HIDE DEF record
  <2> DEFINE S == [host : Hosts, at : Nat]
  <2>3. Stamped(h) \in Seq(S)
    <3>1. record \in S /\ status \in Seq(S)
      BY <2>1
    <3> HIDE DEF S
    <3>2. Append(status, record) \in Seq(S)
      BY <3>1
    <3>3. ASSUME NEW i \in DOMAIN status
          PROVE  [status EXCEPT ![i] = record] \in Seq(S)
      BY <3>1
    <3> QED
      BY <2>2, <3>2, <3>3
  <2>4. alive' \in [Hosts -> Nat \cup {Never}]
    BY <1>1, Bounds DEF Alive
  <2> QED
    BY <1>1, <2>3, <2>4 DEF Alive, list
<1>2. ASSUME RemoveStatus PROVE TypeOK'
  <2>1. status' \in Seq([host : Hosts, at : Nat])
    BY <1>2 DEF RemoveStatus
  <2> QED
    BY <1>2, <2>1 DEF RemoveStatus, list, ghosts
<1>3. ASSUME LoadAnalysys PROVE TypeOK'
  <2>1. csv \in Seq(Records)
    BY DEF Records
  <2>2. Replayed(csv) \in Lists
    BY <2>1, ReplayedList
  <2>3. listed' \in SUBSET Resources /\ node' \in [Resources -> Nodes]
    BY <1>3, <2>2 DEF LoadAnalysys, Lists
  <2> QED
    BY <1>3, <2>3 DEF LoadAnalysys, files, ghosts
<1>4. ASSUME Tick PROVE TypeOK'
  <2>1. now' \in 0 .. MaxTime
    BY <1>4, Bounds DEF Tick
  <2>2. \A r \in Resources : Use(seen[r]) \in Nat
    BY ReportsHandled DEF Use, Handled
  <2>3. used' \in [Resources -> Nat]
    <3>1. CASE phase = "up"
      <4>1. used' = [r \in Resources |-> used[r] + Use(seen[r])]
        BY <1>4, <3>1 DEF Tick
      <4>2. \A r \in Resources : used[r] + Use(seen[r]) \in Nat
        BY <2>2
      <4> QED
        BY <4>1, <4>2
    <3>2. CASE phase # "up"
      BY <1>4, <3>2 DEF Tick
    <3> QED
      BY <3>1, <3>2
  <2> QED
    BY <1>4, <2>1, <2>3 DEF Tick, list, files
<1>5. ASSUME UNCHANGED vars PROVE TypeOK'
  BY <1>5 DEF vars, list, files, ghosts
<1> QED
  BY <1>1, <1>2, <1>3, <1>4, <1>5

LEMMA PopulateTypes ==
    ASSUME TypeOK, Populate
    PROVE  TypeOK'
<1> USE DEF TypeOK
<1> DEFINE downs == [i \in DOMAIN status |->
                        [down |-> status[i].host, at |-> status[i].at]]
<1>1. /\ Len(status) \in Nat /\ DOMAIN status = 1 .. Len(status)
      /\ \A i \in 1 .. Len(status) : status[i] \in [host : Hosts, at : Nat]
  BY SeqIsFunction
<1>2. \A i \in 1 .. Len(status) :
          [down |-> status[i].host, at |-> status[i].at] \in Records
  BY <1>1 DEF Records
<1>3. downs \in [1 .. Len(status) -> Records]
  BY <1>1, <1>2
<1> HIDE DEF downs
<1>4. csv' = csv \o downs
  BY DEF Populate, downs
<1>5. downs \in Seq(Records)
  BY <1>1, <1>3, FunctionIsSeq
<1>6. csv \in Seq(Records)
  BY DEF Records
<1>7. csv' \in Seq(Records)
  BY <1>4, <1>5, <1>6
<1>8. csv' \in Seq([res : Resources, rep : Reports, at : Nat]
                     \cup [down : Hosts, at : Nat])
  BY <1>7 DEF Records
<1> QED
  BY <1>8 DEF Populate, list, ghosts

\* The clock and the callbacks: every step keeps them.
LEMMA ClockStep ==
    ASSUME TypeOK, ClockInv, [Next]_vars
    PROVE  ClockInv'
<1> USE DEF TypeOK, ClockInv
<1>1. ASSUME NEW r \in Resources, NEW report \in Reports, Observe(r, report)
      PROVE  ClockInv'
  BY <1>1 DEF Observe, list, ghosts
<1>2. ASSUME NEW r \in Resources, AppendEntry(r) PROVE ClockInv'
  BY <1>2 DEF AppendEntry, list, ghosts
<1>3. ASSUME NEW r \in Resources, Update(r) PROVE ClockInv'
  BY <1>3 DEF Update, ghosts
<1>4. ASSUME NEW r \in Resources, Walk(r) PROVE ClockInv'
  BY <1>4 DEF Walk, list, ghosts
<1>5. ASSUME NEW r \in Resources, Insert(r) PROVE ClockInv'
  <2>1. /\ job' = [job EXCEPT ![r] = "none"]
        /\ rep' = [rep EXCEPT ![r] = Off]
        /\ UNCHANGED <<now, phase, seen, alive>>
        /\ listed' \subseteq listed \cup {r}
    <3>1. listed' \subseteq listed \cup {r}
      BY <1>5 DEF Insert, list
    <3> QED
      BY <1>5, <3>1 DEF Insert
  <2> QED
    BY <2>1
<1>6. ASSUME NEW h \in Hosts, Alive(h) PROVE ClockInv'
  <2>1. now <= now
    BY Bounds
  <2> QED
    BY <1>6, <2>1 DEF Alive, list
<1>7. ASSUME Crash PROVE ClockInv'
  BY <1>7 DEF Crash
<1>8. ASSUME Populate \/ RemoveStatus \/ LoadAnalysys PROVE ClockInv'
  BY <1>8 DEF Populate, RemoveStatus, LoadAnalysys, list, ghosts
<1>9. ASSUME Tick PROVE ClockInv'
  <2>1. \A t \in Nat \cup {Never} : t <= now => t <= now + 1
    BY Bounds DEF Never
  <2>2. now' = now + 1 /\ UNCHANGED <<phase, job, rep, listed, seen, alive>>
    BY <1>9 DEF Tick, list
  <2> QED
    BY <2>1, <2>2
<1>10. ASSUME UNCHANGED vars PROVE ClockInv'
  BY <1>10 DEF vars, list, ghosts
<1> QED
  BY <1>1, <1>2, <1>3, <1>4, <1>5, <1>6, <1>7, <1>8, <1>9, <1>10 DEF Next

LEMMA TypesHold == Spec => [](TypeOK /\ ClockInv)
<1>1. TypeOK /\ ClockInv /\ [Next]_vars => (TypeOK /\ ClockInv)'
  BY CallbackTypes, CrashTypes, StartTypes, PopulateTypes, ClockStep DEF Next
<1> QED
  BY TypesStart, <1>1, PTL DEF Spec

\* Every variable keeps its type, the list computed from the csv included: a
\* node is linked only for a resource, and no time or count is negative but
\* that of the use counted.
THEOREM MeterTypeCorrect == Spec => []TypeOK
<1> QED
  BY TypesHold, PTL

-----------------------------------------------------------------------------
(* The list in memory and the list of the csv.                             *)
LEMMA LogIsLog == TypeOK => csv \in Seq(Records) /\ Replayed(csv) \in Lists
<1> SUFFICES ASSUME TypeOK PROVE csv \in Seq(Records) /\ Replayed(csv) \in Lists
  OBVIOUS
<1>1. csv \in Seq(Records)
  BY DEF TypeOK, Records
<1> QED
  BY <1>1, ReplayedList

\* What a report appended to the csv does to its list.
LEMMA AppendReplayed ==
    ASSUME TypeOK, ClockInv, NEW r \in Resources, AppendEntry(r)
    PROVE  /\ Replayed(csv') \in Lists
           /\ Replayed(csv').listed = Replayed(csv).listed \cup {r}
           /\ Replayed(csv').node[r] =
                  IF r \in Replayed(csv).listed
                  THEN Updated(Replayed(csv).node[r], rep[r], now)
                  ELSE Inserted(rep[r], now)
           /\ \A s \in Resources \ {r} :
                  Replayed(csv').node[s] = Replayed(csv).node[s]
<1> DEFINE record == [res |-> r, rep |-> rep[r], at |-> now]
<1>1. rep[r] \in Reports /\ now \in Nat
  BY Bounds DEF ClockInv, AppendEntry, TypeOK
<1>2. csv \in Seq(Records) /\ Replayed(csv) \in Lists
  BY LogIsLog
<1>3. csv' = Append(csv, record)
  BY DEF AppendEntry
<1>4. Replayed(csv') = Accounted(Replayed(csv), record)
  BY <1>2, <1>3, ReplayedAppend
<1>5. record \in Records
  BY <1>1 DEF Records
<1> QED
  BY <1>1, <1>2, <1>4, <1>5, AccountedReport, AccountedList

LEMMA ListStep ==
    ASSUME TypeOK, ClockInv, ListInv, [Next]_vars
    PROVE  ListInv'
<1> SUFFICES ASSUME phase' = "up", ~raced', NEW s \in Resources
             PROVE  Follows(s)'
  BY DEF ListInv
<1> DEFINE All == \A t \in Resources : Follows(t)
<1>1. ASSUME NEW r \in Resources, NEW report \in Reports, Observe(r, report)
      PROVE  Follows(s)'
  <2>1. Follows(s) /\ job[r] = "none"
    BY <1>1 DEF Observe, ghosts, ListInv
  <2>2. /\ job' = [job EXCEPT ![r] = "locked"]
        /\ rep' = [rep EXCEPT ![r] = report]
        /\ UNCHANGED <<now, listed, node, csv>>
    BY <1>1 DEF Observe, list, files
  <2>3. job'[s] = (IF s = r THEN "locked" ELSE job[s])
        /\ (s # r => rep'[s] = rep[s])
    BY <2>2 DEF TypeOK
  <2> QED
    BY <2>1, <2>2, <2>3 DEF Follows
<1>2. ASSUME NEW r \in Resources, AppendEntry(r) PROVE Follows(s)'
  <2>1. All /\ job[r] = "locked"
    BY <1>2 DEF AppendEntry, ghosts, ListInv
  <2>2. job' = [job EXCEPT ![r] = "appended"]
        /\ UNCHANGED <<now, rep, listed, node>>
    BY <1>2 DEF AppendEntry, list
  <2>3. job'[s] = (IF s = r THEN "appended" ELSE job[s])
    BY <2>2 DEF TypeOK
  <2>4. CASE s = r
    <3>1. /\ r \in Replayed(csv').listed
          /\ Replayed(csv').node[r] =
                  IF r \in Replayed(csv).listed
                  THEN Updated(Replayed(csv).node[r], rep[r], now)
                  ELSE Inserted(rep[r], now)
      BY <1>2, AppendReplayed
    <3>2. /\ r \in listed <=> r \in Replayed(csv).listed
          /\ node[r] = Replayed(csv).node[r]
      BY <2>1 DEF Follows
    <3> QED
      BY <2>2, <2>3, <2>4, <3>1, <3>2 DEF Follows
  <2>5. CASE s # r
    <3>1. /\ s \in Replayed(csv').listed <=> s \in Replayed(csv).listed
          /\ Replayed(csv').node[s] = Replayed(csv).node[s]
      BY <1>2, <2>5, AppendReplayed
    <3>2. Follows(s)
      BY <2>1
    <3> QED
      BY <2>2, <2>3, <2>5, <3>1, <3>2 DEF Follows
  <2> QED
    BY <2>4, <2>5
<1>3. ASSUME NEW r \in Resources, Update(r) PROVE Follows(s)'
  <2>1. /\ All /\ job[r] = "appended" /\ r \in listed
        /\ job' = [job EXCEPT ![r] = "none"]
        /\ node' = [node EXCEPT ![r] = Updated(@, rep[r], now)]
        /\ rep' = [rep EXCEPT ![r] = Off]
        /\ UNCHANGED <<now, listed, csv>>
    BY <1>3 DEF Update, files, ghosts, ListInv
  <2>2. CASE s = r
    <3>1. job'[s] = "none" /\ node'[s] = Updated(node[s], rep[s], now)
      BY <2>1, <2>2 DEF TypeOK
    <3> QED
      BY <2>1, <2>2, <3>1 DEF Follows
  <2>3. CASE s # r
    <3>1. job'[s] = job[s] /\ node'[s] = node[s] /\ rep'[s] = rep[s]
      BY <2>1, <2>3 DEF TypeOK
    <3> QED
      BY <2>1, <3>1 DEF Follows
  <2> QED
    BY <2>2, <2>3
<1>4. ASSUME NEW r \in Resources, Walk(r) PROVE Follows(s)'
  <2>1. /\ Follows(s) /\ job[r] = "appended"
        /\ job' = [job EXCEPT ![r] = "inserting"]
        /\ UNCHANGED <<now, rep, listed, node, csv>>
    BY <1>4 DEF Walk, list, files, ghosts, ListInv
  <2>2. job'[s] = (IF s = r THEN "inserting" ELSE job[s])
    BY <2>1 DEF TypeOK
  <2> QED
    BY <2>1, <2>2 DEF Follows
<1>5. ASSUME NEW r \in Resources, Insert(r) PROVE Follows(s)'
  <2>1. /\ ~raced /\ walked[r] = listed /\ phase = "up"
        /\ job[r] = "inserting" /\ job' = [job EXCEPT ![r] = "none"]
        /\ rep' = [rep EXCEPT ![r] = Off]
        /\ UNCHANGED <<now, csv>>
    BY <1>5 DEF Insert, files
  <2>2. /\ listed' = listed \cup {r}
        /\ node' = [node EXCEPT ![r] = Inserted(rep[r], now)]
    BY <1>5, <2>1 DEF Insert
  <2>3. All /\ r \notin listed
    BY <2>1 DEF ListInv, ClockInv
  <2>4. CASE s = r
    <3>1. job'[s] = "none" /\ node'[s] = Inserted(rep[s], now)
      BY <2>1, <2>2, <2>4 DEF TypeOK
    <3> QED
      BY <2>1, <2>2, <2>3, <2>4, <3>1 DEF Follows
  <2>5. CASE s # r
    <3>1. job'[s] = job[s] /\ node'[s] = node[s] /\ rep'[s] = rep[s]
      BY <2>1, <2>2, <2>5 DEF TypeOK
    <3> QED
      BY <2>1, <2>2, <2>3, <2>5, <3>1 DEF Follows
  <2> QED
    BY <2>4, <2>5
<1>6. ASSUME NEW h \in Hosts, Alive(h) PROVE Follows(s)'
  BY <1>6 DEF Alive, list, ListInv, Follows
<1>7. ASSUME LoadAnalysys PROVE Follows(s)'
  BY <1>7 DEF LoadAnalysys, files, ClockInv, Follows
<1>8. ASSUME Tick PROVE Follows(s)'
  <2>1. job[s] = "none"
    BY <1>8 DEF Tick, Working
  <2> QED
    BY <1>8, <2>1 DEF Tick, list, files, ListInv, Follows
<1>9. ASSUME UNCHANGED vars PROVE Follows(s)'
  BY <1>9 DEF vars, list, files, ghosts, ListInv, Follows
<1>10. ~ (Crash \/ Populate \/ RemoveStatus)
  BY DEF Crash, Populate, RemoveStatus
<1> QED
  BY <1>1, <1>2, <1>3, <1>4, <1>5, <1>6, <1>7, <1>8, <1>9, <1>10 DEF Next

LEMMA ListStarts == Init => ListInv
<1> SUFFICES ASSUME Init PROVE ListInv
  OBVIOUS
<1>1. Replayed(csv) = Nothing
  BY ReplayedEmpty DEF Init
<1> QED
  BY <1>1 DEF Init, ListInv, Follows, Nothing

-----------------------------------------------------------------------------
(* The status file.                                                        *)
LEMMA StatusStep ==
    ASSUME \A g, h \in Hosts : <<g, h>> \in IpPrefixes => g = h,
           TypeOK, ClockInv, StatusInv, [Next]_vars
    PROVE  StatusInv'
<1>0. /\ status \in Seq([host : Hosts, at : Nat])
      /\ Len(status) \in Nat /\ DOMAIN status = 1 .. Len(status)
      /\ \A i \in DOMAIN status : status[i].host \in Hosts
  <2>1. status \in Seq([host : Hosts, at : Nat])
    BY DEF TypeOK
  <2>2. /\ Len(status) \in Nat /\ DOMAIN status = 1 .. Len(status)
        /\ \A i \in 1 .. Len(status) : status[i] \in [host : Hosts, at : Nat]
    BY <2>1, SeqIsFunction
  <2> QED
    BY <2>1, <2>2
<1> USE DEF StatusInv
<1>1. ASSUME NEW h \in Hosts, Alive(h) PROVE StatusInv'
  <2> DEFINE record == [host |-> h, at |-> now]
  <2>0. /\ phase = "up" /\ phase' = "up"
        /\ status' = Stamped(h) /\ alive' = [alive EXCEPT ![h] = now]
    BY <1>1 DEF Alive
  <2>1. /\ Len(status) \in Nat /\ DOMAIN status = 1 .. Len(status)
        /\ \A i \in DOMAIN status : status[i].host \in Hosts
    BY <1>0
  <2>2. /\ alive'[h] = now
        /\ \A g \in Hosts \ {h} : alive'[g] = alive[g]
    BY <2>0 DEF TypeOK
  <2>3. CASE /\ status' = Append(status, record)
             /\ \A i \in DOMAIN status : <<h, status[i].host>> \notin IpPrefixes
    <3>1. \A i \in DOMAIN status : status[i].host # h
      BY <2>3, EnergyMeterAssumption DEF EnergyMeterAssumption
    <3>2. /\ DOMAIN status' = 1 .. Len(status) + 1
          /\ status'[Len(status) + 1] = record
          /\ \A i \in DOMAIN status : status'[i] = status[i]
      BY <1>0, <2>1, <2>3
    <3>3. record.host = h /\ record.at = now
      OBVIOUS
    <3> HIDE DEF record
    <3>4. \A i \in DOMAIN status' : i \in DOMAIN status \/ i = Len(status) + 1
      BY <2>1, <3>2
    <3>5. /\ \A i \in DOMAIN status : i \in DOMAIN status'
          /\ Len(status) + 1 \in DOMAIN status'
      BY <2>1, <3>2
    <3>6. \A i, j \in DOMAIN status' :
              status'[i].host = status'[j].host => i = j
      BY <3>1, <3>2, <3>3, <3>4
    <3>7. \A i \in DOMAIN status' : status'[i].at = alive'[status'[i].host]
      BY <2>0, <2>1, <2>2, <3>1, <3>2, <3>3, <3>4
    <3>8. \A g \in Hosts : alive'[g] # Never =>
              \E i \in DOMAIN status' : status'[i].host = g
      BY <2>0, <2>2, <3>2, <3>3, <3>5
    <3> QED
      BY <2>0, <3>6, <3>7, <3>8
  <2>4. CASE \E i \in DOMAIN status :
                 /\ <<h, status[i].host>> \in IpPrefixes
                 /\ status' = [status EXCEPT ![i] = record]
    <3>1. PICK i \in DOMAIN status :
                 /\ <<h, status[i].host>> \in IpPrefixes
                 /\ status' = [status EXCEPT ![i] = record]
      BY <2>4
    <3>2. status[i].host = h
      BY <2>1, <3>1
    <3>3. /\ DOMAIN status' = DOMAIN status
          /\ \A j \in DOMAIN status : status'[j] = IF j = i THEN record
                                                            ELSE status[j]
      BY <1>0, <3>1
    <3>4. record.host = h /\ record.at = now
      OBVIOUS
    <3> HIDE DEF record
    <3>5. \A j \in DOMAIN status : status'[j].host = status[j].host
      BY <3>2, <3>3, <3>4
    <3>6. \A j \in DOMAIN status : j # i => status[j].host # h
      BY <3>2
    <3>7. \A j \in DOMAIN status' : status'[j].at = alive'[status'[j].host]
      BY <2>0, <2>1, <2>2, <3>2, <3>3, <3>4, <3>5, <3>6
    <3>8. \A g \in Hosts : alive'[g] # Never =>
              \E j \in DOMAIN status' : status'[j].host = g
      BY <2>0, <2>2, <3>2, <3>3, <3>5
    <3> QED
      BY <2>0, <3>3, <3>5, <3>7, <3>8
  <2> QED
    BY <1>0, <2>0, <2>3, <2>4, StampedHow
<1>2. ASSUME NEW r \in Resources,
             \/ \E report \in Reports : Observe(r, report)
             \/ AppendEntry(r) \/ Update(r) \/ Walk(r) \/ Insert(r)
      PROVE  StatusInv'
  <2>1. UNCHANGED <<phase, status, alive>>
    BY <1>2 DEF Observe, AppendEntry, Update, Walk, Insert, files, ghosts
  <2> QED
    BY <2>1
<1>3. ASSUME Crash \/ Populate PROVE StatusInv'
  BY <1>3 DEF Crash, Populate, files
<1>4. ASSUME RemoveStatus PROVE StatusInv'
  BY <1>4 DEF RemoveStatus
<1>5. ASSUME LoadAnalysys PROVE StatusInv'
  <2>1. \A h \in Hosts : alive'[h] = Never
    BY <1>5 DEF LoadAnalysys, ghosts, ClockInv
  <2>2. status' = <<>>
    BY <1>5 DEF LoadAnalysys, files
  <2>3. phase' = "up"
    BY <1>5 DEF LoadAnalysys
  <2> QED
    BY <2>1, <2>2, <2>3
<1>6. ASSUME Tick \/ UNCHANGED vars PROVE StatusInv'
  BY <1>6 DEF Tick, vars, files, ghosts
<1> QED
  BY <1>1, <1>2, <1>3, <1>4, <1>5, <1>6 DEF Next

\* What is on record is what is known, if no address begins with another: the
\* list computed from the csv is the list of the gateway, between callbacks
\* and as long as none raced; and the last ALIVE of every host is in the file.
THEOREM MeterIsOnRecord ==
    ASSUME \A g, h \in Hosts : <<g, h>> \in IpPrefixes => g = h
    PROVE  Spec => []OnRecord
<1>1. Init => ListInv /\ StatusInv
  BY ListStarts DEF Init, StatusInv
<1>2. /\ TypeOK /\ ClockInv /\ ListInv /\ StatusInv /\ [Next]_vars
      => ListInv' /\ StatusInv'
  BY ListStep, StatusStep
<1>3. TypeOK /\ ListInv /\ StatusInv => OnRecord
  <2> SUFFICES ASSUME TypeOK, ListInv, StatusInv, phase = "up"
               PROVE  /\ ~raced /\ Working = {} =>
                          [listed |-> listed, node |-> node] = Replayed(csv)
                      /\ \A h \in Hosts : alive[h] # Never =>
                          [host |-> h, at |-> alive[h]] \in ToSet(status)
    BY DEF OnRecord
  <2>1. ASSUME ~raced, Working = {}
        PROVE  [listed |-> listed, node |-> node] = Replayed(csv)
    <3>1. \A r \in Resources : /\ r \in listed <=> r \in Replayed(csv).listed
                               /\ node[r] = Replayed(csv).node[r]
      BY <2>1 DEF ListInv, Follows, Working
    <3>2. PICK m \in Lists : m = Replayed(csv)
      BY LogIsLog
    <3>3. /\ m.listed \in SUBSET Resources /\ m.node \in [Resources -> Nodes]
          /\ m = [listed |-> m.listed, node |-> m.node]
      BY DEF Lists
    <3>4. listed \in SUBSET Resources /\ node \in [Resources -> Nodes]
      BY DEF TypeOK
    <3>5. listed = m.listed /\ node = m.node
      BY <3>1, <3>2, <3>3, <3>4
    <3> QED
      BY <3>2, <3>3, <3>5
  <2>2. ASSUME NEW h \in Hosts, alive[h] # Never
        PROVE  [host |-> h, at |-> alive[h]] \in ToSet(status)
    <3>1. PICK i \in DOMAIN status :
              status[i].host = h /\ status[i].at = alive[h]
      BY <2>2 DEF StatusInv
    <3>2. status[i] \in [host : Hosts, at : Nat]
      <4>1. status \in Seq([host : Hosts, at : Nat])
        BY DEF TypeOK
      <4> QED
        BY <4>1, SeqIsFunction
    <3>3. status[i] = [host |-> h, at |-> alive[h]]
      BY <3>1, <3>2
    <3> QED
      BY <3>3 DEF ToSet
  <2> QED
    BY <2>1, <2>2
<1> QED
  BY <1>1, <1>2, <1>3, TypesHold, PTL DEF Spec

-----------------------------------------------------------------------------
(* What the csv, and the list, make of a resource.                         *)
LEMMA LedgerTypes ==
    ASSUME TypeOK, NEW r \in Resources
    PROVE  /\ now \in Nat /\ Due(r) \in Int
           /\ seen[r] \in Handled /\ rep[r] \in Handled
           /\ Use(seen[r]) \in Nat /\ Use(rep[r]) \in Nat
           /\ node[r] \in Nodes /\ Worth(node[r], now) \in Int
           /\ Use(node[r]) \in Nat
           /\ Replayed(csv) \in Lists /\ Replayed(csv).node[r] \in Nodes
<1>1. /\ now \in Nat /\ node[r] \in Nodes /\ Due(r) \in Int
      /\ seen[r] \in Handled /\ rep[r] \in Handled
  BY Bounds, ReportsHandled DEF TypeOK, Due
<1>2. Use(seen[r]) \in Nat /\ Use(rep[r]) \in Nat
  BY <1>1 DEF Use, Handled
<1>3. Replayed(csv) \in Lists
  BY LogIsLog
<1>4. Replayed(csv).node[r] \in Nodes
  BY <1>3 DEF Lists
<1> QED
  BY <1>1, <1>2, <1>3, <1>4, WorthFacts

\* The steps that leave the csv, the clock and the use due alone.
LEMMA LogKept ==
    ASSUME NEW r \in Resources, LogInv(r),
           UNCHANGED <<now, phase, csv, status, used, lostUse, seen>>
    PROVE  LogInv(r)'
BY DEF LogInv, Due, Worth

LEMMA LedgerCallback ==
    ASSUME TypeOK, ClockInv, LedgerInv, NEW r \in Resources,
           \/ \E report \in Reports : Observe(r, report)
           \/ Update(r) \/ Walk(r) \/ Insert(r)
    PROVE  LedgerInv'
<1>0. UNCHANGED <<now, phase, csv, status, used, lostUse, seen, uncovered>>
  BY DEF Observe, Update, Walk, Insert, files, ghosts
<1> SUFFICES ASSUME NEW s \in Resources \ uncovered, LogInv(s), AtMost(s)
             PROVE  LogInv(s)' /\ AtMost(s)'
  BY <1>0 DEF LedgerInv
<1>1. LogInv(s)'
  BY <1>0, LogKept
<1>2. Due(s)' = Due(s) /\ Due(s) \in Int
  BY <1>0, LedgerTypes DEF Due
<1> SUFFICES ASSUME phase = "up"
             PROVE  AtMost(s)'
  BY <1>0, <1>1 DEF AtMost
<1>3. ASSUME NEW report \in Reports, Observe(r, report) PROVE AtMost(s)'
  <2>1. /\ job[r] = "none" /\ job' = [job EXCEPT ![r] = "locked"]
        /\ UNCHANGED <<listed, node, walked>>
    BY <1>3 DEF Observe, list
  <2>2. \A q \in Resources : job'[q] = IF q = r THEN "locked" ELSE job[q]
    BY <2>1 DEF TypeOK
  <2> QED
    BY <1>0, <1>2, <2>1, <2>2 DEF AtMost, Worth
<1>4. ASSUME Update(r) PROVE AtMost(s)'
  <2>1. /\ job[r] = "appended" /\ job' = [job EXCEPT ![r] = "none"]
        /\ r \in listed /\ node' = [node EXCEPT ![r] = Updated(@, rep[r], now)]
        /\ UNCHANGED <<listed, walked>>
    BY <1>4 DEF Update
  <2>2. /\ \A q \in Resources : job'[q] = IF q = r THEN "none" ELSE job[q]
        /\ node'[s] = IF s = r THEN Updated(node[r], rep[r], now) ELSE node[s]
    BY <2>1 DEF TypeOK
  <2>3. CASE s = r
    <3>1. /\ Use(node'[s]) = Use(rep[s])
          /\ Worth(node'[s], now) = Worth(node[s], now)
      BY <2>2, <2>3, LedgerTypes, UpdatedWorth
    <3>2. rep[s] = seen[s]
      BY <2>1, <2>3 DEF ClockInv
    <3> QED
      BY <1>0, <1>2, <2>1, <2>2, <2>3, <3>1, <3>2 DEF AtMost
  <2>4. CASE s # r
    BY <1>0, <1>2, <2>1, <2>2, <2>4 DEF AtMost
  <2> QED
    BY <2>3, <2>4
<1>5. ASSUME Walk(r) PROVE AtMost(s)'
  <2>1. /\ job[r] = "appended" /\ job' = [job EXCEPT ![r] = "inserting"]
        /\ walked' = [walked EXCEPT ![r] = listed]
        /\ UNCHANGED <<listed, node>>
    BY <1>5 DEF Walk, list
  <2>2. \A q \in Resources :
            /\ job'[q] = IF q = r THEN "inserting" ELSE job[q]
            /\ walked'[q] = IF q = r THEN listed ELSE walked[q]
    BY <2>1 DEF TypeOK
  <2> QED
    BY <1>0, <1>2, <2>1, <2>2 DEF AtMost
<1>6. ASSUME Insert(r) PROVE AtMost(s)'
  <2>1. /\ job[r] = "inserting" /\ job' = [job EXCEPT ![r] = "none"]
        /\ walked' = [walked EXCEPT ![r] = {}]
    BY <1>6 DEF Insert
  <2>2. \A q \in Resources :
            /\ job'[q] = IF q = r THEN "none" ELSE job[q]
            /\ q # r => walked'[q] = walked[q]
    BY <2>1 DEF TypeOK
  <2>3. CASE ~ (walked[r] \subseteq listed)
    <3>1. UNCHANGED <<listed, node>>
      BY <1>6, <2>3 DEF Insert, list
    <3>2. r \notin listed
      BY <2>1 DEF ClockInv
    <3> QED
      BY <1>0, <1>2, <2>1, <2>2, <3>1, <3>2 DEF AtMost
  <2>4. CASE walked[r] \subseteq listed
    <3>1. /\ listed' = walked[r] \cup {r}
          /\ node' = [node EXCEPT ![r] = Inserted(rep[r], now)]
      BY <1>6, <2>4 DEF Insert
    <3>2. CASE s = r
      <4>1. node'[s] = Inserted(rep[s], now)
        BY <3>1, <3>2 DEF TypeOK
      <4>2. Use(node'[s]) = Use(rep[s]) /\ Worth(node'[s], now) = 0
        BY <4>1, LedgerTypes, InsertedWorth
      <4>3. r \notin listed /\ rep[s] = seen[s]
        BY <2>1, <3>2 DEF ClockInv
      <4>4. 0 <= Due(s)
        BY <3>2, <4>3 DEF AtMost
      <4> QED
        BY <1>0, <1>2, <3>1, <3>2, <4>2, <4>3, <4>4 DEF AtMost
    <3>3. CASE s # r /\ s \in walked[r]
      <4>1. s \in listed /\ s \in listed' /\ node'[s] = node[s]
        BY <2>4, <3>1, <3>3 DEF TypeOK
      <4> QED
        BY <1>0, <1>2, <2>1, <2>2, <3>3, <4>1 DEF AtMost
    <3>4. CASE s # r /\ s \notin walked[r]
      <4>1. s \notin listed'
        BY <3>1, <3>4
      <4>2. 0 <= Due(s)
        BY <2>1, <3>4 DEF AtMost
      <4> QED
        BY <1>0, <1>2, <4>1, <4>2 DEF AtMost
    <3> QED
      BY <3>2, <3>3, <3>4
  <2> QED
    BY <2>3, <2>4
<1> QED
  BY <1>1, <1>3, <1>4, <1>5, <1>6

LEMMA LedgerAppend ==
    ASSUME TypeOK, ClockInv, LedgerInv, NEW r \in Resources, AppendEntry(r)
    PROVE  LedgerInv'
<1>0. /\ UNCHANGED <<now, phase, rep, walked, listed, node, status, used,
                     lostUse, uncovered>>
      /\ job[r] = "locked" /\ job' = [job EXCEPT ![r] = "appended"]
      /\ seen' = [seen EXCEPT ![r] = rep[r]] /\ phase = "up"
  BY DEF AppendEntry, list, ghosts, ClockInv
<1> SUFFICES ASSUME NEW s \in Resources \ uncovered, LogInv(s), AtMost(s)
             PROVE  LogInv(s)' /\ AtMost(s)'
  BY <1>0 DEF LedgerInv
<1>1. Due(s)' = Due(s) /\ Due(s) \in Int
  BY <1>0, LedgerTypes DEF Due
<1>2. /\ \A q \in Resources : job'[q] = IF q = r THEN "appended" ELSE job[q]
      /\ seen'[s] = IF s = r THEN rep[r] ELSE seen[s]
  BY <1>0 DEF TypeOK
<1>3. AtMost(s)'
  BY <1>0, <1>1, <1>2 DEF AtMost
<1>4. CASE s # r
  <2>1. /\ s \in Replayed(csv').listed <=> s \in Replayed(csv).listed
        /\ Replayed(csv').node[s] = Replayed(csv).node[s]
    BY <1>4, AppendReplayed
  <2> QED
    BY <1>0, <1>1, <1>2, <1>3, <1>4, <2>1 DEF LogInv
<1>5. CASE s = r
  <2> DEFINE n == Replayed(csv).node[s]
             new == Replayed(csv').node[s]
  <2>1. /\ s \in Replayed(csv').listed
        /\ new = IF s \in Replayed(csv).listed THEN Updated(n, rep[s], now)
                                               ELSE Inserted(rep[s], now)
    BY <1>5, AppendReplayed
  <2>2. n \in Nodes /\ rep[s] \in Handled /\ now \in Nat
    BY LedgerTypes
  <2>3. Use(new) = Use(rep[s])
    BY <2>1, <2>2, UpdatedWorth, InsertedWorth
  <2>4. Worth(new, now) = Due(s)
    <3>1. CASE s \in Replayed(csv).listed
      <4>1. Worth(n, now) = Due(s)
        BY <1>0, <3>1 DEF LogInv
      <4> QED
        BY <2>1, <2>2, <3>1, <4>1, UpdatedWorth
    <3>2. CASE s \notin Replayed(csv).listed
      <4>1. Due(s) = 0
        BY <3>2 DEF LogInv
      <4> QED
        BY <2>1, <2>2, <3>2, <4>1, InsertedWorth
    <3> QED
      BY <3>1, <3>2
  <2>5. LogInv(s)'
    BY <1>0, <1>1, <1>2, <1>5, <2>1, <2>3, <2>4 DEF LogInv
  <2> QED
    BY <1>3, <2>5
<1> QED
  BY <1>3, <1>4, <1>5

LEMMA LedgerCrash ==
    ASSUME TypeOK, ClockInv, StatusInv, LedgerInv, Crash
    PROVE  LedgerInv'
<1>0. /\ phase # "down" /\ phase' = "down"
      /\ seen' = [r \in Resources |-> Off]
      /\ UNCHANGED <<now, csv, status, used>>
  BY DEF Crash, files
<1>1. uncovered \subseteq uncovered'
  BY DEF Crash
<1> SUFFICES ASSUME NEW s \in Resources \ uncovered', LogInv(s)
             PROVE  LogInv(s)'
  BY <1>0, <1>1 DEF LedgerInv, AtMost
<1> DEFINE n == Replayed(csv).node[s]
<1>2. Use(seen'[s]) = 0
  BY <1>0, OffIsOff
<1>3. CASE phase # "up"
  <2>1. lostUse' = lostUse
    BY <1>3 DEF Crash
  <2>2. Due(s)' = Due(s)
    BY <1>0, <2>1 DEF Due
  <2> QED
    BY <1>0, <1>2, <1>3, <2>2 DEF LogInv
<1>4. CASE phase = "up"
  <2> DEFINE a == alive[Host[s]]
  <2>1. /\ a # Never
        /\ lostUse'[s] = lostUse[s] + Use(seen[s]) * (now - a)
    BY <1>4 DEF Crash
  <2>2. /\ now \in Nat /\ a \in Nat /\ Host[s] \in Hosts
        /\ n \in Nodes /\ Use(seen[s]) \in Nat
        /\ used[s] \in Nat /\ lostUse[s] \in Nat
    BY <2>1, Bounds, LedgerTypes DEF TypeOK
  <2>3. PICK i \in DOMAIN status :
            status[i].host = Host[s] /\ status[i].at = a
    BY <1>4, <2>1, <2>2 DEF StatusInv
  <2> DEFINE lost == Use(seen[s]) * (now - a)
  <2>4. lost \in Int
    <3>1. \A x \in Nat, y \in Int : x * y \in Int
      OBVIOUS
    <3>2. now - a \in Int
      BY <2>2
    <3> QED
      BY <2>2, <3>1, <3>2
  <2>5. lostUse'[s] = lostUse[s] + lost
    BY <2>1
  <2> HIDE DEF lost
  <2>6. Due(s)' = Due(s) - lost /\ Due(s) \in Int
    BY <1>0, <2>2, <2>4, <2>5 DEF Due
  <2>7. CASE s \notin Replayed(csv).listed
    <3>1. Due(s) = 0 /\ Use(seen[s]) = 0
      BY <2>7 DEF LogInv
    <3>2. lost = 0
      BY <2>2, <3>1 DEF lost
    <3> QED
      BY <1>0, <1>2, <2>6, <2>7, <3>1, <3>2 DEF LogInv
  <2>8. CASE s \in Replayed(csv).listed
    <3>1. Worth(n, now) = Due(s) /\ Use(n) = Use(seen[s])
      BY <1>4, <2>8 DEF LogInv
    <3>2. Worth(n, a) = Worth(n, now) - Use(n) * (now - a)
      BY <2>2, WorthFacts
    <3>3. Worth(n, a) = Due(s) - lost
      BY <3>1, <3>2 DEF lost
    <3>4. Worth(n, status[i].at) = Due(s)'
      BY <2>3, <2>6, <3>3
    <3> QED
      BY <1>0, <2>3, <2>8, <3>4 DEF LogInv
  <2> QED
    BY <2>7, <2>8
<1> QED
  BY <1>3, <1>4

LEMMA LedgerPopulate ==
    ASSUME TypeOK, ClockInv, StatusInv, LedgerInv, Populate
    PROVE  LedgerInv'
<1>0. /\ phase = "down" /\ phase' = "populated"
      /\ UNCHANGED <<now, status, used, lostUse, seen, uncovered>>
      /\ csv' = csv \o [i \in DOMAIN status |->
                           [down |-> status[i].host, at |-> status[i].at]]
  BY DEF Populate, ghosts
<1> SUFFICES ASSUME NEW s \in Resources \ uncovered, LogInv(s)
             PROVE  LogInv(s)'
  BY <1>0 DEF LedgerInv, AtMost
<1> DEFINE m == Replayed(csv)
           n == m.node[s]
           new == Replayed(csv').node[s]
<1>1. /\ csv \in Seq(Records) /\ status \in Seq([host : Hosts, at : Nat])
      /\ \A i, j \in DOMAIN status : status[i].host = status[j].host => i = j
  BY LogIsLog DEF TypeOK, StatusInv
<1>2. /\ Replayed(csv').listed = m.listed
      /\ IF s \in m.listed /\ \E i \in DOMAIN status : status[i].host = Host[s]
         THEN \E i \in DOMAIN status :
                  /\ status[i].host = Host[s]
                  /\ new = Updated(n, Off, status[i].at)
         ELSE new = n
  BY <1>0, <1>1, ReplayedDowns, ZenonT(40)
<1>3. Due(s)' = Due(s) /\ n \in Nodes
  BY <1>0, LedgerTypes DEF Due
<1>4. CASE s \notin m.listed
  BY <1>0, <1>2, <1>3, <1>4 DEF LogInv
<1>5. CASE s \in m.listed /\ \E i \in DOMAIN status : status[i].host = Host[s]
  <2>1. PICK i \in DOMAIN status :
            status[i].host = Host[s] /\ new = Updated(n, Off, status[i].at)
    BY <1>2, <1>5
  <2>2. status[i].at \in Nat
    <3>1. status[i] \in [host : Hosts, at : Nat]
      BY <1>1, SeqIsFunction
    <3> QED
      BY <3>1
  <2>3. Worth(n, status[i].at) = Due(s)
    <3>1. CASE Use(n) = 0 /\ n.unit = Due(s)
      BY <1>3, <2>2, <3>1, WorthFacts
    <3>2. CASE \E j \in DOMAIN status :
                  /\ status[j].host = Host[s]
                  /\ Worth(n, status[j].at) = Due(s)
      BY <1>1, <2>1, <3>2
    <3> QED
      BY <1>0, <1>5, <3>1, <3>2 DEF LogInv
  <2>4. /\ new \in Nodes /\ Use(new) = 0
        /\ Worth(new, status[i].at) = Worth(n, status[i].at)
    BY <1>3, <2>1, <2>2, OffIsOff, UpdatedWorth
  <2>5. new.unit = Due(s)
    BY <2>2, <2>3, <2>4, WorthFacts
  <2> QED
    BY <1>0, <1>2, <1>3, <1>5, <2>4, <2>5 DEF LogInv
<1>6. CASE s \in m.listed /\ ~ \E i \in DOMAIN status : status[i].host = Host[s]
  <2>1. Use(n) = 0 /\ n.unit = Due(s)
    BY <1>0, <1>6 DEF LogInv
  <2> QED
    BY <1>0, <1>2, <1>3, <1>6, <2>1 DEF LogInv
<1> QED
  BY <1>4, <1>5, <1>6

LEMMA LedgerStart ==
    ASSUME TypeOK, ClockInv, StatusInv, LedgerInv, LoadAnalysys
    PROVE  LedgerInv'
<1>0. /\ phase = "removed" /\ phase' = "up"
      /\ UNCHANGED <<now, job, csv, status, used, lostUse, seen, uncovered>>
      /\ listed' = Replayed(csv).listed /\ node' = Replayed(csv).node
  BY DEF LoadAnalysys, files, ghosts
<1> SUFFICES ASSUME NEW s \in Resources \ uncovered, LogInv(s)
             PROVE  LogInv(s)' /\ AtMost(s)'
  BY <1>0 DEF LedgerInv
<1> DEFINE n == Replayed(csv).node[s]
<1>1. Due(s)' = Due(s) /\ Due(s) \in Int /\ n \in Nodes /\ now \in Nat
  BY <1>0, LedgerTypes DEF Due
<1>2. \A q \in Resources : job'[q] = "none"
  BY <1>0 DEF ClockInv
<1>3. Use(seen[s]) = 0
  BY <1>0, OffIsOff DEF ClockInv
<1>4. CASE s \notin Replayed(csv).listed
  <2>1. Due(s) = 0
    BY <1>4 DEF LogInv
  <2> QED
    BY <1>0, <1>1, <1>2, <1>3, <1>4, <2>1 DEF LogInv, AtMost
<1>5. CASE s \in Replayed(csv).listed
  <2>1. Use(n) = 0 /\ n.unit = Due(s)
    BY <1>0, <1>5 DEF LogInv
  <2>2. Worth(n, now) = Due(s)
    BY <1>1, <2>1, WorthFacts
  <2>3. LogInv(s)'
    BY <1>0, <1>1, <1>3, <1>5, <2>1, <2>2 DEF LogInv
  <2>4. AtMost(s)'
    BY <1>0, <1>1, <1>2, <1>3, <1>5, <2>1, <2>2 DEF AtMost
  <2> QED
    BY <2>3, <2>4
<1> QED
  BY <1>4, <1>5

LEMMA LedgerTick ==
    ASSUME TypeOK, ClockInv, LedgerInv, Tick
    PROVE  LedgerInv'
<1>0. /\ now' = now + 1 /\ phase \in {"up", "down"}
      /\ UNCHANGED <<phase, job, walked, listed, node, csv, status, lostUse,
                     seen, uncovered>>
      /\ \A q \in Resources : job[q] = "none"
  BY DEF Tick, Working, list, files
<1> SUFFICES ASSUME NEW s \in Resources \ uncovered, LogInv(s), AtMost(s)
             PROVE  LogInv(s)' /\ AtMost(s)'
  BY <1>0 DEF LedgerInv
<1>1. CASE phase = "down"
  <2>1. used' = used
    BY <1>1 DEF Tick
  <2>2. Due(s)' = Due(s)
    BY <1>0, <2>1 DEF Due
  <2> QED
    BY <1>0, <1>1, <2>2 DEF LogInv, AtMost
<1>2. CASE phase = "up"
  <2> DEFINE n == Replayed(csv).node[s]
             u == Use(seen[s])
  <2>1. used'[s] = used[s] + u
    BY <1>2 DEF Tick
  <2>2. /\ n \in Nodes /\ node[s] \in Nodes /\ now \in Nat /\ u \in Nat
        /\ used[s] \in Nat /\ lostUse[s] \in Nat
        /\ Worth(node[s], now) \in Int
    BY LedgerTypes DEF TypeOK
  <2>3. /\ Worth(n, now + 1) = Worth(n, now) + Use(n)
        /\ Worth(node[s], now + 1) = Worth(node[s], now) + Use(node[s])
    BY <2>2, WorthFacts
  <2> HIDE DEF u
  <2>4. Due(s)' = Due(s) + u /\ Due(s) \in Int
    BY <1>0, <2>1, <2>2 DEF Due
  <2>5. LogInv(s)'
    <3>1. CASE s \notin Replayed(csv).listed
      <4>1. Due(s) = 0 /\ u = 0
        BY <3>1 DEF LogInv, u
      <4>2. Due(s)' = 0
        BY <2>4, <4>1
      <4> QED
        BY <1>0, <3>1, <4>1, <4>2 DEF LogInv, u
    <3>2. CASE s \in Replayed(csv).listed
      <4>1. Worth(n, now) = Due(s) /\ Use(n) = u
        BY <1>2, <3>2 DEF LogInv, u
      <4>2. Worth(n, now + 1) = Due(s)'
        BY <2>3, <2>4, <4>1
      <4> QED
        BY <1>0, <1>2, <3>2, <4>1, <4>2 DEF LogInv, u
    <3> QED
      BY <3>1, <3>2
  <2>6. AtMost(s)'
    <3>1. CASE s \in listed
      <4>1. Worth(node[s], now) <= Due(s) /\ Use(node[s]) = u
        BY <1>0, <1>2, <3>1 DEF AtMost, u
      <4>2. Worth(node[s], now + 1) <= Due(s)'
        BY <2>2, <2>3, <2>4, <4>1
      <4> QED
        BY <1>0, <1>2, <3>1, <4>1, <4>2 DEF AtMost, u
    <3>2. CASE s \notin listed
      <4>1. 0 <= Due(s)
        BY <1>2, <3>2 DEF AtMost
      <4>2. 0 <= Due(s)'
        BY <2>2, <2>4, <4>1
      <4> QED
        BY <1>0, <3>2, <4>2 DEF AtMost
    <3> QED
      BY <3>1, <3>2
  <2> QED
    BY <2>5, <2>6
<1> QED
  BY <1>0, <1>1, <1>2

LEMMA LedgerStep ==
    ASSUME TypeOK, ClockInv, StatusInv, LedgerInv, [Next]_vars
    PROVE  LedgerInv'
<1>1. ASSUME NEW h \in Hosts, Alive(h) PROVE LedgerInv'
  <2>1. /\ phase = "up"
        /\ UNCHANGED <<now, phase, job, walked, listed, node, csv, used,
                       lostUse, seen, uncovered>>
    BY <1>1 DEF Alive, list
  <2> SUFFICES ASSUME NEW s \in Resources \ uncovered, LogInv(s), AtMost(s)
               PROVE  LogInv(s)' /\ AtMost(s)'
    BY <2>1 DEF LedgerInv
  <2>2. Due(s)' = Due(s)
    BY <2>1 DEF Due
  <2> QED
    BY <2>1, <2>2 DEF LogInv, AtMost
<1>2. ASSUME RemoveStatus PROVE LedgerInv'
  <2>1. /\ phase = "populated" /\ phase' = "removed"
        /\ UNCHANGED <<now, csv, used, lostUse, seen, uncovered>>
    BY <1>2 DEF RemoveStatus, ghosts
  <2> SUFFICES ASSUME NEW s \in Resources \ uncovered, LogInv(s)
               PROVE  LogInv(s)' /\ AtMost(s)'
    BY <2>1 DEF LedgerInv
  <2>2. Due(s)' = Due(s)
    BY <2>1 DEF Due
  <2> QED
    BY <2>1, <2>2 DEF LogInv, AtMost
<1>3. ASSUME UNCHANGED vars PROVE LedgerInv'
  <2>1. UNCHANGED <<now, phase, job, walked, listed, node, csv, status, used,
                    lostUse, seen, uncovered>>
    BY <1>3 DEF vars, list, files, ghosts
  <2> SUFFICES ASSUME NEW s \in Resources \ uncovered, LogInv(s), AtMost(s)
               PROVE  LogInv(s)' /\ AtMost(s)'
    BY <2>1 DEF LedgerInv
  <2>2. Due(s)' = Due(s)
    BY <2>1 DEF Due
  <2> QED
    BY <2>1, <2>2 DEF LogInv, AtMost
<1> QED
  BY <1>1, <1>2, <1>3, LedgerCallback, LedgerAppend, LedgerCrash,
     LedgerPopulate, LedgerStart, LedgerTick DEF Next

LEMMA LedgerStarts == Init => LedgerInv
<1> SUFFICES ASSUME Init, NEW s \in Resources PROVE LogInv(s) /\ AtMost(s)
  BY DEF LedgerInv
<1>1. Replayed(csv) = Nothing
  BY ReplayedEmpty DEF Init
<1>2. Due(s) = 0 /\ Use(seen[s]) = 0 /\ s \notin listed
  BY OffIsOff DEF Init, Due
<1>3. s \notin Replayed(csv).listed
  BY <1>1 DEF Nothing
<1> QED
  BY <1>2, <1>3 DEF LogInv, AtMost

\* The meter after any number of crashes, wherever they happen, if no address
\* begins with another: of a resource whose host had been ALIVE, the use
\* between the last ALIVE and the crash is lost and nothing else, and
\* callbacks that race for the list never make it count twice.
THEOREM CrashLosesOnlySinceAlive ==
    ASSUME \A g, h \in Hosts : <<g, h>> \in IpPrefixes => g = h
    PROVE  Spec => []CrashLosesSinceAlive
<1>1. Init => ListInv /\ StatusInv /\ LedgerInv
  BY ListStarts, LedgerStarts DEF Init, StatusInv
<1>2. /\ TypeOK /\ ClockInv /\ ListInv /\ StatusInv /\ LedgerInv
      /\ [Next]_vars
      => ListInv' /\ StatusInv' /\ LedgerInv'
  BY ListStep, StatusStep, LedgerStep
<1>3. TypeOK /\ ListInv /\ LedgerInv => CrashLosesSinceAlive
  <2> SUFFICES ASSUME TypeOK, ListInv, LedgerInv, phase = "up",
                      NEW r \in Resources \ uncovered, job[r] = "none"
               PROVE  /\ Metered(r) <= used[r] - lostUse[r]
                      /\ ~raced => Metered(r) = used[r] - lostUse[r]
    BY DEF CrashLosesSinceAlive
  <2>1. LogInv(r) /\ AtMost(r)
    BY DEF LedgerInv
  <2>2. Metered(r) = (IF r \in listed THEN Worth(node[r], now) ELSE 0)
    BY DEF Metered, Worth, Pending
  <2>3. Metered(r) <= Due(r)
    BY <2>1, <2>2 DEF AtMost
  <2>4. ASSUME ~raced PROVE Metered(r) = Due(r)
    <3>1. /\ r \in listed <=> r \in Replayed(csv).listed
          /\ node[r] = Replayed(csv).node[r]
      BY <2>4 DEF ListInv, Follows
    <3> QED
      BY <2>1, <2>2, <3>1 DEF LogInv
  <2> QED
    BY <2>3, <2>4 DEF Due
<1> QED
  BY <1>1, <1>2, <1>3, TypesHold, PTL DEF Spec
====
