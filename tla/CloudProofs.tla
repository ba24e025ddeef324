------------------------------ MODULE CloudProofs ------------------------------
(***************************************************************************)
(* Proofs about the gateway's connection to the cloud and what is sent on  *)
(* it: CloudConnection, for any number of lost connections, slow sends and *)
(* redirections; and CloudTransfer, for any puts, requests and blocks, and *)
(* any number of messages on their way, of errors and of lost connections. *)
(*                                                                         *)
(* The handshake is in order because the connector is where the messages   *)
(* say that it is: the place in the open state tells how many of a script  *)
(* the cloud has, or has but for the one that is still being sent.  The    *)
(* buffer has one owner because it is given back by whoever has it, and a  *)
(* connection that is closed leaves it to a facility only.                 *)
(*                                                                         *)
(* An application is told once because a session is made once of what the  *)
(* cloud or the application starts: the start of a transaction is on the   *)
(* wire once at most, and only while nothing else is known of it.          *)
(***************************************************************************)
EXTENDS CloudConnection, CloudTransfer, FiniteSetTheorems, TLAPS

EdpTypes == [active : {"idle", "open", "send", "receive", "close",
                       "redirect", "wait", "terminate", "assert"},
             at : States, auto : BOOLEAN,
             cause : {"disconnected", "no_keepalive", "abort", "error"}]
PacketTypes == Sent \cup {"none", "rx_keepalive", "facility"}
ReceiveTypes == [free : {"none", "one", "loop"}, filling : BOOLEAN,
                 held : BOOLEAN, missed : 0 .. WaitCount]
CcTypes == [state : {"redirect", "connection", "close", "connect"},
            report : Reports, urls : 0 .. 2]
GhostTypes == [slow : BOOLEAN, swallowed : BOOLEAN, kept : BOOLEAN]
LinkTypes ==
    /\ got_device_id \in BOOLEAN /\ url \in {"origin", "other"}
    /\ dead \in BOOLEAN
BudgetTypes ==
    /\ faults \in 0 .. MaxFaults /\ slows \in 0 .. MaxSlow
    /\ redirects \in 0 .. MaxRedirects

MessageKinds(id, r) ==
    {"version", "keepalive", "protocol", "identity", id, "cloud_url",
     "vendor_id", "device_type", "capabilities", "targets", r,
     "connection_report", "complete"}

LEMMA ScriptItems ==
    ASSUME NEW id, NEW r, NEW s, s = Script(id, r)
    PROVE  /\ DOMAIN s = 1 .. 13 /\ Len(s) = 13
           /\ s[1] = "version" /\ s[2] = "keepalive" /\ s[3] = "protocol"
           /\ s[4] = "identity" /\ s[5] = id /\ s[6] = "cloud_url"
           /\ s[7] = "vendor_id" /\ s[8] = "device_type"
           /\ s[9] = "capabilities" /\ s[10] = "targets" /\ s[11] = r
           /\ s[12] = "connection_report" /\ s[13] = "complete"
BY DEF Script

LEMMA ScriptSet ==
    ASSUME NEW id, NEW r
    PROVE  ToSet(Script(id, r)) = MessageKinds(id, r)
<1> DEFINE s == Script(id, r)
<1>1. /\ DOMAIN s = 1 .. 13
      /\ s[1] = "version" /\ s[2] = "keepalive" /\ s[3] = "protocol"
      /\ s[4] = "identity" /\ s[5] = id /\ s[6] = "cloud_url"
      /\ s[7] = "vendor_id" /\ s[8] = "device_type" /\ s[9] = "capabilities"
      /\ s[10] = "targets" /\ s[11] = r /\ s[12] = "connection_report"
      /\ s[13] = "complete"
  BY ScriptItems
<1> HIDE DEF s
<1>2. \A i \in 1 .. 13 : s[i] \in MessageKinds(id, r)
  <2>1. \A i \in 1 .. 13 : i \in {1, 2, 3, 4, 5, 6, 7, 8, 9, 10, 11, 12, 13}
    OBVIOUS
  <2>2. QED
    BY <1>1, <2>1, Zenon DEF MessageKinds
<1>3. /\ 1 \in DOMAIN s /\ 2 \in DOMAIN s /\ 3 \in DOMAIN s /\ 4 \in DOMAIN s
      /\ 5 \in DOMAIN s /\ 6 \in DOMAIN s /\ 7 \in DOMAIN s /\ 8 \in DOMAIN s
      /\ 9 \in DOMAIN s /\ 10 \in DOMAIN s /\ 11 \in DOMAIN s
      /\ 12 \in DOMAIN s /\ 13 \in DOMAIN s
  BY <1>1
<1>4. \A m \in MessageKinds(id, r) : \E i \in DOMAIN s : s[i] = m
  BY <1>1, <1>3, Zenon DEF MessageKinds
<1>5. ToSet(s) = MessageKinds(id, r)
  BY <1>1, <1>2, <1>4, Zenon DEF ToSet
<1>6. QED
  BY <1>5 DEF s

LEMMA SentMessages ==
    Sent = {"version", "keepalive", "protocol", "identity", "device_id",
            "provisioning", "cloud_url", "vendor_id", "device_type",
            "capabilities", "targets", "not_redirect", "success", "error",
            "connection_report", "complete"}
<1>1. \A m : m \in Sent <=>
          \E id \in {"device_id", "provisioning"}, r \in Reports :
              m \in MessageKinds(id, r)
  <2>1. \A m : m \in Sent <=> \E s \in Scripts : m \in ToSet(s)
    BY Zenon DEF Sent
  <2>2. \A s : s \in Scripts <=>
             \E id \in {"device_id", "provisioning"}, r \in Reports :
                 s = Script(id, r)
    BY SMT DEF Scripts
  <2>3. ASSUME NEW m
        PROVE  (\E s \in Scripts : m \in ToSet(s)) <=>
               \E id \in {"device_id", "provisioning"}, r \in Reports :
                   m \in ToSet(Script(id, r))
    BY <2>2, Zenon
  <2>4. ASSUME NEW m
        PROVE  m \in Sent <=>
               \E id \in {"device_id", "provisioning"}, r \in Reports :
                   m \in ToSet(Script(id, r))
    BY <2>1, <2>3, Zenon
  <2>5. QED
    BY <2>4, ScriptSet
<1>2. QED
  BY <1>1 DEF MessageKinds, Reports

\* How the records change.
Actives == {"idle", "open", "send", "receive", "close", "redirect", "wait",
            "terminate", "assert"}
Causes == {"disconnected", "no_keepalive", "abort", "error"}

LEMMA EdpFields ==
    ASSUME NEW e \in EdpTypes
    PROVE  /\ e.active \in Actives /\ e.at \in States
           /\ e.auto \in BOOLEAN /\ e.cause \in Causes
BY DEF EdpTypes, Actives, Causes

LEMMA EdpActive ==
    ASSUME NEW e \in EdpTypes, NEW a \in Actives, NEW g,
           g = [e EXCEPT !.active = a]
    PROVE  g \in EdpTypes /\ g.active = a /\ g.at = e.at
BY DEF EdpTypes, Actives

LEMMA EdpAt ==
    ASSUME NEW e \in EdpTypes, NEW x \in States, NEW g,
           g = [e EXCEPT !.at = x]
    PROVE  g \in EdpTypes /\ g.active = e.active /\ g.at = x
BY DEF EdpTypes

LEMMA EdpCloses ==
    ASSUME NEW e \in EdpTypes, NEW why \in Causes, NEW g,
           g = [e EXCEPT !.active = "close", !.cause = why]
    PROVE  g \in EdpTypes /\ g.active = "close" /\ g.at = e.at
BY DEF EdpTypes, Causes

LEMMA EdpClosed ==
    ASSUME NEW e \in EdpTypes, NEW b \in BOOLEAN, NEW g,
           g = [e EXCEPT !.at = "connect", !.auto = b,
                         !.cause = "disconnected"]
    PROVE  g \in EdpTypes /\ g.active = e.active /\ g.at = "connect"
BY DEF EdpTypes, States

LEMMA ReceiveFields ==
    ASSUME NEW r \in ReceiveTypes
    PROVE  /\ r.free \in {"none", "one", "loop"} /\ r.filling \in BOOLEAN
           /\ r.held \in BOOLEAN /\ r.missed \in 0 .. WaitCount
BY DEF ReceiveTypes

LEMMA ReceiveFree ==
    ASSUME NEW r \in ReceiveTypes, NEW f \in {"none", "one", "loop"}, NEW g,
           g = [r EXCEPT !.free = f]
    PROVE  /\ g \in ReceiveTypes /\ g.free = f /\ g.filling = r.filling
           /\ g.held = r.held /\ g.missed = r.missed
BY DEF ReceiveTypes

LEMMA ReceiveFilling ==
    ASSUME NEW r \in ReceiveTypes, NEW b \in BOOLEAN, NEW g,
           \/ g = [r EXCEPT !.filling = b]
           \/ g = [r EXCEPT !.filling = b, !.missed = 0]
    PROVE  /\ g \in ReceiveTypes /\ g.free = r.free /\ g.filling = b
           /\ g.held = r.held
<1>1. 0 \in 0 .. WaitCount
  BY CloudConnectionAssumption
<1>2. CASE g = [r EXCEPT !.filling = b]
  BY <1>2 DEF ReceiveTypes
<1>3. CASE g = [r EXCEPT !.filling = b, !.missed = 0]
  BY <1>1, <1>3 DEF ReceiveTypes
<1>4. QED
  BY <1>2, <1>3

LEMMA ReceiveHeld ==
    ASSUME NEW r \in ReceiveTypes, NEW g,
           g = [r EXCEPT !.filling = FALSE, !.held = TRUE]
    PROVE  /\ g \in ReceiveTypes /\ g.free = r.free /\ g.filling = FALSE
           /\ g.held = TRUE
BY DEF ReceiveTypes

LEMMA ReceiveLeft ==
    ASSUME NEW r \in ReceiveTypes, NEW g,
           g = [r EXCEPT !.held = FALSE]
    PROVE  /\ g \in ReceiveTypes /\ g.free = r.free /\ g.filling = r.filling
           /\ g.held = FALSE
BY DEF ReceiveTypes

LEMMA ReceiveMissed ==
    ASSUME NEW r \in ReceiveTypes, NEW n \in 0 .. WaitCount, NEW g,
           g = [r EXCEPT !.missed = n]
    PROVE  /\ g \in ReceiveTypes /\ g.free = r.free /\ g.filling = r.filling
           /\ g.held = r.held
BY DEF ReceiveTypes

\* A buffer is taken if there is one, and given back.
LEMMA BufferTaken ==
    ASSUME NEW r \in ReceiveTypes
    PROVE  /\ Taken(r) \in ReceiveTypes
           /\ Taken(r).free = IF r.free = "one" THEN "none" ELSE r.free
           /\ Taken(r).filling = r.filling /\ Taken(r).held = r.held
<1>1. Taken(r) = [r EXCEPT !.free = IF r.free = "one" THEN "none" ELSE r.free]
  BY DEF Taken, ReceiveTypes
<1>2. QED
  BY <1>1, ReceiveFree, ReceiveFields

LEMMA BufferReleased ==
    ASSUME NEW r \in ReceiveTypes
    PROVE  /\ Released(r) \in ReceiveTypes
           /\ Released(r).free = IF r.free = "none" THEN "one" ELSE "loop"
           /\ Released(r).filling = r.filling /\ Released(r).held = r.held
<1>1. Released(r) = [r EXCEPT !.free = IF r.free = "none" THEN "one"
                                                         ELSE "loop"]
  BY DEF Released, ReceiveTypes
<1>2. QED
  BY <1>1, ReceiveFree

LEMMA CcFields ==
    ASSUME NEW c \in CcTypes
    PROVE  /\ c.state \in {"redirect", "connection", "close", "connect"}
           /\ c.report \in Reports /\ c.urls \in 0 .. 2
BY DEF CcTypes

LEMMA CcReports ==
    ASSUME NEW c \in CcTypes, NEW s \in {"redirect", "connection"},
           NEW r \in Reports, NEW n \in 0 .. 2, NEW g,
           \/ g = [c EXCEPT !.state = s, !.report = r]
           \/ g = [c EXCEPT !.state = s, !.report = r, !.urls = n]
    PROVE  g \in CcTypes /\ g.state = s /\ g.report = r
<1>1. CASE g = [c EXCEPT !.state = s, !.report = r]
  BY <1>1 DEF CcTypes
<1>2. CASE g = [c EXCEPT !.state = s, !.report = r, !.urls = n]
  BY <1>2 DEF CcTypes
<1>3. QED
  BY <1>1, <1>2

LEMMA CcMoves ==
    ASSUME NEW c \in CcTypes, NEW s \in {"close", "connect"},
           NEW n \in 0 .. 2, NEW g,
           \/ g = [c EXCEPT !.state = s, !.urls = n]
           \/ g = [c EXCEPT !.state = s]
           \/ c.state = s /\ g = [c EXCEPT !.urls = n]
    PROVE  g \in CcTypes /\ g.state = s /\ g.report = c.report
BY DEF CcTypes

LEMMA GhostFields ==
    ASSUME NEW g \in GhostTypes
    PROVE  g.slow \in BOOLEAN /\ g.swallowed \in BOOLEAN /\ g.kept \in BOOLEAN
BY DEF GhostTypes

LEMMA GhostSlow ==
    ASSUME NEW g \in GhostTypes, NEW b \in BOOLEAN, NEW h,
           h = [g EXCEPT !.slow = b]
    PROVE  h \in GhostTypes /\ h.slow = b /\ h.kept = g.kept
BY DEF GhostTypes

LEMMA GhostSwallowed ==
    ASSUME NEW g \in GhostTypes, NEW h, h = [g EXCEPT !.swallowed = TRUE]
    PROVE  h \in GhostTypes /\ h.slow = g.slow /\ h.kept = g.kept
BY DEF GhostTypes

LEMMA GhostKept ==
    ASSUME NEW g \in GhostTypes, NEW b \in BOOLEAN, NEW h,
           h = [g EXCEPT !.swallowed = FALSE, !.kept = b]
    PROVE  h \in GhostTypes /\ h.slow = g.slow /\ h.kept = b
BY DEF GhostTypes
-----------------------------------------------------------------------------
\* A connection on which nothing comes for too long is closed.
MissInv == edp.active # "close" => receive.missed < WaitCount

\* No cloud is connected to.
Down ==
    \/ edp.active \in {"idle", "wait", "terminate"} \/ At("connect")
    \/ edp.active = "redirect" /\ cc.state = "connect"

\* In the handshake.
Shaking == edp.active = "open" /\ edp.at # "connect"

\* A connection that comes back begins at its beginning.
ParkInv ==
    \/ edp.active \in {"idle", "wait"}
    \/ edp.active = "redirect" /\ cc.state = "connect"
    => edp.at = "connect"

BufferInv ==
    /\ BufferHasOneOwner
    /\ \/ ghost.kept
       \/ /\ Down => ~receive.filling /\ ~receive.held
          /\ edp.active = "open" => ~receive.held

\* A redirection is reported while the gateway is where it says it is.
Tells(m, u) == (m = "success" => u = "other") /\ (m = "error" => u = "origin")
ReportInv ==
    /\ cc.state # "redirect" => cc.report = "not_redirect"
    /\ Established => cc.state = "connection"
    /\ edp.active \in {"idle", "wait"} \/ At("connect") =>
           cc.state = "redirect"
    /\ Tells(cc.report, url)
    /\ Shaking \/ Established =>
           /\ \A n \in 1 .. Len(got) : Tells(got[n], url)
           /\ Tells(packet, url)

\* The first k of a sequence.
First(s, k) == {s[i] : i \in 1 .. k}
InOrder(g, s, e) ==
    \A n \in 1 .. Len(g) : \E k \in 1 .. e : First(g, n) = First(s, k)
Begins(g, s) == Len(g) <= 13 /\ \A i \in 1 .. Len(g) : g[i] = s[i]

\* e messages of the script have been received or are on the way; in order
\* if the socket took them all at once.
Progress(g, p, slow, s, e) ==
    /\ InOrder(g, s, e)
    /\ First(g, Len(g)) \cup ({p} \ {"none"}) = First(s, e)
    /\ slow = TRUE \/ (p = "none" /\ Len(g) = e /\ Begins(g, s))

\* How many that is where the connector is; what the socket did not take at
\* once is made again, from the capabilities on in another round.
Stage(x, e, c, slow) ==
    \/ /\ c = "redirect"
       /\ \/ x = "version" /\ (e = 0 \/ (slow = TRUE /\ e = 1))
          \/ x = "version?" /\ e = 1
          \/ x = "keepalive" /\ (e = 1 \/ (slow = TRUE /\ e = 2))
          \/ x = "protocol" /\ (e = 2 \/ (slow = TRUE /\ e = 3))
          \/ x = "protocol?" /\ e = 3
          \/ x = "identity" /\ (e = 3 \/ (slow = TRUE /\ e = 4))
          \/ x = "device_id" /\ (e = 4 \/ (slow = TRUE /\ e = 5))
          \/ x = "device_id?" /\ e = 5
          \/ x = "cloud_url" /\ (e = 5 \/ (slow = TRUE /\ e = 6))
          \/ x = "vendor_id" /\ (e = 6 \/ (slow = TRUE /\ e = 7))
          \/ x = "device_type" /\ (e = 7 \/ (slow = TRUE /\ e = 8))
          \/ x = "capabilities" /\ e = 8
          \/ x = "targets" /\ e = 9
          \/ x = "report" /\ e = 10
    \/ /\ c = "connection"
       /\ \/ x \in {"capabilities", "targets"} /\ slow = TRUE /\ e = 12
          \/ x = "report" /\ (e = 11 \/ (slow = TRUE /\ e = 12))
          \/ x = "complete" /\ (e = 12 \/ (slow = TRUE /\ e = 13))

Identities == {"device_id", "provisioning"}
Identified(g) == IF g = TRUE THEN "device_id" ELSE "provisioning"

Where(s, e, id) ==
    /\ Progress(got, packet, ghost.slow, s, e)
    /\ Stage(edp.at, e, cc.state, ghost.slow)
    /\ edp.at = "device_id" /\ e = 5 => id = Identified(got_device_id)
    /\ edp.at = "complete" => packet = IF e = 13 THEN "complete" ELSE "none"
HandshakeInv ==
    /\ \E id \in Identities, r \in Reports, e \in 0 .. 13 :
          /\ InOrder(got, Script(id, r), e)
          /\ ghost.slow = TRUE \/ Begins(got, Script(id, r))
          /\ Shaking => Where(Script(id, r), e, id)
    /\ Established => packet \notin Sent /\ Last(got) = "complete"

ConnInv ==
    ConnectionTypeOK /\ ParkInv /\ BufferInv /\ ReportInv /\ HandshakeInv
-----------------------------------------------------------------------------
\* Sequences and what of them has come.
LEMMA Appended ==
    ASSUME NEW g \in Seq(Sent), NEW p \in Sent
    PROVE  /\ Append(g, p) \in Seq(Sent)
           /\ Len(g) \in Nat /\ Len(Append(g, p)) = Len(g) + 1
           /\ \A i \in 1 .. Len(g) : Append(g, p)[i] = g[i]
           /\ Append(g, p)[Len(g) + 1] = p
OBVIOUS

LEMMA FirstAppended ==
    ASSUME NEW g \in Seq(Sent), NEW p \in Sent
    PROVE  /\ \A n \in 1 .. Len(g) : First(Append(g, p), n) = First(g, n)
           /\ First(Append(g, p), Len(g) + 1) = First(g, Len(g)) \cup {p}
<1> DEFINE h == Append(g, p)
<1>1. /\ Len(g) \in Nat
      /\ \A i \in 1 .. Len(g) : h[i] = g[i]
      /\ h[Len(g) + 1] = p
  BY Appended
<1> HIDE DEF h
<1>2. ASSUME NEW n \in 1 .. Len(g)
      PROVE  First(h, n) = First(g, n)
  <2>1. \A i \in 1 .. n : h[i] = g[i]
    BY <1>1
  <2>2. QED
    BY <2>1 DEF First
<1>3. First(h, Len(g) + 1) = First(g, Len(g)) \cup {p}
  <2>1. 1 .. Len(g) + 1 = (1 .. Len(g)) \cup {Len(g) + 1}
    BY <1>1
  <2>2. QED
    BY <2>1, <1>1 DEF First
<1>4. QED
  BY <1>2, <1>3 DEF h

\* A step of the script adds its message, or is made again.
Reached(e, j) == IF j <= e THEN e ELSE j

LEMMA FirstReached ==
    ASSUME NEW s, NEW e \in 0 .. 13, NEW j \in 1 .. 13, j <= e + 1
    PROVE  /\ First(s, e) \cup {s[j]} = First(s, Reached(e, j))
           /\ Reached(e, j) \in 1 .. 13
<1>1. CASE j <= e
  BY <1>1 DEF First, Reached
<1>2. CASE j = e + 1
  <2>1. 1 .. j = (1 .. e) \cup {j}
    BY <1>2
  <2>2. Reached(e, j) = j
    BY <1>2 DEF Reached
  <2>3. QED
    BY <2>1, <2>2 DEF First
<1>3. QED
  BY <1>1, <1>2

LEMMA OrderGrows ==
    ASSUME NEW g, NEW s, NEW e \in 0 .. 13, NEW f \in 0 .. 13, e <= f,
           InOrder(g, s, e)
    PROVE  InOrder(g, s, f)
<1>1. 1 .. e \subseteq 1 .. f
  OBVIOUS
<1>2. QED
  BY <1>1, Zenon DEF InOrder

LEMMA OrderAppended ==
    ASSUME NEW g \in Seq(Sent), NEW p \in Sent, NEW s, NEW e \in 1 .. 13,
           InOrder(g, s, e), First(g, Len(g)) \cup {p} = First(s, e)
    PROVE  InOrder(Append(g, p), s, e)
<1> SUFFICES ASSUME NEW n \in 1 .. Len(g) + 1
             PROVE  \E k \in 1 .. e : First(Append(g, p), n) = First(s, k)
  BY Appended DEF InOrder
<1>1. CASE n \in 1 .. Len(g)
  <2>1. PICK k \in 1 .. e : First(g, n) = First(s, k)
    BY <1>1 DEF InOrder
  <2>2. First(Append(g, p), n) = First(g, n)
    BY <1>1, FirstAppended
  <2>3. QED
    BY <2>1, <2>2
<1>2. CASE n = Len(g) + 1
  <2>1. e \in 1 .. e
    OBVIOUS
  <2>2. QED
    BY <1>2, <2>1, FirstAppended
<1>3. Len(g) \in Nat
  OBVIOUS
<1>4. n \in 1 .. Len(g) \/ n = Len(g) + 1
  BY <1>3
<1>5. QED
  BY <1>1, <1>2, <1>4

\* The socket takes a message whole.
LEMMA ProgressWhole ==
    ASSUME NEW g \in Seq(Sent), NEW slow \in BOOLEAN, NEW s,
           NEW e \in 0 .. 13, NEW j \in 1 .. 13, s[j] \in Sent,
           Progress(g, "none", slow, s, e), j <= e + 1,
           slow = TRUE \/ j = e + 1
    PROVE  Progress(Append(g, s[j]), "none", slow, s, Reached(e, j))
<1> DEFINE h == Append(g, s[j])
           f == Reached(e, j)
<1>1. f \in 1 .. 13 /\ f \in 0 .. 13 /\ e <= f /\ (j = e + 1 => f = e + 1)
  BY FirstReached DEF Reached
<1>2. First(g, Len(g)) = First(s, e)
  BY DEF Progress
<1>3. First(g, Len(g)) \cup {s[j]} = First(s, f)
  <2>1. First(s, e) \cup {s[j]} = First(s, f)
    BY FirstReached
  <2> HIDE DEF f
  <2>2. QED
    BY <1>2, <2>1
<1>4. InOrder(g, s, f)
  BY <1>1, OrderGrows DEF Progress
<1>5. InOrder(h, s, f)
  BY <1>1, <1>3, <1>4, OrderAppended
<1>6. First(h, Len(h)) = First(s, f)
  BY <1>3, Appended, FirstAppended
<1>7. ASSUME slow # TRUE
      PROVE  Len(h) = f /\ Begins(h, s)
  <2>1. Len(g) = e /\ Begins(g, s)
    BY <1>7 DEF Progress
  <2>2. j = e + 1 /\ f = e + 1
    BY <1>7, <1>1
  <2>3. /\ Len(h) = e + 1 /\ h[e + 1] = s[e + 1]
        /\ \A i \in 1 .. e : h[i] = g[i]
    BY <2>1, <2>2, Appended
  <2>4. \A i \in 1 .. e : g[i] = s[i]
    BY <2>1 DEF Begins
  <2>5. Len(h) <= 13 /\ 1 .. Len(h) = (1 .. e) \cup {e + 1}
    BY <2>2, <2>3
  <2> HIDE DEF h
  <2>6. QED
    BY <2>2, <2>3, <2>4, <2>5 DEF Begins
<1>8. QED
  BY <1>5, <1>6, <1>7 DEF Progress

\* Or in part: the rest of it is still to be sent.
LEMMA ProgressPartly ==
    ASSUME NEW g \in Seq(Sent), NEW slow, NEW s, NEW e \in 0 .. 13,
           NEW j \in 1 .. 13, s[j] # "none", Progress(g, "none", slow, s, e),
           j <= e + 1
    PROVE  Progress(g, s[j], TRUE, s, Reached(e, j))
<1> DEFINE f == Reached(e, j)
<1>1. f \in 0 .. 13 /\ e <= f
  BY FirstReached DEF Reached
<1>2. First(g, Len(g)) = First(s, e)
  BY DEF Progress
<1>3. First(g, Len(g)) \cup {s[j]} = First(s, f)
  <2>1. First(s, e) \cup {s[j]} = First(s, f)
    BY FirstReached
  <2> HIDE DEF f
  <2>2. QED
    BY <1>2, <2>1
<1>4. InOrder(g, s, f)
  BY <1>1, OrderGrows DEF Progress
<1>5. {s[j]} \ {"none"} = {s[j]}
  OBVIOUS
<1>6. QED
  BY <1>3, <1>4, <1>5 DEF Progress

LEMMA ProgressPending ==
    ASSUME NEW g, NEW p, NEW slow, NEW s, NEW e \in 0 .. 13,
           Progress(g, p, slow, s, e), p # "none"
    PROVE  slow = TRUE /\ e \in 1 .. 13 /\ p \in First(s, e)
<1>1. p \in First(s, e)
  BY DEF Progress
<1>2. 1 .. e # {}
  BY <1>1 DEF First
<1>3. e # 0
  BY <1>2
<1>4. QED
  BY <1>1, <1>3 DEF Progress

LEMMA ProgressFlushed ==
    ASSUME NEW g \in Seq(Sent), NEW p \in Sent, NEW slow, NEW s,
           NEW e \in 0 .. 13, Progress(g, p, slow, s, e), p # "none"
    PROVE  Progress(Append(g, p), "none", slow, s, e)
<1>1. slow = TRUE /\ e \in 1 .. 13
  <2>1. p \in First(s, e)
    BY DEF Progress
  <2>2. e # 0
    BY <2>1 DEF First
  <2>3. QED
    BY <2>2 DEF Progress
<1>2. First(g, Len(g)) \cup {p} = First(s, e)
  BY DEF Progress
<1>3. InOrder(Append(g, p), s, e)
  BY <1>1, <1>2, OrderAppended DEF Progress
<1>4. First(Append(g, p), Len(Append(g, p))) = First(s, e)
  BY <1>2, Appended, FirstAppended
<1>5. QED
  BY <1>1, <1>3, <1>4 DEF Progress

LEMMA ProgressSlow ==
    ASSUME NEW g, NEW p, NEW slow, NEW s, NEW e, Progress(g, p, slow, s, e)
    PROVE  Progress(g, p, TRUE, s, e)
BY DEF Progress

LEMMA ProgressOrder ==
    ASSUME NEW g, NEW p, NEW slow, NEW s, NEW e, Progress(g, p, slow, s, e)
    PROVE  InOrder(g, s, e) /\ (slow = TRUE \/ Begins(g, s))
BY DEF Progress

\* What the script says later has no part in it.
LEMMA ProgressSame ==
    ASSUME NEW g \in Seq(Sent), NEW p, NEW slow, NEW s, NEW t,
           NEW e \in 0 .. 13, \A i \in 1 .. e : s[i] = t[i],
           Progress(g, p, slow, s, e)
    PROVE  Progress(g, p, slow, t, e)
<1>1. \A k \in 0 .. e : First(s, k) = First(t, k)
  <2>1. \A k \in 0 .. e : \A i \in 1 .. k : s[i] = t[i]
    OBVIOUS
  <2>2. QED
    BY <2>1 DEF First
<1>2. InOrder(g, t, e)
  <2>1. 1 .. e \subseteq 0 .. e
    OBVIOUS
  <2>2. QED
    BY <2>1, <1>1 DEF InOrder, Progress
<1>3. e \in 0 .. e
  OBVIOUS
<1>4. First(g, Len(g)) \cup ({p} \ {"none"}) = First(t, e)
  BY <1>1, <1>3 DEF Progress
<1>5. ASSUME slow # TRUE
      PROVE  p = "none" /\ Len(g) = e /\ Begins(g, t)
  BY <1>5 DEF Progress, Begins
<1>6. QED
  BY <1>2, <1>4, <1>5 DEF Progress

LEMMA ProgressBegins ==
    ASSUME NEW s
    PROVE  Progress(<<>>, "none", FALSE, s, 0)
<1>1. Len(<<>>) = 0 /\ 1 .. 0 = {}
  OBVIOUS
<1>2. First(<<>>, 0) = {} /\ First(s, 0) = {}
  BY <1>1 DEF First
<1>3. QED
  BY <1>1, <1>2 DEF Progress, InOrder, Begins

\* What a script has in common with another.
LEMMA ScriptsShare ==
    ASSUME NEW id, NEW r, NEW jd, NEW q
    PROVE  /\ \A i \in 1 .. 4 : Script(id, r)[i] = Script(jd, q)[i]
           /\ \A i \in 1 .. 10 : Script(id, r)[i] = Script(id, q)[i]
<1>1. \A i \in 1 .. 4 : i \in {1, 2, 3, 4}
  OBVIOUS
<1>2. \A i \in 1 .. 10 : i \in {1, 2, 3, 4, 5, 6, 7, 8, 9, 10}
  OBVIOUS
<1>3. QED
  BY <1>1, <1>2, ScriptItems

LEMMA ScriptTypes ==
    ASSUME NEW id \in Identities, NEW r \in Reports, NEW j \in 1 .. 13
    PROVE  Script(id, r)[j] \in Sent /\ Script(id, r)[j] # "none"
<1>1. j \in {1, 2, 3, 4, 5, 6, 7, 8, 9, 10, 11, 12, 13}
  OBVIOUS
<1>2. QED
  BY <1>1, ScriptItems, SentMessages DEF Identities, Reports

LEMMA ScriptComplete ==
    ASSUME NEW id \in Identities, NEW r \in Reports, NEW e \in 1 .. 12,
           NEW i \in 1 .. e
    PROVE  Script(id, r)[i] # "complete"
<1>1. i \in {1, 2, 3, 4, 5, 6, 7, 8, 9, 10, 11, 12}
  OBVIOUS
<1>2. QED
  BY <1>1, ScriptItems DEF Identities, Reports
-----------------------------------------------------------------------------
\* What the steps do, field by field.
LEMMA ConnTypes ==
    ConnectionTypeOK <=>
        /\ edp \in EdpTypes /\ packet \in PacketTypes
        /\ receive \in ReceiveTypes
        /\ cc \in CcTypes /\ LinkTypes /\ got \in Seq(Sent) /\ BudgetTypes
        /\ ghost \in GhostTypes
BY Zenon DEF ConnectionTypeOK, EdpTypes, PacketTypes, ReceiveTypes, CcTypes,
             LinkTypes, BudgetTypes, GhostTypes

LEMMA ConnTypesNext ==
    ASSUME edp' \in EdpTypes, packet' \in PacketTypes,
           receive' \in ReceiveTypes,
           cc' \in CcTypes, LinkTypes', got' \in Seq(Sent), BudgetTypes',
           ghost' \in GhostTypes
    PROVE  ConnectionTypeOK'
BY Zenon DEF ConnectionTypeOK, EdpTypes, PacketTypes, ReceiveTypes, CcTypes,
             LinkTypes, BudgetTypes, GhostTypes

LEMMA FaultCounted ==
    ASSUME faults \in 0 .. MaxFaults, Fault
    PROVE  faults' \in 0 .. MaxFaults
BY CloudConnectionAssumption DEF Fault

LEMMA CloseDone ==
    ASSUME edp \in EdpTypes, NEW why \in Causes, Close(why)
    PROVE  edp' \in EdpTypes /\ edp'.active = "close" /\ edp'.at = edp.at
<1>1. edp' = [edp EXCEPT !.active = "close", !.cause = why]
  BY DEF Close
<1>2. QED
  BY <1>1, EdpCloses

LEMMA TurnDone ==
    ASSUME edp \in EdpTypes, NEW from, NEW to \in Actives, Turn(from, to)
    PROVE  /\ edp' \in EdpTypes /\ edp.active = from /\ edp'.active = to
           /\ edp'.at = edp.at
<1>1. edp.active = from /\ edp' = [edp EXCEPT !.active = to]
  BY DEF Turn
<1>2. QED
  BY <1>1, EdpActive

LEMMA StateNames ==
    /\ Sent \subseteq States /\ Sent \subseteq PacketTypes
    /\ {"connect", "version?", "protocol?", "device_id?", "report"}
           \subseteq States
    /\ {"none", "rx_keepalive", "facility"} \subseteq PacketTypes
    /\ {"connect", "version?", "protocol?", "device_id?", "report", "none",
        "rx_keepalive", "facility"} \cap Sent = {}
BY SentMessages DEF States, PacketTypes

\* A socket connected.
SocketOpens ==
    /\ edp'.active = "open" /\ edp'.at = "version" /\ packet' = "none"
    /\ receive'.free = "one" /\ receive'.filling = receive.filling
    /\ receive'.held = receive.held /\ got' = <<>>
    /\ ghost'.slow = FALSE /\ ghost'.kept = ghost.kept

LEMMA OpenedDone ==
    ASSUME ConnectionTypeOK, Opened(edp)
    PROVE  /\ edp' \in EdpTypes /\ packet' \in PacketTypes
           /\ receive' \in ReceiveTypes /\ got' \in Seq(Sent)
           /\ ghost' \in GhostTypes /\ SocketOpens
<1>1. /\ edp' = [edp EXCEPT !.active = "open", !.at = "version"]
      /\ packet' = "none" /\ receive' = [receive EXCEPT !.free = "one"]
      /\ got' = <<>> /\ ghost' = [ghost EXCEPT !.slow = FALSE]
  BY DEF Opened
<1>2. /\ edp \in EdpTypes /\ receive \in ReceiveTypes /\ ghost \in GhostTypes
  BY ConnTypes
<1>3. "version" \in States /\ "open" \in Actives /\ "none" \in PacketTypes
  BY StateNames, SentMessages DEF Actives
<1>4. /\ edp' \in EdpTypes /\ edp'.active = "open" /\ edp'.at = "version"
  BY <1>1, <1>2, <1>3 DEF EdpTypes, Actives
<1>5. /\ receive' \in ReceiveTypes /\ receive'.free = "one"
      /\ receive'.filling = receive.filling /\ receive'.held = receive.held
  BY <1>1, <1>2, ReceiveFree
<1>6. ghost' \in GhostTypes /\ ghost'.slow = FALSE /\ ghost'.kept = ghost.kept
  BY <1>1, <1>2, GhostSlow
<1>7. got' \in Seq(Sent)
  BY <1>1
<1>8. QED
  BY <1>1, <1>3, <1>4, <1>5, <1>6, <1>7 DEF SocketOpens

\* A connection closed: a facility keeps the buffer it has.
ConnectionCloses ==
    /\ edp'.at = "connect" /\ packet' = "none"
    /\ receive'.free = receive.free /\ receive'.filling = FALSE
    /\ receive'.held = receive.held /\ ghost'.slow = ghost.slow
    /\ ghost.kept \/ receive.held => ghost'.kept
    /\ UNCHANGED <<got_device_id, url, dead, got, faults, slows, redirects>>

LEMMA ClosedDone ==
    ASSUME ConnectionTypeOK, NEW e \in EdpTypes, NEW why, Closed(e, why)
    PROVE  /\ edp' \in EdpTypes /\ edp'.active = e.active
           /\ packet' \in PacketTypes /\ receive' \in ReceiveTypes
           /\ ghost' \in GhostTypes /\ ConnectionCloses
<1>1. /\ edp' = [e EXCEPT !.at = "connect", !.auto = Reconnects(why),
                          !.cause = "disconnected"]
      /\ packet' = "none"
      /\ receive' = [receive EXCEPT !.filling = FALSE, !.missed = 0]
      /\ UNCHANGED <<got_device_id, url, dead, got, budgets>>
  BY DEF Closed
<1>2. receive \in ReceiveTypes /\ ghost \in GhostTypes
  BY ConnTypes
<1>3. ghost' = [ghost EXCEPT !.swallowed = FALSE,
                             !.kept = ghost.kept \/ receive.held]
  BY <1>2 DEF Closed, GhostTypes
<1>4. Reconnects(why) \in BOOLEAN
  BY DEF Reconnects
<1>5. edp' \in EdpTypes /\ edp'.active = e.active /\ edp'.at = "connect"
  BY <1>1, <1>4, EdpClosed
<1>6. /\ receive' \in ReceiveTypes /\ receive'.free = receive.free
      /\ receive'.filling = FALSE /\ receive'.held = receive.held
  BY <1>1, <1>2, ReceiveFilling, ZenonT(40)
<1>7. (ghost.kept \/ receive.held) \in BOOLEAN
  BY <1>2, GhostFields, ReceiveFields
<1>8. /\ ghost' \in GhostTypes /\ ghost'.slow = ghost.slow
      /\ ghost'.kept = (ghost.kept \/ receive.held)
  BY <1>2, <1>3, <1>7 DEF GhostTypes
<1>9. packet' \in PacketTypes
  BY <1>1, StateNames
<1>10. ghost.kept \/ receive.held => ghost'.kept
  BY <1>8, Zenon
<1>11. QED
  BY <1>1, <1>5, <1>6, <1>8, <1>9, <1>10 DEF ConnectionCloses, budgets

\* A message of the handshake is begun, or the rest of one is sent.
Sends(p, next, later) ==
    \/ /\ packet = "none" /\ packet' = "none" /\ got' = Append(got, p)
       /\ ghost'.slow = ghost.slow /\ edp'.at = next
       /\ edp'.active = IF p = "complete" THEN "receive" ELSE edp.active
    \/ /\ packet = "none" /\ packet' = p /\ got' = got /\ ghost'.slow = TRUE
       /\ edp'.at = later /\ edp'.active = edp.active
    \/ /\ packet # "none" /\ packet' = "none" /\ ghost'.slow = ghost.slow
       /\ got' = IF packet \in Sent THEN Append(got, packet) ELSE got
       /\ edp'.at = edp.at
       /\ edp'.active = IF packet = "complete" THEN "receive" ELSE edp.active
    \/ /\ packet # "none" /\ packet' = packet /\ got' = got
       /\ ghost'.slow = TRUE /\ edp' = edp
    \/ /\ edp'.active = "close" /\ got' = got /\ ghost'.slow = ghost.slow

LEMMA GoesDone ==
    ASSUME edp \in EdpTypes, NEW p, NEW to \in States, Goes(p, to)
    PROVE  /\ edp' \in EdpTypes /\ edp'.at = to
           /\ edp'.active = IF p = "complete" THEN "receive" ELSE edp.active
<1>1. edp' = [edp EXCEPT !.at = to,
                  !.active = IF p = "complete" THEN "receive" ELSE edp.active]
  BY DEF Goes, EdpTypes
<1>2. (IF p = "complete" THEN "receive" ELSE edp.active) \in Actives
  BY EdpFields DEF Actives
<1>3. QED
  BY <1>1, <1>2 DEF EdpTypes, Actives

LEMMA WholeDone ==
    ASSUME got \in Seq(Sent), BudgetTypes, NEW p, Whole(p),
           redirects' = redirects
    PROVE  /\ packet' = "none" /\ got' \in Seq(Sent)
           /\ got' = IF p \in Sent THEN Append(got, p) ELSE got
           /\ BudgetTypes'
BY Appended DEF Whole, BudgetTypes

LEMMA PartlyDone ==
    ASSUME ghost \in GhostTypes, BudgetTypes, NEW p, Partly(p),
           redirects' = redirects
    PROVE  /\ packet' = p /\ got' = got /\ ghost' \in GhostTypes
           /\ ghost'.slow = TRUE /\ ghost'.kept = ghost.kept /\ BudgetTypes'
<1>1. ghost' = [ghost EXCEPT !.slow = TRUE]
  BY DEF Partly
<1>2. /\ ghost' \in GhostTypes /\ ghost'.slow = TRUE
      /\ ghost'.kept = ghost.kept
  BY <1>1, GhostSlow
<1>3. slows' \in 0 .. MaxSlow
  BY CloudConnectionAssumption DEF Partly, BudgetTypes
<1>4. QED
  BY <1>2, <1>3 DEF Partly, BudgetTypes

LEMMA FailsDone ==
    ASSUME edp \in EdpTypes, BudgetTypes, NEW p, SendFails(p),
           redirects' = redirects
    PROVE  /\ edp' \in EdpTypes /\ edp'.active = "close" /\ packet' = p
           /\ BudgetTypes' /\ UNCHANGED <<got, ghost>>
<1>1. Fault /\ Close("error") /\ packet' = p /\ UNCHANGED <<got, slows, ghost>>
  BY DEF SendFails
<1>2. "error" \in Causes
  BY DEF Causes
<1>3. edp' \in EdpTypes /\ edp'.active = "close"
  BY <1>1, <1>2, CloseDone
<1>4. faults' \in 0 .. MaxFaults
  BY <1>1, FaultCounted DEF BudgetTypes
<1>5. QED
  BY <1>1, <1>3, <1>4 DEF BudgetTypes

LEMMA OpenDone ==
    ASSUME ConnectionTypeOK, NEW p \in Sent, NEW next \in States,
           NEW later \in States, Open(p, next, later)
    PROVE  /\ edp' \in EdpTypes /\ packet' \in PacketTypes
           /\ got' \in Seq(Sent) /\ BudgetTypes' /\ ghost' \in GhostTypes
           /\ ghost'.kept = ghost.kept /\ Sends(p, next, later)
           /\ UNCHANGED <<receive, got_device_id, url, dead>>
<1>1. /\ edp \in EdpTypes /\ packet \in PacketTypes /\ got \in Seq(Sent)
      /\ BudgetTypes /\ ghost \in GhostTypes
  BY ConnTypes
<1>2. edp.at \in States
  BY <1>1, EdpFields
<1>3. UNCHANGED <<receive, got_device_id, url, dead>> /\ redirects' = redirects
  BY DEF Open
<1>4. p \in PacketTypes /\ "none" \in PacketTypes
  BY StateNames
<1>5. ASSUME packet = "none", Whole(p), Goes(p, next), UNCHANGED ghost
      PROVE  /\ edp' \in EdpTypes /\ packet' \in PacketTypes
             /\ got' \in Seq(Sent) /\ BudgetTypes' /\ ghost' \in GhostTypes
             /\ ghost'.kept = ghost.kept /\ Sends(p, next, later)
  <2>1. /\ packet' = "none" /\ got' \in Seq(Sent) /\ got' = Append(got, p)
        /\ BudgetTypes'
    BY <1>1, <1>3, <1>5, WholeDone
  <2>2. /\ edp' \in EdpTypes /\ edp'.at = next
        /\ edp'.active = IF p = "complete" THEN "receive" ELSE edp.active
    BY <1>1, <1>5, GoesDone
  <2>3. QED
    BY <1>1, <1>4, <1>5, <2>1, <2>2 DEF Sends
<1>6. ASSUME packet = "none", Partly(p), edp' = [edp EXCEPT !.at = later]
      PROVE  /\ edp' \in EdpTypes /\ packet' \in PacketTypes
             /\ got' \in Seq(Sent) /\ BudgetTypes' /\ ghost' \in GhostTypes
             /\ ghost'.kept = ghost.kept /\ Sends(p, next, later)
  <2>1. /\ packet' = p /\ got' = got /\ ghost' \in GhostTypes
        /\ ghost'.slow = TRUE /\ ghost'.kept = ghost.kept /\ BudgetTypes'
    BY <1>1, <1>3, <1>6, PartlyDone
  <2>2. edp' \in EdpTypes /\ edp'.at = later /\ edp'.active = edp.active
    BY <1>1, <1>6, EdpAt
  <2>3. QED
    BY <1>1, <1>4, <1>6, <2>1, <2>2 DEF Sends
<1>7. ASSUME NEW q \in PacketTypes, SendFails(q)
      PROVE  /\ edp' \in EdpTypes /\ packet' \in PacketTypes
             /\ got' \in Seq(Sent) /\ BudgetTypes' /\ ghost' \in GhostTypes
             /\ ghost'.kept = ghost.kept /\ Sends(p, next, later)
  <2>1. /\ edp' \in EdpTypes /\ edp'.active = "close" /\ packet' = q
        /\ BudgetTypes' /\ UNCHANGED <<got, ghost>>
    BY <1>1, <1>3, <1>7, FailsDone
  <2>2. QED
    BY <1>1, <2>1 DEF Sends
<1>8. ASSUME packet # "none", Whole(packet), Goes(packet, edp.at),
             UNCHANGED ghost
      PROVE  /\ edp' \in EdpTypes /\ packet' \in PacketTypes
             /\ got' \in Seq(Sent) /\ BudgetTypes' /\ ghost' \in GhostTypes
             /\ ghost'.kept = ghost.kept /\ Sends(p, next, later)
  <2>1. /\ packet' = "none" /\ got' \in Seq(Sent) /\ BudgetTypes'
        /\ got' = IF packet \in Sent THEN Append(got, packet) ELSE got
    BY <1>1, <1>3, <1>8, WholeDone
  <2>2. /\ edp' \in EdpTypes /\ edp'.at = edp.at
        /\ edp'.active = IF packet = "complete" THEN "receive" ELSE edp.active
    BY <1>1, <1>2, <1>8, GoesDone
  <2>3. QED
    BY <1>1, <1>4, <1>8, <2>1, <2>2 DEF Sends
<1>9. ASSUME packet # "none", Partly(packet), UNCHANGED edp
      PROVE  /\ edp' \in EdpTypes /\ packet' \in PacketTypes
             /\ got' \in Seq(Sent) /\ BudgetTypes' /\ ghost' \in GhostTypes
             /\ ghost'.kept = ghost.kept /\ Sends(p, next, later)
  <2>1. /\ packet' = packet /\ got' = got /\ ghost' \in GhostTypes
        /\ ghost'.slow = TRUE /\ ghost'.kept = ghost.kept /\ BudgetTypes'
    BY <1>1, <1>3, <1>9, PartlyDone
  <2>2. QED
    BY <1>1, <1>9, <2>1 DEF Sends
<1>10. \/ packet = "none" /\ Whole(p) /\ Goes(p, next) /\ UNCHANGED ghost
       \/ packet = "none" /\ Partly(p) /\ edp' = [edp EXCEPT !.at = later]
       \/ SendFails(p)
       \/ packet # "none" /\ Whole(packet) /\ Goes(packet, edp.at)
          /\ UNCHANGED ghost
       \/ packet # "none" /\ Partly(packet) /\ UNCHANGED edp
       \/ SendFails(packet)
  BY Zenon DEF Open, Flush
<1>11. QED
  BY <1>1, <1>3, <1>4, <1>5, <1>6, <1>7, <1>8, <1>9, <1>10, Zenon
-----------------------------------------------------------------------------
\* The steps that keep what the cloud has received.
LEMMA HandshakeLeft ==
    ASSUME HandshakeInv, UNCHANGED got, ghost'.slow = ghost.slow, ~Shaking',
           Established' => Established /\ packet' \notin Sent
    PROVE  HandshakeInv'
BY DEF HandshakeInv

LEMMA HandshakeStays ==
    ASSUME HandshakeInv, UNCHANGED <<got, edp, packet, got_device_id>>,
           ghost'.slow = ghost.slow, cc'.state = cc.state
    PROVE  HandshakeInv'
<1>1. Shaking' = Shaking /\ Established' = Established
  BY DEF Shaking, Established
<1>2. \A s, e, id : Where(s, e, id)' = Where(s, e, id)
  BY DEF Where
<1>3. QED
  BY <1>1, <1>2 DEF HandshakeInv

\* The cloud that is connected to has received nothing.
LEMMA HandshakeBegins ==
    ASSUME SocketOpens, cc'.state = "redirect"
    PROVE  HandshakeInv'
<1> DEFINE s == Script("device_id", "success")
<1>1. "device_id" \in Identities /\ "success" \in Reports /\ 0 \in 0 .. 13
  BY DEF Identities, Reports
<1>2. Progress(<<>>, "none", FALSE, s, 0)
  BY ProgressBegins
<1> HIDE DEF s
<1>3. /\ edp'.active = "open" /\ edp'.at = "version" /\ packet' = "none"
      /\ got' = <<>> /\ ghost'.slow = FALSE
  BY DEF SocketOpens
<1>4. Where(s, 0, "device_id")'
  BY <1>2, <1>3 DEF Where, Stage
<1>5. InOrder(got', s, 0) /\ Begins(got', s)
  BY <1>2, <1>3, ProgressOrder
<1>6. ~Established'
  BY <1>3 DEF Established
<1>7. QED
  BY <1>1, <1>4, <1>5, <1>6 DEF HandshakeInv, s

LEMMA BudgetsStay ==
    ASSUME UNCHANGED budgets
    PROVE  UNCHANGED <<faults, slows, redirects>>
BY DEF budgets

LEMMA ConnectKept ==
    ASSUME ConnInv, Connect
    PROVE  ConnInv'
<1>1. /\ edp \in EdpTypes /\ packet \in PacketTypes /\ receive \in ReceiveTypes
      /\ cc \in CcTypes /\ LinkTypes /\ got \in Seq(Sent) /\ BudgetTypes
      /\ ghost \in GhostTypes /\ ConnectionTypeOK
  BY ConnTypes DEF ConnInv
<1>2. /\ At("connect")
      /\ UNCHANGED <<cc, got_device_id, url, dead, slows, redirects>>
  BY DEF Connect
<1>3. cc.state = "redirect" /\ edp.active = "open" /\ edp.at = "connect"
  BY <1>2 DEF ConnInv, ReportInv, At
<1>4. CASE Opened(edp) /\ UNCHANGED faults
  <2>1. /\ edp' \in EdpTypes /\ packet' \in PacketTypes
        /\ receive' \in ReceiveTypes /\ got' \in Seq(Sent)
        /\ ghost' \in GhostTypes /\ SocketOpens
    BY <1>1, <1>4, OpenedDone
  <2>2. ConnectionTypeOK'
    BY <1>1, <1>2, <1>4, <2>1, ConnTypesNext DEF LinkTypes, BudgetTypes
  <2>3. HandshakeInv'
    BY <1>2, <1>3, <2>1, HandshakeBegins
  <2>4. ParkInv'
    BY <2>1 DEF ParkInv, SocketOpens
  <2>5. ReportInv'
    BY <1>2, <1>3, <2>1 DEF ConnInv, ReportInv, SocketOpens, Tells, At, Shaking,
                                  Established
  <2>6. BufferInv'
    BY <1>1, <1>3, <2>1 DEF ConnInv, BufferInv, BufferHasOneOwner, SocketOpens,
                            Down, At
  <2>7. QED
    BY <2>2, <2>3, <2>4, <2>5, <2>6 DEF ConnInv
<1>5. CASE /\ Refused /\ edp' = [edp EXCEPT !.active = "wait"]
           /\ UNCHANGED <<packet, receive, got, ghost>>
  <2>1. edp' \in EdpTypes /\ edp'.active = "wait" /\ edp'.at = "connect"
    BY <1>1, <1>3, <1>5, EdpActive DEF Actives
  <2>2. faults' \in 0 .. MaxFaults
    BY <1>1, <1>5, FaultCounted DEF Refused, BudgetTypes
  <2>3. ConnectionTypeOK'
    BY <1>1, <1>2, <1>5, <2>1, <2>2, ConnTypesNext DEF LinkTypes, BudgetTypes
  <2>4. ~Shaking' /\ ~Established'
    BY <2>1 DEF Shaking, Established
  <2>5. HandshakeInv'
    BY <1>5, <2>4, HandshakeLeft DEF ConnInv
  <2>6. ParkInv'
    BY <2>1 DEF ParkInv
  <2>7. ReportInv'
    BY <1>2, <1>3, <2>4 DEF ConnInv, ReportInv
  <2>8. BufferInv'
    BY <1>3, <1>5, <2>1 DEF ConnInv, BufferInv, BufferHasOneOwner, Down, At
  <2>9. QED
    BY <2>3, <2>5, <2>6, <2>7, <2>8 DEF ConnInv
<1>6. QED
  BY <1>4, <1>5 DEF Connect

LEMMA ReconnectKept ==
    ASSUME ConnInv, Reconnect \/ Idle
    PROVE  ConnInv'
<1>1. /\ edp \in EdpTypes /\ packet \in PacketTypes /\ receive \in ReceiveTypes
      /\ cc \in CcTypes /\ LinkTypes /\ got \in Seq(Sent) /\ BudgetTypes
      /\ ghost \in GhostTypes
  BY ConnTypes DEF ConnInv
<1>2. /\ edp.active \in {"wait", "idle"}
      /\ edp' = [edp EXCEPT !.active = "open"]
      /\ UNCHANGED <<packet, receive, cc, got_device_id, url, dead, got,
                     faults, slows, redirects, ghost>>
  BY BudgetsStay DEF Reconnect, Idle
<1>3. edp.at = "connect" /\ cc.state = "redirect"
  BY <1>2 DEF ConnInv, ParkInv, ReportInv
<1>4. edp' \in EdpTypes /\ edp'.active = "open" /\ edp'.at = "connect"
  BY <1>1, <1>2, <1>3, EdpActive DEF Actives
<1>5. ConnectionTypeOK'
  BY <1>1, <1>2, <1>4, ConnTypesNext DEF LinkTypes, BudgetTypes
<1>6. ~Shaking' /\ ~Established'
  BY <1>4 DEF Shaking, Established
<1>7. HandshakeInv'
  BY <1>2, <1>6, HandshakeLeft DEF ConnInv
<1>8. ParkInv'
  BY <1>4 DEF ParkInv
<1>9. ReportInv'
  BY <1>2, <1>3, <1>6 DEF ConnInv, ReportInv
<1>10. BufferInv'
  BY <1>2, <1>4 DEF ConnInv, BufferInv, BufferHasOneOwner, Down, At
<1>11. QED
  BY <1>5, <1>7, <1>8, <1>9, <1>10 DEF ConnInv

LEMMA DestinationDiesKept ==
    ASSUME ConnInv, DestinationDies
    PROVE  ConnInv'
<1>1. /\ edp \in EdpTypes /\ packet \in PacketTypes /\ receive \in ReceiveTypes
      /\ cc \in CcTypes /\ LinkTypes /\ got \in Seq(Sent) /\ BudgetTypes
      /\ ghost \in GhostTypes
  BY ConnTypes DEF ConnInv
<1>2. /\ dead' = TRUE
      /\ UNCHANGED <<edp, packet, receive, cc, got_device_id, url, got,
                     faults, slows, redirects, ghost>>
  BY BudgetsStay DEF DestinationDies
<1>3. ConnectionTypeOK'
  BY <1>1, <1>2, ConnTypesNext DEF LinkTypes, BudgetTypes
<1>4. HandshakeInv'
  BY <1>2, HandshakeStays DEF ConnInv
<1>5. ParkInv' /\ ReportInv'
  BY <1>2 DEF ConnInv, ParkInv, ReportInv, At, Shaking, Established
<1>6. BufferInv'
  BY <1>2 DEF ConnInv, BufferInv, BufferHasOneOwner, Down, At
<1>7. QED
  BY <1>3, <1>4, <1>5, <1>6 DEF ConnInv
-----------------------------------------------------------------------------
\* The connection fails, whatever is being sent and received.
LEMMA CloseKept ==
    ASSUME ConnInv, edp'.active = "close", edp' \in EdpTypes,
           receive' \in ReceiveTypes, BudgetTypes',
           receive'.held = receive.held,
           receive'.free = receive.free, receive'.filling = receive.filling,
           UNCHANGED <<packet, cc, got_device_id, url, dead, got, ghost>>
    PROVE  ConnInv'
<1>1. /\ packet \in PacketTypes /\ cc \in CcTypes /\ LinkTypes
      /\ got \in Seq(Sent)
      /\ ghost \in GhostTypes
  BY ConnTypes DEF ConnInv
<1>2. ConnectionTypeOK'
  BY <1>1, ConnTypesNext DEF LinkTypes
<1>3. ~Shaking' /\ ~Established'
  BY DEF Shaking, Established
<1>4. HandshakeInv'
  BY <1>3, HandshakeLeft DEF ConnInv
<1>5. ParkInv'
  BY DEF ParkInv
<1>6. ReportInv'
  BY <1>3 DEF ConnInv, ReportInv, At
<1>7. BufferInv'
  BY DEF ConnInv, BufferInv, BufferHasOneOwner, Down, At
<1>8. QED
  BY <1>2, <1>4, <1>5, <1>6, <1>7 DEF ConnInv

LEMMA TakeBufferKept ==
    ASSUME ConnInv, TakeBuffer
    PROVE  ConnInv'
<1>1. /\ edp \in EdpTypes /\ packet \in PacketTypes /\ receive \in ReceiveTypes
      /\ cc \in CcTypes /\ LinkTypes /\ got \in Seq(Sent) /\ BudgetTypes
      /\ ghost \in GhostTypes
  BY ConnTypes DEF ConnInv
<1>2. /\ edp.active = "open"
      /\ edp.at \in {"version?", "protocol?", "device_id?"}
      /\ ~receive.filling /\ receive.free # "none"
      /\ receive' = [Taken(receive) EXCEPT !.filling = TRUE]
      /\ UNCHANGED <<edp, packet, cc, got_device_id, url, dead, got,
                     faults, slows, redirects, ghost>>
  BY BudgetsStay DEF TakeBuffer
<1>3. /\ Taken(receive) \in ReceiveTypes
      /\ Taken(receive).free = IF receive.free = "one" THEN "none"
                                                       ELSE receive.free
      /\ Taken(receive).held = receive.held
  BY <1>1, BufferTaken
<1>4. /\ receive' \in ReceiveTypes /\ receive'.free = Taken(receive).free
      /\ receive'.filling = TRUE /\ receive'.held = receive.held
  BY <1>2, <1>3 DEF ReceiveTypes
<1>5. ConnectionTypeOK'
  BY <1>1, <1>2, <1>4, ConnTypesNext DEF LinkTypes, BudgetTypes
<1>6. HandshakeInv'
  BY <1>2, HandshakeStays DEF ConnInv
<1>7. ParkInv' /\ ReportInv'
  BY <1>2 DEF ConnInv, ParkInv, ReportInv, At, Shaking, Established
<1>8. receive.free \in {"none", "one", "loop"}
  BY <1>1, ReceiveFields
<1>9. ghost.kept \/ (~receive.held /\ receive.free # "loop")
  BY <1>2 DEF ConnInv, BufferInv, BufferHasOneOwner
<1>10. ghost.kept \/ (~receive'.held /\ receive'.free = "none")
  BY <1>2, <1>3, <1>4, <1>8, <1>9
<1>11. BufferInv'
  BY <1>2, <1>4, <1>10 DEF BufferInv, BufferHasOneOwner, Down, At
<1>12. QED
  BY <1>5, <1>6, <1>7, <1>11 DEF ConnInv

LEMMA OpeningKeepaliveKept ==
    ASSUME ConnInv, OpeningKeepalive
    PROVE  ConnInv'
<1>1. /\ edp \in EdpTypes /\ packet \in PacketTypes /\ receive \in ReceiveTypes
      /\ cc \in CcTypes /\ LinkTypes /\ got \in Seq(Sent) /\ BudgetTypes
      /\ ghost \in GhostTypes
  BY ConnTypes DEF ConnInv
<1>2. /\ edp.active = "open" /\ receive.filling
      /\ receive' = [receive EXCEPT !.filling = FALSE, !.missed = 0]
      /\ ghost' = [ghost EXCEPT !.swallowed = TRUE]
      /\ UNCHANGED <<edp, packet, cc, got_device_id, url, dead, got,
                     faults, slows, redirects>>
  BY BudgetsStay DEF OpeningKeepalive
<1>3. /\ receive' \in ReceiveTypes /\ receive'.free = receive.free
      /\ receive'.filling = FALSE /\ receive'.held = receive.held
  BY <1>1, <1>2, ReceiveFilling
<1>4. ghost' \in GhostTypes /\ ghost'.slow = ghost.slow
      /\ ghost'.kept = ghost.kept
  BY <1>1, <1>2, GhostSwallowed
<1>5. ConnectionTypeOK'
  BY <1>1, <1>2, <1>3, <1>4, ConnTypesNext DEF LinkTypes, BudgetTypes
<1>6. HandshakeInv'
  BY <1>2, <1>4, HandshakeStays DEF ConnInv
<1>7. ParkInv' /\ ReportInv'
  BY <1>2 DEF ConnInv, ParkInv, ReportInv, At, Shaking, Established
<1>8. BufferInv'
  BY <1>2, <1>3, <1>4 DEF ConnInv, BufferInv, BufferHasOneOwner, Down, At
<1>9. QED
  BY <1>5, <1>6, <1>7, <1>8 DEF ConnInv

LEMMA AnswerKept ==
    ASSUME ConnInv, NEW p, NEW next, NEW why \in Causes,
           \/ p = "version?" /\ next = "keepalive"
           \/ p = "protocol?" /\ next = "identity"
           \/ p = "device_id?" /\ next = "cloud_url",
           Answer(p, next, why), got_device_id' \in BOOLEAN
    PROVE  ConnInv'
<1>1. /\ edp \in EdpTypes /\ packet \in PacketTypes /\ receive \in ReceiveTypes
      /\ cc \in CcTypes /\ LinkTypes /\ got \in Seq(Sent) /\ BudgetTypes
      /\ ghost \in GhostTypes
  BY ConnTypes DEF ConnInv
<1>2. /\ edp.active = "open" /\ edp.at = p /\ receive.filling
      /\ receive' = [Released(receive) EXCEPT !.filling = FALSE, !.missed = 0]
      /\ UNCHANGED <<packet, cc, url, dead, got, slows, redirects, ghost>>
  BY DEF Answer, At
<1>3. /\ Released(receive) \in ReceiveTypes
      /\ Released(receive).free = IF receive.free = "none" THEN "one"
                                                           ELSE "loop"
      /\ Released(receive).held = receive.held
  BY <1>1, BufferReleased
<1>4. /\ receive' \in ReceiveTypes /\ receive'.free = Released(receive).free
      /\ receive'.filling = FALSE /\ receive'.held = receive.held
  BY <1>2, <1>3, ReceiveFilling
<1>5. ghost.kept \/ (~receive.held /\ receive.free = "none")
  BY <1>2 DEF ConnInv, BufferInv, BufferHasOneOwner
<1>6. ghost.kept \/ (~receive'.held /\ receive'.free = "one")
  BY <1>3, <1>4, <1>5
<1>7. next \in States
  BY StateNames, SentMessages
<1>8. LinkTypes'
  BY <1>1, <1>2 DEF LinkTypes
<1>9. CASE edp' = [edp EXCEPT !.at = next] /\ UNCHANGED faults
  <2>1. edp' \in EdpTypes /\ edp'.active = "open" /\ edp'.at = next
    BY <1>1, <1>2, <1>7, <1>9, EdpAt
  <2>2. ConnectionTypeOK'
    BY <1>1, <1>2, <1>4, <1>8, <1>9, <2>1, ConnTypesNext DEF BudgetTypes
  <2>3. PICK id \in Identities, r \in Reports, e \in 0 .. 13 :
            /\ InOrder(got, Script(id, r), e)
            /\ ghost.slow = TRUE \/ Begins(got, Script(id, r))
            /\ Shaking => Where(Script(id, r), e, id)
    BY DEF ConnInv, HandshakeInv
  <2>4. Shaking /\ Where(Script(id, r), e, id)
    BY <1>2, <2>3 DEF Shaking
  <2>5. Progress(got, packet, ghost.slow, Script(id, r), e)
    BY <2>4 DEF Where
  <2>6. Stage(edp.at, e, cc.state, ghost.slow)
    BY <2>4 DEF Where
  <2>7. Stage(next, e, cc.state, ghost.slow)
    BY <1>2, <2>6 DEF Stage
  <2>8. Progress(got, packet, ghost.slow, Script(id, r), e)'
    BY <1>2, <2>5
  <2>9. Stage(edp.at, e, cc.state, ghost.slow)'
    BY <1>2, <2>1, <2>7
  <2>10. Where(Script(id, r), e, id)'
    BY <2>1, <2>8, <2>9 DEF Where
  <2>11. ~Established'
    BY <2>1 DEF Established
  <2>12. HandshakeInv'
    BY <1>2, <2>3, <2>10, <2>11 DEF HandshakeInv
  <2>13. ParkInv'
    BY <2>1 DEF ParkInv
  <2>14. ReportInv'
    BY <1>2, <2>1, <2>4 DEF ConnInv, ReportInv, At, Shaking, Established
  <2>15. BufferInv'
    BY <1>2, <1>4, <1>6, <2>1 DEF BufferInv, BufferHasOneOwner, Down, At
  <2>16. QED
    BY <2>2, <2>12, <2>13, <2>14, <2>15 DEF ConnInv
<1>10. CASE Fault /\ Close(why)
  <2>1. edp' \in EdpTypes /\ edp'.active = "close" /\ edp'.at = edp.at
    BY <1>1, <1>10, CloseDone
  <2>2. faults' \in 0 .. MaxFaults
    BY <1>1, <1>10, FaultCounted DEF BudgetTypes
  <2>3. ConnectionTypeOK'
    BY <1>1, <1>2, <1>4, <1>8, <2>1, <2>2, ConnTypesNext DEF BudgetTypes
  <2>4. ~Shaking' /\ ~Established'
    BY <2>1 DEF Shaking, Established
  <2>5. HandshakeInv'
    BY <1>2, <2>4, HandshakeLeft DEF ConnInv
  <2>6. ParkInv'
    BY <2>1 DEF ParkInv
  <2>7. ReportInv'
    BY <1>2, <2>1, <2>4 DEF ConnInv, ReportInv, At
  <2>8. BufferInv'
    BY <1>2, <1>4, <1>6, <2>1 DEF BufferInv, BufferHasOneOwner, Down, At
  <2>9. QED
    BY <2>3, <2>5, <2>6, <2>7, <2>8 DEF ConnInv
<1>11. QED
  BY <1>9, <1>10 DEF Answer

LEMMA AnswersKept ==
    ASSUME ConnInv, Answers
    PROVE  ConnInv'
<1>1. got_device_id \in BOOLEAN /\ {"error", "abort"} \subseteq Causes
  BY ConnTypes DEF ConnInv, LinkTypes, Causes
<1>2. CASE ReceiveVersion
  BY <1>1, <1>2, AnswerKept DEF ReceiveVersion
<1>3. CASE ReceiveProtocolVersion
  BY <1>1, <1>3, AnswerKept DEF ReceiveProtocolVersion
<1>4. CASE ReceiveDeviceId
  BY <1>1, <1>4, AnswerKept DEF ReceiveDeviceId
<1>5. QED
  BY <1>2, <1>3, <1>4 DEF Answers

LEMMA SilenceKept ==
    ASSUME ConnInv, MissInv, Silence \/ Lost
    PROVE  ConnInv'
<1>1. /\ edp \in EdpTypes /\ packet \in PacketTypes /\ receive \in ReceiveTypes
      /\ cc \in CcTypes /\ LinkTypes /\ got \in Seq(Sent) /\ BudgetTypes
      /\ ghost \in GhostTypes
  BY ConnTypes DEF ConnInv
<1>2. UNCHANGED <<packet, cc, got_device_id, url, dead, got, slows, redirects,
                  ghost>>
  BY DEF Silence, Lost
<1>3. receive.missed \in 0 .. WaitCount
  BY <1>1, ReceiveFields
<1>4. CASE Silence /\ receive.missed + 1 < WaitCount
  <2>1. /\ receive' = [receive EXCEPT !.missed = receive.missed + 1]
        /\ UNCHANGED <<edp, faults>>
    BY <1>1, <1>4 DEF Silence, ReceiveTypes
  <2>2. receive.missed + 1 \in 0 .. WaitCount
    BY <1>3, <1>4, CloudConnectionAssumption
  <2>3. /\ receive' \in ReceiveTypes /\ receive'.free = receive.free
        /\ receive'.filling = receive.filling /\ receive'.held = receive.held
    BY <1>1, <2>1, <2>2, ReceiveMissed
  <2>4. ConnectionTypeOK'
    BY <1>1, <1>2, <2>1, <2>3, ConnTypesNext DEF LinkTypes, BudgetTypes
  <2>5. HandshakeInv'
    BY <1>2, <2>1, HandshakeStays DEF ConnInv
  <2>6. ParkInv' /\ ReportInv'
    BY <1>2, <2>1 DEF ConnInv, ParkInv, ReportInv, At, Shaking, Established
  <2>7. BufferInv'
    BY <1>2, <2>1, <2>3 DEF ConnInv, BufferInv, BufferHasOneOwner, Down, At
  <2>8. QED
    BY <2>4, <2>5, <2>6, <2>7 DEF ConnInv
<1>5. CASE Lost \/ (Silence /\ ~(receive.missed + 1 < WaitCount))
  <2>1. PICK why \in Causes : Close(why)
    BY <1>5 DEF Lost, Silence, Causes
  <2>2. Fault
    BY <1>5 DEF Lost, Silence
  <2>3. edp' \in EdpTypes /\ edp'.active = "close"
    BY <1>1, <2>1, CloseDone
  <2>4. BudgetTypes'
    BY <1>1, <1>2, <2>2, FaultCounted DEF BudgetTypes
  <2>5. /\ receive' \in ReceiveTypes /\ receive'.free = receive.free
        /\ receive'.filling = receive.filling /\ receive'.held = receive.held
    <3>1. CASE Lost
      BY <1>1, <3>1 DEF Lost
    <3>2. CASE Silence
      <4>1. receive' = [receive EXCEPT !.missed = receive.missed + 1]
        BY <1>1, <3>2 DEF Silence, ReceiveTypes
      <4>2. receive.missed + 1 \in 0 .. WaitCount
        BY <1>3, <3>2, CloudConnectionAssumption
           DEF MissInv, Silence, Listening
      <4>3. QED
        BY <1>1, <4>1, <4>2, ReceiveMissed
    <3>3. QED
      BY <1>5, <3>1, <3>2
  <2>6. QED
    BY <1>2, <2>3, <2>4, <2>5, CloseKept
<1>6. QED
  BY <1>4, <1>5
-----------------------------------------------------------------------------
\* The established connection.
LEMMA EstablishedKept ==
    ASSUME ConnInv, Established, Established', edp' \in EdpTypes,
           packet' \in {packet, "none", "rx_keepalive", "facility"},
           receive' \in ReceiveTypes, BudgetTypes',
           UNCHANGED <<cc, got_device_id, url, dead, got, ghost>>
    PROVE  /\ ConnectionTypeOK' /\ ParkInv' /\ ReportInv' /\ HandshakeInv'
<1>1. /\ packet \in PacketTypes /\ cc \in CcTypes /\ LinkTypes
      /\ got \in Seq(Sent)
      /\ ghost \in GhostTypes
  BY ConnTypes DEF ConnInv
<1>2. packet' \in PacketTypes
  BY <1>1, StateNames
<1>3. ConnectionTypeOK'
  BY <1>1, <1>2, ConnTypesNext DEF LinkTypes
<1>4. ~Shaking'
  BY DEF Shaking, Established
<1>5. packet' \notin Sent
  BY StateNames DEF ConnInv, HandshakeInv
<1>6. HandshakeInv'
  BY <1>4, <1>5, HandshakeLeft DEF ConnInv
<1>7. ParkInv'
  BY DEF ParkInv, Established
<1>8. Tells(packet', url)
  BY DEF ConnInv, ReportInv, Tells
<1>9. ReportInv'
  BY <1>8 DEF ConnInv, ReportInv, Established, At
<1>10. QED
  BY <1>3, <1>6, <1>7, <1>9

LEMMA ReceivePartKept ==
    ASSUME ConnInv, ReceivePart \/ ReceiveKeepalive
    PROVE  ConnInv'
<1>1. /\ edp \in EdpTypes /\ receive \in ReceiveTypes /\ BudgetTypes
  BY ConnTypes DEF ConnInv
<1>2. /\ Turn("receive", "send") /\ ~receive.filling
      /\ UNCHANGED <<packet, cc, got_device_id, url, dead, got, faults, slows,
                     redirects, ghost>>
  BY BudgetsStay DEF ReceivePart, ReceiveKeepalive
<1>3. edp' \in EdpTypes /\ edp.active = "receive" /\ edp'.active = "send"
  BY <1>1, <1>2, TurnDone DEF Actives
<1>4. Established /\ Established' /\ BudgetTypes'
  BY <1>1, <1>2, <1>3 DEF Established, BudgetTypes
<1>5. /\ receive' \in ReceiveTypes /\ BufferInv'
  <2>1. CASE ReceivePart
    <3>1. /\ receive.free # "none"
          /\ receive' = [Taken(receive) EXCEPT !.filling = TRUE, !.missed = 0]
      BY <2>1 DEF ReceivePart
    <3>2. /\ Taken(receive) \in ReceiveTypes
          /\ Taken(receive).free = IF receive.free = "one" THEN "none"
                                                           ELSE receive.free
          /\ Taken(receive).held = receive.held
      BY <1>1, BufferTaken
    <3>3. /\ receive' \in ReceiveTypes /\ receive'.free = Taken(receive).free
          /\ receive'.filling = TRUE /\ receive'.held = receive.held
      <4>1. 0 \in 0 .. WaitCount
        BY CloudConnectionAssumption
      <4>2. QED
        BY <3>1, <3>2, <4>1 DEF ReceiveTypes
    <3>4. receive.free \in {"none", "one", "loop"}
      BY <1>1, ReceiveFields
    <3>5. ghost.kept \/ (~receive.held /\ receive.free # "loop")
      BY <3>1 DEF ConnInv, BufferInv, BufferHasOneOwner
    <3>6. ghost.kept \/ (~receive'.held /\ receive'.free = "none")
      BY <3>1, <3>2, <3>3, <3>4, <3>5
    <3>7. QED
      BY <1>2, <1>3, <3>3, <3>6 DEF BufferInv, BufferHasOneOwner, Down, At
  <2>2. CASE ReceiveKeepalive
    <3>1. receive' = [receive EXCEPT !.missed = 0] /\ 0 \in 0 .. WaitCount
      BY <2>2, CloudConnectionAssumption DEF ReceiveKeepalive
    <3>2. /\ receive' \in ReceiveTypes /\ receive'.free = receive.free
          /\ receive'.filling = receive.filling /\ receive'.held = receive.held
      BY <1>1, <3>1, ReceiveMissed
    <3>3. QED
      BY <1>2, <1>3, <3>2
         DEF ConnInv, BufferInv, BufferHasOneOwner, Down, At
  <2>3. QED
    BY <2>1, <2>2
<1>6. QED
  BY <1>2, <1>4, <1>3, <1>5, EstablishedKept DEF ConnInv

LEMMA ReceivePayloadKept ==
    ASSUME ConnInv, ReceivePayload
    PROVE  ConnInv'
<1>1. /\ edp \in EdpTypes /\ packet \in PacketTypes /\ receive \in ReceiveTypes
      /\ cc \in CcTypes /\ LinkTypes /\ got \in Seq(Sent) /\ BudgetTypes
      /\ ghost \in GhostTypes
  BY ConnTypes DEF ConnInv
<1>2. /\ edp.active = "receive" /\ receive.filling
      /\ UNCHANGED <<packet, cc, got_device_id, url, dead, got, faults, slows,
                     redirects, ghost>>
  BY BudgetsStay DEF ReceivePayload
<1>3. ghost.kept \/ (~receive.held /\ receive.free = "none")
  BY <1>2 DEF ConnInv, BufferInv, BufferHasOneOwner
<1>4. CASE receive.held
  <2>1. edp' = [edp EXCEPT !.active = "assert"] /\ UNCHANGED receive
    BY <1>4 DEF ReceivePayload
  <2>2. edp' \in EdpTypes /\ edp'.active = "assert"
    BY <1>1, <2>1, EdpActive DEF Actives
  <2>3. ConnectionTypeOK'
    BY <1>1, <1>2, <2>1, <2>2, ConnTypesNext DEF LinkTypes, BudgetTypes
  <2>4. ~Shaking' /\ ~Established'
    BY <2>2 DEF Shaking, Established
  <2>5. HandshakeInv'
    BY <1>2, <2>4, HandshakeLeft DEF ConnInv
  <2>6. ParkInv'
    BY <2>2 DEF ParkInv
  <2>7. ReportInv'
    BY <1>2, <2>2, <2>4 DEF ConnInv, ReportInv, At
  <2>8. ghost'.kept
    BY <1>2, <1>3, <1>4
  <2>9. BufferInv'
    BY <2>8 DEF BufferInv, BufferHasOneOwner
  <2>10. QED
    BY <2>3, <2>5, <2>6, <2>7, <2>9 DEF ConnInv
<1>5. CASE ~receive.held
  <2>1. Turn("receive", "send")
    BY <1>5 DEF ReceivePayload
  <2>2. edp' \in EdpTypes /\ edp'.active = "send"
    BY <1>1, <2>1, TurnDone DEF Actives
  <2>3. Established /\ Established' /\ BudgetTypes'
    BY <1>1, <1>2, <2>2 DEF Established, BudgetTypes
  <2>4. /\ receive' \in ReceiveTypes /\ BufferInv'
    <3>1. CASE receive' = [receive EXCEPT !.filling = FALSE, !.held = TRUE]
      <4>1. /\ receive' \in ReceiveTypes /\ receive'.free = receive.free
            /\ receive'.filling = FALSE /\ receive'.held = TRUE
        BY <1>1, <3>1, ReceiveHeld
      <4>2. QED
        BY <1>2, <1>3, <2>2, <4>1 DEF BufferInv, BufferHasOneOwner, Down, At
    <3>2. CASE receive' = [Released(receive) EXCEPT !.filling = FALSE]
      <4>1. /\ Released(receive) \in ReceiveTypes
            /\ Released(receive).free = IF receive.free = "none" THEN "one"
                                                                 ELSE "loop"
            /\ Released(receive).held = receive.held
        BY <1>1, BufferReleased
      <4>2. /\ receive' \in ReceiveTypes
            /\ receive'.free = Released(receive).free
            /\ receive'.filling = FALSE /\ receive'.held = receive.held
        BY <3>2, <4>1 DEF ReceiveTypes
      <4>3. ghost.kept \/ (~receive'.held /\ receive'.free = "one")
        BY <1>3, <4>1, <4>2
      <4>4. QED
        BY <1>2, <2>2, <4>2, <4>3 DEF BufferInv, BufferHasOneOwner, Down, At
    <3>3. QED
      BY <1>5, <3>1, <3>2 DEF ReceivePayload
  <2>5. QED
    BY <1>2, <2>2, <2>3, <2>4, EstablishedKept DEF ConnInv
<1>6. QED
  BY <1>4, <1>5

LEMMA ProcessFacilityKept ==
    ASSUME ConnInv, ProcessFacility
    PROVE  ConnInv'
<1>1. /\ edp \in EdpTypes /\ receive \in ReceiveTypes /\ BudgetTypes
  BY ConnTypes DEF ConnInv
<1>2. /\ Turn("receive", "send")
      /\ packet' \in {packet, "none", "rx_keepalive", "facility"}
      /\ UNCHANGED <<cc, got_device_id, url, dead, got, faults, slows,
                     redirects, ghost>>
  BY BudgetsStay DEF ProcessFacility
<1>3. edp' \in EdpTypes /\ edp.active = "receive" /\ edp'.active = "send"
  BY <1>1, <1>2, TurnDone DEF Actives
<1>4. Established /\ Established' /\ BudgetTypes'
  BY <1>1, <1>2, <1>3 DEF Established, BudgetTypes
<1>5. /\ receive' \in ReceiveTypes /\ BufferInv'
  <2>1. CASE /\ receive.held
             /\ receive' = [Released(receive) EXCEPT !.held = FALSE]
    <3>1. /\ Released(receive) \in ReceiveTypes
          /\ Released(receive).free = IF receive.free = "none" THEN "one"
                                                               ELSE "loop"
          /\ Released(receive).filling = receive.filling
      BY <1>1, BufferReleased
    <3>2. /\ receive' \in ReceiveTypes
          /\ receive'.free = Released(receive).free
          /\ receive'.filling = receive.filling /\ receive'.held = FALSE
      BY <2>1, <3>1, ReceiveLeft
    <3>3. ghost.kept \/ (~receive.filling /\ receive.free = "none")
      BY <2>1 DEF ConnInv, BufferInv, BufferHasOneOwner
    <3>4. ghost.kept \/ (~receive'.filling /\ receive'.free = "one")
      BY <3>1, <3>2, <3>3
    <3>5. QED
      BY <1>2, <1>3, <3>2, <3>4 DEF BufferInv, BufferHasOneOwner, Down, At
  <2>2. CASE UNCHANGED receive
    BY <1>1, <1>2, <1>3, <2>2
       DEF ConnInv, BufferInv, BufferHasOneOwner, Down, At
  <2>3. QED
    BY <2>1, <2>2 DEF ProcessFacility
<1>6. QED
  BY <1>2, <1>3, <1>4, <1>5, EstablishedKept DEF ConnInv

LEMMA SendPacketKept ==
    ASSUME ConnInv, SendPacket
    PROVE  ConnInv'
<1>1. /\ edp \in EdpTypes /\ packet \in PacketTypes /\ receive \in ReceiveTypes
      /\ cc \in CcTypes /\ LinkTypes /\ got \in Seq(Sent) /\ BudgetTypes
      /\ ghost \in GhostTypes
  BY ConnTypes DEF ConnInv
<1>2. /\ edp.active = "send"
      /\ UNCHANGED <<receive, cc, got_device_id, url, dead, redirects>>
  BY DEF SendPacket
<1>3. Established /\ packet \notin Sent
  BY <1>2 DEF Established, ConnInv, HandshakeInv
<1>4. ASSUME Turn("send", "receive"), UNCHANGED <<got, ghost>>, BudgetTypes',
             packet' \in {packet, "none", "rx_keepalive", "facility"}
      PROVE  ConnInv'
  <2>1. edp' \in EdpTypes /\ edp'.active = "receive"
    BY <1>1, <1>4, TurnDone DEF Actives
  <2>2. Established'
    BY <2>1 DEF Established
  <2>3. /\ ConnectionTypeOK' /\ ParkInv' /\ ReportInv' /\ HandshakeInv'
    BY <1>1, <1>2, <1>3, <1>4, <2>1, <2>2, EstablishedKept
  <2>4. BufferInv'
    BY <1>2, <1>4, <2>1 DEF ConnInv, BufferInv, BufferHasOneOwner, Down, At
  <2>5. QED
    BY <2>3, <2>4 DEF ConnInv
<1>5. CASE /\ packet = "none" /\ UNCHANGED <<packet, got, faults, slows, ghost>>
           /\ Turn("send", "receive")
  BY <1>1, <1>2, <1>4, <1>5 DEF BudgetTypes
<1>6. ASSUME NEW p \in IF packet = "none" THEN {"rx_keepalive"} ELSE {packet},
             \/ Whole(p) /\ Turn("send", "receive") /\ UNCHANGED ghost
             \/ /\ slows < MaxSlow /\ slows' = slows + 1 /\ packet' = p
                /\ Turn("send", "receive") /\ UNCHANGED <<got, faults, ghost>>
             \/ SendFails(p)
      PROVE  ConnInv'
  <2>1. p \notin Sent /\ p \in {packet, "none", "rx_keepalive", "facility"}
    BY <1>3, <1>6, StateNames
  <2>2. CASE Whole(p) /\ Turn("send", "receive") /\ UNCHANGED ghost
    <3>1. packet' = "none" /\ got' = got /\ BudgetTypes'
      BY <1>1, <1>2, <2>1, <2>2, WholeDone
    <3>2. QED
      BY <1>4, <2>2, <3>1
  <2>3. CASE /\ slows < MaxSlow /\ slows' = slows + 1 /\ packet' = p
             /\ Turn("send", "receive") /\ UNCHANGED <<got, faults, ghost>>
    <3>1. BudgetTypes'
      BY <1>1, <1>2, <2>3, CloudConnectionAssumption DEF BudgetTypes
    <3>2. QED
      BY <1>4, <2>1, <2>3, <3>1
  <2>4. CASE SendFails(p)
    <3>1. /\ edp' \in EdpTypes /\ edp'.active = "close" /\ packet' = p
          /\ BudgetTypes' /\ UNCHANGED <<got, ghost>>
      BY <1>1, <1>2, <2>4, FailsDone
    <3>2. packet' \in PacketTypes
      BY <1>1, <2>1, <3>1, StateNames
    <3>3. ConnectionTypeOK'
      BY <1>1, <1>2, <3>1, <3>2, ConnTypesNext DEF LinkTypes
    <3>4. ~Shaking' /\ ~Established'
      BY <3>1 DEF Shaking, Established
    <3>5. HandshakeInv'
      BY <3>1, <3>4, HandshakeLeft DEF ConnInv
    <3>6. ParkInv'
      BY <3>1 DEF ParkInv
    <3>7. ReportInv'
      BY <1>2, <3>1, <3>4 DEF ConnInv, ReportInv, At
    <3>8. BufferInv'
      BY <1>2, <3>1 DEF ConnInv, BufferInv, BufferHasOneOwner, Down, At
    <3>9. QED
      BY <3>3, <3>5, <3>6, <3>7, <3>8 DEF ConnInv
  <2>5. QED
    BY <1>6, <2>2, <2>3, <2>4
<1>7. QED
  BY <1>5, <1>6 DEF SendPacket
-----------------------------------------------------------------------------
\* Control, closing and connecting again.
LEMMA ControlDone ==
    ASSUME ConnInv, Control
    PROVE  /\ edp.active = "receive" /\ receive' \in ReceiveTypes
           /\ receive'.filling = FALSE /\ receive'.held = receive.held
           /\ ghost.kept \/ (~receive'.held /\ receive'.free = "one")
           /\ UNCHANGED <<packet, got_device_id, url, dead, got, slows, ghost>>
<1>1. receive \in ReceiveTypes
  BY ConnTypes DEF ConnInv
<1>2. /\ edp.active = "receive" /\ receive.filling
      /\ receive' = [Released(receive) EXCEPT !.filling = FALSE]
      /\ UNCHANGED <<packet, got_device_id, url, dead, got, slows, ghost>>
  BY DEF Control
<1>3. /\ Released(receive) \in ReceiveTypes
      /\ Released(receive).free = IF receive.free = "none" THEN "one"
                                                           ELSE "loop"
      /\ Released(receive).held = receive.held
  BY <1>1, BufferReleased
<1>4. /\ receive' \in ReceiveTypes
      /\ receive'.free = Released(receive).free
      /\ receive'.filling = FALSE /\ receive'.held = receive.held
  BY <1>2, <1>3 DEF ReceiveTypes
<1>5. ghost.kept \/ (~receive.held /\ receive.free = "none")
  BY <1>2 DEF ConnInv, BufferInv, BufferHasOneOwner
<1>6. ghost.kept \/ (~receive'.held /\ receive'.free = "one")
  BY <1>3, <1>4, <1>5
<1>7. QED
  BY <1>2, <1>4, <1>6

LEMMA DisconnectKept ==
    ASSUME ConnInv, Disconnect \/ Redirect
    PROVE  ConnInv'
<1>1. /\ edp \in EdpTypes /\ packet \in PacketTypes /\ receive \in ReceiveTypes
      /\ cc \in CcTypes /\ LinkTypes /\ got \in Seq(Sent) /\ BudgetTypes
      /\ ghost \in GhostTypes
  BY ConnTypes DEF ConnInv
<1>2. Control
  BY DEF Disconnect, Redirect
<1>3. /\ edp.active = "receive" /\ receive' \in ReceiveTypes
      /\ receive'.filling = FALSE /\ receive'.held = receive.held
      /\ ghost.kept \/ (~receive'.held /\ receive'.free = "one")
      /\ UNCHANGED <<packet, got_device_id, url, dead, got, slows, ghost>>
  BY <1>2, ControlDone
<1>4. CASE Disconnect
  <2>1. Fault /\ Close("disconnected") /\ UNCHANGED <<cc, redirects>>
    BY <1>4 DEF Disconnect
  <2>2. edp' \in EdpTypes /\ edp'.active = "close"
    BY <1>1, <2>1, CloseDone DEF Causes
  <2>3. BudgetTypes'
    BY <1>1, <1>3, <2>1, FaultCounted DEF BudgetTypes
  <2>4. ConnectionTypeOK'
    BY <1>1, <1>3, <2>1, <2>2, <2>3, ConnTypesNext DEF LinkTypes
  <2>5. ~Shaking' /\ ~Established'
    BY <2>2 DEF Shaking, Established
  <2>6. HandshakeInv'
    BY <1>3, <2>5, HandshakeLeft DEF ConnInv
  <2>7. ParkInv'
    BY <2>2 DEF ParkInv
  <2>8. ReportInv'
    BY <1>3, <2>1, <2>2, <2>5 DEF ConnInv, ReportInv, At
  <2>9. BufferInv'
    BY <1>3, <2>2 DEF BufferInv, BufferHasOneOwner, Down, At
  <2>10. QED
    BY <2>4, <2>6, <2>7, <2>8, <2>9 DEF ConnInv
<1>5. CASE Redirect
  <2>1. PICK n \in 1 .. 2 : cc' = [cc EXCEPT !.state = "close", !.urls = n]
    BY <1>5 DEF Redirect
  <2>2. /\ edp' = [edp EXCEPT !.active = "redirect"] /\ faults' = faults
        /\ redirects < MaxRedirects /\ redirects' = redirects + 1
    BY <1>5 DEF Redirect
  <2>3. edp' \in EdpTypes /\ edp'.active = "redirect"
    BY <1>1, <2>2, EdpActive DEF Actives
  <2>4. cc' \in CcTypes /\ cc'.state = "close" /\ cc'.report = cc.report
    <3>1. n \in 0 .. 2
      OBVIOUS
    <3>2. QED
      BY <1>1, <2>1, <3>1 DEF CcTypes
  <2>5. BudgetTypes'
    BY <1>1, <1>3, <2>2, CloudConnectionAssumption DEF BudgetTypes
  <2>6. ConnectionTypeOK'
    BY <1>1, <1>3, <2>3, <2>4, <2>5, ConnTypesNext DEF LinkTypes
  <2>7. ~Shaking' /\ ~Established'
    BY <2>3 DEF Shaking, Established
  <2>8. HandshakeInv'
    BY <1>3, <2>7, HandshakeLeft DEF ConnInv
  <2>9. ParkInv'
    BY <2>3, <2>4 DEF ParkInv
  <2>10. cc.state # "redirect"
    BY <1>3 DEF ConnInv, ReportInv, Established
  <2>11. ReportInv'
    BY <1>3, <2>3, <2>4, <2>7, <2>10 DEF ConnInv, ReportInv, At
  <2>12. BufferInv'
    BY <1>3, <2>3, <2>4 DEF BufferInv, BufferHasOneOwner, Down, At
  <2>13. QED
    BY <2>6, <2>8, <2>9, <2>11, <2>12 DEF ConnInv
<1>6. QED
  BY <1>4, <1>5

LEMMA CloseProcessKept ==
    ASSUME ConnInv, CloseProcess
    PROVE  ConnInv'
<1> DEFINE e == [edp EXCEPT !.active = IF edp.cause = "abort" THEN "terminate"
                                                              ELSE "idle"]
<1>1. /\ edp \in EdpTypes /\ cc \in CcTypes /\ LinkTypes
      /\ got \in Seq(Sent) /\ BudgetTypes /\ ConnectionTypeOK
  BY ConnTypes DEF ConnInv
<1>2. edp.active = "close" /\ Closed(e, edp.cause) /\ cc' = CcReset
  BY DEF CloseProcess
<1>3. PICK a \in {"terminate", "idle"} : e = [edp EXCEPT !.active = a]
  OBVIOUS
<1>4. e \in EdpTypes /\ e.active = a
  BY <1>1, <1>3, EdpActive DEF Actives
<1> HIDE DEF e
<1>5. /\ edp' \in EdpTypes /\ edp'.active = a /\ packet' \in PacketTypes
      /\ receive' \in ReceiveTypes /\ ghost' \in GhostTypes /\ ConnectionCloses
  BY <1>1, <1>2, <1>4, ClosedDone
<1>6. /\ cc' \in CcTypes /\ cc'.state = "redirect"
      /\ cc'.report = "not_redirect"
  <2>1. "not_redirect" \in Reports /\ 0 \in 0 .. 2
    BY DEF Reports
  <2>2. QED
    BY <1>1, <1>2, <2>1 DEF CcReset, CcTypes
<1>7. ConnectionTypeOK'
  BY <1>1, <1>5, <1>6, ConnTypesNext DEF LinkTypes, BudgetTypes, ConnectionCloses
<1>8. ~Shaking' /\ ~Established'
  BY <1>5 DEF Shaking, Established
<1>9. HandshakeInv'
  BY <1>5, <1>8, HandshakeLeft DEF ConnInv, ConnectionCloses
<1>10. ParkInv'
  BY <1>5 DEF ParkInv, ConnectionCloses
<1>11. ReportInv'
  BY <1>5, <1>6, <1>8 DEF ReportInv, Tells
<1>12. BufferInv'
  BY <1>2, <1>5, <1>6
     DEF ConnInv, BufferInv, BufferHasOneOwner, ConnectionCloses, Down, At
<1>13. QED
  BY <1>7, <1>9, <1>10, <1>11, <1>12 DEF ConnInv

LEMMA RedirectCloseKept ==
    ASSUME ConnInv, RedirectClose
    PROVE  ConnInv'
<1>1. /\ edp \in EdpTypes /\ cc \in CcTypes /\ LinkTypes
      /\ got \in Seq(Sent) /\ BudgetTypes /\ ConnectionTypeOK
  BY ConnTypes DEF ConnInv
<1>2. /\ edp.active = "redirect" /\ cc.state = "close"
      /\ Closed(edp, "redirected") /\ cc' = [cc EXCEPT !.state = "connect"]
  BY DEF RedirectClose
<1>3. /\ edp' \in EdpTypes /\ edp'.active = "redirect"
      /\ packet' \in PacketTypes
      /\ receive' \in ReceiveTypes /\ ghost' \in GhostTypes /\ ConnectionCloses
  BY <1>1, <1>2, ClosedDone
<1>4. cc' \in CcTypes /\ cc'.state = "connect" /\ cc'.report = cc.report
  BY <1>1, <1>2 DEF CcTypes
<1>5. ConnectionTypeOK'
  BY <1>1, <1>3, <1>4, ConnTypesNext DEF LinkTypes, BudgetTypes, ConnectionCloses
<1>6. ~Shaking' /\ ~Established'
  BY <1>3 DEF Shaking, Established
<1>7. HandshakeInv'
  BY <1>3, <1>6, HandshakeLeft DEF ConnInv, ConnectionCloses
<1>8. ParkInv'
  BY <1>3 DEF ParkInv, ConnectionCloses
<1>9. ReportInv'
  BY <1>2, <1>3, <1>4, <1>6 DEF ConnInv, ReportInv, At, ConnectionCloses, Tells
<1>10. BufferInv'
  BY <1>2, <1>3, <1>4
     DEF ConnInv, BufferInv, BufferHasOneOwner, ConnectionCloses, Down, At
<1>11. QED
  BY <1>5, <1>7, <1>8, <1>9, <1>10 DEF ConnInv

LEMMA RedirectConnectKept ==
    ASSUME ConnInv, RedirectConnect
    PROVE  ConnInv'
<1>1. /\ edp \in EdpTypes /\ packet \in PacketTypes /\ receive \in ReceiveTypes
      /\ cc \in CcTypes /\ LinkTypes /\ got \in Seq(Sent) /\ BudgetTypes
      /\ ghost \in GhostTypes /\ ConnectionTypeOK
  BY ConnTypes DEF ConnInv
<1>2. /\ edp.active = "redirect" /\ cc.state = "connect" /\ cc.urls > 0
      /\ url' = "other" /\ UNCHANGED <<got_device_id, dead, slows, redirects>>
  BY DEF RedirectConnect
<1>3. LinkTypes'
  BY <1>1, <1>2 DEF LinkTypes
<1>4. cc.report = "not_redirect" /\ edp.at = "connect"
  BY <1>2 DEF ConnInv, ReportInv, ParkInv
<1>5. CASE /\ Opened(edp) /\ UNCHANGED faults
           /\ cc' = [cc EXCEPT !.state = "redirect", !.report = "success"]
  <2>1. /\ edp' \in EdpTypes /\ packet' \in PacketTypes
        /\ receive' \in ReceiveTypes /\ got' \in Seq(Sent)
        /\ ghost' \in GhostTypes /\ SocketOpens
    BY <1>1, <1>5, OpenedDone
  <2>2. cc' \in CcTypes /\ cc'.state = "redirect" /\ cc'.report = "success"
    BY <1>1, <1>5 DEF CcTypes, Reports
  <2>3. ConnectionTypeOK'
    BY <1>1, <1>2, <1>3, <1>5, <2>1, <2>2, ConnTypesNext DEF BudgetTypes
  <2>4. HandshakeInv'
    BY <2>1, <2>2, HandshakeBegins
  <2>5. ParkInv'
    BY <2>1 DEF ParkInv, SocketOpens
  <2>6. ReportInv'
    BY <1>2, <2>1, <2>2 DEF ReportInv, SocketOpens, Tells, At, Established
  <2>7. BufferInv'
    BY <1>1, <1>2, <2>1 DEF ConnInv, BufferInv, BufferHasOneOwner, SocketOpens,
                            Down, At
  <2>8. QED
    BY <2>3, <2>4, <2>5, <2>6, <2>7 DEF ConnInv
<1>6. CASE /\ (dead /\ UNCHANGED faults) \/ Fault
           /\ cc' = [cc EXCEPT !.urls = @ - 1]
           /\ UNCHANGED <<edp, packet, receive, got, ghost>>
  <2>1. faults' \in 0 .. MaxFaults
    BY <1>1, <1>6, FaultCounted DEF BudgetTypes
  <2>2. /\ cc.urls - 1 \in 0 .. 2
        /\ cc' = [cc EXCEPT !.urls = cc.urls - 1]
    BY <1>1, <1>2, <1>6 DEF CcTypes
  <2>3. cc' \in CcTypes /\ cc'.state = "connect" /\ cc'.report = cc.report
    BY <1>1, <1>2, <2>2 DEF CcTypes
  <2>4. ConnectionTypeOK'
    BY <1>1, <1>2, <1>3, <1>6, <2>1, <2>3, ConnTypesNext DEF BudgetTypes
  <2>5. HandshakeInv'
    BY <1>2, <1>6, <2>3, HandshakeStays DEF ConnInv
  <2>6. ParkInv'
    BY <1>4, <1>6 DEF ParkInv
  <2>7. ReportInv'
    BY <1>2, <1>4, <1>6, <2>3 DEF ReportInv, Tells, At, Shaking, Established
  <2>8. BufferInv'
    BY <1>2, <1>6, <2>3 DEF ConnInv, BufferInv, BufferHasOneOwner, Down, At
  <2>9. QED
    BY <2>4, <2>5, <2>6, <2>7, <2>8 DEF ConnInv
<1>7. QED
  BY <1>5, <1>6 DEF RedirectConnect

LEMMA RedirectFailsKept ==
    ASSUME ConnInv, RedirectFails
    PROVE  ConnInv'
<1>1. /\ edp \in EdpTypes /\ packet \in PacketTypes /\ receive \in ReceiveTypes
      /\ cc \in CcTypes /\ LinkTypes /\ got \in Seq(Sent) /\ BudgetTypes
      /\ ghost \in GhostTypes
  BY ConnTypes DEF ConnInv
<1>2. /\ edp.active = "redirect" /\ cc.state = "connect"
      /\ edp' = [edp EXCEPT !.active = "open"]
      /\ cc' = [cc EXCEPT !.state = "redirect", !.report = "error"]
      /\ url' = "origin"
      /\ UNCHANGED <<packet, receive, got_device_id, dead, got, faults, slows,
                     redirects, ghost>>
  BY BudgetsStay DEF RedirectFails
<1>3. edp.at = "connect"
  BY <1>2 DEF ConnInv, ParkInv
<1>4. edp' \in EdpTypes /\ edp'.active = "open" /\ edp'.at = "connect"
  BY <1>1, <1>2, <1>3, EdpActive DEF Actives
<1>5. cc' \in CcTypes /\ cc'.state = "redirect" /\ cc'.report = "error"
  BY <1>1, <1>2 DEF CcTypes, Reports
<1>6. ConnectionTypeOK'
  BY <1>1, <1>2, <1>4, <1>5, ConnTypesNext DEF LinkTypes, BudgetTypes
<1>7. ~Shaking' /\ ~Established'
  BY <1>4 DEF Shaking, Established
<1>8. HandshakeInv'
  BY <1>2, <1>7, HandshakeLeft DEF ConnInv
<1>9. ParkInv'
  BY <1>4 DEF ParkInv
<1>10. ReportInv'
  BY <1>2, <1>5, <1>7 DEF ReportInv, Tells
<1>11. BufferInv'
  BY <1>2, <1>4 DEF ConnInv, BufferInv, BufferHasOneOwner, Down, At
<1>12. QED
  BY <1>6, <1>8, <1>9, <1>10, <1>11 DEF ConnInv
-----------------------------------------------------------------------------
\* The handshake.  The j-th message is begun by the step whose turn it is, or
\* made again; else what is left of an earlier one is sent.
LEMMA SendsKept ==
    ASSUME ConnInv, Shaking, NEW id \in Identities, NEW r \in Reports,
           NEW e \in 0 .. 13, NEW j \in 1 .. 13, NEW p, NEW next \in States,
           NEW later \in States, Where(Script(id, r), e, id),
           p = Script(id, r)[j], Open(p, next, later), j <= e + 1,
           ghost.slow = TRUE \/ j = e + 1,
           cc' \in CcTypes, packet # "none" => cc' = cc,
           Tells(p, url), Tells(cc'.report, url),
           cc'.state # "redirect" => cc'.report = "not_redirect",
           j = 13 => cc'.state = "connection",
           packet = "none" /\ j # 13 =>
               /\ Stage(next, Reached(e, j), cc'.state, ghost.slow)
               /\ next = "complete" => Reached(e, j) # 13,
           packet = "none" =>
               /\ Stage(later, Reached(e, j), cc'.state, TRUE)
               /\ later = "complete" => j = 13,
           next = "device_id" \/ later = "device_id" =>
               Reached(e, j) # 5 \/ id = Identified(got_device_id)
    PROVE  ConnInv'
<1> DEFINE s == Script(id, r)
           f == Reached(e, j)
<1>1. /\ edp \in EdpTypes /\ packet \in PacketTypes /\ receive \in ReceiveTypes
      /\ cc \in CcTypes /\ LinkTypes /\ got \in Seq(Sent) /\ BudgetTypes
      /\ ghost \in GhostTypes /\ ConnectionTypeOK
  BY ConnTypes DEF ConnInv
<1>2. p \in Sent /\ p # "none" /\ (p = "complete" <=> j = 13)
  <2>1. j # 13 => 12 \in 1 .. 12 /\ j \in 1 .. 12
    OBVIOUS
  <2>2. QED
    BY <2>1, ScriptTypes, ScriptComplete, ScriptItems
<1>3. f \in 0 .. 13 /\ f \in 1 .. 13
  BY FirstReached
<1>4. /\ edp' \in EdpTypes /\ packet' \in PacketTypes
      /\ got' \in Seq(Sent) /\ BudgetTypes' /\ ghost' \in GhostTypes
      /\ ghost'.kept = ghost.kept /\ Sends(p, next, later)
      /\ UNCHANGED <<receive, got_device_id, url, dead>>
  BY <1>1, <1>2, OpenDone
<1>5. ConnectionTypeOK'
  BY <1>1, <1>4, ConnTypesNext DEF LinkTypes
<1>6. edp.active = "open" /\ edp.at # "connect"
  BY DEF Shaking
<1>7. /\ Progress(got, packet, ghost.slow, s, e)
      /\ Stage(edp.at, e, cc.state, ghost.slow)
      /\ edp.at = "device_id" /\ e = 5 => id = Identified(got_device_id)
      /\ edp.at = "complete" =>
             packet = IF e = 13 THEN "complete" ELSE "none"
  BY DEF Where
<1>8. InOrder(got, s, e) /\ (ghost.slow = TRUE \/ Begins(got, s))
  BY <1>7, ProgressOrder
<1>9. ghost.slow \in BOOLEAN
  BY <1>1, GhostFields
<1>10. ASSUME packet # "none"
       PROVE  /\ packet \in Sent
              /\ packet = "complete" =>
                     e = 13 /\ edp.at = "complete" /\ cc.state = "connection"
  <2>1. packet \in First(s, e)
    BY <1>7, <1>10 DEF Progress
  <2>2. PICK i \in 1 .. e : packet = s[i]
    BY <2>1 DEF First
  <2>3. i \in 1 .. 13 /\ (e # 13 => e \in 1 .. 12)
    BY <2>2
  <2>4. packet \in Sent
    BY <2>2, <2>3, ScriptTypes
  <2>5. packet = "complete" => e = 13
    BY <2>2, <2>3, ScriptComplete
  <2>6. e = 13 => edp.at = "complete" /\ cc.state = "connection"
    BY <1>7 DEF Stage
  <2>7. QED
    BY <2>4, <2>5, <2>6
<1> HIDE DEF s, f
<1>11. \A m : Tells(m, url)' = Tells(m, url')
  BY DEF Tells
<1>12. \A n \in 1 .. Len(got) : Tells(got[n], url)
  BY DEF ConnInv, ReportInv
<1>13. Tells(packet, url) /\ Tells("none", url)
  BY DEF ConnInv, ReportInv, Tells
<1>14. ASSUME NEW m \in Sent, got' = Append(got, m), Tells(m, url)
       PROVE  \A n \in 1 .. Len(got') : Tells(got'[n], url)
  <2>1. /\ Len(got) \in Nat /\ Len(got') = Len(got) + 1
        /\ \A i \in 1 .. Len(got) : got'[i] = got[i]
        /\ got'[Len(got) + 1] = m
    BY <1>1, <1>14, Appended
  <2>2. \A n \in 1 .. Len(got') : n \in 1 .. Len(got) \/ n = Len(got) + 1
    BY <2>1
  <2>3. QED
    BY <1>12, <1>14, <2>1, <2>2
<1>15. /\ \A n \in 1 .. Len(got') : Tells(got'[n], url)
       /\ edp'.active # "close" => Tells(packet', url)
  <2>1. \/ \E m \in Sent : got' = Append(got, m) /\ Tells(m, url)
        \/ got' = got
    BY <1>2, <1>4, <1>10, <1>13 DEF Sends
  <2>2. edp'.active # "close" => packet' \in {packet, "none", p}
    BY <1>4 DEF Sends
  <2>3. QED
    BY <1>12, <1>13, <1>14, <2>1, <2>2
<1>16. CASE packet = "none" /\ packet' = "none" /\ got' = Append(got, p)
            /\ ghost'.slow = ghost.slow /\ edp'.at = next
            /\ edp'.active = IF p = "complete" THEN "receive" ELSE edp.active
  <2>1. Progress(got', "none", ghost.slow, s, f)
    BY <1>1, <1>2, <1>7, <1>9, <1>16, ProgressWhole DEF s, f
  <2>2. InOrder(got', s, f) /\ (ghost.slow = TRUE \/ Begins(got', s))
    BY <2>1, ProgressOrder
  <2>3. j # 13 => Where(s, f, id)'
    <3>1. SUFFICES ASSUME j # 13
                   PROVE  Where(s, f, id)'
      OBVIOUS
    <3>2. Progress(got, packet, ghost.slow, s, f)'
      BY <1>16, <2>1
    <3>3. Stage(edp.at, f, cc.state, ghost.slow)'
      BY <1>16, <3>1 DEF f
    <3>4. (edp.at = "device_id" /\ f = 5 => id = Identified(got_device_id))'
      BY <1>4, <1>16 DEF f
    <3>5. (edp.at = "complete" =>
               packet = IF f = 13 THEN "complete" ELSE "none")'
      BY <1>16, <3>1 DEF f
    <3>6. QED
      BY <3>2, <3>3, <3>4, <3>5 DEF Where
  <2>4. Shaking' => j # 13
    BY <1>2, <1>16 DEF Shaking
  <2>5. Established' => j = 13 /\ Last(got') = "complete"
    BY <1>1, <1>2, <1>6, <1>16, Appended DEF Established, Last
  <2>6. HandshakeInv'
    BY <1>3, <1>16, <2>2, <2>3, <2>4, <2>5, StateNames DEF HandshakeInv, s
  <2>7. edp'.active \in {"open", "receive"}
    BY <1>6, <1>16
  <2>8. ParkInv'
    BY <2>7 DEF ParkInv
  <2>9. At("connect")' => FALSE
    BY <1>2, <1>16, <2>7 DEF At, Stage
  <2>10. ReportInv'
    BY <1>4, <1>15, <2>5, <2>7, <2>9 DEF ReportInv
  <2>11. BufferInv'
    BY <1>4, <1>6, <2>7, <2>9 DEF ConnInv, BufferInv, BufferHasOneOwner, Down
  <2>12. QED
    BY <1>5, <2>6, <2>8, <2>10, <2>11 DEF ConnInv
<1>17. CASE packet = "none" /\ packet' = p /\ got' = got /\ ghost'.slow = TRUE
            /\ edp'.at = later /\ edp'.active = edp.active
  <2>1. Progress(got', p, TRUE, s, f)
    BY <1>1, <1>2, <1>7, <1>9, <1>17, ProgressPartly DEF s, f
  <2>2. InOrder(got', s, f)
    BY <2>1, ProgressOrder
  <2>3. Where(s, f, id)'
    <3>1. Progress(got, packet, ghost.slow, s, f)'
      BY <1>17, <2>1
    <3>2. Stage(edp.at, f, cc.state, ghost.slow)'
      BY <1>17 DEF f
    <3>3. (edp.at = "device_id" /\ f = 5 => id = Identified(got_device_id))'
      BY <1>4, <1>17 DEF f
    <3>4. (edp.at = "complete" =>
               packet = IF f = 13 THEN "complete" ELSE "none")'
      BY <1>2, <1>17 DEF f, Reached
    <3>5. QED
      BY <3>1, <3>2, <3>3, <3>4 DEF Where
  <2>4. ~Established'
    BY <1>6, <1>17 DEF Established
  <2>5. HandshakeInv'
    BY <1>3, <1>17, <2>2, <2>3, <2>4 DEF HandshakeInv, s
  <2>6. ParkInv'
    BY <1>6, <1>17 DEF ParkInv
  <2>7. At("connect")' => FALSE
    BY <1>17 DEF At, Stage
  <2>8. ReportInv'
    BY <1>4, <1>6, <1>15, <1>17, <2>4, <2>7 DEF ReportInv
  <2>9. BufferInv'
    BY <1>4, <1>6, <1>17, <2>7 DEF ConnInv, BufferInv, BufferHasOneOwner, Down
  <2>10. QED
    BY <1>5, <2>5, <2>6, <2>8, <2>9 DEF ConnInv
<1>18. CASE /\ packet # "none" /\ packet' = "none"
            /\ ghost'.slow = ghost.slow
            /\ got' = IF packet \in Sent THEN Append(got, packet) ELSE got
            /\ edp'.at = edp.at
            /\ edp'.active = IF packet = "complete" THEN "receive"
                                                    ELSE edp.active
  <2>1. got' = Append(got, packet) /\ packet \in Sent /\ cc' = cc
    BY <1>10, <1>18
  <2>2. Progress(got', "none", ghost.slow, s, e)
    BY <1>1, <1>7, <1>18, <2>1, ProgressFlushed
  <2>3. InOrder(got', s, e) /\ (ghost.slow = TRUE \/ Begins(got', s))
    BY <2>2, ProgressOrder
  <2>4. Shaking' => Where(s, e, id)'
    <3>1. SUFFICES ASSUME Shaking'
                   PROVE  Where(s, e, id)'
      OBVIOUS
    <3>2. packet # "complete"
      BY <1>18, <3>1 DEF Shaking
    <3>3. edp.at # "complete"
      BY <1>7, <1>18, <3>2
    <3>4. Progress(got, packet, ghost.slow, s, e)'
      BY <1>18, <2>2
    <3>5. Stage(edp.at, e, cc.state, ghost.slow)'
      BY <1>7, <1>18, <2>1
    <3>6. (edp.at = "device_id" /\ e = 5 => id = Identified(got_device_id))'
      BY <1>4, <1>7, <1>18
    <3>7. (edp.at # "complete")'
      BY <1>18, <3>3
    <3>8. QED
      BY <3>4, <3>5, <3>6, <3>7 DEF Where
  <2>5. Established' => packet = "complete" /\ Last(got') = "complete"
    BY <1>1, <1>6, <1>18, <2>1, Appended DEF Established, Last
  <2>6. HandshakeInv'
    BY <1>18, <2>3, <2>4, <2>5, StateNames DEF HandshakeInv, s
  <2>7. edp'.active \in {"open", "receive"}
    BY <1>6, <1>18
  <2>8. ParkInv'
    BY <2>7 DEF ParkInv
  <2>9. At("connect")' => FALSE
    BY <1>6, <1>18 DEF At
  <2>10. Established' => cc'.state = "connection"
    BY <1>10, <1>18, <2>1, <2>5
  <2>11. ReportInv'
    BY <1>4, <1>15, <2>7, <2>9, <2>10 DEF ReportInv
  <2>12. BufferInv'
    BY <1>4, <1>6, <2>7, <2>9 DEF ConnInv, BufferInv, BufferHasOneOwner, Down
  <2>13. QED
    BY <1>5, <2>6, <2>8, <2>11, <2>12 DEF ConnInv
<1>19. CASE /\ packet # "none" /\ packet' = packet /\ got' = got
            /\ ghost'.slow = TRUE /\ edp' = edp
  <2>1. cc' = cc
    BY <1>19
  <2>2. Progress(got, packet, TRUE, s, e)
    BY <1>7, ProgressSlow
  <2>3. ghost.slow = TRUE
    BY <1>7, <1>19 DEF Progress
  <2>4. HandshakeInv'
    BY <1>4, <1>19, <2>1, <2>3, HandshakeStays DEF ConnInv
  <2>5. ParkInv' /\ ReportInv'
    BY <1>4, <1>19, <2>1 DEF ConnInv, ParkInv, ReportInv, At, Shaking,
                             Established
  <2>6. BufferInv'
    BY <1>4, <1>19, <2>1 DEF ConnInv, BufferInv, BufferHasOneOwner, Down, At
  <2>7. QED
    BY <1>5, <2>4, <2>5, <2>6 DEF ConnInv
<1>20. CASE /\ edp'.active = "close" /\ got' = got /\ ghost'.slow = ghost.slow
  <2>1. ~Shaking' /\ ~Established'
    BY <1>20 DEF Shaking, Established
  <2>2. HandshakeInv'
    BY <1>20, <2>1, HandshakeLeft DEF ConnInv
  <2>3. ParkInv'
    BY <1>20 DEF ParkInv
  <2>4. ReportInv'
    BY <1>4, <1>20, <2>1 DEF ReportInv, At
  <2>5. BufferInv'
    BY <1>4, <1>20 DEF ConnInv, BufferInv, BufferHasOneOwner, Down, At
  <2>6. QED
    BY <1>5, <2>2, <2>3, <2>4, <2>5 DEF ConnInv
<1>21. QED
  BY <1>4, <1>16, <1>17, <1>18, <1>19, <1>20, Zenon DEF Sends
-----------------------------------------------------------------------------
LEMMA Located ==
    ASSUME ConnInv, NEW p, At(p), p # "connect"
    PROVE  /\ Shaking /\ cc \in CcTypes /\ got_device_id \in BOOLEAN
           /\ Tells(cc.report, url)
           /\ cc.state # "redirect" => cc.report = "not_redirect"
           /\ \E id \in Identities, r \in Reports, e \in 0 .. 13 :
                 Where(Script(id, r), e, id)
<1>1. Shaking
  BY DEF At, Shaking
<1>2. cc \in CcTypes /\ got_device_id \in BOOLEAN
  BY ConnTypes DEF ConnInv, LinkTypes
<1>3. \E id \in Identities, r \in Reports, e \in 0 .. 13 :
          Where(Script(id, r), e, id)
  BY <1>1 DEF ConnInv, HandshakeInv
<1>4. QED
  BY <1>1, <1>2, <1>3 DEF ConnInv, ReportInv

\* A script that has the same beginning will do.
LEMMA WhereSame ==
    ASSUME got \in Seq(Sent), NEW id \in Identities, NEW r \in Reports,
           NEW jd \in Identities, NEW q \in Reports, NEW e \in 0 .. 13,
           Where(Script(id, r), e, id),
           \/ e = 4
           \/ jd = id /\ e <= 10
    PROVE  Where(Script(jd, q), e, jd)
<1> DEFINE s == Script(id, r)
           t == Script(jd, q)
<1>1. \A i \in 1 .. 10 : id = jd => s[i] = t[i]
  BY ScriptsShare
<1>2. \A i \in 1 .. 4 : s[i] = t[i]
  BY ScriptsShare
<1>3. \A i \in 1 .. e : s[i] = t[i]
  BY <1>1, <1>2
<1>4. Progress(got, packet, ghost.slow, s, e)
  BY DEF Where
<1> HIDE DEF s, t
<1>5. Progress(got, packet, ghost.slow, t, e)
  BY <1>3, <1>4, ProgressSame
<1>6. /\ Stage(edp.at, e, cc.state, ghost.slow)
      /\ edp.at = "device_id" /\ e = 5 => id = Identified(got_device_id)
      /\ edp.at = "complete" =>
             packet = IF e = 13 THEN "complete" ELSE "none"
  BY DEF Where
<1>7. QED
  BY <1>5, <1>6 DEF Where, t

\* A message that every script has, after which the next one is made.
LEMMA SendKept ==
    ASSUME ConnInv, NEW p \in States, NEW next \in States, NEW j \in 1 .. 12,
           Send(p, next), j # 5, {p, next} \cap {"connect", "complete"} = {},
           Tells(p, url),
           \A id \in Identities, r \in Reports : Script(id, r)[j] = p,
           \A e \in 0 .. 13 :
               Stage(p, e, cc.state, ghost.slow) =>
                   /\ e = j - 1 \/ (ghost.slow = TRUE /\ e = j)
                   /\ Stage(p, j, cc.state, TRUE)
                   /\ Stage(next, j, cc.state, ghost.slow)
    PROVE  ConnInv'
<1>1. At(p) /\ Open(p, next, p) /\ cc' = cc
  BY DEF Send
<1>2. /\ Shaking /\ cc \in CcTypes /\ Tells(cc.report, url)
      /\ cc.state # "redirect" => cc.report = "not_redirect"
  BY <1>1, Located
<1>3. PICK id \in Identities, r \in Reports, e \in 0 .. 13 :
          Where(Script(id, r), e, id)
  BY <1>1, Located
<1>4. Stage(p, e, cc.state, ghost.slow)
  BY <1>1, <1>3 DEF Where, At
<1>5. /\ e = j - 1 \/ (ghost.slow = TRUE /\ e = j)
      /\ Stage(p, j, cc.state, TRUE) /\ Stage(next, j, cc.state, ghost.slow)
  BY <1>4
<1>6. Reached(e, j) = j /\ j \in 1 .. 13 /\ j <= e + 1 /\ j # 13
  BY <1>5 DEF Reached
<1>7. ghost.slow = TRUE \/ j = e + 1
  BY <1>5
<1>8. cc' \in CcTypes /\ (packet # "none" => cc' = cc) /\ Tells(cc'.report, url)
  BY <1>1, <1>2
<1>9. cc'.state # "redirect" => cc'.report = "not_redirect"
  BY <1>1, <1>2
<1>10. Stage(next, Reached(e, j), cc'.state, ghost.slow)
  BY <1>1, <1>5, <1>6
<1>11. Stage(p, Reached(e, j), cc'.state, TRUE)
  BY <1>1, <1>5, <1>6
<1>12. next # "complete" /\ p # "complete" /\ Reached(e, j) # 5
  BY <1>6
<1>13. p = Script(id, r)[j]
  OBVIOUS
<1>14. QED
  BY <1>1, <1>2, <1>3, <1>6, <1>7, <1>8, <1>9, <1>10, <1>11, <1>12, <1>13,
     SendsKept, Zenon

LEMMA SendVersionKept ==
    ASSUME ConnInv, SendVersion
    PROVE  ConnInv'
<1>1. "version" \in States /\ "version?" \in States
  BY StateNames, SentMessages
<1>2. \A id \in Identities, r \in Reports : Script(id, r)[1] = "version"
  BY ScriptItems
<1>3. \A e \in 0 .. 13 :
          Stage("version", e, cc.state, ghost.slow) =>
              /\ e = 1 - 1 \/ (ghost.slow = TRUE /\ e = 1)
              /\ Stage("version", 1, cc.state, TRUE)
              /\ Stage("version?", 1, cc.state, ghost.slow)
  BY DEF Stage
<1>4. Tells("version", url) /\ Send("version", "version?")
  BY DEF Tells, SendVersion
<1>5. /\ 1 \in 1 .. 12 /\ 1 # 5
      /\ {"version", "version?"} \cap {"connect", "complete"} = {}
  OBVIOUS
<1>6. QED
  BY <1>1, <1>2, <1>3, <1>4, <1>5, SendKept, Zenon

LEMMA SendKeepaliveKept ==
    ASSUME ConnInv, SendKeepalive
    PROVE  ConnInv'
<1>1. "keepalive" \in States /\ "protocol" \in States
  BY StateNames, SentMessages
<1>2. \A id \in Identities, r \in Reports : Script(id, r)[2] = "keepalive"
  BY ScriptItems
<1>3. \A e \in 0 .. 13 :
          Stage("keepalive", e, cc.state, ghost.slow) =>
              /\ e = 2 - 1 \/ (ghost.slow = TRUE /\ e = 2)
              /\ Stage("keepalive", 2, cc.state, TRUE)
              /\ Stage("protocol", 2, cc.state, ghost.slow)
  BY DEF Stage
<1>4. Tells("keepalive", url) /\ Send("keepalive", "protocol")
  BY DEF Tells, SendKeepalive
<1>5. /\ 2 \in 1 .. 12 /\ 2 # 5
      /\ {"keepalive", "protocol"} \cap {"connect", "complete"} = {}
  OBVIOUS
<1>6. QED
  BY <1>1, <1>2, <1>3, <1>4, <1>5, SendKept, Zenon

LEMMA SendProtocolVersionKept ==
    ASSUME ConnInv, SendProtocolVersion
    PROVE  ConnInv'
<1>1. "protocol" \in States /\ "protocol?" \in States
  BY StateNames, SentMessages
<1>2. \A id \in Identities, r \in Reports : Script(id, r)[3] = "protocol"
  BY ScriptItems
<1>3. \A e \in 0 .. 13 :
          Stage("protocol", e, cc.state, ghost.slow) =>
              /\ e = 3 - 1 \/ (ghost.slow = TRUE /\ e = 3)
              /\ Stage("protocol", 3, cc.state, TRUE)
              /\ Stage("protocol?", 3, cc.state, ghost.slow)
  BY DEF Stage
<1>4. Tells("protocol", url) /\ Send("protocol", "protocol?")
  BY DEF Tells, SendProtocolVersion
<1>5. /\ 3 \in 1 .. 12 /\ 3 # 5
      /\ {"protocol", "protocol?"} \cap {"connect", "complete"} = {}
  OBVIOUS
<1>6. QED
  BY <1>1, <1>2, <1>3, <1>4, <1>5, SendKept, Zenon

LEMMA SendIdentityKept ==
    ASSUME ConnInv, SendIdentity
    PROVE  ConnInv'
<1>1. "identity" \in States /\ "device_id" \in States
  BY StateNames, SentMessages
<1>2. \A id \in Identities, r \in Reports : Script(id, r)[4] = "identity"
  BY ScriptItems
<1>3. \A e \in 0 .. 13 :
          Stage("identity", e, cc.state, ghost.slow) =>
              /\ e = 4 - 1 \/ (ghost.slow = TRUE /\ e = 4)
              /\ Stage("identity", 4, cc.state, TRUE)
              /\ Stage("device_id", 4, cc.state, ghost.slow)
  BY DEF Stage
<1>4. Tells("identity", url) /\ Send("identity", "device_id")
  BY DEF Tells, SendIdentity
<1>5. /\ 4 \in 1 .. 12 /\ 4 # 5
      /\ {"identity", "device_id"} \cap {"connect", "complete"} = {}
  OBVIOUS
<1>6. QED
  BY <1>1, <1>2, <1>3, <1>4, <1>5, SendKept, Zenon

LEMMA SendCloudUrlKept ==
    ASSUME ConnInv, SendCloudUrl
    PROVE  ConnInv'
<1>1. "cloud_url" \in States /\ "vendor_id" \in States
  BY StateNames, SentMessages
<1>2. \A id \in Identities, r \in Reports : Script(id, r)[6] = "cloud_url"
  BY ScriptItems
<1>3. \A e \in 0 .. 13 :
          Stage("cloud_url", e, cc.state, ghost.slow) =>
              /\ e = 6 - 1 \/ (ghost.slow = TRUE /\ e = 6)
              /\ Stage("cloud_url", 6, cc.state, TRUE)
              /\ Stage("vendor_id", 6, cc.state, ghost.slow)
  BY DEF Stage
<1>4. Tells("cloud_url", url) /\ Send("cloud_url", "vendor_id")
  BY DEF Tells, SendCloudUrl
<1>5. /\ 6 \in 1 .. 12 /\ 6 # 5
      /\ {"cloud_url", "vendor_id"} \cap {"connect", "complete"} = {}
  OBVIOUS
<1>6. QED
  BY <1>1, <1>2, <1>3, <1>4, <1>5, SendKept, Zenon

LEMMA SendVendorIdKept ==
    ASSUME ConnInv, SendVendorId
    PROVE  ConnInv'
<1>1. "vendor_id" \in States /\ "device_type" \in States
  BY StateNames, SentMessages
<1>2. \A id \in Identities, r \in Reports : Script(id, r)[7] = "vendor_id"
  BY ScriptItems
<1>3. \A e \in 0 .. 13 :
          Stage("vendor_id", e, cc.state, ghost.slow) =>
              /\ e = 7 - 1 \/ (ghost.slow = TRUE /\ e = 7)
              /\ Stage("vendor_id", 7, cc.state, TRUE)
              /\ Stage("device_type", 7, cc.state, ghost.slow)
  BY DEF Stage
<1>4. Tells("vendor_id", url) /\ Send("vendor_id", "device_type")
  BY DEF Tells, SendVendorId
<1>5. /\ 7 \in 1 .. 12 /\ 7 # 5
      /\ {"vendor_id", "device_type"} \cap {"connect", "complete"} = {}
  OBVIOUS
<1>6. QED
  BY <1>1, <1>2, <1>3, <1>4, <1>5, SendKept, Zenon

LEMMA SendDeviceTypeKept ==
    ASSUME ConnInv, SendDeviceType
    PROVE  ConnInv'
<1>1. "device_type" \in States /\ "capabilities" \in States
  BY StateNames, SentMessages
<1>2. \A id \in Identities, r \in Reports : Script(id, r)[8] = "device_type"
  BY ScriptItems
<1>3. \A e \in 0 .. 13 :
          Stage("device_type", e, cc.state, ghost.slow) =>
              /\ e = 8 - 1 \/ (ghost.slow = TRUE /\ e = 8)
              /\ Stage("device_type", 8, cc.state, TRUE)
              /\ Stage("capabilities", 8, cc.state, ghost.slow)
  BY DEF Stage
<1>4. Tells("device_type", url) /\ Send("device_type", "capabilities")
  BY DEF Tells, SendDeviceType
<1>5. /\ 8 \in 1 .. 12 /\ 8 # 5
      /\ {"device_type", "capabilities"} \cap {"connect", "complete"} = {}
  OBVIOUS
<1>6. QED
  BY <1>1, <1>2, <1>3, <1>4, <1>5, SendKept, Zenon
\* The gateway says who it is, or asks to be told.
LEMMA SendIdentificationKept ==
    ASSUME ConnInv, SendDeviceId \/ SendProvisioning
    PROVE  ConnInv'
<1> DEFINE jd == Identified(got_device_id)
<1>1. PICK next \in {"cloud_url", "device_id?"} :
          /\ At("device_id") /\ Open(jd, next, "device_id") /\ cc' = cc
          /\ jd \in Identities
  <2>1. got_device_id = TRUE \/ got_device_id = FALSE
    BY ConnTypes DEF ConnInv, LinkTypes
  <2>2. CASE SendDeviceId
    BY <2>1, <2>2 DEF SendDeviceId, Send, Identified, Identities
  <2>3. CASE SendProvisioning
    BY <2>1, <2>3 DEF SendProvisioning, Identified, Identities
  <2>4. QED
    BY <2>2, <2>3
<1>2. /\ Shaking /\ cc \in CcTypes /\ Tells(cc.report, url)
      /\ cc.state # "redirect" => cc.report = "not_redirect"
  BY <1>1, Located
<1>3. PICK id \in Identities, r \in Reports, e \in 0 .. 13 :
          Where(Script(id, r), e, id)
  BY <1>1, Located
<1>4. Stage("device_id", e, cc.state, ghost.slow)
  BY <1>1, <1>3 DEF Where, At
<1>5. /\ e = 4 \/ (ghost.slow = TRUE /\ e = 5)
      /\ Stage("device_id", 5, cc.state, TRUE)
      /\ cc.state = "redirect"
  BY <1>4 DEF Stage
<1>6. e = 5 => id = jd
  BY <1>1, <1>3 DEF Where, At
<1>7. Where(Script(jd, r), e, jd)
  <2>1. got \in Seq(Sent)
    BY ConnTypes DEF ConnInv
  <2>2. CASE e = 4
    BY <1>1, <1>3, <2>1, <2>2, WhereSame
  <2>3. CASE e = 5
    BY <1>3, <1>6, <2>3
  <2>4. QED
    BY <1>5, <2>2, <2>3
<1>8. /\ Script(jd, r)[5] = jd
      /\ Tells(jd, url)
  BY <1>1, ScriptItems DEF Tells, Identities
<1>9. Reached(e, 5) = 5 /\ 5 \in 1 .. 13 /\ 5 <= e + 1 /\ 5 # 13
  BY <1>5 DEF Reached
<1>10. ghost.slow = TRUE \/ 5 = e + 1
  BY <1>5
<1>11. "device_id" \in States /\ next \in States
  BY StateNames, SentMessages
<1>12. Stage(next, Reached(e, 5), cc'.state, ghost.slow)
  BY <1>1, <1>5, <1>9 DEF Stage
<1>13. Stage("device_id", Reached(e, 5), cc'.state, TRUE)
  BY <1>1, <1>5, <1>9
<1>14. "device_id" # "complete" /\ next # "complete"
  OBVIOUS
<1>15. /\ cc' \in CcTypes /\ (packet # "none" => cc' = cc)
       /\ Tells(cc'.report, url)
       /\ cc'.state # "redirect" => cc'.report = "not_redirect"
  BY <1>1, <1>2
<1> HIDE DEF jd
<1>16. jd = Identified(got_device_id)
  BY DEF jd
<1>17. QED
  BY <1>1, <1>2, <1>3, <1>7, <1>8, <1>9, <1>10, <1>11, <1>12, <1>13, <1>14,
     <1>15, <1>16, SendsKept, Zenon

\* The facilities have their turns, of which there may be another round.
LEMMA DiscoverKept ==
    ASSUME ConnInv,
           NEW p, NEW next, NEW j \in {9, 10},
           \/ j = 9 /\ p = "capabilities" /\ next = "targets"
           \/ j = 10 /\ p = "targets" /\ next = "report",
           Discover(p, next, next), cc' = cc
    PROVE  ConnInv'
<1>1. At(p) /\ Open(p, next, next)
  BY DEF Discover
<1>2. p # "connect" /\ p # "complete" /\ next # "complete" /\ next # "device_id"
  OBVIOUS
<1>3. /\ Shaking /\ cc \in CcTypes /\ Tells(cc.report, url)
      /\ cc.state # "redirect" => cc.report = "not_redirect"
  BY <1>1, <1>2, Located
<1>4. PICK id \in Identities, r \in Reports, e \in 0 .. 13 :
          Where(Script(id, r), e, id)
  BY <1>1, <1>2, Located
<1>5. Stage(p, e, cc.state, ghost.slow)
  BY <1>1, <1>4 DEF Where, At
<1>6. \/ e = j - 1 /\ cc.state = "redirect"
      \/ e = 12 /\ ghost.slow = TRUE /\ cc.state = "connection"
  BY <1>5 DEF Stage
<1>7. j \in 1 .. 13 /\ j <= e + 1 /\ j # 13 /\ (ghost.slow = TRUE \/ j = e + 1)
  BY <1>6
<1>8. /\ Reached(e, j) = IF e = 12 THEN 12 ELSE j
      /\ Reached(e, j) # 5
  BY <1>6 DEF Reached
<1>9. Stage(next, Reached(e, j), cc'.state, ghost.slow)
  BY <1>6, <1>8 DEF Stage
<1>10. Stage(next, Reached(e, j), cc'.state, TRUE)
  BY <1>6, <1>8 DEF Stage
<1>11. p = Script(id, r)[j] /\ Tells(p, url)
  BY ScriptItems DEF Tells
<1>12. next \in States
  BY StateNames, SentMessages
<1>13. /\ cc' \in CcTypes /\ (packet # "none" => cc' = cc)
       /\ Tells(cc'.report, url)
       /\ cc'.state # "redirect" => cc'.report = "not_redirect"
  BY <1>3
<1>14. QED
  BY <1>1, <1>2, <1>3, <1>4, <1>7, <1>8, <1>9, <1>10, <1>11, <1>12, <1>13,
     SendsKept, Zenon

LEMMA SendRedirectReportKept ==
    ASSUME ConnInv, SendRedirectReport
    PROVE  ConnInv'
<1>1. /\ At("report") /\ cc.state = "redirect"
      /\ Open(cc.report, "report", "report")
      /\ cc' = IF packet # "none" THEN cc
               ELSE [cc EXCEPT !.state = "connection",
                               !.report = "not_redirect"]
  BY DEF SendRedirectReport
<1>2. Shaking /\ cc \in CcTypes /\ Tells(cc.report, url)
  BY <1>1, Located
<1>3. PICK id \in Identities, r \in Reports, e \in 0 .. 13 :
          Where(Script(id, r), e, id)
  BY <1>1, Located
<1>4. Stage("report", e, cc.state, ghost.slow)
  BY <1>1, <1>3 DEF Where, At
<1>5. e = 10
  BY <1>1, <1>4 DEF Stage
<1>6. cc.report \in Reports /\ got \in Seq(Sent)
  BY <1>2, CcFields, ConnTypes DEF ConnInv
<1>7. Where(Script(id, cc.report), e, id)
  BY <1>3, <1>5, <1>6, WhereSame
<1>8. Script(id, cc.report)[11] = cc.report
  BY ScriptItems
<1>9. /\ Reached(e, 11) = 11 /\ 11 \in 1 .. 13 /\ 11 <= e + 1 /\ 11 = e + 1
      /\ 11 # 13 /\ 11 # 5
  BY <1>5 DEF Reached
<1>10. /\ cc' \in CcTypes /\ (packet # "none" => cc' = cc)
       /\ packet = "none" =>
              cc'.state = "connection" /\ cc'.report = "not_redirect"
  <2>1. CASE packet # "none"
    BY <1>1, <1>2, <2>1
  <2>2. CASE packet = "none"
    <3>1. "not_redirect" \in Reports
      BY DEF Reports
    <3>2. cc' = [cc EXCEPT !.state = "connection", !.report = "not_redirect"]
      BY <1>1, <2>2
    <3>3. QED
      BY <1>2, <2>2, <3>1, <3>2 DEF CcTypes
  <2>3. QED
    BY <2>1, <2>2
<1>11. /\ Tells(cc'.report, url)
       /\ cc'.state # "redirect" => cc'.report = "not_redirect"
  BY <1>1, <1>2, <1>10 DEF Tells
<1>12. packet = "none" =>
           /\ Stage("report", Reached(e, 11), cc'.state, ghost.slow)
           /\ Stage("report", Reached(e, 11), cc'.state, TRUE)
  BY <1>9, <1>10 DEF Stage
<1>13. "report" # "complete" /\ "report" # "device_id" /\ "report" \in States
  BY StateNames
<1>14. QED
  BY <1>1, <1>2, <1>6, <1>7, <1>8, <1>9, <1>10, <1>11, <1>12, <1>13,
     SendsKept, Zenon

LEMMA SendConnectionReportKept ==
    ASSUME ConnInv, SendConnectionReport
    PROVE  ConnInv'
<1>1. /\ At("report") /\ cc.state = "connection" /\ cc' = cc
      /\ Open("connection_report", "complete", "capabilities")
  BY DEF SendConnectionReport
<1>2. /\ Shaking /\ cc \in CcTypes /\ Tells(cc.report, url)
      /\ cc.state # "redirect" => cc.report = "not_redirect"
  BY <1>1, Located
<1>3. PICK id \in Identities, r \in Reports, e \in 0 .. 13 :
          Where(Script(id, r), e, id)
  BY <1>1, Located
<1>4. Stage("report", e, cc.state, ghost.slow)
  BY <1>1, <1>3 DEF Where, At
<1>5. e = 11 \/ (ghost.slow = TRUE /\ e = 12)
  BY <1>1, <1>4 DEF Stage
<1>6. "connection_report" = Script(id, r)[12] /\ Tells("connection_report", url)
  BY ScriptItems DEF Tells
<1>7. Reached(e, 12) = 12 /\ 12 \in 1 .. 13 /\ 12 <= e + 1 /\ 12 # 13 /\ 12 # 5
  BY <1>5 DEF Reached
<1>8. ghost.slow = TRUE \/ 12 = e + 1
  BY <1>5
<1>9. /\ Stage("complete", Reached(e, 12), cc'.state, ghost.slow)
      /\ Reached(e, 12) # 13 /\ Reached(e, 12) # 5
      /\ Stage("capabilities", Reached(e, 12), cc'.state, TRUE)
  BY <1>1, <1>7 DEF Stage
<1>10. "capabilities" # "complete"
  OBVIOUS
<1>11. "complete" \in States /\ "capabilities" \in States
  BY StateNames, SentMessages
<1>12. /\ cc' \in CcTypes /\ (packet # "none" => cc' = cc)
       /\ Tells(cc'.report, url)
       /\ cc'.state # "redirect" => cc'.report = "not_redirect"
  BY <1>1, <1>2
<1>13. QED
  BY <1>1, <1>2, <1>3, <1>6, <1>7, <1>8, <1>9, <1>10, <1>11, <1>12,
     SendsKept, Zenon

LEMMA SendCompleteKept ==
    ASSUME ConnInv, SendComplete
    PROVE  ConnInv'
<1>1. At("complete") /\ Open("complete", "complete", "complete") /\ cc' = cc
  BY DEF SendComplete, Send
<1>2. /\ Shaking /\ cc \in CcTypes /\ Tells(cc.report, url)
      /\ cc.state # "redirect" => cc.report = "not_redirect"
  BY <1>1, Located
<1>3. PICK id \in Identities, r \in Reports, e \in 0 .. 13 :
          Where(Script(id, r), e, id)
  BY <1>1, Located
<1>4. Stage("complete", e, cc.state, ghost.slow)
  BY <1>1, <1>3 DEF Where, At
<1>5. /\ e = 12 \/ (ghost.slow = TRUE /\ e = 13)
      /\ cc.state = "connection"
  BY <1>4 DEF Stage
<1>6. "complete" = Script(id, r)[13] /\ Tells("complete", url)
  BY ScriptItems DEF Tells
<1>7. Reached(e, 13) = 13 /\ 13 \in 1 .. 13 /\ 13 <= e + 1 /\ 13 # 5
  BY <1>5 DEF Reached
<1>8. ghost.slow = TRUE \/ 13 = e + 1
  BY <1>5
<1>9. /\ Stage("complete", Reached(e, 13), cc'.state, TRUE)
      /\ Reached(e, 13) # 5 /\ cc'.state = "connection"
  BY <1>1, <1>5, <1>7 DEF Stage
<1>10. "complete" \in States
  BY StateNames, SentMessages
<1>11. /\ cc' \in CcTypes /\ (packet # "none" => cc' = cc)
       /\ Tells(cc'.report, url)
       /\ cc'.state # "redirect" => cc'.report = "not_redirect"
  BY <1>1, <1>2
<1>12. 13 = 13
  OBVIOUS
<1>13. QED
  BY <1>1, <1>2, <1>3, <1>6, <1>7, <1>8, <1>9, <1>10, <1>11, <1>12,
     SendsKept, Zenon

LEMMA SendHandshakeKept ==
    ASSUME ConnInv, SendHandshake
    PROVE  ConnInv'
<1>1. CASE SendVersion
  BY <1>1, SendVersionKept
<1>2. CASE SendKeepalive
  BY <1>2, SendKeepaliveKept
<1>3. CASE SendProtocolVersion
  BY <1>3, SendProtocolVersionKept
<1>4. CASE SendIdentity
  BY <1>4, SendIdentityKept
<1>5. CASE SendDeviceId \/ SendProvisioning
  BY <1>5, SendIdentificationKept
<1>6. CASE SendCloudUrl
  BY <1>6, SendCloudUrlKept
<1>7. CASE SendVendorId
  BY <1>7, SendVendorIdKept
<1>8. CASE SendDeviceType
  BY <1>8, SendDeviceTypeKept
<1>9. CASE SendCapabilities
  <2>1. Discover("capabilities", "targets", "targets") /\ cc' = cc
    BY <1>9 DEF SendCapabilities
  <2>2. QED
    BY <2>1, DiscoverKept
<1>10. CASE SendTargets
  <2>1. Discover("targets", "report", "report") /\ cc' = cc
    BY <1>10 DEF SendTargets
  <2>2. QED
    BY <2>1, DiscoverKept
<1>11. CASE SendRedirectReport
  BY <1>11, SendRedirectReportKept
<1>12. CASE SendConnectionReport
  BY <1>12, SendConnectionReportKept
<1>13. CASE SendComplete
  BY <1>13, SendCompleteKept
<1>14. QED
  BY <1>1, <1>2, <1>3, <1>4, <1>5, <1>6, <1>7, <1>8, <1>9, <1>10, <1>11,
     <1>12, <1>13, Zenon DEF SendHandshake
-----------------------------------------------------------------------------
LEMMA MissKept ==
    ASSUME ConnectionTypeOK, MissInv, ConnectionNext
    PROVE  MissInv'
<1>1. edp \in EdpTypes /\ receive \in ReceiveTypes /\ WaitCount > 0
  BY ConnTypes, CloudConnectionAssumption
<1>2. /\ \A b \in BOOLEAN :
             /\ [receive EXCEPT !.filling = b].missed = receive.missed
             /\ [receive EXCEPT !.filling = b, !.missed = 0].missed = 0
      /\ [receive EXCEPT !.missed = 0].missed = 0
      /\ \A f : [receive EXCEPT !.free = f].missed = receive.missed
  BY <1>1 DEF ReceiveTypes
<1>3. /\ Taken(receive) \in ReceiveTypes /\ Released(receive) \in ReceiveTypes
      /\ Taken(receive).missed = receive.missed
      /\ Released(receive).missed = receive.missed
  BY <1>1, BufferTaken, BufferReleased DEF Taken, Released, ReceiveTypes
<1>4. \A t \in ReceiveTypes : \A b \in BOOLEAN :
          /\ [t EXCEPT !.filling = b].missed = t.missed
          /\ [t EXCEPT !.held = b].missed = t.missed
          /\ [t EXCEPT !.filling = FALSE, !.held = TRUE].missed = t.missed
          /\ [t EXCEPT !.filling = b, !.missed = 0].missed = 0
  BY DEF ReceiveTypes
<1>5. CASE CloseProcess \/ RedirectClose
  BY <1>2, <1>1, <1>5 DEF CloseProcess, RedirectClose, Closed, MissInv
<1>6. ASSUME edp.active # "close", receive'.missed \in {receive.missed, 0}
      PROVE  MissInv'
  BY <1>1, <1>6 DEF MissInv
<1>7. CASE Connect \/ RedirectConnect
  <2>1. edp.active # "close"
    BY <1>7 DEF Connect, RedirectConnect, At
  <2>2. receive' = receive \/ receive' = [receive EXCEPT !.free = "one"]
    BY <1>7, Zenon DEF Connect, RedirectConnect, Opened
  <2>3. [receive EXCEPT !.free = "one"].missed = receive.missed
    BY <1>2, Zenon
  <2>4. receive'.missed = receive.missed
    BY <2>2, <2>3, Zenon
  <2>5. QED
    BY <1>6, <2>1, <2>4
<1>8. CASE Reconnect \/ Idle \/ RedirectFails
  BY <1>6, <1>8 DEF Reconnect, Idle, RedirectFails
<1>9. CASE SendHandshake
  <2>1. edp.active # "close" /\ receive' = receive
    BY <1>9 DEF SendHandshake, SendVersion, SendKeepalive, SendProtocolVersion,
       SendIdentity, SendDeviceId, SendProvisioning, SendCloudUrl,
       SendVendorId, SendDeviceType, SendCapabilities, SendTargets,
       SendRedirectReport, SendConnectionReport, SendComplete, Send, Discover,
       Open, At
  <2>2. QED
    BY <1>6, <2>1
<1>10. CASE TakeBuffer \/ ReceivePart \/ ReceiveKeepalive
  <2>1. edp.active # "close"
    BY <1>10 DEF TakeBuffer, ReceivePart, ReceiveKeepalive, Turn
  <2>2. receive'.missed \in {receive.missed, 0}
    BY <1>2, <1>3, <1>4, <1>10 DEF TakeBuffer, ReceivePart, ReceiveKeepalive
  <2>3. QED
    BY <1>6, <2>1, <2>2
<1>11. CASE Answers
  <2>1. PICK p, next, why : Answer(p, next, why)
    BY <1>11, Zenon
       DEF Answers, ReceiveVersion, ReceiveProtocolVersion, ReceiveDeviceId
  <2>2. edp.active # "close"
    BY <2>1 DEF Answer, At
  <2>3. receive'.missed = 0
    BY <1>3, <1>4, <2>1 DEF Answer
  <2>4. QED
    BY <1>6, <2>2, <2>3
<1>12. CASE Silence
  <2>1. receive' = [receive EXCEPT !.missed = receive.missed + 1]
    BY <1>1, <1>12 DEF Silence, ReceiveTypes
  <2>2. receive'.missed = receive.missed + 1
    BY <1>1, <2>1 DEF ReceiveTypes
  <2>3. receive.missed + 1 < WaitCount \/ edp'.active = "close"
    BY <1>1, <1>12, CloseDone DEF Silence, Causes
  <2>4. QED
    BY <2>2, <2>3 DEF MissInv
<1>13. CASE Lost \/ SendPacket \/ DestinationDies
  <2>1. edp.active # "close" \/ edp' = edp
    BY <1>13 DEF Lost, Listening, SendPacket, DestinationDies
  <2>2. receive' = receive
    BY <1>13 DEF Lost, SendPacket, DestinationDies
  <2>3. QED
    BY <1>6, <2>1, <2>2 DEF MissInv
<1>14. CASE OpeningKeepalive \/ ReceivePayload
  <2>1. edp.active # "close"
    BY <1>14 DEF OpeningKeepalive, ReceivePayload
  <2>2. receive'.missed \in {receive.missed, 0}
    BY <1>1, <1>2, <1>3, <1>4, <1>14 DEF OpeningKeepalive, ReceivePayload
  <2>3. QED
    BY <1>6, <2>1, <2>2
<1>15. CASE ProcessFacility \/ Disconnect \/ Redirect
  <2>1. edp.active # "close"
    BY <1>15 DEF ProcessFacility, Disconnect, Redirect, Control, Turn
  <2>2. receive'.missed \in {receive.missed, 0}
    BY <1>1, <1>2, <1>3, <1>4, <1>15
       DEF ProcessFacility, Disconnect, Redirect, Control
  <2>3. QED
    BY <1>6, <2>1, <2>2
<1>16. QED
  BY <1>5, <1>7, <1>8, <1>9, <1>10, <1>11, <1>12, <1>13, <1>14, <1>15, Zenon
     DEF ConnectionNext, Receives, Closing

LEMMA ConnInitially ==
    ASSUME ConnectionInit
    PROVE  ConnInv /\ MissInv
<1> DEFINE s == Script("device_id", "success")
<1>1. /\ edp = [active |-> "open", at |-> "connect", auto |-> TRUE,
                cause |-> "disconnected"]
      /\ packet = "none"
      /\ receive = [free |-> "none", filling |-> FALSE, held |-> FALSE,
                    missed |-> 0]
      /\ cc = [state |-> "redirect", report |-> "not_redirect", urls |-> 0]
      /\ got_device_id \in BOOLEAN /\ url = "origin" /\ dead = FALSE
      /\ got = <<>> /\ faults = 0 /\ slows = 0 /\ redirects = 0
      /\ ghost = [slow |-> FALSE, swallowed |-> FALSE, kept |-> FALSE]
  BY DEF ConnectionInit
<1>2. 0 \in 0 .. WaitCount /\ 0 < WaitCount
  BY CloudConnectionAssumption
<1>3. "connect" \in States /\ "none" \in PacketTypes
  BY StateNames
<1>4. ConnectionTypeOK
  <2>1. edp \in EdpTypes
    BY <1>1, <1>3 DEF EdpTypes
  <2>2. receive \in ReceiveTypes
    BY <1>1, <1>2 DEF ReceiveTypes
  <2>3. cc \in CcTypes
    BY <1>1 DEF CcTypes, Reports
  <2>4. ghost \in GhostTypes
    BY <1>1 DEF GhostTypes
  <2>5. LinkTypes
    BY <1>1 DEF LinkTypes
  <2>6. BudgetTypes
    BY <1>1, CloudConnectionAssumption DEF BudgetTypes
  <2>7. got \in Seq(Sent)
    BY <1>1
  <2>8. QED
    BY <1>1, <1>3, <2>1, <2>2, <2>3, <2>4, <2>5, <2>6, <2>7, ConnTypes
<1>5. MissInv
  BY <1>1, <1>2 DEF MissInv
<1>6. /\ edp.active = "open" /\ edp.at = "connect" /\ cc.state = "redirect"
      /\ cc.report = "not_redirect" /\ receive.free = "none"
      /\ receive.filling = FALSE /\ receive.held = FALSE
      /\ ghost.slow = FALSE
  BY <1>1
<1>7. ~Shaking /\ ~Established
  BY <1>6 DEF Shaking, Established
<1>8. HandshakeInv
  <2>1. "device_id" \in Identities /\ "success" \in Reports /\ 0 \in 0 .. 13
    BY DEF Identities, Reports
  <2>2. Progress(<<>>, "none", FALSE, s, 0)
    BY ProgressBegins
  <2> HIDE DEF s
  <2>3. InOrder(got, s, 0) /\ Begins(got, s)
    BY <1>1, <2>2, ProgressOrder
  <2>4. QED
    BY <1>7, <2>1, <2>3 DEF HandshakeInv, s
<1>9. ParkInv /\ BufferInv /\ ReportInv
  BY <1>6, <1>7 DEF ParkInv, BufferInv, BufferHasOneOwner, ReportInv, Tells
<1>10. QED
  BY <1>4, <1>5, <1>8, <1>9 DEF ConnInv

LEMMA ConnStep ==
    ASSUME ConnInv, MissInv, [ConnectionNext]_connectionVars
    PROVE  ConnInv' /\ MissInv'
<1>1. CASE ConnectionNext
  <2>1. MissInv'
    BY <1>1, MissKept DEF ConnInv
  <2>2. CASE Connect
    BY <2>1, <2>2, ConnectKept
  <2>3. CASE Reconnect \/ Idle
    BY <2>1, <2>3, ReconnectKept
  <2>4. CASE SendHandshake
    BY <2>1, <2>4, SendHandshakeKept
  <2>5. CASE TakeBuffer
    BY <2>1, <2>5, TakeBufferKept
  <2>6. CASE Answers
    BY <2>1, <2>6, AnswersKept
  <2>7. CASE Silence \/ Lost
    BY <2>1, <2>7, SilenceKept
  <2>8. CASE ReceivePart \/ ReceiveKeepalive
    BY <2>1, <2>8, ReceivePartKept
  <2>9. CASE ReceivePayload
    BY <2>1, <2>9, ReceivePayloadKept
  <2>10. CASE ProcessFacility
    BY <2>1, <2>10, ProcessFacilityKept
  <2>11. CASE Disconnect \/ Redirect
    BY <2>1, <2>11, DisconnectKept
  <2>12. CASE OpeningKeepalive
    BY <2>1, <2>12, OpeningKeepaliveKept
  <2>13. CASE SendPacket
    BY <2>1, <2>13, SendPacketKept
  <2>14. CASE CloseProcess
    BY <2>1, <2>14, CloseProcessKept
  <2>15. CASE RedirectClose
    BY <2>1, <2>15, RedirectCloseKept
  <2>16. CASE RedirectConnect
    BY <2>1, <2>16, RedirectConnectKept
  <2>17. CASE RedirectFails
    BY <2>1, <2>17, RedirectFailsKept
  <2>18. CASE DestinationDies
    BY <2>1, <2>18, DestinationDiesKept
  <2>19. QED
    BY <1>1, <2>2, <2>3, <2>4, <2>5, <2>6, <2>7, <2>8, <2>9, <2>10, <2>11,
       <2>12, <2>13, <2>14, <2>15, <2>16, <2>17, <2>18, Zenon
       DEF ConnectionNext, Receives, Closing
<1>2. CASE UNCHANGED connectionVars
  <2>1. UNCHANGED <<edp, packet, receive, cc, got_device_id, url, dead, got,
                    faults, slows, redirects, ghost>>
    BY <1>2 DEF connectionVars, budgets
  <2>2. ConnectionTypeOK' /\ MissInv'
    BY <2>1 DEF ConnInv, ConnectionTypeOK, MissInv
  <2>3. HandshakeInv'
    BY <2>1, HandshakeStays DEF ConnInv
  <2>4. ParkInv' /\ ReportInv'
    BY <2>1 DEF ConnInv, ParkInv, ReportInv, At, Shaking, Established
  <2>5. BufferInv'
    BY <2>1 DEF ConnInv, BufferInv, BufferHasOneOwner, Down, At
  <2>6. QED
    BY <2>2, <2>3, <2>4, <2>5 DEF ConnInv
<1>3. QED
  BY <1>1, <1>2

LEMMA ConnInductive == ConnectionSpec => [](ConnInv /\ MissInv)
<1>1. ConnectionInit => ConnInv /\ MissInv
  BY ConnInitially
<1>2. (ConnInv /\ MissInv) /\ [ConnectionNext]_connectionVars
          => (ConnInv /\ MissInv)'
  BY ConnStep
<1>3. QED
  BY <1>1, <1>2, PTL DEF ConnectionSpec

(* The state of the connector has the types it is declared with: among      *)
(* them that no more than WaitCount keepalives are ever counted as missed.  *)
THEOREM ConnectionTypeCorrect == ConnectionSpec => []ConnectionTypeOK
<1>1. ConnInv => ConnectionTypeOK
  BY DEF ConnInv
<1>2. QED
  BY <1>1, ConnInductive, PTL

(* Unless a facility held the buffer when a connection was closed, the      *)
(* receive buffer has one owner, or none, and no assertion about it fails:  *)
(* for any number of lost connections, slow sends and redirections.         *)
THEOREM OneOwner == ConnectionSpec => []BufferHasOneOwner
<1>1. ConnInv => BufferHasOneOwner
  BY DEF ConnInv, BufferInv
<1>2. QED
  BY <1>1, ConnInductive, PTL

\* What has come, of a sequence.
LEMMA FirstOf ==
    ASSUME NEW S, NEW g \in Seq(S), NEW n \in 1 .. Len(g)
    PROVE  ToSet(SubSeq(g, 1, n)) = First(g, n)
<1> DEFINE h == SubSeq(g, 1, n)
<1>1. Len(g) \in Nat
  OBVIOUS
<1>2. n <= Len(g) /\ n \in Nat
  BY <1>1
<1>3. DOMAIN h = 1 .. n /\ \A i \in 1 .. n : h[i] = g[i]
  BY <1>1, <1>2
<1> HIDE DEF h
<1>4. ToSet(h) = First(g, n)
  BY <1>3 DEF ToSet, First
<1>5. QED
  BY <1>4 DEF h

LEMMA HandshakeIsTrue ==
    ASSUME ConnInv
    PROVE  HandshakeTrue
<1>1. got \in Seq(Sent)
  BY ConnTypes DEF ConnInv
<1>2. PICK id \in Identities, r \in Reports, e \in 0 .. 13 :
          /\ InOrder(got, Script(id, r), e)
          /\ ghost.slow = TRUE \/ Begins(got, Script(id, r))
  BY DEF ConnInv, HandshakeInv
<1> DEFINE s == Script(id, r)
<1>3. s \in Scripts
  BY DEF Scripts, Identities
<1>4. Len(s) = 13 /\ s \in Seq(Sent)
  <2>1. /\ DOMAIN s = 1 .. 13 /\ Len(s) = 13
    BY ScriptItems
  <2>2. \A j \in 1 .. 13 : s[j] \in Sent
    BY ScriptTypes
  <2>3. s = [j \in 1 .. 13 |-> s[j]]
    BY <2>1 DEF Script
  <2>4. QED
    BY <2>1, <2>2, <2>3
<1>5. InOrder(got, s, e) /\ (ghost.slow = TRUE \/ Begins(got, s))
  BY <1>2
<1> HIDE DEF s
<1>6. ASSUME NEW n \in 1 .. Len(got)
      PROVE  \E k \in 1 .. Len(s) :
                 ToSet(SubSeq(got, 1, n)) = ToSet(SubSeq(s, 1, k))
  <2>1. PICK k \in 1 .. e : First(got, n) = First(s, k)
    BY <1>5 DEF InOrder
  <2>2. k \in 1 .. Len(s)
    BY <1>4
  <2>3. QED
    BY <1>1, <1>4, <2>1, <2>2, FirstOf
<1>7. ASSUME Begins(got, s)
      PROVE  IsPrefix(got, s)
  <2>1. Len(got) \in Nat /\ Len(got) <= Len(s)
    BY <1>1, <1>4, <1>7 DEF Begins
  <2>2. \A i \in 1 .. Len(got) : got[i] = s[i]
    BY <1>7 DEF Begins
  <2>3. SubSeq(got, 1, Len(got)) = SubSeq(s, 1, Len(got))
    BY <1>1, <1>4, <2>1, <2>2
  <2>4. QED
    BY <2>1, <2>3 DEF IsPrefix
<1>8. Established => Last(got) = "complete"
  BY DEF ConnInv, HandshakeInv
<1>9. ghost.slow \/ IsPrefix(got, s)
  BY <1>5, <1>7
<1>10. HandshakeInOrder
  BY <1>3, <1>6, <1>8, <1>9 DEF HandshakeInOrder
<1>11. ReportTrue
  <2>1. Established => \A n \in 1 .. Len(got) : Tells(got[n], url)
    BY DEF ConnInv, ReportInv
  <2>2. \A m \in ToSet(got) : \E n \in 1 .. Len(got) : m = got[n]
    BY <1>1 DEF ToSet
  <2>3. QED
    BY <2>1, <2>2 DEF ReportTrue, Tells
<1>12. QED
  BY <1>10, <1>11 DEF HandshakeTrue

(* The cloud receives every message of the handshake before those that     *)
(* follow it, none of them twice if the socket took each at once, and the  *)
(* gateway is connected only after all of them; and what the handshake     *)
(* reports of a redirection is true of the cloud that it is connected to.  *)
THEOREM HandshakeIsInOrder == ConnectionSpec => []HandshakeTrue
BY ConnInductive, HandshakeIsTrue, PTL
-----------------------------------------------------------------------------
(* CloudTransfer.                                                          *)
USE CloudTransferAssumption

\* A block of t is being sent.
DataOf(t) == outgoing.what = "data" /\ outgoing.of = t

\* The blocks of a session are counted, and there is one left to be filled.
CountOK(t) ==
    LET s == session[t] IN
    /\ s.state \in {"get_data", "wait_ack"} => s.blocks < Blocks[t]
    /\ t \in Requests /\ s.state \in {"receive", "send_ack"} => s.blocks = 0
    /\ DataOf(t) /\ ~outgoing.last => s.blocks < Blocks[t]

LiveOK(t) ==
    /\ session[t].type = "send" <=> t \in Puts
    /\ session[t].state = "delete" /\ How(session[t]) = "complete"
           => t \in answered
    /\ DataOf(t) => session[t].state = "wait_send"

\* A put of which the cloud has heard nothing.
IdlePut(p) ==
    /\ outgoing.of = p => p \in Live /\ outgoing.what = "data"
    /\ p \in Live =>
           \/ DataOf(p)
           \/ /\ session[p].state \in {"get_data", "delete"}
              /\ session[p].start /\ session[p].sending /\ ~session[p].ack

\* A request that the cloud has not sent.
IdleRequest(r) == r \notin Live /\ status[r] = <<>> /\ outgoing.of # r

\* Whose start or answer comes, is in no other state than to receive it.
Awaits(t) ==
    ~DataOf(t) /\ (t \in Live => session[t].state = "receive")

IsStart(t, i) == wire[i].what = "start" /\ wire[i].of = t

WireOK(i) ==
    /\ wire[i].what # "capability" => wire[i].of \in Transactions
    /\ wire[i].what = "error" => peer[wire[i].of] = "ended"
    /\ wire[i].what = "data" => wire[i].of \in Requests
    /\ wire[i].of \in Requests => peer[wire[i].of] # "idle"

StartOK(t, i) ==
    /\ Awaits(t)
    /\ t \in Puts => peer[t] = "ended"
    /\ t \in Requests => status[t] = <<>> /\ (t \in Live => i = 1)
    /\ \A j \in 1 .. Len(wire) : IsStart(t, j) => j = i

PendingOK ==
    pending # NoRequest => pending \notin Live /\ peer[pending] = "idle"

\* The packet of a session that an error has ended.
Orphan ==
    outgoing.what = "data" =>
        /\ outgoing.of \in Transactions
        /\ outgoing.of \notin Live =>
               left.crossed /\ status[outgoing.of] # <<>>

ToldOK(t) ==
    /\ Len(status[t]) <= 1
    /\ status[t] # <<>> => t \notin Live /\ t # pending
    /\ status[t] = <<"complete">> => t \in answered

PeerOK(t) ==
    /\ t \in Puts /\ peer[t] = "idle" => IdlePut(t)
    /\ t \in Requests /\ peer[t] = "idle" => IdleRequest(t)
    /\ t \in Puts /\ peer[t] = "answering" => Awaits(t)

\* All that is known of a transaction.
Story(t) ==
    /\ ToldOK(t) /\ PeerOK(t)
    /\ t \in Live => CountOK(t) /\ LiveOK(t)
    /\ \A i \in 1 .. Len(wire) : IsStart(t, i) => StartOK(t, i)

TransferInv ==
    /\ TransferTypeOK /\ PendingOK /\ Orphan
    /\ \A t \in Transactions : Story(t)
    /\ \A i \in 1 .. Len(wire) : WireOK(i)
-----------------------------------------------------------------------------
(* How the records change.                                                 *)

LEMMA SessionFields ==
    ASSUME NEW s \in Sessions
    PROVE  /\ s.state \in {"get_data", "wait_send", "wait_ack", "receive",
                           "send_ack", "send_error", "delete"}
           /\ s.sending \in BOOLEAN /\ s.start \in BOOLEAN
           /\ s.ack \in BOOLEAN /\ s.blocks \in Nat
           /\ s.type \in {"send", "target", "data", "reply", "not_handled"}
           /\ s # Gone
BY DEF Sessions, Gone

LEMMA NewSession ==
    ASSUME NEW y \in {"send", "target"}, NEW st \in {"get_data", "receive"}
    PROVE  /\ New(y, st) \in Sessions
           /\ New(y, st).state = st /\ New(y, st).type = y
           /\ New(y, st).sending = (y = "send") /\ New(y, st).start = TRUE
           /\ New(y, st).blocks = 0 /\ New(y, st).ack = FALSE
<1> DEFINE b == y = "send"
<1>1. b \in BOOLEAN
  OBVIOUS
<1>2. New(y, st) = [state |-> st, sending |-> b, start |-> TRUE, ack |-> FALSE,
                    blocks |-> 0, type |-> y]
  BY DEF New
<1> HIDE DEF b
<1>3. /\ New(y, st) \in Sessions
      /\ New(y, st).state = st /\ New(y, st).type = y
      /\ New(y, st).sending = b /\ New(y, st).start = TRUE
      /\ New(y, st).blocks = 0 /\ New(y, st).ack = FALSE
  BY <1>1, <1>2 DEF Sessions
<1>4. QED
  BY <1>3 DEF b

LEMMA SetState ==
    ASSUME NEW s \in Sessions,
           NEW st \in {"get_data", "wait_send", "wait_ack", "receive",
                       "send_ack", "send_error", "delete"},
           NEW u, u = [s EXCEPT !.state = st]
    PROVE  /\ u \in Sessions /\ u.state = st
           /\ u.sending = s.sending /\ u.start = s.start /\ u.ack = s.ack
           /\ u.blocks = s.blocks /\ u.type = s.type
BY DEF Sessions

LEMMA SetBlock ==
    ASSUME NEW s \in Sessions, NEW a \in BOOLEAN, NEW u,
           u = [s EXCEPT !.state = "wait_send", !.start = FALSE,
                         !.ack = a, !.blocks = @ + 1]
    PROVE  /\ u \in Sessions /\ u.state = "wait_send"
           /\ u.sending = s.sending /\ u.start = FALSE
           /\ u.blocks = s.blocks + 1 /\ u.type = s.type
<1>1. s.blocks + 1 \in Nat
  BY SessionFields
<1>2. QED
  BY <1>1 DEF Sessions

LEMMA SetType ==
    ASSUME NEW s \in Sessions, NEW y \in {"data", "not_handled"}, NEW u,
           u = [s EXCEPT !.type = y]
    PROVE  /\ u \in Sessions /\ u.state = s.state /\ u.type = y
           /\ u.sending = s.sending /\ u.start = s.start
           /\ u.blocks = s.blocks
BY DEF Sessions

LEMMA SetAnswer ==
    ASSUME NEW s \in Sessions, NEW u, u = [s EXCEPT !.sending = FALSE]
    PROVE  /\ u \in Sessions /\ u.state = s.state /\ u.type = s.type
           /\ u.sending = FALSE /\ u.start = s.start
           /\ u.blocks = s.blocks
BY DEF Sessions

LEMMA FailedFields ==
    ASSUME NEW s \in Sessions
    PROVE  /\ Failed(s) \in Sessions
           /\ Failed(s).sending = s.sending /\ Failed(s).start = s.start
           /\ Failed(s).ack = s.ack
           /\ Failed(s).blocks = s.blocks /\ Failed(s).type = s.type
           /\ Failed(s).state =
                  IF s.type = "send" /\ s.sending /\ s.start THEN "delete"
                                                             ELSE "send_error"
BY SetState DEF Failed

\* A block is passed on: the session goes on to receive, or to answer.
LEMMA Passed ==
    ASSUME NEW t \in Transactions, NEW s \in Sessions, NEW last \in BOOLEAN,
           PassBlock(t, s, last)
    PROVE  \E u \in Sessions :
              /\ session' = [session EXCEPT ![t] = u]
              /\ u.blocks = s.blocks
              /\ u.state \in {"get_data", "send_ack", s.state}
              /\ u.type = "send" <=> s.type = "send"
<1>1. CASE last
  <2> DEFINE y == IF s.type = "data" THEN "reply" ELSE s.type
             u == [s EXCEPT !.state = "get_data", !.sending = TRUE,
                            !.start = TRUE, !.type = y]
  <2>1. y \in {"send", "target", "data", "reply", "not_handled"}
        /\ (y = "send" <=> s.type = "send")
    BY SessionFields
  <2>2. session' = [session EXCEPT ![t] = u]
    BY <1>1 DEF PassBlock, Update
  <2> HIDE DEF y
  <2>3. u \in Sessions /\ u.blocks = s.blocks /\ u.state = "get_data"
        /\ u.type = y
    BY <2>1 DEF Sessions
  <2>4. QED
    BY <2>1, <2>2, <2>3
<1>2. CASE ~last
  <2>1. PICK small \in BOOLEAN :
          session' = [session EXCEPT ![t] = [s EXCEPT !.start = FALSE,
                          !.state = IF small THEN "send_ack" ELSE @]]
    BY <1>2 DEF PassBlock, Update
  <2> DEFINE st == IF small THEN "send_ack" ELSE s.state
             u == [s EXCEPT !.start = FALSE, !.state = st]
  <2>2. session' = [session EXCEPT ![t] = u]
    BY <2>1
  <2>3. st \in {"get_data", "wait_send", "wait_ack", "receive", "send_ack",
                "send_error", "delete"} /\ st \in {"send_ack", s.state}
    BY SessionFields
  <2> HIDE DEF st
  <2>4. /\ u \in Sessions /\ u.blocks = s.blocks
        /\ u.state = st /\ u.type = s.type
    BY <2>3 DEF Sessions
  <2>5. QED
    BY <2>2, <2>3, <2>4
<1>3. QED
  BY <1>1, <1>2

LEMMA Updated ==
    ASSUME TransferTypeOK, NEW t \in Transactions, NEW s \in Sessions,
           session' = [session EXCEPT ![t] = s]
    PROVE  /\ session' \in [Transactions -> Sessions \cup {Gone}]
           /\ session'[t] = s /\ Live' = Live \cup {t}
           /\ \A u \in Transactions \ {t} : session'[u] = session[u]
BY SessionFields DEF TransferTypeOK, Live

LEMMA Deleted ==
    ASSUME TransferTypeOK, NEW t \in Transactions,
           session' = [session EXCEPT ![t] = Gone]
    PROVE  /\ session' \in [Transactions -> Sessions \cup {Gone}]
           /\ Live' = Live \ {t}
           /\ \A u \in Transactions \ {t} : session'[u] = session[u]
BY DEF TransferTypeOK, Live

LEMMA LiveSessions ==
    ASSUME TransferTypeOK, NEW t \in Live
    PROVE  t \in Transactions /\ session[t] \in Sessions
BY DEF TransferTypeOK, Live

LEMMA ToldNow ==
    ASSUME TransferTypeOK, NEW t \in Transactions, status[t] = <<>>,
           NEW how \in Told \cup {"refused"}, Tell(t, how)
    PROVE  /\ status' \in [Transactions -> Seq(Told \cup {"refused"})]
           /\ status'[t] = <<how>> /\ status'[t] # <<>> /\ Len(status'[t]) = 1
           /\ \A u \in Transactions \ {t} : status'[u] = status[u]
<1>1. Append(status[t], how) = <<how>> /\ <<how>> # <<>> /\ Len(<<how>>) = 1
      /\ <<how>> \in Seq(Told \cup {"refused"})
  OBVIOUS
<1>2. QED
  BY <1>1 DEF TransferTypeOK, Tell
-----------------------------------------------------------------------------
(* A step that concerns one transaction, or none.                          *)

\* The wire loses its first message, or none.
TakenOff(k) ==
    /\ Len(wire') = Len(wire) - k
    /\ \A i \in 1 .. Len(wire') : i + k \in 1 .. Len(wire)
                                 /\ wire'[i] = wire[i + k]

OutgoingOf(t) ==
    \/ outgoing' = outgoing
    \/ outgoing.what # "data" /\ outgoing'.of = t
    \/ outgoing.of = t /\ outgoing' = NoPacket

Alone(t) ==
    /\ \A u \in Transactions \ {t} :
           /\ session'[u] = session[u] /\ status'[u] = status[u]
           /\ peer'[u] = peer[u] /\ (u \in answered => u \in answered')
    /\ OutgoingOf(t) /\ pending' \in {pending, NoRequest, t}

LEMMA AlonePeer ==
    ASSUME NEW t \in Transactions \cup {NoRequest}, Alone(t),
           NEW u \in Transactions \ {t}, PeerOK(u)
    PROVE  PeerOK(u)'
<1>1. /\ session'[u] = session[u] /\ status'[u] = status[u]
      /\ peer'[u] = peer[u] /\ u # NoRequest
  BY DEF Alone
<1>2. u \in Live' <=> u \in Live
  BY <1>1 DEF Live
<1>3. (DataOf(u)' <=> DataOf(u)) /\ (outgoing'.of = u => outgoing' = outgoing)
  BY <1>1 DEF Alone, OutgoingOf, DataOf, NoPacket
<1>4. QED
  BY <1>1, <1>2, <1>3 DEF PeerOK, IdlePut, IdleRequest, Awaits

LEMMA AloneStory ==
    ASSUME NEW t \in Transactions \cup {NoRequest}, Alone(t),
           NEW k \in {0, 1}, TakenOff(k), wire \in Seq(Messages),
           NEW u \in Transactions \ {t}, Story(u)
    PROVE  Story(u)'
<1>1. /\ session'[u] = session[u] /\ status'[u] = status[u]
      /\ peer'[u] = peer[u] /\ (u \in answered => u \in answered')
      /\ u # NoRequest /\ (u = pending' => u = pending)
  BY DEF Alone
<1>2. u \in Live' <=> u \in Live
  BY <1>1 DEF Live
<1>3. DataOf(u)' => DataOf(u) /\ outgoing' = outgoing
  BY <1>1 DEF Alone, OutgoingOf, DataOf, NoPacket
<1>4. PeerOK(u)'
  BY AlonePeer DEF Story
<1>5. ToldOK(u)'
  BY <1>1, <1>2 DEF Story, ToldOK
<1>6. u \in Live' => CountOK(u)' /\ LiveOK(u)'
  BY <1>1, <1>2, <1>3 DEF Story, CountOK, LiveOK, How
<1>7. ASSUME NEW i \in 1 .. Len(wire'), IsStart(u, i)'
      PROVE  StartOK(u, i)'
  <2>1. i + k \in 1 .. Len(wire) /\ IsStart(u, i + k)
    BY <1>7 DEF TakenOff, IsStart
  <2>2. StartOK(u, i + k)
    BY <2>1 DEF Story
  <2>3. Awaits(u)'
    BY <1>1, <1>2, <1>3, <2>2 DEF StartOK, Awaits
  <2>4. ASSUME NEW j \in 1 .. Len(wire'), IsStart(u, j)'
        PROVE  j = i
    <3>1. j + k \in 1 .. Len(wire) /\ IsStart(u, j + k)
      BY <2>4 DEF TakenOff, IsStart
    <3>2. j + k = i + k
      BY <2>2, <3>1 DEF StartOK
    <3>3. QED
      BY <3>2
  <2>5. /\ u \in Puts => peer'[u] = "ended"
        /\ u \in Requests => status'[u] = <<>> /\ (u \in Live' => i = 1)
    BY <1>1, <1>2, <2>2 DEF StartOK
  <2>6. QED
    BY <2>3, <2>4, <2>5 DEF StartOK
<1>8. QED
  BY <1>4, <1>5, <1>6, <1>7 DEF Story

LEMMA AloneKept ==
    ASSUME TransferInv, TransferTypeOK', PendingOK', Orphan',
           NEW t \in Transactions \cup {NoRequest}, Alone(t),
           NEW k \in {0, 1}, TakenOff(k),
           t \in Transactions =>
               /\ Story(t)'
               /\ peer[t] # "idle" => peer'[t] # "idle"
               /\ peer[t] = "ended" => peer'[t] = "ended"
    PROVE  TransferInv'
<1>1. \A u \in Transactions : Story(u)'
  BY AloneStory DEF TransferInv, TransferTypeOK
<1>2. ASSUME NEW i \in 1 .. Len(wire')
      PROVE  WireOK(i)'
  <2>1. i + k \in 1 .. Len(wire) /\ wire'[i] = wire[i + k]
    BY DEF TakenOff
  <2>2. WireOK(i + k)
    BY <2>1 DEF TransferInv
  <2>3. \A u \in Transactions :
            /\ peer[u] # "idle" => peer'[u] # "idle"
            /\ peer[u] = "ended" => peer'[u] = "ended"
    BY DEF Alone
  <2>4. QED
    BY <2>1, <2>2, <2>3 DEF WireOK, Transactions
<1>3. QED
  BY <1>1, <1>2 DEF TransferInv

\* The start of t, if it is still to come, is as it was.
LEMMA StartsKept ==
    ASSUME TransferInv, NEW t \in Transactions, NEW k \in {0, 1}, TakenOff(k),
           Awaits(t)', t \in Puts /\ peer[t] = "ended" => peer'[t] = "ended",
           t \in Requests =>
               /\ status'[t] = status[t]
               /\ t \in Live' => k = 0 /\ (t \in Live \/ IsStart(t, 1))
    PROVE  \A i \in 1 .. Len(wire') : IsStart(t, i)' => StartOK(t, i)'
<1> SUFFICES ASSUME NEW i \in 1 .. Len(wire'), IsStart(t, i)'
             PROVE  StartOK(t, i)'
  OBVIOUS
<1>1. i + k \in 1 .. Len(wire) /\ IsStart(t, i + k)
  BY DEF TakenOff, IsStart
<1>2. StartOK(t, i + k) /\ 1 \in 1 .. Len(wire)
  BY <1>1 DEF TransferInv, Story, TransferTypeOK
<1>3. ASSUME NEW j \in 1 .. Len(wire'), IsStart(t, j)'
      PROVE  j = i
  <2>1. j + k \in 1 .. Len(wire) /\ IsStart(t, j + k)
    BY <1>3 DEF TakenOff, IsStart
  <2>2. j + k = i + k
    BY <1>2, <2>1 DEF StartOK
  <2>3. QED
    BY <2>2
<1>4. t \in Requests => status'[t] = <<>> /\ (t \in Live' => i = 1)
  BY <1>2 DEF StartOK
<1>5. t \in Puts => peer'[t] = "ended"
  BY <1>2 DEF StartOK
<1>6. QED
  BY <1>3, <1>4, <1>5 DEF StartOK

LEMMA NoStart ==
    ASSUME TransferInv, NEW t \in Transactions, NEW k \in {0, 1}, TakenOff(k),
           \/ ~Awaits(t)
           \/ t \in Puts /\ peer[t] # "ended"
           \/ t \in Requests /\ status[t] # <<>>
           \/ /\ k = 1 /\ wire # <<>>
              /\ IsStart(t, 1) \/ t \in Requests \cap Live
    PROVE  \A i \in 1 .. Len(wire') : ~IsStart(t, i)'
<1> SUFFICES ASSUME NEW i \in 1 .. Len(wire'), IsStart(t, i)'
             PROVE  FALSE
  OBVIOUS
<1>1. i + k \in 1 .. Len(wire) /\ IsStart(t, i + k)
  BY DEF TakenOff, IsStart
<1>2. StartOK(t, i + k) /\ 1 \in 1 .. Len(wire)
  BY <1>1 DEF TransferInv, Story, TransferTypeOK
<1>3. QED
  BY <1>1, <1>2 DEF StartOK

LEMMA WireSame ==
    ASSUME TransferTypeOK, wire' = wire
    PROVE  TakenOff(0)
BY DEF TransferTypeOK, TakenOff

LEMMA WireDone ==
    ASSUME TransferTypeOK, wire # <<>>, Done
    PROVE  /\ TakenOff(1) /\ wire' \in Seq(Messages)
           /\ 1 \in 1 .. Len(wire) /\ Head(wire) = wire[1]
BY DEF TransferTypeOK, TakenOff, Done

LEMMA Apart ==
    /\ \A p \in Puts : p \in Transactions /\ p \notin Requests
    /\ \A r \in Requests : r \in Transactions /\ r \notin Puts
    /\ NoRequest \notin Transactions
BY CloudTransferAssumption DEF Transactions
-----------------------------------------------------------------------------
(* Each action keeps the invariant.                                        *)

LEMMA InitiateKept ==
    ASSUME TransferInv, NEW p \in Puts, InitiatePut(p)
    PROVE  TransferInv'
<1>1. /\ peer[p] = "idle" /\ status[p] = <<>> /\ p \notin Live /\ pending # p
      /\ UNCHANGED <<session, outgoing, wire, peer, limit, answered, left,
                     failures>>
      /\ p \in Transactions /\ p # NoRequest /\ p \notin Requests
  BY Apart DEF InitiatePut, sides
<1>2. Live' = Live /\ TakenOff(0) /\ Story(p)
  BY <1>1, WireSame DEF Live, TransferInv
<1>3. /\ status' \in [Transactions -> Seq(Told \cup {"refused"})]
      /\ \/ pending' = p /\ status' = status
         \/ /\ pending' = pending /\ pending \in Puts
            /\ status'[p] = <<"refused">> /\ Len(status'[p]) = 1
            /\ status'[p] # <<"complete">>
      /\ \A u \in Transactions \ {p} : status'[u] = status[u]
      /\ \A u \in Transactions : status[u] # <<>> => status'[u] # <<>>
  <2> status \in [Transactions -> Seq(Told \cup {"refused"})]
    BY DEF TransferInv, TransferTypeOK
  <2>1. CASE pending = NoRequest /\ pending' = p /\ status' = status
    BY <2>1
  <2>2. CASE pending # NoRequest /\ Tell(p, "refused") /\ pending' = pending
    <3>1. <<"refused">> # <<"complete">>
      OBVIOUS
    <3>2. QED
      BY <1>1, <2>2, <3>1, ToldNow DEF TransferInv, TransferTypeOK
  <2>3. QED
    BY <2>1, <2>2 DEF InitiatePut
<1>4. TransferTypeOK' /\ PendingOK' /\ Orphan'
  <2>1. TransferTypeOK'
    BY <1>1, <1>2, <1>3 DEF TransferInv, TransferTypeOK
  <2>2. PendingOK'
    BY <1>1, <1>2, <1>3 DEF TransferInv, PendingOK
  <2>3. Orphan'
    BY <1>1, <1>2, <1>3 DEF TransferInv, Orphan
  <2>4. QED
    BY <2>1, <2>2, <2>3
<1>5. ToldOK(p)'
  <2>1. Len(status[p]) <= 1
    BY <1>2 DEF Story, ToldOK
  <2>2. p \notin Live'
    BY <1>1, <1>2
  <2>3. CASE pending' = p /\ status' = status
    BY <1>1, <2>1, <2>2, <2>3 DEF ToldOK
  <2>4. CASE /\ pending' = pending
             /\ status'[p] = <<"refused">> /\ Len(status'[p]) = 1
             /\ status'[p] # <<"complete">>
    BY <1>1, <2>2, <2>4 DEF ToldOK
  <2>5. QED
    BY <1>3, <2>3, <2>4
<1>6. Story(p)'
  BY <1>1, <1>2, <1>5
  DEF Story, PeerOK, IdlePut, IdleRequest, Awaits, CountOK, LiveOK, DataOf,
      StartOK, IsStart
<1>7. Alone(p)
  BY <1>1, <1>3 DEF Alone, OutgoingOf
<1>8. QED
  BY <1>1, <1>2, <1>4, <1>6, <1>7, AloneKept

LEMMA StartKept ==
    ASSUME TransferInv, StartSession
    PROVE  TransferInv'
<1> PICK p \in Puts : p = pending
  BY DEF StartSession, TransferInv, TransferTypeOK
<1> DEFINE s == New("send", "get_data")
<1>1. /\ p \in Puts /\ p \in Transactions /\ p \notin Live /\ p \notin Requests
      /\ peer[p] = "idle" /\ status[p] = <<>> /\ p # NoRequest
      /\ session' = [session EXCEPT ![p] = s] /\ pending' = NoRequest
      /\ UNCHANGED <<outgoing, wire, peer, limit, status, answered, left,
                     failures>>
  BY Apart DEF StartSession, Update, sides, ends, TransferInv, TransferTypeOK,
     PendingOK, Story, ToldOK
<1>2. /\ s \in Sessions /\ s.state = "get_data" /\ s.type = "send"
      /\ s.sending = TRUE /\ s.start = TRUE /\ s.blocks = 0 /\ s.ack = FALSE
  BY NewSession
<1>3. pending' \in {pending, NoRequest, p}
  BY <1>1
<1> HIDE DEF s
<1>4. /\ session' \in [Transactions -> Sessions \cup {Gone}]
      /\ session'[p] = s /\ Live' = Live \cup {p}
      /\ \A u \in Transactions \ {p} : session'[u] = session[u]
  BY <1>1, <1>2, Updated DEF TransferInv
<1>5. Story(p) /\ TakenOff(0) /\ Blocks[p] \in Nat \ {0} /\ outgoing.of # p
  BY <1>1, WireSame, CloudTransferAssumption
     DEF TransferInv, Story, PeerOK, IdlePut
<1>6. TransferTypeOK' /\ PendingOK' /\ Orphan'
  <2>1. TransferTypeOK'
    BY <1>1, <1>2, <1>4, <1>5 DEF TransferInv, TransferTypeOK
  <2>2. PendingOK' /\ Orphan'
    BY <1>1, <1>4 DEF TransferInv, PendingOK, Orphan
  <2>3. QED
    BY <2>1, <2>2
<1>7. \A i \in 1 .. Len(wire') : ~IsStart(p, i)'
  BY <1>1, <1>5, NoStart
<1>8. Story(p)'
  <2>1. ToldOK(p)' /\ p \in Live'
    BY <1>1, <1>4, <1>5 DEF Story, ToldOK
  <2>2. PeerOK(p)'
    BY <1>1, <1>2, <1>4, <1>5 DEF PeerOK, IdlePut
  <2>3. CountOK(p)'
    BY <1>1, <1>2, <1>4, <1>5 DEF CountOK, DataOf
  <2>4. LiveOK(p)'
    BY <1>1, <1>2, <1>4, <1>5 DEF LiveOK, DataOf
  <2>5. QED
    BY <1>7, <2>1, <2>2, <2>3, <2>4 DEF Story
<1>9. Alone(p)
  BY <1>1, <1>3, <1>4 DEF Alone, OutgoingOf
<1>10. QED
  BY <1>1, <1>5, <1>6, <1>8, <1>9, AloneKept

\* The cloud says something: one more message is on the wire.
LEMMA Said ==
    ASSUME TransferTypeOK, NEW t \in Transactions \cup {NoRequest},
           NEW what \in {"start", "data", "ack", "error", "capability"},
           NEW last \in BOOLEAN, Says(t, what, last),
           NEW n, n = Len(wire) + 1
    PROVE  /\ wire' \in Seq(Messages) /\ Len(wire') = n
           /\ \A i \in 1 .. Len(wire) : wire'[i] = wire[i]
           /\ wire'[n].of = t /\ wire'[n].what = what
<1> DEFINE m == [of |-> t, what |-> what, last |-> last]
<1>1. m \in Messages /\ m.of = t /\ m.what = what
  BY DEF Messages
<1>2. wire' = Append(wire, m) /\ wire \in Seq(Messages)
  BY DEF Says, TransferTypeOK
<1> HIDE DEF m
<1>3. QED
  BY <1>1, <1>2

LEMMA SaysKept ==
    ASSUME TransferInv, NEW t \in Transactions \cup {NoRequest},
           NEW what \in {"start", "data", "ack", "error", "capability"},
           NEW last \in BOOLEAN, Says(t, what, last),
           peer' \in [Transactions -> {"idle", "sending", "waiting",
                                       "answering", "ended"}],
           \A u \in Transactions \ {t} : peer'[u] = peer[u],
           UNCHANGED <<pending, session, outgoing, limit, ends>>,
           failures' \in 0 .. MaxFailures,
           what # "capability" => t \in Transactions,
           t \in Transactions =>
               /\ peer'[t] # "idle" /\ (t \in Puts => peer[t] # "idle")
               /\ peer'[t] = "answering" => peer[t] = "answering"
               /\ peer[t] = "ended" \/ what = "error" => peer'[t] = "ended",
           what = "data" => t \in Requests,
           what = "start" => IF t \in Puts
                             THEN peer[t] = "answering" /\ peer'[t] = "ended"
                             ELSE peer[t] = "idle"
    PROVE  TransferInv'
<1> PICK n \in Nat : n = Len(wire) + 1 /\ Len(wire) \in Nat
  BY DEF TransferInv, TransferTypeOK
<1>1. /\ wire' \in Seq(Messages) /\ Len(wire') = n
      /\ \A i \in 1 .. Len(wire) : wire'[i] = wire[i]
      /\ wire'[n].of = t /\ wire'[n].what = what
  BY Said DEF TransferInv
<1>2. /\ Live' = Live
      /\ UNCHANGED <<pending, session, outgoing, limit, status, answered,
                     left>>
  BY DEF ends, Live
<1>3. \A u \in Transactions :
         /\ peer[u] # "idle" => peer'[u] # "idle"
         /\ peer[u] = "ended" => peer'[u] = "ended"
         /\ peer'[u] = "idle" => peer[u] = "idle"
         /\ peer'[u] = "answering" => peer[u] = "answering"
  OBVIOUS
<1>4. TransferTypeOK' /\ Orphan'
  BY <1>1, <1>2 DEF TransferInv, TransferTypeOK, Orphan
<1>5. PendingOK'
  BY <1>2, Apart DEF TransferInv, TransferTypeOK, PendingOK
<1>6. ASSUME NEW i \in 1 .. Len(wire')
      PROVE  WireOK(i)'
  <2>1. CASE i = n
    BY <1>1, <2>1, Apart DEF WireOK
  <2>2. CASE i # n
    <3>1. i \in 1 .. Len(wire) /\ wire'[i] = wire[i] /\ WireOK(i)
      BY <1>1, <2>2 DEF TransferInv
    <3>2. QED
      BY <1>3, <3>1, Apart DEF WireOK
  <2>3. QED
    BY <2>1, <2>2
<1>7. ASSUME NEW u \in Transactions
      PROVE  Story(u)'
  <2>1. Story(u)
    BY DEF TransferInv
  <2>2. ToldOK(u)' /\ PeerOK(u)' /\ (u \in Live' => CountOK(u)' /\ LiveOK(u)')
    BY <1>2, <1>3, <2>1
    DEF Story, ToldOK, PeerOK, IdlePut, IdleRequest, Awaits, CountOK, LiveOK,
        DataOf
  <2>3. ASSUME NEW i \in 1 .. Len(wire), IsStart(u, i)
        PROVE  StartOK(u, i) /\ ~(u = t /\ what = "start")
    <3>1. StartOK(u, i) /\ WireOK(i)
      BY <2>1, <2>3 DEF Story, TransferInv
    <3>2. QED
      BY <2>3, <3>1 DEF StartOK, WireOK, IsStart, Transactions
  <2>4. ASSUME NEW i \in 1 .. Len(wire'), IsStart(u, i)'
        PROVE  StartOK(u, i)'
    <3>1. CASE i = n
      <4>1. u = t /\ what = "start"
        BY <1>1, <2>4, <3>1 DEF IsStart
      <4>2. ASSUME NEW j \in 1 .. Len(wire'), IsStart(u, j)'
            PROVE  j = i
        <5>1. j # n => j \in 1 .. Len(wire) /\ IsStart(u, j)
          BY <1>1, <4>2 DEF IsStart
        <5>2. QED
          BY <2>3, <3>1, <4>1, <5>1
      <4>3. CASE u \in Puts
        <5>1. Awaits(u) /\ peer'[u] = "ended" /\ u \notin Requests
          BY <2>1, <4>1, <4>3, Apart DEF Story, PeerOK
        <5>2. QED
          BY <1>2, <4>2, <5>1 DEF StartOK, Awaits, DataOf
      <4>4. CASE u \in Requests
        <5>1. u \notin Live /\ status[u] = <<>> /\ outgoing.of # u
              /\ u \notin Puts
          BY <2>1, <4>1, <4>4, Apart DEF Story, PeerOK, IdleRequest
        <5>2. QED
          BY <1>2, <4>2, <5>1 DEF StartOK, Awaits, DataOf
      <4>5. QED
        BY <4>3, <4>4 DEF Transactions
    <3>2. CASE i # n
      <4>1. i \in 1 .. Len(wire) /\ IsStart(u, i)
        BY <1>1, <2>4, <3>2 DEF IsStart
      <4>2. StartOK(u, i) /\ ~(u = t /\ what = "start")
        BY <2>3, <4>1
      <4>3. ASSUME NEW j \in 1 .. Len(wire'), IsStart(u, j)'
            PROVE  j = i
        <5>1. j \in 1 .. Len(wire) /\ IsStart(u, j)
          BY <1>1, <4>2, <4>3 DEF IsStart
        <5>2. QED
          BY <4>2, <5>1 DEF StartOK
      <4>4. QED
        BY <1>2, <1>3, <4>2, <4>3 DEF StartOK, Awaits, DataOf
    <3>3. QED
      BY <3>1, <3>2
  <2>5. QED
    BY <2>2, <2>4 DEF Story
<1>8. QED
  BY <1>4, <1>5, <1>6, <1>7 DEF TransferInv

LEMMA CloudKept ==
    ASSUME TransferInv,
           \/ \E p \in Puts : CloudAnswers(p)
           \/ \E t \in Transactions : CloudError(t) \/ CloudAck(t)
           \/ \E r \in Requests, last \in BOOLEAN : CloudRequests(r, last)
           \/ CloudCapability
    PROVE  TransferInv'
<1> DEFINE Stages == {"idle", "sending", "waiting", "answering", "ended"}
<1>1. /\ peer \in [Transactions -> Stages] /\ failures \in 0 .. MaxFailures
      /\ MaxFailures \in Nat
  BY CloudTransferAssumption DEF TransferInv, TransferTypeOK
<1>2. ASSUME NEW p \in Puts, CloudAnswers(p) PROVE TransferInv'
  <2>1. /\ Says(p, "start", TRUE) /\ peer' = [peer EXCEPT ![p] = "ended"]
        /\ peer[p] = "answering" /\ failures' \in 0 .. MaxFailures
        /\ UNCHANGED <<pending, session, outgoing, limit, ends>>
        /\ p \in Transactions
    BY <1>1, <1>2, Apart DEF CloudAnswers
  <2>2. /\ peer' \in [Transactions -> Stages] /\ peer'[p] = "ended"
        /\ \A u \in Transactions \ {p} : peer'[u] = peer[u]
    BY <1>1, <2>1
  <2>3. QED
    BY <2>1, <2>2, SaysKept
<1>3. ASSUME NEW t \in Transactions, CloudError(t) PROVE TransferInv'
  <2>1. /\ Says(t, "error", TRUE) /\ peer' = [peer EXCEPT ![t] = "ended"]
        /\ peer[t] # "idle" /\ failures' \in 0 .. MaxFailures
        /\ UNCHANGED <<pending, session, outgoing, limit, ends>>
    <3>1. failures < MaxFailures /\ failures' = failures + 1
      BY <1>3 DEF CloudError
    <3>2. failures' \in 0 .. MaxFailures
      BY <1>1, <3>1
    <3>3. QED
      BY <1>3, <3>2 DEF CloudError
  <2>2. /\ peer' \in [Transactions -> Stages] /\ peer'[t] = "ended"
        /\ \A u \in Transactions \ {t} : peer'[u] = peer[u]
    BY <1>1, <2>1
  <2>3. QED
    BY <2>1, <2>2, SaysKept
<1>4. ASSUME NEW t \in Transactions, CloudAck(t) PROVE TransferInv'
  <2>1. /\ Says(t, "ack", FALSE) /\ peer' = peer
        /\ t \in Live /\ session[t].ack /\ outgoing.of # t /\ peer[t] # "ended"
        /\ failures' \in 0 .. MaxFailures
        /\ UNCHANGED <<pending, session, outgoing, limit, ends>>
    BY <1>1, <1>4 DEF CloudAck
  <2>2. peer[t] # "idle"
    BY <2>1 DEF TransferInv, Story, PeerOK, IdlePut, IdleRequest, DataOf,
                Transactions
  <2>3. QED
    BY <1>1, <2>1, <2>2, SaysKept
<1>5. ASSUME NEW r \in Requests, NEW last \in BOOLEAN, CloudRequests(r, last)
      PROVE  TransferInv'
  <2> DEFINE what == IF peer[r] = "idle" THEN "start" ELSE "data"
             stage == IF last THEN "waiting" ELSE "sending"
  <2>1. /\ Says(r, what, last) /\ peer' = [peer EXCEPT ![r] = stage]
        /\ peer[r] \in {"idle", "sending"} /\ failures' \in 0 .. MaxFailures
        /\ UNCHANGED <<pending, session, outgoing, limit, ends>>
        /\ r \in Transactions /\ r \notin Puts
    BY <1>1, <1>5, Apart DEF CloudRequests
  <2>2. what \in {"start", "data"} /\ (what = "start" => peer[r] = "idle")
        /\ stage \in {"waiting", "sending"}
    OBVIOUS
  <2> HIDE DEF what, stage
  <2>3. /\ peer' \in [Transactions -> Stages] /\ peer'[r] = stage
        /\ \A u \in Transactions \ {r} : peer'[u] = peer[u]
    BY <1>1, <2>1, <2>2
  <2>4. QED
    BY <2>1, <2>2, <2>3, SaysKept
<1>6. CASE CloudCapability
  <2>1. /\ Says(NoRequest, "capability", FALSE) /\ peer' = peer
        /\ failures' \in 0 .. MaxFailures /\ NoRequest \notin Transactions
        /\ UNCHANGED <<pending, session, outgoing, limit, ends>>
    BY <1>1, <1>6, Apart DEF CloudCapability
  <2>2. QED
    BY <1>1, <2>1, SaysKept, Apart
<1>7. QED
  BY <1>2, <1>3, <1>4, <1>5, <1>6

\* The session t has its turn: it was not to receive.
LEMMA TurnKept ==
    ASSUME TransferInv, NEW t \in Live, ~Awaits(t), NEW s \in Sessions,
           session' = [session EXCEPT ![t] = s],
           UNCHANGED <<pending, wire, peer, limit, ends, failures>>,
           \/ outgoing' = outgoing
           \/ Free /\ outgoing' \in Packets /\ outgoing'.of = t,
           s.blocks <= Blocks[t], CountOK(t)', LiveOK(t)',
           t \in Puts /\ peer[t] = "idle" => IdlePut(t)'
    PROVE  TransferInv'
<1>1. /\ t \in Transactions /\ t # NoRequest /\ status[t] = <<>> /\ Story(t)
      /\ UNCHANGED <<status, answered, left>> /\ t # pending
  <2>1. t \in Transactions /\ t # NoRequest /\ Story(t) /\ PendingOK
    BY LiveSessions, Apart DEF TransferInv
  <2>2. status[t] = <<>> /\ t # pending
    BY <2>1 DEF Story, ToldOK, PendingOK
  <2>3. QED
    BY <2>1, <2>2 DEF ends
<1>2. /\ session' \in [Transactions -> Sessions \cup {Gone}]
      /\ session'[t] = s /\ Live' = Live \cup {t}
      /\ \A u \in Transactions \ {t} : session'[u] = session[u]
  BY <1>1, Updated DEF TransferInv
<1>3. TakenOff(0) /\ Alone(t)
  BY <1>1, <1>2, WireSame DEF TransferInv, Alone, OutgoingOf, Free, NoPacket
<1>4. TransferTypeOK'
  BY <1>1, <1>2 DEF TransferInv, TransferTypeOK
<1>5. PendingOK' /\ Orphan'
  <2>1. PendingOK'
    BY <1>1, <1>2 DEF TransferInv, PendingOK
  <2>2. CASE outgoing' = outgoing
    BY <1>1, <1>2, <2>1, <2>2 DEF TransferInv, Orphan
  <2>3. CASE outgoing'.of = t
    BY <1>1, <1>2, <2>1, <2>3 DEF Orphan
  <2>4. QED
    BY <2>1, <2>2, <2>3
<1>6. \A i \in 1 .. Len(wire') : ~IsStart(t, i)'
  <2>1. t \in Transactions /\ TakenOff(0) /\ 0 \in {0, 1}
    BY <1>1, <1>3
  <2>2. QED
    BY <2>1, NoStart, Zenon
<1>7. ToldOK(t)' /\ PeerOK(t)'
  BY <1>1, <1>2 DEF Story, ToldOK, PeerOK, IdleRequest
<1>8. QED
  BY <1>1, <1>3, <1>4, <1>5, <1>6, <1>7, AloneKept DEF Story

LEMMA GetDataKept ==
    ASSUME TransferInv, NEW t \in Transactions, GetData(t)
    PROVE  TransferInv'
<1> DEFINE s == session[t]
<1>1. /\ t \in Live /\ s \in Sessions /\ s.state = "get_data" /\ Free
      /\ UNCHANGED <<pending, wire, peer, limit, ends, failures>>
      /\ CountOK(t) /\ LiveOK(t) /\ PeerOK(t) /\ ~Awaits(t) /\ ~DataOf(t)
      /\ outgoing.of # t
  BY LiveSessions, Apart
  DEF GetData, Process, TransferInv, Story, Awaits, DataOf, Free, NoPacket
<1>2. s.blocks < Blocks[t] /\ Blocks[t] \in Nat /\ s.blocks \in Nat
  BY <1>1, SessionFields, CloudTransferAssumption DEF CountOK
<1>3. CASE FillData(t, s)
  <2>1. PICK last \in BOOLEAN : (last \/ More(t, s)) /\ SendBlock(t, s, last)
    BY <1>3 DEF FillData
  <2>2. PICK ack \in BOOLEAN :
          session' = [session EXCEPT ![t] =
              [s EXCEPT !.state = "wait_send", !.start = FALSE,
                        !.ack = @ \/ (ack /\ ~last), !.blocks = @ + 1]]
    BY <2>1 DEF SendBlock, Update
  <2> DEFINE a == s.ack \/ (ack /\ ~last)
             u == [s EXCEPT !.state = "wait_send", !.start = FALSE,
                            !.ack = a, !.blocks = @ + 1]
  <2>3. session' = [session EXCEPT ![t] = u] /\ a \in BOOLEAN
    BY <1>1, <2>2, SessionFields
  <2> HIDE DEF a
  <2>4. /\ u \in Sessions /\ u.state = "wait_send" /\ u.blocks = s.blocks + 1
        /\ u.type = s.type
    BY <1>1, <2>3, SetBlock, ZenonT(40)
  <2> HIDE DEF u
  <2>5. /\ outgoing' \in Packets /\ outgoing'.of = t
        /\ outgoing'.what = "data" /\ outgoing'.last = last
    BY <2>1 DEF SendBlock, Packet, Packets
  <2>6. session'[t] = u /\ t \in Live'
    BY <1>1, <2>3, <2>4, Updated DEF TransferInv
  <2>7. CountOK(t)'
    BY <1>2, <2>1, <2>4, <2>5, <2>6 DEF CountOK, More, DataOf
  <2>8. LiveOK(t)' /\ IdlePut(t)'
    <3>1. LiveOK(t)'
      BY <1>1, <2>4, <2>6 DEF LiveOK
    <3>2. IdlePut(t)'
      BY <2>5, <2>6 DEF IdlePut, DataOf
    <3>3. QED
      BY <3>1, <3>2
  <2>9. u.blocks <= Blocks[t]
    BY <1>2, <2>4
  <2>10. QED
    BY <1>1, <2>3, <2>4, <2>5, <2>7, <2>8, <2>9, TurnKept
<1>4. CASE Refuse(t, s)
  <2> DEFINE u == Failed(s)
  <2>1. session' = [session EXCEPT ![t] = u] /\ outgoing' = outgoing
    BY <1>4 DEF Refuse, Update
  <2>2. /\ u \in Sessions /\ u.blocks = s.blocks /\ u.type = s.type
        /\ u.sending = s.sending /\ u.start = s.start /\ u.ack = s.ack
        /\ u.state = IF s.type = "send" /\ s.sending /\ s.start
                     THEN "delete" ELSE "send_error"
    BY <1>1, FailedFields
  <2> HIDE DEF u
  <2>3. session'[t] = u /\ t \in Live'
    BY <1>1, <2>1, <2>2, Updated DEF TransferInv
  <2>4. CountOK(t)' /\ LiveOK(t)'
    BY <1>1, <2>1, <2>2, <2>3 DEF CountOK, LiveOK, DataOf, How
  <2>5. ASSUME t \in Puts, peer[t] = "idle" PROVE IdlePut(t)'
    <3>1. s.type = "send" /\ s.start /\ s.sending /\ ~s.ack
      BY <1>1, <2>5 DEF PeerOK, IdlePut, LiveOK
    <3>2. u.state = "delete" /\ u.start /\ u.sending /\ ~u.ack
      BY <2>2, <3>1
    <3>3. outgoing'.of # t
      BY <1>1, <2>1
    <3>4. QED
      BY <2>3, <3>2, <3>3 DEF IdlePut
  <2>6. u.blocks <= Blocks[t]
    BY <1>2, <2>2
  <2>7. QED
    BY <1>1, <2>1, <2>2, <2>4, <2>5, <2>6, TurnKept
<1>5. QED
  BY <1>3, <1>4 DEF GetData, SendRequest, DeviceResponse

LEMMA SendAckKept ==
    ASSUME TransferInv, NEW t \in Transactions, SendAck(t)
    PROVE  TransferInv'
<1> DEFINE s == session[t]
           u == [s EXCEPT !.state = "receive"]
<1>1. /\ t \in Live /\ s \in Sessions /\ s.state = "send_ack" /\ Free
      /\ UNCHANGED <<pending, wire, peer, limit, ends, failures>>
      /\ outgoing' = Packet(t, "ack", FALSE)
      /\ session' = [session EXCEPT ![t] = u]
      /\ CountOK(t) /\ LiveOK(t) /\ PeerOK(t) /\ ~Awaits(t) /\ ~DataOf(t)
  BY LiveSessions
  DEF SendAck, Update, Process, TransferInv, Story, Awaits, DataOf, Free,
      NoPacket
<1>2. /\ u \in Sessions /\ u.state = "receive" /\ u.blocks = s.blocks
      /\ u.type = s.type
  BY <1>1, SetState
<1> HIDE DEF u
<1>3. /\ outgoing' \in Packets /\ outgoing'.of = t /\ outgoing'.what = "ack"
      /\ session'[t] = u
  BY <1>1, <1>2, Updated DEF TransferInv, Packet, Packets
<1>4. CountOK(t)' /\ LiveOK(t)'
  BY <1>1, <1>2, <1>3 DEF CountOK, LiveOK, DataOf
<1>5. ~(t \in Puts /\ peer[t] = "idle")
  BY <1>1 DEF PeerOK, IdlePut
<1>6. s.blocks <= Blocks[t]
  BY <1>1 DEF TransferInv, TransferTypeOK
<1>7. QED
  BY <1>1, <1>2, <1>3, <1>4, <1>5, <1>6, TurnKept

\* The session is over, and the application was told at most now.
LEMMA DeleteKept ==
    ASSUME TransferInv, NEW t \in Transactions, t \in Live, ~Awaits(t), ~DataOf(t),
           Delete(t), session[t].state \in {"send_error", "delete"},
           UNCHANGED <<pending, wire, peer, limit, answered, failures>>,
           \/ /\ outgoing' = outgoing
              /\ peer[t] = "idle" => outgoing.of # t
           \/ /\ Free /\ outgoing' \in Packets
              /\ outgoing'.of = t /\ outgoing'.what # "data"
              /\ peer[t] # "idle"
    PROVE  TransferInv'
<1> DEFINE how == How(session[t])
<1>1. /\ session' = [session EXCEPT ![t] = Gone] /\ FreeService(t, how)
      /\ status[t] = <<>> /\ t # pending /\ t # NoRequest
      /\ Story(t) /\ PeerOK(t) /\ LiveOK(t) /\ ToldOK(t)
      /\ how \in {"complete", "cancel"}
  BY Apart DEF Delete, TransferInv, Story, ToldOK, PendingOK, How
<1> HIDE DEF how
<1>2. /\ session' \in [Transactions -> Sessions \cup {Gone}]
      /\ Live' = Live \ {t}
      /\ \A u \in Transactions \ {t} : session'[u] = session[u]
  BY <1>1, Deleted DEF TransferInv
<1>3. /\ status' \in [Transactions -> Seq(Told \cup {"refused"})]
      /\ Len(status'[t]) <= 1
      /\ status'[t] = <<"complete">> => t \in answered
      /\ \A u \in Transactions \ {t} : status'[u] = status[u]
      /\ \A u \in Transactions : status[u] # <<>> => status'[u] # <<>>
      /\ left'.crossed = left.crossed
      /\ left' \in [crossed : BOOLEAN, silent : SUBSET Puts,
                    unanswered : SUBSET Requests]
  <2> /\ status \in [Transactions -> Seq(Told \cup {"refused"})]
      /\ left \in [crossed : BOOLEAN, silent : SUBSET Puts,
                   unanswered : SUBSET Requests]
    BY DEF TransferInv, TransferTypeOK
  <2>1. CASE session[t].state = "send_error"
    <3> DEFINE more == IF t \in Puts /\ status[t] = <<>>
                       THEN left.silent \cup {t} ELSE left.silent
    <3>1. status' = status /\ left' = [left EXCEPT !.silent = more]
      BY <1>1, <2>1 DEF FreeService
    <3>2. more \in SUBSET Puts
      OBVIOUS
    <3> HIDE DEF more
    <3>3. /\ left'.crossed = left.crossed
          /\ left' \in [crossed : BOOLEAN, silent : SUBSET Puts,
                        unanswered : SUBSET Requests]
      BY <3>1, <3>2
    <3>4. Len(status'[t]) <= 1
      BY <1>1, <3>1 DEF ToldOK
    <3>5. status'[t] = <<"complete">> => t \in answered
      BY <1>1, <3>1 DEF ToldOK
    <3>6. QED
      BY <3>1, <3>3, <3>4, <3>5
  <2>2. CASE session[t].state = "delete"
    <3>1. Tell(t, how) /\ left' = left
      BY <1>1, <2>2 DEF FreeService
    <3>2. /\ status' \in [Transactions -> Seq(Told \cup {"refused"})]
          /\ status'[t] = <<how>> /\ status'[t] # <<>> /\ Len(status'[t]) = 1
          /\ \A u \in Transactions \ {t} : status'[u] = status[u]
      BY <1>1, <3>1, ToldNow DEF TransferInv, Told
    <3>3. status'[t] = <<"complete">> => how = "complete"
      <4>1. <<how>> = <<"complete">> => how = "complete"
        OBVIOUS
      <4>2. QED
        BY <3>2, <4>1
    <3>4. how = "complete" => t \in answered
      BY <1>1, <2>2 DEF LiveOK, how
    <3>5. Len(status'[t]) <= 1
      BY <3>2
    <3>6. QED
      BY <3>1, <3>2, <3>3, <3>4, <3>5
  <2>3. QED
    BY <2>1, <2>2
<1>4. TakenOff(0) /\ Alone(t)
  <2>1. OutgoingOf(t)
    BY DEF OutgoingOf, Free, NoPacket
  <2>2. QED
    BY <1>2, <1>3, <2>1, WireSame DEF TransferInv, Alone
<1>5. TransferTypeOK'
  <2>1. outgoing' \in Packets
    BY DEF TransferInv, TransferTypeOK
  <2>2. \A u \in Live' : session'[u].blocks <= Blocks[u]
    BY <1>2 DEF TransferInv, TransferTypeOK, Live
  <2>3. QED
    BY <1>2, <1>3, <2>1, <2>2 DEF TransferInv, TransferTypeOK
<1>6. PendingOK'
  BY <1>1, <1>2 DEF TransferInv, PendingOK
<1>7. Orphan'
  <2>1. CASE outgoing' = outgoing
    BY <1>2, <1>3, <2>1 DEF TransferInv, Orphan, DataOf
  <2>2. CASE outgoing'.what # "data"
    BY <2>2 DEF Orphan
  <2>3. QED
    BY <2>1, <2>2
<1>8. \A i \in 1 .. Len(wire') : ~IsStart(t, i)'
  BY <1>4, NoStart
<1>9. ToldOK(t)' /\ t \notin Live'
  BY <1>1, <1>2, <1>3 DEF ToldOK
<1>10. PeerOK(t)'
  <2>1. ~(t \in Puts /\ peer[t] = "answering")
        /\ ~(t \in Requests /\ peer[t] = "idle")
    BY <1>1 DEF PeerOK, IdleRequest
  <2>2. peer[t] = "idle" => outgoing'.of # t
    OBVIOUS
  <2>3. QED
    BY <1>9, <2>1, <2>2 DEF PeerOK, IdlePut
<1>11. QED
  BY <1>4, <1>5, <1>6, <1>7, <1>8, <1>9, <1>10, AloneKept DEF Story

LEMMA SendErrorKept ==
    ASSUME TransferInv, NEW t \in Transactions, SendError(t)
    PROVE  TransferInv'
<1>1. /\ t \in Live /\ session[t].state = "send_error" /\ Free /\ Delete(t)
      /\ outgoing' = Packet(t, "error", TRUE)
      /\ UNCHANGED <<pending, wire, peer, limit, answered, failures>>
      /\ PeerOK(t) /\ ~Awaits(t) /\ ~DataOf(t)
  BY DEF SendError, Process, TransferInv, Story, Awaits, DataOf, Free, NoPacket
<1>2. outgoing' \in Packets /\ outgoing'.of = t /\ outgoing'.what # "data"
  BY <1>1 DEF Packet, Packets
<1>3. peer[t] # "idle"
  BY <1>1 DEF PeerOK, IdlePut, IdleRequest, Transactions
<1>4. QED
  BY <1>1, <1>2, <1>3, DeleteKept

LEMMA DeleteSessionKept ==
    ASSUME TransferInv, NEW t \in Transactions, DeleteSession(t)
    PROVE  TransferInv'
<1>1. /\ t \in Live /\ session[t].state = "delete" /\ Delete(t)
      /\ UNCHANGED <<pending, wire, peer, limit, answered, failures>>
      /\ outgoing' = outgoing
      /\ PeerOK(t) /\ LiveOK(t) /\ ~Awaits(t)
  BY DEF DeleteSession, Process, TransferInv, Story, Awaits, sides
<1>2. ~DataOf(t)
  BY <1>1 DEF LiveOK
<1>3. peer[t] = "idle" => outgoing.of # t
  BY <1>1, <1>2 DEF PeerOK, IdlePut, IdleRequest, DataOf, Transactions
<1>4. QED
  BY <1>1, <1>2, <1>3, DeleteKept

\* What changes of t, whose packet has been sent.
LEMMA SentStory ==
    ASSUME TransferInv, NEW t \in Transactions, outgoing.of = t, ~Free,
           outgoing' = NoPacket, UNCHANGED <<pending, wire>>,
           peer'[t] = IF peer[t] = "ended" THEN peer[t] ELSE Hears(outgoing),
           IF outgoing.what = "data" THEN Complete(t, outgoing.last)
           ELSE UNCHANGED <<session, status, left>>,
           answered \subseteq answered',
           DataOf(t) /\ outgoing.last /\ t \in Requests => t \in answered'
    PROVE  /\ session' \in [Transactions -> Sessions \cup {Gone}]
           /\ status' \in [Transactions -> Seq(Told \cup {"refused"})]
           /\ left' = left /\ Live' \subseteq Live
           /\ \A u \in Transactions \ {t} :
                  session'[u] = session[u] /\ status'[u] = status[u]
           /\ t \in Live' => session'[t].blocks = session[t].blocks
           /\ Story(t)' /\ (peer[t] # "idle" => peer'[t] # "idle")
<1>1. /\ Story(t) /\ PeerOK(t) /\ ToldOK(t) /\ ~DataOf(t)'
      /\ t \in Live => CountOK(t) /\ LiveOK(t)
      /\ session \in [Transactions -> Sessions \cup {Gone}]
      /\ status \in [Transactions -> Seq(Told \cup {"refused"})]
      /\ t # NoRequest /\ outgoing'.of # t
  BY Apart DEF TransferInv, TransferTypeOK, Story, DataOf, NoPacket
<1>2. CASE outgoing.what # "data"
  <2>1. UNCHANGED <<session, status, left>> /\ Live' = Live
    BY <1>2 DEF Live
  <2>2. ~DataOf(t) /\ peer[t] # "idle"
    BY <1>1, <1>2 DEF DataOf, PeerOK, IdlePut, IdleRequest, Transactions
  <2>3. peer'[t] \in {peer[t], "ended"}
    BY <1>2 DEF Hears
  <2>4. Awaits(t)' <=> Awaits(t)
    BY <1>1, <2>1, <2>2 DEF Awaits
  <2>5. TakenOff(0)
    BY WireSame DEF TransferInv
  <2>6. \A i \in 1 .. Len(wire') : IsStart(t, i)' => StartOK(t, i)'
    <3>1. CASE Awaits(t)
      <4>1. ASSUME NEW i \in 1 .. Len(wire'), IsStart(t, i)'
            PROVE  StartOK(t, i)'
        <5>1. i \in 1 .. Len(wire) /\ IsStart(t, i)
          BY <4>1 DEF IsStart
        <5>2. StartOK(t, i)
          BY <1>1, <5>1 DEF Story
        <5>3. QED
          BY <2>1, <2>3, <2>4, <5>2 DEF StartOK, IsStart
      <4>2. QED
        BY <4>1
    <3>2. CASE ~Awaits(t)
      BY <2>5, <3>2, NoStart
    <3>3. QED
      BY <3>1, <3>2
  <2>7. PeerOK(t)' /\ ToldOK(t)'
    <3>1. ToldOK(t)'
      BY <1>1, <2>1 DEF ToldOK
    <3>2. PeerOK(t)'
      BY <1>1, <2>2, <2>3, <2>4 DEF PeerOK
    <3>3. QED
      BY <3>1, <3>2
  <2>8. t \in Live' => CountOK(t)' /\ LiveOK(t)'
    BY <1>1, <2>1 DEF CountOK, LiveOK, How
  <2>9. QED
    BY <1>1, <2>1, <2>2, <2>3, <2>6, <2>7, <2>8 DEF Story
<1>3. CASE outgoing.what = "data"
  <2> DEFINE s == session[t]
             last == outgoing.last
  <2>1. DataOf(t) /\ ~Awaits(t) /\ Complete(t, last) /\ last \in BOOLEAN
    BY <1>3 DEF DataOf, Awaits, TransferInv, TransferTypeOK, Packets
  <2>2. /\ \A i \in 1 .. Len(wire') : ~IsStart(t, i)'
        /\ peer[t] # "answering" \/ t \notin Puts
    <3>1. TakenOff(0)
      BY WireSame DEF TransferInv
    <3>2. QED
      BY <1>1, <2>1, <3>1, NoStart DEF PeerOK
  <2>3. /\ peer[t] # "idle" => peer'[t] # "idle"
        /\ t \in Puts => peer'[t] # "idle"
        /\ t \in Requests => peer[t] # "idle"
        /\ t \in Puts /\ peer'[t] = "answering" => last
    BY <1>1, <1>3, <2>2 DEF Hears, PeerOK, IdleRequest, Transactions
  <2>4. CASE t \notin Live
    <3>1. UNCHANGED <<session, status, left>> /\ Live' = Live
      BY <2>1, <2>4 DEF Complete, Live
    <3>2. ToldOK(t)'
      BY <1>1, <3>1 DEF ToldOK
    <3>3. PeerOK(t)'
      BY <1>1, <2>3, <2>4, <3>1, Apart DEF PeerOK, Awaits
    <3>4. QED
      BY <1>1, <2>2, <2>3, <2>4, <3>1, <3>2, <3>3 DEF Story
  <2>5. CASE t \in Live /\ (~last \/ s.type = "send")
    <3> DEFINE st == IF ~last THEN IF s.ack THEN "wait_ack" ELSE "get_data"
                     ELSE "receive"
               u == [s EXCEPT !.state = st]
    <3>1. session' = [session EXCEPT ![t] = u] /\ UNCHANGED <<status, left>>
      BY <2>1, <2>5 DEF Complete, Update
    <3>2. /\ st \in {"get_data", "wait_ack", "receive"}
          /\ st = "receive" <=> last
      OBVIOUS
    <3> HIDE DEF st
    <3>3. s \in Sessions
      BY <2>5, LiveSessions DEF TransferInv
    <3>4. /\ u \in Sessions /\ u.state = st /\ u.blocks = s.blocks
          /\ u.type = s.type
      BY <3>2, <3>3, SetState
    <3> HIDE DEF u
    <3>5. /\ session' \in [Transactions -> Sessions \cup {Gone}]
          /\ session'[t] = u /\ Live' = Live
          /\ \A v \in Transactions \ {t} : session'[v] = session[v]
      <4>1. /\ session' \in [Transactions -> Sessions \cup {Gone}]
            /\ session'[t] = u /\ Live' = Live \cup {t}
            /\ \A v \in Transactions \ {t} : session'[v] = session[v]
        BY <3>1, <3>4, Updated DEF TransferInv
      <4>2. Live \cup {t} = Live
        BY <2>5
      <4>3. QED
        BY <4>1, <4>2
    <3>6. CountOK(t)'
      BY <1>1, <2>1, <2>5, <3>2, <3>4, <3>5, Apart DEF CountOK, LiveOK
    <3>7. LiveOK(t)'
      BY <1>1, <2>5, <3>2, <3>4, <3>5 DEF LiveOK
    <3>8. ToldOK(t)'
      BY <1>1, <3>1, <3>5 DEF ToldOK
    <3>9. PeerOK(t)'
      BY <1>1, <2>3, <3>2, <3>4, <3>5, Apart DEF PeerOK, Awaits
    <3>10. QED
      BY <1>1, <2>2, <2>3, <3>1, <3>4, <3>5, <3>6, <3>7, <3>8, <3>9 DEF Story
  <2>6. CASE t \in Live /\ last /\ s.type # "send"
    <3>1. /\ t \in Requests /\ t \notin Puts /\ s.state = "wait_send"
          /\ status[t] = <<>> /\ t # pending /\ t \in answered'
      BY <1>1, <2>1, <2>6, Apart
      DEF LiveOK, ToldOK, TransferInv, PendingOK, Transactions
    <3>2. /\ session' = [session EXCEPT ![t] = Gone]
          /\ Tell(t, "complete") /\ left' = left
      BY <2>1, <2>6, <3>1 DEF Complete, Delete, FreeService, How
    <3>3. /\ session' \in [Transactions -> Sessions \cup {Gone}]
          /\ Live' = Live \ {t}
          /\ \A u \in Transactions \ {t} : session'[u] = session[u]
      BY <3>2, Deleted DEF TransferInv
    <3>4. /\ status' \in [Transactions -> Seq(Told \cup {"refused"})]
          /\ Len(status'[t]) = 1
          /\ \A u \in Transactions \ {t} : status'[u] = status[u]
      BY <3>1, <3>2, ToldNow DEF TransferInv, Told
    <3>5. ToldOK(t)'
      BY <3>1, <3>3, <3>4 DEF ToldOK
    <3>6. PeerOK(t)'
      BY <1>1, <2>3, <3>1, <3>3, <3>4 DEF PeerOK, Hears
    <3>7. QED
      BY <1>1, <2>2, <2>3, <3>2, <3>3, <3>4, <3>5, <3>6 DEF Story
  <2>7. QED
    BY <2>1, <2>4, <2>5, <2>6
<1>4. QED
  BY <1>2, <1>3

LEMMA PacketSentKept ==
    ASSUME TransferInv, PacketSent
    PROVE  TransferInv'
<1> PICK t : t = outgoing.of
  OBVIOUS
<1>1. /\ outgoing \in Packets /\ t \in Transactions \cup {NoRequest}
      /\ outgoing' = NoPacket /\ outgoing' \in Packets /\ ~Free
      /\ outgoing'.what # "data"
      /\ UNCHANGED <<pending, wire, limit, failures>>
      /\ IF outgoing.what = "data" THEN Complete(t, outgoing.last)
         ELSE UNCHANGED <<session, status, left>>
      /\ answered \subseteq answered' /\ answered' \subseteq Transactions
      /\ DataOf(t) /\ outgoing.last /\ t \in Requests => t \in answered'
  BY Apart DEF PacketSent, TransferInv, TransferTypeOK, Packets, NoPacket, DataOf
<1>2. TakenOff(0) /\ OutgoingOf(t)
  BY <1>1, WireSame DEF TransferInv, OutgoingOf
<1>3. Orphan'
  BY <1>1 DEF Orphan
<1>4. CASE t = NoRequest
  <2>1. UNCHANGED <<session, status, left, peer>>
    BY <1>1, <1>4, Apart DEF TransferInv, Orphan, PacketSent
  <2>2. Live' = Live
    BY <2>1 DEF Live
  <2>3. TransferTypeOK' /\ PendingOK'
    <3>1. TransferTypeOK'
      BY <1>1, <2>1, <2>2 DEF TransferInv, TransferTypeOK
    <3>2. PendingOK'
      BY <1>1, <2>1, <2>2 DEF TransferInv, PendingOK
    <3>3. QED
      BY <3>1, <3>2
  <2>4. Alone(t)
    BY <1>1, <1>2, <2>1 DEF Alone
  <2>5. QED
    BY <1>1, <1>2, <1>3, <1>4, <2>3, <2>4, AloneKept, Apart
<1>5. CASE t \in Transactions
  <2> DEFINE hears == Hears(outgoing)
  <2>1. /\ peer \in [Transactions -> {"idle", "sending", "waiting", "answering",
                                      "ended"}]
        /\ peer' = IF peer[t] = "ended" THEN peer
                   ELSE [peer EXCEPT ![t] = hears]
    BY <1>5, Apart DEF PacketSent, TransferInv, TransferTypeOK
  <2>2. hears \in {"waiting", "answering", "ended", peer[t]}
    BY DEF Hears
  <2> HIDE DEF hears
  <2>3. /\ peer' \in [Transactions -> {"idle", "sending", "waiting",
                                       "answering", "ended"}]
        /\ peer'[t] = IF peer[t] = "ended" THEN peer[t] ELSE hears
        /\ \A u \in Transactions \ {t} : peer'[u] = peer[u]
    BY <1>5, <2>1, <2>2
  <2>4. /\ session' \in [Transactions -> Sessions \cup {Gone}]
        /\ status' \in [Transactions -> Seq(Told \cup {"refused"})]
        /\ left' = left /\ Live' \subseteq Live
        /\ \A u \in Transactions \ {t} :
               session'[u] = session[u] /\ status'[u] = status[u]
        /\ t \in Live' => session'[t].blocks = session[t].blocks
        /\ Story(t)' /\ (peer[t] # "idle" => peer'[t] # "idle")
    BY <1>1, <1>5, <2>3, SentStory DEF hears
  <2>5. TransferTypeOK'
    <3>1. \A u \in Live' : session'[u].blocks <= Blocks[u]
      BY <2>4 DEF TransferInv, TransferTypeOK, Live
    <3>2. QED
      BY <1>1, <2>3, <2>4, <3>1 DEF TransferInv, TransferTypeOK
  <2>6. PendingOK'
    <3>1. pending = t => outgoing.of = t /\ t \notin Live
      BY <1>5, Apart DEF TransferInv, PendingOK
    <3>2. pending # t
      BY <1>5, <3>1, Apart
      DEF TransferInv, TransferTypeOK, PendingOK, Story, PeerOK, IdlePut
    <3>3. pending # NoRequest => pending \in Transactions \ {t}
      BY <1>5, <3>2, Apart DEF TransferInv, TransferTypeOK
    <3>4. QED
      BY <1>1, <2>3, <2>4, <3>3 DEF TransferInv, PendingOK
  <2>7. Alone(t)
    BY <1>1, <1>2, <2>3, <2>4 DEF Alone
  <2>8. peer[t] = "ended" => peer'[t] = "ended"
    BY <2>3
  <2>9. QED
    BY <1>1, <1>2, <1>3, <2>4, <2>5, <2>6, <2>7, <2>8, AloneKept
<1>6. QED
  BY <1>1, <1>4, <1>5

\* A message is on top of the wire.
LEMMA Topped ==
    ASSUME TransferInv, wire # <<>>
    PROVE  /\ 1 \in 1 .. Len(wire) /\ Head(wire) = wire[1] /\ WireOK(1)
           /\ wire[1] \in Messages
           /\ Done => TakenOff(1) /\ wire' \in Seq(Messages)
<1>1. wire \in Seq(Messages) /\ \A i \in 1 .. Len(wire) : WireOK(i)
  BY DEF TransferInv, TransferTypeOK
<1>2. 1 \in 1 .. Len(wire) /\ Head(wire) = wire[1] /\ wire[1] \in Messages
  BY <1>1
<1>3. QED
  BY <1>1, <1>2, WireDone DEF TransferInv

\* The message is dropped, or the cloud is told that its session is gone.
LEMMA SkipKept ==
    ASSUME TransferInv, wire # <<>>, Done, NEW t \in Transactions,
           UNCHANGED <<pending, session, peer, limit, status, answered,
                       failures>>,
           \/ outgoing' = outgoing
           \/ /\ Free /\ outgoing' \in Packets /\ outgoing'.of = t
              /\ outgoing'.what # "data" /\ t \notin Live /\ peer[t] # "idle",
           left'.crossed = left.crossed,
           left' \in [crossed : BOOLEAN, silent : SUBSET Puts,
                      unanswered : SUBSET Requests]
    PROVE  TransferInv'
<1>1. TakenOff(1) /\ wire' \in Seq(Messages)
  BY Topped
<1>2. Live' = Live /\ Story(t) /\ (DataOf(t)' => DataOf(t))
  BY DEF Live, TransferInv, DataOf
<1>3. outgoing' \in Packets
  BY DEF TransferInv, TransferTypeOK
<1>4. TransferTypeOK'
  BY <1>1, <1>2, <1>3 DEF TransferInv, TransferTypeOK
<1>5. PendingOK' /\ Orphan'
  <2>1. PendingOK'
    BY <1>2 DEF TransferInv, PendingOK
  <2>2. CASE outgoing' = outgoing
    BY <1>2, <2>1, <2>2 DEF TransferInv, Orphan
  <2>3. CASE outgoing'.what # "data"
    BY <2>1, <2>3 DEF Orphan
  <2>4. QED
    BY <2>1, <2>2, <2>3
<1>6. Awaits(t) => Awaits(t)'
  BY <1>2 DEF Awaits
<1>7. \A i \in 1 .. Len(wire') : IsStart(t, i)' => StartOK(t, i)'
  <2>1. CASE ~Awaits(t) \/ t \in Requests \cap Live
    BY <1>1, <2>1, NoStart
  <2>2. CASE Awaits(t) /\ ~(t \in Requests \cap Live)
    BY <1>1, <1>2, <1>6, <2>2, StartsKept
  <2>3. QED
    BY <2>1, <2>2
<1>8. ToldOK(t)'
  BY <1>2 DEF Story, ToldOK
<1>9. PeerOK(t)'
  <2>1. CASE outgoing' = outgoing
    BY <1>2, <2>1
    DEF Story, PeerOK, IdlePut, IdleRequest, Awaits, DataOf
  <2>2. CASE peer[t] # "idle"
    BY <1>2, <1>6, <2>2 DEF Story, PeerOK
  <2>3. QED
    BY <2>1, <2>2
<1>10. t \in Live' => CountOK(t)' /\ LiveOK(t)'
  BY <1>2 DEF Story, CountOK, LiveOK, How, DataOf
<1>11. Alone(t)
  <2>1. OutgoingOf(t)
    BY DEF OutgoingOf, Free, NoPacket
  <2>2. QED
    BY <2>1 DEF Alone
<1>12. QED
  BY <1>1, <1>4, <1>5, <1>7, <1>8, <1>9, <1>10, <1>11, AloneKept DEF Story

LEMMA Replied ==
    ASSUME TransferInv, wire # <<>>, Head(wire).of \in Transactions,
           NEW what \in {"error", "busy"}, Reply(what)
    PROVE  /\ \/ outgoing' = outgoing
              \/ /\ Free /\ outgoing' \in Packets /\ outgoing'.of = Of
                 /\ outgoing'.what # "data"
           /\ left'.crossed = left.crossed
           /\ left' \in [crossed : BOOLEAN, silent : SUBSET Puts,
                         unanswered : SUBSET Requests]
<1>1. \/ outgoing' = outgoing
      \/ /\ Free /\ outgoing' \in Packets /\ outgoing'.of = Of
         /\ outgoing'.what # "data"
  <2>1. CASE Free
    <3>1. outgoing' = Packet(Of, what, TRUE)
      BY <2>1 DEF Reply
    <3>2. QED
      BY <2>1, <3>1 DEF Packet, Packets, Of
  <2>2. CASE ~Free
    BY <2>2 DEF Reply
  <2>3. QED
    BY <2>1, <2>2
<1> DEFINE more == left.unanswered \cup {Of}
<1>2. left \in [crossed : BOOLEAN, silent : SUBSET Puts,
                unanswered : SUBSET Requests]
  BY DEF TransferInv, TransferTypeOK
<1>3. CASE left' = left
  BY <1>1, <1>2, <1>3
<1>4. CASE Of \notin Puts /\ left' = [left EXCEPT !.unanswered = more]
  <2>1. more \in SUBSET Requests
    BY <1>2, <1>4 DEF Of, Transactions
  <2> HIDE DEF more
  <2>2. QED
    BY <1>1, <1>2, <1>4, <2>1
<1>5. QED
  BY <1>3, <1>4 DEF Reply

\* A session that receives its request is given the message, or its target.
LEMMA PassKept ==
    ASSUME TransferInv, wire # <<>>, NEW r \in Requests, NEW s \in Sessions,
           s.state = "receive", s.blocks = 0, s.type # "send",
           NEW last \in BOOLEAN, Pass(r, s, last), ~DataOf(r),
           status[r] = <<>>, peer[r] # "idle",
           r \in Live \/ IsStart(r, 1),
           UNCHANGED <<pending, outgoing, peer, limit, ends, failures>>
    PROVE  TransferInv'
<1>1. /\ r \in Transactions /\ r \notin Puts /\ r # NoRequest
      /\ UNCHANGED <<status, answered, left>> /\ Blocks[r] \in Nat \ {0}
      /\ pending # r
  BY Apart, CloudTransferAssumption DEF ends, TransferInv, TransferTypeOK
<1>2. PICK k \in {0, 1}, u \in Sessions :
        /\ TakenOff(k) /\ wire' \in Seq(Messages)
        /\ session' = [session EXCEPT ![r] = u] /\ u.blocks = 0
        /\ u.state \in {"get_data", "send_ack", "receive"} /\ u.type # "send"
        /\ k = 0 => u.state = "receive"
  <2>1. CASE ReceiveTarget(r, s)
    <3>1. PICK y \in {"data", "not_handled"} :
            session' = [session EXCEPT ![r] = [s EXCEPT !.type = y]]
      BY <2>1 DEF ReceiveTarget, Handled, Update
    <3> DEFINE u == [s EXCEPT !.type = y]
    <3>2. u \in Sessions /\ u.state = "receive" /\ u.type = y /\ u.blocks = 0
      BY SetType
    <3>3. session' = [session EXCEPT ![r] = u] /\ u.type # "send"
      BY <3>1, <3>2
    <3> HIDE DEF u
    <3>4. TakenOff(0) /\ wire' \in Seq(Messages)
      BY <2>1, WireSame DEF ReceiveTarget, TransferInv, TransferTypeOK
    <3>5. QED
      BY <3>2, <3>3, <3>4
  <2>2. ASSUME NEW v \in Sessions, v.state = "receive", v.blocks = 0,
               v.type # "send", PassBlock(r, v, last), Done
        PROVE  \E k \in {0, 1}, u \in Sessions :
                  /\ TakenOff(k) /\ wire' \in Seq(Messages)
                  /\ session' = [session EXCEPT ![r] = u] /\ u.blocks = 0
                  /\ u.state \in {"get_data", "send_ack", "receive"}
                  /\ u.type # "send" /\ (k = 0 => u.state = "receive")
    <3>1. PICK u \in Sessions :
            /\ session' = [session EXCEPT ![r] = u]
            /\ u.blocks = v.blocks
            /\ u.state \in {"get_data", "send_ack", v.state}
            /\ u.type = "send" <=> v.type = "send"
      BY <1>1, <2>2, Passed
    <3>2. TakenOff(1) /\ wire' \in Seq(Messages)
      BY <2>2, Topped
    <3>3. /\ u.blocks = 0 /\ u.type # "send"
          /\ u.state \in {"get_data", "send_ack", "receive"}
      BY <2>2, <3>1
    <3>4. 1 \in {0, 1} /\ 1 # 0
      OBVIOUS
    <3>5. QED
      BY <3>1, <3>2, <3>3, <3>4
  <2>3. CASE TakeData(r, s, last)
    <3>1. PICK y \in {"data", "not_handled"} :
            Done /\ PassBlock(r, [s EXCEPT !.type = y], last)
      BY <2>3 DEF TakeData, Handled
    <3> DEFINE v == [s EXCEPT !.type = y]
    <3>2. v \in Sessions /\ v.state = "receive" /\ v.type = y /\ v.blocks = 0
      BY SetType
    <3>3. PassBlock(r, v, last) /\ v.type # "send"
      BY <3>1, <3>2
    <3> HIDE DEF v
    <3>4. QED
      BY <2>2, <3>1, <3>2, <3>3
  <2>4. CASE Done /\ PassBlock(r, s, last)
    BY <2>2, <2>4
  <2>5. QED
    BY <2>1, <2>3, <2>4 DEF Pass
<1>3. /\ session' \in [Transactions -> Sessions \cup {Gone}]
      /\ session'[r] = u /\ Live' = Live \cup {r}
      /\ \A v \in Transactions \ {r} : session'[v] = session[v]
  BY <1>1, <1>2, Updated DEF TransferInv
<1>4. TransferTypeOK'
  <2>1. \A v \in Live' : session'[v].blocks <= Blocks[v]
    BY <1>1, <1>2, <1>3 DEF TransferInv, TransferTypeOK, Live
  <2>2. QED
    BY <1>1, <1>2, <1>3, <2>1 DEF TransferInv, TransferTypeOK
<1>5. PendingOK' /\ Orphan'
  <2>1. PendingOK'
    BY <1>1, <1>3 DEF TransferInv, PendingOK
  <2>2. Orphan'
    BY <1>1, <1>3 DEF TransferInv, Orphan
  <2>3. QED
    BY <2>1, <2>2
<1>6. \A i \in 1 .. Len(wire') : IsStart(r, i)' => StartOK(r, i)'
  <2>1. CASE k = 0
    <3>1. Awaits(r)'
      BY <1>2, <1>3, <2>1 DEF Awaits, DataOf
    <3>2. QED
      BY <1>1, <1>2, <2>1, <3>1, StartsKept
  <2>2. CASE k = 1
    BY <1>1, <1>2, <2>2, NoStart
  <2>3. QED
    BY <1>2, <2>1, <2>2
<1>7. ToldOK(r)' /\ PeerOK(r)'
  <2>1. status'[r] = <<>> /\ Len(status'[r]) <= 1 /\ <<>> # <<"complete">>
    BY <1>1
  <2>2. QED
    BY <1>1, <2>1 DEF ToldOK, PeerOK
<1>8. CountOK(r)' /\ LiveOK(r)'
  <2>1. CountOK(r)'
    BY <1>1, <1>2, <1>3 DEF CountOK, DataOf
  <2>2. LiveOK(r)'
    BY <1>1, <1>2, <1>3 DEF LiveOK, DataOf
  <2>3. QED
    BY <2>1, <2>2
<1>9. Alone(r)
  BY <1>1, <1>3 DEF Alone, OutgoingOf
<1>10. QED
  BY <1>1, <1>2, <1>4, <1>5, <1>6, <1>7, <1>8, <1>9, AloneKept DEF Story

LEMMA ReceiveRequestKept ==
    ASSUME TransferInv, ReceiveRequest
    PROVE  TransferInv'
<1> PICK r : r = Of
  OBVIOUS
<1>1. /\ r \in Requests /\ r \in Transactions /\ wire # <<>>
      /\ IsStart(r, 1) /\ r = Head(wire).of /\ Head(wire).last \in BOOLEAN
      /\ Story(r) /\ StartOK(r, 1) /\ peer[r] # "idle" /\ status[r] = <<>>
      /\ ~DataOf(r)
      /\ UNCHANGED <<pending, peer, limit, status, answered, failures>>
  <2>1. /\ r \in Requests /\ r \in Transactions /\ wire # <<>>
        /\ Head(wire).what = "start" /\ Head(wire).of = r
        /\ UNCHANGED <<pending, peer, limit, status, answered, failures>>
    BY Apart DEF ReceiveRequest, Comes, Of
  <2>2. /\ IsStart(r, 1) /\ wire[1] \in Messages /\ 1 \in 1 .. Len(wire)
        /\ Head(wire) = wire[1] /\ WireOK(1)
    BY <2>1, Topped DEF IsStart
  <2>3. StartOK(r, 1) /\ Story(r)
    BY <2>1, <2>2 DEF TransferInv, Story
  <2>4. Head(wire).last \in BOOLEAN /\ peer[r] # "idle"
    BY <2>1, <2>2 DEF Messages, WireOK
  <2>5. QED
    BY <2>1, <2>2, <2>3, <2>4 DEF StartOK, Awaits
<1>2. CASE r \notin Live /\ Done /\ Reply("busy") /\ UNCHANGED session
  <2>1. /\ \/ outgoing' = outgoing
           \/ /\ Free /\ outgoing' \in Packets /\ outgoing'.of = r
              /\ outgoing'.what # "data"
        /\ left'.crossed = left.crossed
        /\ left' \in [crossed : BOOLEAN, silent : SUBSET Puts,
                      unanswered : SUBSET Requests]
    BY <1>1, <1>2, Replied
  <2>2. QED
    BY <1>1, <1>2, <2>1, SkipKept
<1>3. CASE /\ UNCHANGED <<outgoing, left>>
           /\ Pass(r, IF r \in Live THEN session[r] ELSE New("target", "receive"),
                   Head(wire).last)
  <2> DEFINE s == IF r \in Live THEN session[r] ELSE New("target", "receive")
             last == Head(wire).last
  <2>1. s \in Sessions /\ s.state = "receive" /\ s.blocks = 0 /\ s.type # "send"
    <3>1. CASE r \in Live
      <4>1. s = session[r] /\ s \in Sessions
        BY <3>1, LiveSessions DEF TransferInv
      <4>2. s.state = "receive" /\ CountOK(r) /\ LiveOK(r)
        BY <1>1, <3>1, <4>1 DEF StartOK, Awaits, Story
      <4>3. QED
        BY <1>1, <4>1, <4>2, Apart DEF CountOK, LiveOK
    <3>2. CASE r \notin Live
      BY <3>2, NewSession
    <3>3. QED
      BY <3>1, <3>2
  <2>2. Pass(r, s, last)
    BY <1>3
  <2> HIDE DEF s, last
  <2>3. last \in BOOLEAN
    BY <1>1 DEF last
  <2>4. UNCHANGED <<pending, outgoing, peer, limit, ends, failures>>
    BY <1>1, <1>3 DEF ends
  <2>5. QED
    BY <1>1, <2>1, <2>2, <2>3, <2>4, PassKept
<1>4. QED
  BY <1>1, <1>2, <1>3 DEF ReceiveRequest

LEMMA ReceiveDataKept ==
    ASSUME TransferInv, ReceiveData
    PROVE  TransferInv'
<1> PICK r : r = Of
  OBVIOUS
<1>1. /\ r \in Requests /\ r \in Transactions /\ wire # <<>>
      /\ r = Head(wire).of /\ Head(wire).last \in BOOLEAN
      /\ Story(r) /\ peer[r] # "idle" /\ r \notin Puts
      /\ UNCHANGED <<pending, peer, limit, status, answered, failures>>
  <2>1. /\ wire # <<>> /\ Head(wire).what = "data" /\ Head(wire).of = r
        /\ UNCHANGED <<pending, peer, limit, status, answered, failures>>
    BY DEF ReceiveData, Comes, Of
  <2>2. /\ wire[1] \in Messages /\ Head(wire) = wire[1] /\ WireOK(1)
    BY <2>1, Topped
  <2>3. Head(wire).last \in BOOLEAN /\ r \in Requests /\ peer[r] # "idle"
    BY <2>1, <2>2 DEF Messages, WireOK
  <2>4. QED
    BY <2>1, <2>3, Apart DEF TransferInv
<1>2. CASE r \notin Live /\ Done /\ Reply("error") /\ UNCHANGED session
  <2>1. /\ \/ outgoing' = outgoing
           \/ /\ Free /\ outgoing' \in Packets /\ outgoing'.of = r
              /\ outgoing'.what # "data"
        /\ left'.crossed = left.crossed
        /\ left' \in [crossed : BOOLEAN, silent : SUBSET Puts,
                      unanswered : SUBSET Requests]
    BY <1>1, <1>2, Replied
  <2>2. QED
    BY <1>1, <1>2, <2>1, SkipKept
<1>3. CASE Done /\ UNCHANGED <<session, outgoing, left>>
  <2>1. left' \in [crossed : BOOLEAN, silent : SUBSET Puts,
                   unanswered : SUBSET Requests]
    BY <1>3 DEF TransferInv, TransferTypeOK
  <2>2. QED
    BY <1>1, <1>3, <2>1, SkipKept
<1>4. CASE /\ r \in Live /\ session[r].state = "receive"
           /\ Pass(r, session[r], Head(wire).last)
           /\ UNCHANGED <<outgoing, left>>
  <2> DEFINE s == session[r]
             last == Head(wire).last
  <2>1. s \in Sessions /\ CountOK(r) /\ LiveOK(r) /\ status[r] = <<>>
    BY <1>1, <1>4, LiveSessions DEF TransferInv, Story, ToldOK
  <2>2. s.blocks = 0 /\ s.type # "send" /\ ~DataOf(r) /\ s.state = "receive"
    BY <1>1, <1>4, <2>1 DEF CountOK, LiveOK
  <2>3. Pass(r, s, last) /\ last \in BOOLEAN
    BY <1>1, <1>4
  <2> HIDE DEF s, last
  <2>4. UNCHANGED <<pending, outgoing, peer, limit, ends, failures>>
    BY <1>1, <1>4 DEF ends
  <2>5. QED
    BY <1>1, <1>4, <2>1, <2>2, <2>3, <2>4, PassKept
<1>5. QED
  BY <1>1, <1>2, <1>3, <1>4 DEF ReceiveData

\* The session of a message is changed, and the message done with.
LEMMA HeardKept ==
    ASSUME TransferInv, wire # <<>>, Done, NEW t \in Transactions, t \in Live,
           NEW s \in Sessions, session' = [session EXCEPT ![t] = s],
           s.blocks = session[t].blocks,
           UNCHANGED <<pending, outgoing, peer, limit, status, left, failures>>,
           answered \subseteq answered', answered' \subseteq Transactions,
           PeerOK(t)', CountOK(t)', LiveOK(t)',
           \/ IsStart(t, 1)
           \/ session[t].state = "receive" <=> s.state = "receive"
    PROVE  TransferInv'
<1>1. /\ TakenOff(1) /\ wire' \in Seq(Messages) /\ Story(t)
      /\ status[t] = <<>> /\ t # pending
  BY Topped DEF TransferInv, Story, ToldOK, PendingOK
<1>2. /\ session' \in [Transactions -> Sessions \cup {Gone}]
      /\ session'[t] = s /\ Live' = Live \cup {t}
      /\ \A u \in Transactions \ {t} : session'[u] = session[u]
  BY Updated DEF TransferInv
<1>3. TransferTypeOK'
  <2>1. \A u \in Live' : session'[u].blocks <= Blocks[u]
    BY <1>2 DEF TransferInv, TransferTypeOK, Live
  <2>2. QED
    BY <1>1, <1>2, <2>1 DEF TransferInv, TransferTypeOK
<1>4. PendingOK' /\ Orphan'
  <2>1. PendingOK'
    BY <1>1, <1>2 DEF TransferInv, PendingOK
  <2>2. Orphan'
    BY <1>2 DEF TransferInv, Orphan
  <2>3. QED
    BY <2>1, <2>2
<1>5. ToldOK(t)'
  <2>1. status'[t] = <<>> /\ Len(status'[t]) <= 1 /\ <<>> # <<"complete">>
    BY <1>1
  <2>2. QED
    BY <2>1 DEF ToldOK
<1>6. \A i \in 1 .. Len(wire') : IsStart(t, i)' => StartOK(t, i)'
  <2>1. CASE ~Awaits(t)
    BY <1>1, <2>1, NoStart
  <2>2. CASE IsStart(t, 1) \/ t \in Requests \cap Live
    BY <1>1, <2>2, NoStart
  <2>3. CASE Awaits(t) /\ ~IsStart(t, 1) /\ t \notin Requests
    <3>1. Awaits(t)'
      BY <1>2, <2>3 DEF Awaits, DataOf
    <3>2. QED
      BY <1>1, <2>3, <3>1, StartsKept
  <2>4. QED
    BY <2>1, <2>2, <2>3
<1>7. Alone(t)
  BY <1>2 DEF Alone, OutgoingOf
<1>8. QED
  BY <1>1, <1>3, <1>4, <1>5, <1>6, <1>7, AloneKept DEF Story

LEMMA ReceiveAnswerKept ==
    ASSUME TransferInv, ReceiveAnswer
    PROVE  TransferInv'
<1> PICK p : p = Of
  OBVIOUS
<1>1. /\ p \in Puts /\ p \in Transactions /\ wire # <<>> /\ Done
      /\ IsStart(p, 1) /\ p = Head(wire).of /\ p \notin Requests
      /\ Story(p) /\ Awaits(p) /\ peer[p] = "ended"
      /\ UNCHANGED <<pending, peer, limit, status, failures>>
  <2>1. /\ p \in Puts /\ p \in Transactions /\ wire # <<>> /\ Done
        /\ p \notin Requests
        /\ Head(wire).what = "start" /\ Head(wire).of = p
        /\ UNCHANGED <<pending, peer, limit, status, failures>>
    BY Apart DEF ReceiveAnswer, Comes, Of
  <2>2. IsStart(p, 1) /\ 1 \in 1 .. Len(wire)
    BY <2>1, Topped DEF IsStart
  <2>3. StartOK(p, 1) /\ Story(p)
    BY <2>1, <2>2 DEF TransferInv, Story
  <2>4. QED
    BY <2>1, <2>2, <2>3 DEF StartOK
<1>2. CASE p \notin Live
  <2>1. Reply("error") /\ UNCHANGED <<session, answered>>
    BY <1>2 DEF ReceiveAnswer
  <2>2. /\ \/ outgoing' = outgoing
           \/ /\ Free /\ outgoing' \in Packets /\ outgoing'.of = p
              /\ outgoing'.what # "data"
        /\ left'.crossed = left.crossed
        /\ left' \in [crossed : BOOLEAN, silent : SUBSET Puts,
                      unanswered : SUBSET Requests]
    BY <1>1, <2>1, Replied
  <2>3. QED
    BY <1>1, <1>2, <2>1, <2>2, SkipKept
<1>3. CASE p \in Live
  <2> DEFINE s == [session[p] EXCEPT !.sending = FALSE]
  <2>1. /\ session[p] \in Sessions /\ session[p].state = "receive"
        /\ ~DataOf(p) /\ CountOK(p) /\ LiveOK(p)
    BY <1>1, <1>3, LiveSessions DEF TransferInv, Story, Awaits
  <2>2. /\ UNCHANGED <<outgoing, left>>
        /\ \/ /\ session' = [session EXCEPT ![p] = [s EXCEPT !.state = "delete"]]
              /\ answered' = answered \cup {p}
           \/ /\ session' = [session EXCEPT ![p] = Failed(s)]
              /\ answered' = answered
    BY <1>3, <2>1 DEF ReceiveAnswer, Update
  <2>3. /\ s \in Sessions /\ s.state = "receive" /\ s.sending = FALSE
        /\ s.type = session[p].type /\ s.blocks = session[p].blocks
    BY <2>1, SetAnswer
  <2> HIDE DEF s
  <2>4. PeerOK(p)' /\ ~DataOf(p)'
    BY <1>1, <2>1, <2>2 DEF PeerOK, DataOf
  <2>5. CASE /\ session' = [session EXCEPT ![p] = [s EXCEPT !.state = "delete"]]
             /\ answered' = answered \cup {p}
    <3> DEFINE u == [s EXCEPT !.state = "delete"]
    <3>1. /\ u \in Sessions /\ u.state = "delete" /\ u.type = s.type
          /\ u.blocks = s.blocks /\ u.sending = s.sending
      BY <2>3, SetState
    <3>2. session' = [session EXCEPT ![p] = u]
      BY <2>5
    <3> HIDE DEF u
    <3>3. session'[p] = u
      BY <1>1, <3>1, <3>2, Updated DEF TransferInv
    <3>4. CountOK(p)' /\ LiveOK(p)'
      BY <1>1, <2>1, <2>3, <2>4, <2>5, <3>1, <3>3 DEF CountOK, LiveOK
    <3>5. answered \subseteq answered' /\ answered' \subseteq Transactions
      BY <1>1, <2>5 DEF TransferInv, TransferTypeOK
    <3>6. QED
      BY <1>1, <1>3, <2>2, <2>3, <2>4, <3>1, <3>2, <3>4, <3>5, HeardKept
  <2>6. CASE /\ session' = [session EXCEPT ![p] = Failed(s)]
             /\ answered' = answered
    <3> DEFINE u == Failed(s)
    <3>1. /\ u \in Sessions /\ u.state = "send_error" /\ u.type = s.type
          /\ u.blocks = s.blocks
      BY <2>3, FailedFields
    <3>2. session' = [session EXCEPT ![p] = u]
      BY <2>6
    <3> HIDE DEF u
    <3>3. session'[p] = u
      BY <1>1, <3>1, <3>2, Updated DEF TransferInv
    <3>4. CountOK(p)' /\ LiveOK(p)'
      BY <1>1, <2>1, <2>3, <2>4, <3>1, <3>3 DEF CountOK, LiveOK
    <3>5. answered \subseteq answered' /\ answered' \subseteq Transactions
      BY <2>6 DEF TransferInv, TransferTypeOK
    <3>6. QED
      BY <1>1, <1>3, <2>2, <2>3, <2>4, <3>1, <3>2, <3>4, <3>5, HeardKept
  <2>7. QED
    BY <2>2, <2>5, <2>6
<1>4. QED
  BY <1>2, <1>3

LEMMA ReceiveAckKept ==
    ASSUME TransferInv, ReceiveAck
    PROVE  TransferInv'
<1> PICK t : t = Of
  OBVIOUS
<1>1. /\ t \in Transactions /\ wire # <<>> /\ Done /\ Story(t)
      /\ UNCHANGED <<pending, outgoing, peer, limit, status, answered, left,
                     failures>>
  <2>1. /\ wire # <<>> /\ Head(wire).what = "ack" /\ Head(wire).of = t /\ Done
        /\ UNCHANGED <<pending, outgoing, peer, limit, status, answered, left,
                       failures>>
    BY DEF ReceiveAck, Comes, Of, ends
  <2>2. Head(wire) = wire[1] /\ WireOK(1)
    BY <2>1, Topped
  <2>3. QED
    BY <2>1, <2>2 DEF WireOK, TransferInv
<1>2. CASE t \in Live /\ session[t].sending
  <2> DEFINE s == session[t]
             st == IF s.state = "wait_ack" THEN "get_data" ELSE s.state
             u == [s EXCEPT !.ack = FALSE, !.state = st]
  <2>1. s \in Sessions /\ CountOK(t) /\ LiveOK(t) /\ PeerOK(t)
    BY <1>1, <1>2, LiveSessions DEF TransferInv, Story
  <2>2. session' = [session EXCEPT ![t] = u]
    BY <1>2 DEF ReceiveAck, Update
  <2>3. st \in {"get_data", "wait_send", "wait_ack", "receive", "send_ack",
                "send_error", "delete"}
        /\ (st = s.state \/ (s.state = "wait_ack" /\ st = "get_data"))
    BY <2>1, SessionFields
  <2> HIDE DEF st
  <2>4. /\ u \in Sessions /\ u.state = st /\ u.sending = s.sending
        /\ u.start = s.start /\ u.blocks = s.blocks /\ u.type = s.type
    BY <2>1, <2>3 DEF Sessions
  <2>5. u.ack = FALSE
    BY <2>1 DEF Sessions
  <2> HIDE DEF u
  <2>6. session'[t] = u /\ t \in Live'
    BY <1>1, <2>2, <2>4, Updated DEF TransferInv
  <2>7. DataOf(t)' <=> DataOf(t)
    BY <1>1 DEF DataOf
  <2>8. CountOK(t)'
    BY <1>1, <2>1, <2>3, <2>4, <2>6, <2>7 DEF CountOK
  <2>9. LiveOK(t)'
    <3>1. How(session[t])' = How(session[t])
      BY <2>4, <2>6 DEF How
    <3>2. QED
      BY <1>1, <2>1, <2>3, <2>4, <2>6, <2>7, <3>1 DEF LiveOK
  <2>10. PeerOK(t)'
    <3>1. ASSUME t \in Puts, peer[t] = "idle" PROVE IdlePut(t)'
      <4>1. IdlePut(t)
        BY <2>1, <3>1 DEF PeerOK
      <4>2. CASE DataOf(t)
        BY <1>1, <2>6, <2>7, <4>1, <4>2 DEF IdlePut, DataOf
      <4>3. CASE ~DataOf(t)
        <5>1. /\ s.state \in {"get_data", "delete"} /\ s.start /\ s.sending
              /\ outgoing.of # t
          BY <1>2, <4>1, <4>3 DEF IdlePut, DataOf
        <5>2. /\ u.state \in {"get_data", "delete"} /\ u.start /\ u.sending
              /\ ~u.ack
          BY <2>3, <2>4, <2>5, <5>1
        <5>3. QED
          BY <1>1, <2>6, <5>1, <5>2 DEF IdlePut
      <4>4. QED
        BY <4>2, <4>3
    <3>2. t \in Requests => peer[t] # "idle"
      BY <1>2, <2>1 DEF PeerOK, IdleRequest
    <3>3. t \in Puts /\ peer[t] = "answering" => Awaits(t)'
      BY <1>2, <2>1, <2>3, <2>4, <2>6, <2>7 DEF PeerOK, Awaits
    <3>4. QED
      BY <1>1, <3>1, <3>2, <3>3 DEF PeerOK
  <2>11. s.state = "receive" <=> u.state = "receive"
    BY <2>3, <2>4
  <2>12. answered \subseteq answered' /\ answered' \subseteq Transactions
    BY <1>1 DEF TransferInv, TransferTypeOK
  <2>13. QED
    BY <1>1, <1>2, <2>2, <2>4, <2>8, <2>9, <2>10, <2>11, <2>12, HeardKept
<1>3. CASE UNCHANGED session
  <2>1. left' \in [crossed : BOOLEAN, silent : SUBSET Puts,
                   unanswered : SUBSET Requests]
    BY <1>1 DEF TransferInv, TransferTypeOK
  <2>2. QED
    BY <1>1, <1>3, <2>1, SkipKept
<1>4. QED
  BY <1>2, <1>3 DEF ReceiveAck

LEMMA ReceiveErrorKept ==
    ASSUME TransferInv, ReceiveError
    PROVE  TransferInv'
<1> PICK t : t = Of
  OBVIOUS
<1>1. /\ t \in Transactions /\ wire # <<>> /\ Done /\ Story(t)
      /\ peer[t] = "ended"
      /\ UNCHANGED <<pending, outgoing, peer, limit, answered, failures>>
  <2>1. /\ wire # <<>> /\ Head(wire).what = "error" /\ Head(wire).of = t /\ Done
        /\ UNCHANGED <<pending, outgoing, peer, limit, answered, failures>>
    BY DEF ReceiveError, Comes, Of
  <2>2. Head(wire) = wire[1] /\ WireOK(1)
    BY <2>1, Topped
  <2>3. QED
    BY <2>1, <2>2 DEF WireOK, TransferInv
<1>2. CASE /\ t \in Live /\ session' = [session EXCEPT ![t] = Gone]
           /\ Tell(t, "error")
           /\ left' = [left EXCEPT !.crossed =
                           @ \/ (outgoing.what = "data" /\ outgoing.of = t)]
  <2> DEFINE c == left.crossed \/ DataOf(t)
  <2>1. /\ TakenOff(1) /\ wire' \in Seq(Messages) /\ status[t] = <<>>
        /\ t # pending
    BY <1>1, <1>2, Topped DEF Story, ToldOK, TransferInv, PendingOK
  <2>2. /\ session' \in [Transactions -> Sessions \cup {Gone}]
        /\ Live' = Live \ {t}
        /\ \A u \in Transactions \ {t} : session'[u] = session[u]
    BY <1>1, <1>2, Deleted DEF TransferInv
  <2>3. /\ status' \in [Transactions -> Seq(Told \cup {"refused"})]
        /\ status'[t] = <<"error">> /\ status'[t] # <<>>
        /\ Len(status'[t]) = 1
        /\ \A u \in Transactions \ {t} : status'[u] = status[u]
    BY <1>1, <1>2, <2>1, ToldNow DEF TransferInv, Told
  <2>4. c \in BOOLEAN /\ left' = [left EXCEPT !.crossed = c]
    BY <1>2 DEF DataOf, TransferInv, TransferTypeOK
  <2> HIDE DEF c
  <2>5. /\ left' \in [crossed : BOOLEAN, silent : SUBSET Puts,
                      unanswered : SUBSET Requests]
        /\ left'.crossed = c
    BY <2>4 DEF TransferInv, TransferTypeOK
  <2>6. TransferTypeOK'
    <3>1. \A u \in Live' : session'[u].blocks <= Blocks[u]
      BY <2>2 DEF TransferInv, TransferTypeOK, Live
    <3>2. QED
      BY <1>1, <2>1, <2>2, <2>3, <2>5, <3>1 DEF TransferInv, TransferTypeOK
  <2>7. PendingOK'
    BY <1>1, <2>2 DEF TransferInv, PendingOK
  <2>8. Orphan'
    <3>1. CASE DataOf(t)
      BY <1>1, <2>3, <2>5, <3>1 DEF Orphan, DataOf, c
    <3>2. CASE ~DataOf(t)
      <4>1. left.crossed => left'.crossed
        BY <2>5 DEF c
      <4>2. outgoing.what = "data" => outgoing.of \in Transactions \ {t}
        BY <3>2 DEF DataOf, TransferInv, Orphan
      <4>3. QED
        BY <1>1, <2>2, <2>3, <4>1, <4>2 DEF TransferInv, Orphan
    <3>3. QED
      BY <3>1, <3>2
  <2>9. ToldOK(t)'
    <3>1. <<"error">> # <<"complete">>
      OBVIOUS
    <3>2. QED
      BY <1>1, <2>1, <2>2, <2>3, <3>1 DEF ToldOK
  <2>10. PeerOK(t)'
    BY <1>1 DEF PeerOK
  <2>11. \A i \in 1 .. Len(wire') : IsStart(t, i)' => StartOK(t, i)'
    <3>1. CASE ~Awaits(t) \/ t \in Requests \cap Live
      BY <1>1, <2>1, <3>1, NoStart
    <3>2. CASE Awaits(t) /\ t \notin Requests
      <4>1. Awaits(t)'
        BY <1>1, <2>2, <3>2 DEF Awaits, DataOf
      <4>2. QED
        BY <1>1, <2>1, <3>2, <4>1, StartsKept
    <3>3. QED
      BY <1>2, <3>1, <3>2
  <2>12. Alone(t)
    BY <1>1, <2>2, <2>3 DEF Alone, OutgoingOf
  <2>13. QED
    BY <1>1, <2>1, <2>2, <2>6, <2>7, <2>8, <2>9, <2>10, <2>11, <2>12, AloneKept
    DEF Story
<1>3. CASE UNCHANGED <<session, status, left>>
  <2>1. left' \in [crossed : BOOLEAN, silent : SUBSET Puts,
                   unanswered : SUBSET Requests]
    BY <1>3 DEF TransferInv, TransferTypeOK
  <2>2. QED
    BY <1>1, <1>3, <2>1, SkipKept
<1>4. QED
  BY <1>2, <1>3 DEF ReceiveError

LEMMA ReceiveCapabilityKept ==
    ASSUME TransferInv, ReceiveCapability
    PROVE  TransferInv'
<1>1. /\ wire # <<>> /\ Done /\ Free /\ limit' \in {0, 1}
      /\ outgoing' = Packet(NoRequest, "capability", FALSE)
      /\ UNCHANGED <<pending, session, peer, status, answered, left, failures>>
  BY DEF ReceiveCapability, Comes, ends
<1>2. /\ outgoing' \in Packets /\ outgoing'.of = NoRequest
      /\ outgoing'.what # "data" /\ outgoing.what # "data"
  BY <1>1 DEF Packet, Packets, Free, NoPacket
<1>3. TakenOff(1) /\ wire' \in Seq(Messages) /\ Live' = Live
  BY <1>1, Topped DEF Live
<1>4. TransferTypeOK' /\ PendingOK' /\ Orphan'
  <2>1. TransferTypeOK'
    BY <1>1, <1>2, <1>3 DEF TransferInv, TransferTypeOK
  <2>2. PendingOK'
    BY <1>1, <1>3 DEF TransferInv, PendingOK
  <2>3. Orphan'
    BY <1>2 DEF Orphan
  <2>4. QED
    BY <2>1, <2>2, <2>3
<1>5. Alone(NoRequest)
  BY <1>1, <1>2 DEF Alone, OutgoingOf
<1>6. QED
  BY <1>3, <1>4, <1>5, AloneKept, Apart

LEMMA LoseKept ==
    ASSUME TransferInv, Lose
    PROVE  TransferInv'
<1>1. /\ failures < MaxFailures /\ failures' = failures + 1
      /\ status' = [t \in Transactions |-> status[t] \o Cancelled(t)]
      /\ left' = [left EXCEPT !.silent = @ \cup Silenced]
      /\ session' = [t \in Transactions |-> Gone] /\ pending' = NoRequest
      /\ outgoing' = NoPacket /\ wire' = <<>>
      /\ peer' = [t \in Transactions |->
                     IF peer[t] = "idle" /\ t \notin Live THEN "idle"
                                                          ELSE "ended"]
      /\ limit' = limit /\ answered' = answered
  BY DEF Lose
<1>2. /\ outgoing' \in Packets /\ outgoing'.what = "none"
      /\ outgoing'.of = NoRequest
  BY <1>1 DEF NoPacket, Packets
<1>3. Live' = {}
  BY <1>1 DEF Live
<1>4. ASSUME NEW t \in Transactions
      PROVE  /\ status'[t] \in Seq(Told \cup {"refused"})
             /\ ToldOK(t)'
             /\ t \notin Live /\ t # pending => status'[t] = status[t]
  <2>1. /\ status[t] \in Seq(Told \cup {"refused"}) /\ ToldOK(t)
        /\ t \in Live => LiveOK(t)
        /\ status'[t] = status[t] \o Cancelled(t)
    BY <1>1 DEF TransferInv, Story, TransferTypeOK
  <2>2. CASE Cancelled(t) = <<>>
    <3>1. status'[t] = status[t]
      BY <2>1, <2>2
    <3>2. QED
      BY <1>1, <1>3, <2>1, <3>1, Apart DEF ToldOK
  <2>3. CASE /\ t \in Live \/ t = pending
             /\ \E how \in Told : /\ Cancelled(t) = <<how>>
                                  /\ how = "complete" => t \in answered
    <3>1. PICK how \in Told : /\ Cancelled(t) = <<how>>
                              /\ how = "complete" => t \in answered
      BY <2>3
    <3>2. status[t] = <<>>
      BY <2>1, <2>3 DEF ToldOK
    <3>3. status'[t] = <<how>>
      BY <2>1, <3>1, <3>2
    <3>4. /\ <<how>> \in Seq(Told \cup {"refused"})
          /\ Len(<<how>>) <= 1
          /\ <<how>> = <<"complete">> => how = "complete"
      OBVIOUS
    <3>5. ToldOK(t)'
      BY <1>1, <1>3, <3>1, <3>3, <3>4, Apart DEF ToldOK
    <3>6. QED
      BY <2>3, <3>3, <3>4, <3>5
  <2>4. \/ Cancelled(t) = <<>>
        \/ /\ t \in Live \/ t = pending
           /\ \E how \in Told : /\ Cancelled(t) = <<how>>
                                /\ how = "complete" => t \in answered
    <3>1. ASSUME NEW how \in Told, t \in Live \/ t = pending,
                 Cancelled(t) = <<how>>, how = "complete" => t \in answered
          PROVE  /\ t \in Live \/ t = pending
                 /\ \E h \in Told : /\ Cancelled(t) = <<h>>
                                    /\ h = "complete" => t \in answered
      BY <3>1
    <3>2. "cancel" \in Told /\ "error" \in Told /\ "cancel" # "complete"
          /\ "error" # "complete"
      BY DEF Told
    <3>3. CASE t = pending
      <4>1. Cancelled(t) = <<"cancel">>
        BY <3>3 DEF Cancelled
      <4>2. QED
        BY <3>1, <3>2, <3>3, <4>1
    <3>4. CASE /\ t # pending
               /\ t \notin Live \/ (session[t].state = "send_error" /\ ~DataOf(t))
      BY <3>4 DEF Cancelled, DataOf
    <3>5. CASE t # pending /\ t \in Live /\ DataOf(t)
      <4>1. Cancelled(t) = <<"error">>
        BY <3>5 DEF Cancelled, DataOf
      <4>2. QED
        BY <3>1, <3>2, <3>5, <4>1
    <3>6. CASE /\ t # pending /\ t \in Live /\ session[t].state = "delete"
               /\ ~DataOf(t)
      <4>1. Cancelled(t) = <<How(session[t])>>
        BY <3>6 DEF Cancelled, DataOf
      <4>2. /\ How(session[t]) \in Told
            /\ How(session[t]) = "complete" => t \in answered
        BY <2>1, <3>6 DEF How, LiveOK, Told
      <4>3. QED
        BY <3>1, <3>6, <4>1, <4>2
    <3>7. CASE /\ t # pending /\ t \in Live /\ ~DataOf(t)
               /\ session[t].state \notin {"send_error", "delete"}
      <4>1. Cancelled(t) = <<"cancel">>
        BY <3>7 DEF Cancelled, DataOf
      <4>2. QED
        BY <3>1, <3>2, <3>7, <4>1
    <3>8. QED
      BY <3>3, <3>4, <3>5, <3>6, <3>7
  <2>5. QED
    BY <2>2, <2>3, <2>4
<1>5. TransferTypeOK'
  <2>1. left' \in [crossed : BOOLEAN, silent : SUBSET Puts,
                   unanswered : SUBSET Requests]
    <3> DEFINE more == left.silent \cup Silenced
    <3>1. /\ left \in [crossed : BOOLEAN, silent : SUBSET Puts,
                       unanswered : SUBSET Requests]
          /\ left' = [left EXCEPT !.silent = more]
      BY <1>1 DEF TransferInv, TransferTypeOK
    <3>2. more \in SUBSET Puts
      BY <3>1 DEF Silenced, Owned
    <3> HIDE DEF more
    <3>3. QED
      BY <3>1, <3>2
  <2>2. /\ wire' \in Seq(Messages)
        /\ session' \in [Transactions -> Sessions \cup {Gone}]
    BY <1>1
  <2>3. failures' \in 0 .. MaxFailures
    BY <1>1, CloudTransferAssumption DEF TransferInv, TransferTypeOK
  <2>4. peer' \in [Transactions -> {"idle", "sending", "waiting", "answering",
                                    "ended"}]
    BY <1>1
  <2>5. status' \in [Transactions -> Seq(Told \cup {"refused"})]
    BY <1>1, <1>4
  <2>6. QED
    BY <1>1, <1>2, <1>3, <2>1, <2>2, <2>3, <2>4, <2>5 DEF TransferInv, TransferTypeOK
<1>6. PendingOK' /\ Orphan'
  BY <1>1, <1>2 DEF PendingOK, Orphan
<1>7. ASSUME NEW t \in Transactions PROVE PeerOK(t)'
  <2>1. /\ peer'[t] \in {"idle", "ended"} /\ outgoing'.of # t
        /\ peer'[t] = "idle" => peer[t] = "idle" /\ t \notin Live
    BY <1>1, <1>2, Apart
  <2>2. t \in Requests /\ peer[t] = "idle" => status'[t] = <<>>
    BY <1>4, Apart DEF TransferInv, Story, PeerOK, IdleRequest, TransferTypeOK
  <2>3. QED
    BY <1>3, <2>1, <2>2 DEF PeerOK, IdlePut, IdleRequest
<1>8. QED
  BY <1>1, <1>3, <1>4, <1>5, <1>6, <1>7 DEF TransferInv, Story

LEMMA StutterKept ==
    ASSUME TransferInv, UNCHANGED transferVars
    PROVE  TransferInv'
<1>1. UNCHANGED <<pending, session, outgoing, wire, peer, limit, status,
                  answered, left, failures>>
  BY DEF transferVars, sides, ends
<1>2. Live' = Live
  BY <1>1 DEF Live
<1>3. TransferTypeOK' /\ PendingOK' /\ Orphan'
  <2>1. TransferTypeOK'
    BY <1>1, <1>2 DEF TransferInv, TransferTypeOK
  <2>2. PendingOK' /\ Orphan'
    BY <1>1, <1>2 DEF TransferInv, PendingOK, Orphan
  <2>3. QED
    BY <2>1, <2>2
<1>4. TakenOff(0) /\ Alone(NoRequest)
  BY <1>1, WireSame DEF TransferInv, Alone, OutgoingOf
<1>5. QED
  BY <1>3, <1>4, AloneKept, Apart

LEMMA TransferBegins == TransferInit => TransferInv
<1> SUFFICES ASSUME TransferInit PROVE TransferInv
  OBVIOUS
<1>1. Live = {} /\ wire = <<>> /\ outgoing = NoPacket /\ pending = NoRequest
  BY DEF TransferInit, Live
<1>2. /\ NoPacket \in Packets /\ NoPacket.what = "none"
      /\ NoPacket.of = NoRequest
  BY DEF NoPacket, Packets
<1>3. TransferTypeOK
  <2>1. 0 \in 0 .. MaxFailures
    BY CloudTransferAssumption
  <2>2. QED
    BY <1>1, <1>2, <2>1 DEF TransferInit, TransferTypeOK
<1>4. PendingOK /\ Orphan
  BY <1>1, <1>2 DEF PendingOK, Orphan
<1>5. ASSUME NEW t \in Transactions PROVE Story(t)
  <2>1. status[t] = <<>> /\ peer[t] = "idle" /\ t \notin Live
        /\ outgoing.of # t /\ Len(status[t]) <= 1 /\ <<>> # <<"complete">>
    BY <1>1, <1>2, Apart DEF TransferInit
  <2>2. QED
    BY <1>1, <2>1 DEF Story, ToldOK, PeerOK, IdlePut, IdleRequest
<1>6. QED
  BY <1>1, <1>3, <1>4, <1>5 DEF TransferInv

LEMMA TransferStep == TransferInv /\ [TransferNext]_transferVars => TransferInv'
<1> SUFFICES ASSUME TransferInv, [TransferNext]_transferVars PROVE TransferInv'
  OBVIOUS
<1>1. ASSUME NEW p \in Puts, InitiatePut(p) PROVE TransferInv'
  BY <1>1, InitiateKept
<1>2. CASE StartSession
  BY <1>2, StartKept
<1>3. CASE PacketSent
  BY <1>3, PacketSentKept
<1>4. CASE Processes
  BY <1>4, ReceiveRequestKept, ReceiveDataKept, ReceiveAnswerKept,
     ReceiveAckKept, ReceiveErrorKept, ReceiveCapabilityKept DEF Processes
<1>5. ASSUME NEW t \in Transactions, Turns(t) PROVE TransferInv'
  BY <1>5, GetDataKept, SendAckKept, SendErrorKept, DeleteSessionKept DEF Turns
<1>6. CASE \/ \E p \in Puts : CloudAnswers(p)
           \/ \E t \in Transactions : CloudError(t) \/ CloudAck(t)
           \/ \E r \in Requests, last \in BOOLEAN : CloudRequests(r, last)
           \/ CloudCapability
  BY <1>6, CloudKept
<1>7. CASE Lose
  BY <1>7, LoseKept
<1>8. CASE UNCHANGED transferVars
  BY <1>8, StutterKept
<1>9. QED
  BY <1>1, <1>2, <1>3, <1>4, <1>5, <1>6, <1>7, <1>8 DEF TransferNext

LEMMA TransferSafeNow == TransferInv => TransferSafe
<1> SUFFICES ASSUME TransferInv PROVE TransferSafe
  OBVIOUS
<1>1. ToldOnce
  BY DEF TransferInv, Story, ToldOK, ToldOnce
<1>2. SenderAlive
  <2> SUFFICES ASSUME outgoing.what = "data", ~left.crossed
               PROVE  outgoing.of \in Live
                      /\ session[outgoing.of].state = "wait_send"
    BY DEF SenderAlive
  <2>1. outgoing.of \in Transactions /\ outgoing.of \in Live
    BY DEF TransferInv, Orphan
  <2>2. LiveOK(outgoing.of)
    BY <2>1 DEF TransferInv, Story
  <2>3. QED
    BY <2>1, <2>2 DEF LiveOK, DataOf
<1>3. QED
  BY <1>1, <1>2 DEF TransferSafe
-----------------------------------------------------------------------------
(* The types of the sessions, of the packet and of what is on its way, for *)
(* any number of puts, requests and blocks.                                *)
THEOREM TransferTypes == TransferSpec => []TransferTypeOK
<1>1. TransferInv => TransferTypeOK
  BY DEF TransferInv
<1>2. QED
  BY <1>1, TransferBegins, TransferStep, PTL DEF TransferSpec

(* The application hears once at most of each put and of each request, and *)
(* "complete" only of one that was answered; and the packet on its way is  *)
(* that of a live session that waits for it, but for one that an error of  *)
(* the cloud crossed: data_service_initiate to msg_delete_session.         *)
THEOREM TransferIsSafe == TransferSpec => []TransferSafe
<1>1. QED
  BY TransferSafeNow, TransferBegins, TransferStep, PTL DEF TransferSpec
=============================================================================
