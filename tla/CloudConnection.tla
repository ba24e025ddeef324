--------------------------- MODULE CloudConnection ---------------------------
(***************************************************************************)
(* The connection of the Digi connector to its cloud: connector_edp_step   *)
(* and the processes of the states it is in, with the network callbacks of *)
(* the platform.  The handshake, the one packet being sent, the one        *)
(* receive buffer and who has it, keepalives, redirection, closing and     *)
(* connecting again.                                                       *)
(*                                                                         *)
(* A packet is its name.  The cloud answers when it chooses.  MaxFaults    *)
(* bounds lost connections and refusals, MaxSlow the sends that the        *)
(* socket does not take at once, MaxRedirects the redirections.            *)
(***************************************************************************)
EXTENDS Naturals, Sequences, SequencesExt

CONSTANTS WaitCount,       \* CONNECTOR_WAIT_COUNT, 5 in the code
          MaxFaults, MaxSlow, MaxRedirects

ASSUME CloudConnectionAssumption ==
    /\ WaitCount \in Nat \ {0}
    /\ {MaxFaults, MaxSlow, MaxRedirects} \subseteq Nat

VARIABLES
    edp,        \* state of the transport, of the protocol, and of the end
    packet,     \* what is being sent
    receive,    \* the buffer: free, being filled, held by a facility
    cc,         \* the facility of connection control
    got_device_id,
    url,        \* config.cloud_url
    dead,       \* the destination of a redirection is gone
    got,        \* the handshake as the cloud received it
    faults, slows, redirects,
    ghost       \* of what the properties leave out

budgets == <<faults, slows, redirects>>
connectionVars ==
    <<edp, packet, receive, cc, got_device_id, url, dead, got, budgets, ghost>>

\* The redirect report is named by its code.
Reports == {"not_redirect", "success", "error"}
Script(id, report) ==
    <<"version", "keepalive", "protocol", "identity", id, "cloud_url",
      "vendor_id", "device_type", "capabilities", "targets", report,
      "connection_report", "complete">>
Scripts == {Script(id, r) : id \in {"device_id", "provisioning"},
                            r \in Reports}
Sent == UNION {ToSet(s) : s \in Scripts}
States == Sent \cup {"connect", "version?", "protocol?", "device_id?", "report"}

ConnectionTypeOK ==
    /\ edp \in [active : {"idle", "open", "send", "receive", "close",
                          "redirect", "wait", "terminate", "assert"},
                at : States, auto : BOOLEAN,
                cause : {"disconnected", "no_keepalive", "abort", "error"}]
    /\ packet \in Sent \cup {"none", "rx_keepalive", "facility"}
    /\ receive \in [free : {"none", "one", "loop"}, filling : BOOLEAN,
                    held : BOOLEAN, missed : 0 .. WaitCount]
    /\ cc \in [state : {"redirect", "connection", "close", "connect"},
               report : Reports,
               urls : 0 .. 2]
    /\ got_device_id \in BOOLEAN /\ url \in {"origin", "other"}
    /\ dead \in BOOLEAN /\ got \in Seq(Sent)
    /\ faults \in 0 .. MaxFaults /\ slows \in 0 .. MaxSlow
    /\ redirects \in 0 .. MaxRedirects
    /\ ghost \in [slow : BOOLEAN, swallowed : BOOLEAN, kept : BOOLEAN]

\* connector_edp_init, of a gateway that has its device id or has it not.
ConnectionInit ==
    /\ edp = [active |-> "open", at |-> "connect", auto |-> TRUE,
              cause |-> "disconnected"]
    /\ packet = "none"
    /\ receive = [free |-> "none", filling |-> FALSE, held |-> FALSE,
                  missed |-> 0]
    /\ cc = [state |-> "redirect", report |-> "not_redirect", urls |-> 0]
    /\ got_device_id \in BOOLEAN /\ url = "origin" /\ dead = FALSE
    /\ got = <<>> /\ faults = 0 /\ slows = 0 /\ redirects = 0
    /\ ghost = [slow |-> FALSE, swallowed |-> FALSE, kept |-> FALSE]

Established == edp.active \in {"send", "receive"}
At(p) == edp.active = "open" /\ edp.at = p
Fault == faults < MaxFaults /\ faults' = faults + 1
Close(why) == edp' = [edp EXCEPT !.active = "close", !.cause = why]
-----------------------------------------------------------------------------
(* The network.                                                            *)

\* A socket connected: the buffers are free.
Opened(e) ==
    /\ edp' = [e EXCEPT !.active = "open", !.at = "version"]
    /\ packet' = "none"
    /\ receive' = [receive EXCEPT !.free = "one"]
    /\ got' = <<>> /\ ghost' = [ghost EXCEPT !.slow = FALSE]

\* Within 30 seconds, or not.
Accepts == url = "origin" \/ ~dead
Refused == (~Accepts /\ UNCHANGED faults) \/ Fault

Connect ==
    /\ At("connect")
    /\ \/ Accepts /\ Opened(edp) /\ UNCHANGED faults
       \/ /\ Refused /\ edp' = [edp EXCEPT !.active = "wait"]
          /\ UNCHANGED <<packet, receive, got, ghost>>
    /\ UNCHANGED <<cc, got_device_id, url, dead, slows, redirects>>

\* 30 seconds pass.
Reconnect ==
    /\ edp.active = "wait" /\ edp' = [edp EXCEPT !.active = "open"]
    /\ UNCHANGED <<packet, receive, cc, got_device_id, url, dead, got,
                   budgets, ghost>>

DestinationDies ==
    /\ ~dead /\ redirects > 0 /\ dead' = TRUE
    /\ UNCHANGED <<edp, packet, receive, cc, got_device_id, url, got,
                   budgets, ghost>>

\* The socket takes p whole; the rest of it later; or fails.
Whole(p) ==
    /\ packet' = "none"
    /\ got' = IF p \in Sent THEN Append(got, p) ELSE got
    /\ UNCHANGED <<faults, slows>>

Partly(p) ==
    /\ slows < MaxSlow /\ slows' = slows + 1
    /\ packet' = p
    /\ ghost' = [ghost EXCEPT !.slow = TRUE]
    /\ UNCHANGED <<edp, got, faults>>

SendFails(p) ==
    Fault /\ Close("error") /\ packet' = p /\ UNCHANGED <<got, slows, ghost>>
-----------------------------------------------------------------------------
(* edp_tcp_open_process: what is sent.  The call that makes a packet goes  *)
(* on to next if the packet is sent at once, else to later, which for most *)
(* packets is to make it again.                                            *)
Goes(p, to) ==
    edp' = [edp EXCEPT !.at = to,
                !.active = IF p = "complete" THEN "receive" ELSE @]

Flush ==
    /\ packet # "none"
    /\ \/ Whole(packet) /\ Goes(packet, edp.at) /\ UNCHANGED ghost
       \/ Partly(packet) /\ UNCHANGED edp
       \/ SendFails(packet)

\* Mutant: the packet that is still to be sent is written over.
Open_Overwrite(p, next, later) ==
    /\ \/ Whole(p) /\ Goes(p, next) /\ UNCHANGED ghost
       \/ Partly(p) /\ edp' = [edp EXCEPT !.at = next]
       \/ SendFails(p)
    /\ UNCHANGED <<receive, got_device_id, url, dead, redirects>>

Open(p, next, later) ==
    /\ \/ /\ packet = "none"
          /\ \/ Whole(p) /\ Goes(p, next) /\ UNCHANGED ghost
             \/ Partly(p) /\ edp' = [edp EXCEPT !.at = later]
             \/ SendFails(p)
       \/ Flush
    /\ UNCHANGED <<receive, got_device_id, url, dead, redirects>>

Send(p, next) == At(p) /\ Open(p, next, p) /\ UNCHANGED cc

SendVersion == Send("version", "version?")
SendKeepalive == Send("keepalive", "protocol")
SendProtocolVersion == Send("protocol", "protocol?")
SendIdentity == Send("identity", "device_id")
SendDeviceId == got_device_id /\ Send("device_id", "cloud_url")
SendProvisioning ==
    /\ ~got_device_id /\ At("device_id")
    /\ Open("provisioning", "device_id?", "device_id") /\ UNCHANGED cc
SendCloudUrl == Send("cloud_url", "vendor_id")
SendVendorId == Send("vendor_id", "device_type")
SendDeviceType == Send("device_type", "capabilities")
SendComplete == Send("complete", "complete")

(* layer_discovery_facility: each facility has its turn, and after the     *)
(* last the list is begun anew unless its packet went at once.             *)
Discover(p, next, later) ==
    At(p) /\ Open(p, next, later)

SendCapabilities ==
    Discover("capabilities", "targets", "targets") /\ UNCHANGED cc
SendTargets == Discover("targets", "report", "report") /\ UNCHANGED cc

SendRedirectReport ==
    /\ At("report") /\ cc.state = "redirect"
    /\ Open(cc.report, "report", "report")
    /\ cc' = IF packet # "none" THEN cc
             ELSE [cc EXCEPT !.state = "connection",
                             !.report = "not_redirect"]

SendConnectionReport ==
    /\ At("report") /\ cc.state = "connection"
    /\ Open("connection_report", "complete", "capabilities")
    /\ UNCHANGED cc
-----------------------------------------------------------------------------
(* The receive buffer: tcp_new_receive_packet and its release.  A buffer   *)
(* released twice is its own successor in the list of free ones.           *)
Taken(r) == [r EXCEPT !.free = IF @ = "one" THEN "none" ELSE @]
Released(r) == [r EXCEPT !.free = IF @ = "none" THEN "one" ELSE "loop"]

\* While opening, the buffer is taken before the packet begins, and a
\* keepalive does not give it back: tcp_receive_packet.
TakeBuffer ==
    /\ edp.active = "open" /\ edp.at \in {"version?", "protocol?", "device_id?"}
    /\ ~receive.filling /\ receive.free # "none"
    /\ receive' = [Taken(receive) EXCEPT !.filling = TRUE]
    /\ UNCHANGED <<edp, packet, cc, got_device_id, url, dead, got, budgets,
                   ghost>>

OpeningKeepalive ==
    /\ edp.active = "open" /\ receive.filling
    /\ receive' = [receive EXCEPT !.filling = FALSE, !.missed = 0]
    /\ ghost' = [ghost EXCEPT !.swallowed = TRUE]
    /\ UNCHANGED <<edp, packet, cc, got_device_id, url, dead, got, budgets>>

\* The cloud's answer, good or bad, or the end of the connection.
Answer(p, next, why) ==
    /\ At(p) /\ receive.filling
    /\ receive' = [Released(receive) EXCEPT !.filling = FALSE, !.missed = 0]
    /\ \/ edp' = [edp EXCEPT !.at = next] /\ UNCHANGED faults
       \/ Fault /\ Close(why)
    /\ UNCHANGED <<packet, cc, url, dead, got, slows, redirects, ghost>>

\* A version that is refused is closed as an error: the connector, which
\* tells the application so, connects again.
ReceiveVersion == Answer("version?", "keepalive", "error")
                  /\ UNCHANGED got_device_id
\* And one of the protocol as an abort, after which it ends.
ReceiveProtocolVersion == Answer("protocol?", "identity", "abort")
                          /\ UNCHANGED got_device_id
ReceiveDeviceId == Answer("device_id?", "cloud_url", "error")
                   /\ got_device_id' = (edp'.at = "cloud_url")

Listening ==
    edp.active = "receive" \/ (edp.active = "open" /\ receive.filling)

\* tcp_receive_buffer: nothing comes for another TX interval.
Silence ==
    /\ Listening
    /\ receive' = [receive EXCEPT !.missed = @ + 1]
    /\ IF receive.missed + 1 < WaitCount THEN UNCHANGED <<edp, faults>>
       ELSE Fault /\ Close(IF Established THEN "no_keepalive" ELSE "error")
    /\ UNCHANGED <<packet, cc, got_device_id, url, dead, got, slows,
                   redirects, ghost>>

Lost ==
    /\ Listening /\ Fault /\ Close("error")
    /\ UNCHANGED <<packet, receive, cc, got_device_id, url, dead, got, slows,
                   redirects, ghost>>
-----------------------------------------------------------------------------
(* Established: sending and receiving alternate.                           *)
Turn(from, to) == edp.active = from /\ edp' = [edp EXCEPT !.active = to]

\* edp_tcp_send_process, with the keepalive after 60 seconds.
SendPacket ==
    /\ edp.active = "send"
    /\ \/ packet = "none" /\ UNCHANGED <<packet, got, faults, slows, ghost>>
          /\ Turn("send", "receive")
       \/ \E p \in IF packet = "none" THEN {"rx_keepalive"} ELSE {packet} :
             \/ Whole(p) /\ Turn("send", "receive") /\ UNCHANGED ghost
             \/ /\ slows < MaxSlow /\ slows' = slows + 1 /\ packet' = p
                /\ Turn("send", "receive") /\ UNCHANGED <<got, faults, ghost>>
             \/ SendFails(p)
    /\ UNCHANGED <<receive, cc, got_device_id, url, dead, redirects>>

\* A packet begins to come: its header, for which no buffer is needed.
ReceivePart ==
    /\ Turn("receive", "send")
    /\ ~receive.filling /\ receive.free # "none"
    /\ receive' = [Taken(receive) EXCEPT !.filling = TRUE, !.missed = 0]
    /\ UNCHANGED <<packet, cc, got_device_id, url, dead, got, budgets, ghost>>

ReceiveKeepalive ==
    /\ Turn("receive", "send") /\ ~receive.filling
    /\ receive' = [receive EXCEPT !.missed = 0]
    /\ UNCHANGED <<packet, cc, got_device_id, url, dead, got, budgets, ghost>>

\* Mutant: the buffer that the facility holds is released.
ReceivePayload_Release ==
    /\ edp.active = "receive" /\ receive.filling
    /\ IF receive.held THEN edp' = [edp EXCEPT !.active = "assert"]
                            /\ UNCHANGED receive
       ELSE /\ Turn("receive", "send")
            /\ \E h \in BOOLEAN :
                  receive' = [Released(receive) EXCEPT !.filling = FALSE,
                                                       !.held = h]
    /\ UNCHANGED <<packet, cc, got_device_id, url, dead, got, budgets, ghost>>

\* edp_tcp_receive_process gives it to a facility, which is done with it or
\* holds it: a facility that had one already fails an assertion.
ReceivePayload ==
    /\ edp.active = "receive" /\ receive.filling
    /\ IF receive.held THEN edp' = [edp EXCEPT !.active = "assert"]
                            /\ UNCHANGED receive
       ELSE /\ Turn("receive", "send")
            /\ \/ receive' = [receive EXCEPT !.filling = FALSE, !.held = TRUE]
               \/ receive' = [Released(receive) EXCEPT !.filling = FALSE]
    /\ UNCHANGED <<packet, cc, got_device_id, url, dead, got, budgets, ghost>>

\* layer_facility_process: a facility is done, or sends something.
ProcessFacility ==
    /\ Turn("receive", "send")
    /\ \/ /\ receive.held /\ UNCHANGED packet
          /\ receive' = [Released(receive) EXCEPT !.held = FALSE]
       \/ /\ packet = "none" /\ packet' = "facility"
          /\ UNCHANGED receive
       \/ UNCHANGED <<packet, receive>>
    /\ UNCHANGED <<cc, got_device_id, url, dead, got, budgets, ghost>>

\* cc_process: packets of the connection control.
Control ==
    /\ edp.active = "receive" /\ receive.filling
    /\ receive' = [Released(receive) EXCEPT !.filling = FALSE]
    /\ UNCHANGED <<packet, got_device_id, url, dead, got, slows, ghost>>

Disconnect == Control /\ Fault /\ Close("disconnected")
              /\ UNCHANGED <<cc, redirects>>

Redirect ==
    /\ Control /\ redirects < MaxRedirects /\ redirects' = redirects + 1
    /\ edp' = [edp EXCEPT !.active = "redirect"]
    /\ \E n \in 1 .. 2 : cc' = [cc EXCEPT !.state = "close", !.urls = n]
    /\ UNCHANGED faults
-----------------------------------------------------------------------------
(* tcp_close_cloud, whose packet of a facility stays with the facility.    *)

\* Mutant: only what the cloud closed is connected again.
Reconnects_Disconnected(why) == why = "disconnected"

Reconnects(why) == why \notin {"abort"}    \* app_connector_reconnect

Closed(e, why) ==
    /\ edp' = [e EXCEPT !.at = "connect", !.auto = Reconnects(why),
                        !.cause = "disconnected"]
    /\ packet' = "none"
    /\ receive' = [receive EXCEPT !.filling = FALSE, !.missed = 0]
    /\ ghost' = [ghost EXCEPT !.swallowed = FALSE,
                              !.kept = @ \/ receive.held]
    /\ UNCHANGED <<got_device_id, url, dead, got, budgets>>

\* connector_facility_cc_cleanup
CcReset == [cc EXCEPT !.state = "redirect", !.report = "not_redirect",
                      !.urls = 0]

CloseProcess ==
    /\ edp.active = "close"
    /\ Closed([edp EXCEPT !.active = IF edp.cause = "abort" THEN "terminate"
                                                            ELSE "idle"],
              edp.cause)
    /\ cc' = CcReset

Idle ==
    /\ edp.active = "idle" /\ edp.auto
    /\ edp' = [edp EXCEPT !.active = "open"]
    /\ UNCHANGED <<packet, receive, cc, got_device_id, url, dead, got,
                   budgets, ghost>>

(* edp_redirect_process: close, connect to one url after the other, or to  *)
(* the first cloud again if none accepts.                                  *)
RedirectClose ==
    /\ edp.active = "redirect" /\ cc.state = "close"
    /\ Closed(edp, "redirected") /\ cc' = [cc EXCEPT !.state = "connect"]

RedirectConnect ==
    /\ edp.active = "redirect" /\ cc.state = "connect" /\ cc.urls > 0
    /\ url' = "other"
    /\ \/ /\ ~dead /\ Opened(edp) /\ UNCHANGED faults
          /\ cc' = [cc EXCEPT !.state = "redirect", !.report = "success"]
       \/ /\ (dead /\ UNCHANGED faults) \/ Fault
          /\ cc' = [cc EXCEPT !.urls = @ - 1]
          /\ UNCHANGED <<edp, packet, receive, got, ghost>>
    /\ UNCHANGED <<got_device_id, dead, slows, redirects>>

RedirectFails ==
    /\ edp.active = "redirect" /\ cc.state = "connect" /\ cc.urls = 0
    /\ edp' = [edp EXCEPT !.active = "open"]
    /\ cc' = [cc EXCEPT !.state = "redirect", !.report = "error"]
    /\ url' = "origin"
    /\ UNCHANGED <<packet, receive, got_device_id, dead, got, budgets, ghost>>
-----------------------------------------------------------------------------
SendHandshake ==
    \/ SendVersion \/ SendKeepalive \/ SendProtocolVersion \/ SendIdentity
    \/ SendDeviceId \/ SendProvisioning \/ SendCloudUrl \/ SendVendorId
    \/ SendDeviceType \/ SendCapabilities \/ SendTargets \/ SendRedirectReport
    \/ SendConnectionReport \/ SendComplete
Answers == ReceiveVersion \/ ReceiveProtocolVersion \/ ReceiveDeviceId
Receives ==
    \/ Silence \/ Lost \/ ReceivePart \/ ReceiveKeepalive \/ ReceivePayload
    \/ ProcessFacility \/ Disconnect \/ Redirect \/ OpeningKeepalive
Closing == CloseProcess \/ Idle \/ RedirectClose \/ RedirectConnect
           \/ RedirectFails

ConnectionNext ==
    \/ Connect \/ Reconnect \/ SendHandshake \/ TakeBuffer \/ Answers
    \/ Receives \/ SendPacket \/ Closing \/ DestinationDies

\* The thread runs connector_step again and again; the socket takes what is
\* sent; a cloud that accepted answers.
ConnectionSteps ==
    Connect \/ Reconnect \/ SendHandshake \/ TakeBuffer \/ SendPacket \/ Closing
ConnectionFairness ==
    WF_connectionVars(ConnectionSteps) /\ WF_connectionVars(Answers)

ConnectionSpec ==
    ConnectionInit /\ [][ConnectionNext]_connectionVars /\ ConnectionFairness
-----------------------------------------------------------------------------
(* The cloud receives every message of the handshake before those that     *)
(* follow it, and, if the socket takes each at once, no message twice; and *)
(* the gateway is connected only after all of it.                          *)
HandshakeInOrder ==
    /\ \E s \in Scripts :
          /\ \A n \in 1 .. Len(got) : \E k \in 1 .. Len(s) :
                ToSet(SubSeq(got, 1, n)) = ToSet(SubSeq(s, 1, k))
          /\ ghost.slow \/ IsPrefix(got, s)
    /\ Established => Last(got) = "complete"

(* The report of a redirection tells the truth about the cloud that the    *)
(* gateway is connected to.                                                *)
ReportTrue ==
    Established =>
        /\ "success" \in ToSet(got) => url = "other"
        /\ "error" \in ToSet(got) => url = "origin"

(* So both sides of a connection know what the other one is.               *)
HandshakeTrue == HandshakeInOrder /\ ReportTrue

(* Unless a facility held it when a connection was closed, the receive     *)
(* buffer has one owner, or none, and no assertion about it fails.         *)
BufferHasOneOwner ==
    ghost.kept \/
        /\ edp.active # "assert" /\ receive.free # "loop"
        /\ ~(receive.filling /\ receive.held)
        /\ receive.filling \/ receive.held => receive.free = "none"

(* Whatever is lost, the gateway ends up connected; unless the protocol    *)
(* version was refused, a keepalive took the buffer of the handshake, the  *)
(* destination of a redirection it once reached is gone, or a facility     *)
(* held the buffer when a connection was closed.                           *)
ComesBack ==
    <>[](\/ Established \/ edp.active = "terminate"
         \/ ghost.swallowed \/ ghost.kept \/ (url = "other" /\ dead))
=============================================================================
