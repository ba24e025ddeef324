---------------------------- MODULE CloudTransfer ----------------------------
(***************************************************************************)
(* The message facility of the Digi connector and the data service on it:  *)
(* sessions that carry a put request of the gateway, or a device request   *)
(* of the cloud, and their answers, in blocks, over the one packet that    *)
(* CloudConnection sends at a time.  The connector's thread takes one step *)
(* after the other; puts come from other threads.                          *)
(*                                                                         *)
(* A session is named by its request.  Its callbacks of the application    *)
(* may be busy, which is to be called again later, or give an error.       *)
(* Blocks bounds those of each put and answer, and a request has two at    *)
(* most; MaxWire bounds what is on its way from the cloud, MaxFailures its *)
(* errors and the lost connections.                                        *)
(***************************************************************************)
EXTENDS Naturals, Sequences, FiniteSets

CONSTANTS Puts, Requests, NoRequest, Blocks, MaxWire, MaxFailures

Transactions == Puts \cup Requests

ASSUME CloudTransferAssumption ==
    /\ IsFiniteSet(Transactions) /\ Puts \cap Requests = {}
    /\ NoRequest \notin Transactions
    /\ Blocks \in [Transactions -> Nat \ {0}]
    /\ {MaxWire, MaxFailures} \subseteq Nat

VARIABLES
    pending,     \* pending_service_request
    session,     \* the sessions, by their requests
    outgoing,    \* the packet being sent
    wire,        \* what comes from the cloud, in order
    peer,        \* how far the cloud is with a transaction
    limit,       \* max_transactions of the cloud, 0 for no limit
    status,      \* what the application was told at the end
    answered,    \* the transactions whose answer has all been passed on
    failures,
    left         \* ghost: what the properties leave out

sides == <<outgoing, wire, peer>>
ends == <<status, answered, left>>
transferVars ==
    <<pending, session, sides, limit, ends, failures>>

Gone == [state |-> "gone"]
Live == {t \in Transactions : session[t] # Gone}
Owned == {t \in Live : t \in Puts}
NoPacket == [of |-> NoRequest, what |-> "none", last |-> FALSE]

Sessions ==
    [state : {"get_data", "wait_send", "wait_ack", "receive", "send_ack",
              "send_error", "delete"},
     sending : BOOLEAN,     \* not MsgIsReceiving
     start : BOOLEAN, ack : BOOLEAN, blocks : Nat,
     type : {"send", "target", "data", "reply", "not_handled"}]

Packets == [of : Transactions \cup {NoRequest},
            what : {"none", "data", "ack", "error", "busy", "capability"},
            last : BOOLEAN]
Messages == [of : Transactions \cup {NoRequest},
             what : {"start", "data", "ack", "error", "capability"},
             last : BOOLEAN]
Told == {"complete", "cancel", "error"}

TransferTypeOK ==
    /\ pending \in Puts \cup {NoRequest}
    /\ session \in [Transactions -> Sessions \cup {Gone}]
    /\ \A t \in Live : session[t].blocks <= Blocks[t]
    /\ outgoing \in Packets /\ wire \in Seq(Messages)
    /\ peer \in [Transactions -> {"idle", "sending", "waiting", "answering",
                                  "ended"}]
    /\ limit \in {0, 1}
    /\ status \in [Transactions -> Seq(Told \cup {"refused"})]
    /\ answered \subseteq Transactions
    /\ failures \in 0 .. MaxFailures
    /\ left \in [crossed : BOOLEAN, silent : SUBSET Puts,
                 unanswered : SUBSET Requests]

TransferInit ==
    /\ pending = NoRequest
    /\ session = [t \in Transactions |-> Gone]
    /\ outgoing = NoPacket /\ wire = <<>>
    /\ peer = [t \in Transactions |-> "idle"]
    /\ limit = 0
    /\ status = [t \in Transactions |-> <<>>] /\ answered = {}
    /\ failures = 0
    /\ left = [crossed |-> FALSE, silent |-> {},
               unanswered |-> {}]

Tell(t, how) == status' = [status EXCEPT ![t] = Append(@, how)]
Packet(t, what, last) == [of |-> t, what |-> what, last |-> last]
Free == outgoing = NoPacket
-----------------------------------------------------------------------------
(* Sessions: msg_create_session, msg_set_error, msg_delete_session.        *)
New(type, state) ==
    [state |-> state, sending |-> type = "send", start |-> TRUE,
     ack |-> FALSE, blocks |-> 0, type |-> type]

\* Nothing was sent of a put that fails at its start; else the cloud is told.
Failed(s) ==
    IF s.type = "send" /\ s.sending /\ s.start
    THEN [s EXCEPT !.state = "delete"]
    ELSE [s EXCEPT !.state = "send_error"]

\* The service is freed, and tells the application that the session ended,
\* unless it has been told of an error: here, after an error of its own.
FreeService(t, how) ==
    IF session[t].state = "send_error"
    THEN status' = status /\ left' = [left EXCEPT !.silent =
             IF t \in Puts /\ status[t] = <<>> THEN @ \cup {t} ELSE @]
    ELSE Tell(t, how) /\ UNCHANGED left

\* How the session ends that has no error: it was answered, or the callback
\* failed at the start of a put.
How(s) == IF s.type = "send" /\ s.start /\ s.sending THEN "cancel"
          ELSE "complete"

Delete(t) ==
    session' = [session EXCEPT ![t] = Gone] /\ FreeService(t, How(session[t]))

Update(t, s) == session' = [session EXCEPT ![t] = s]
-----------------------------------------------------------------------------
(* Puts.                                                                   *)

\* data_service_initiate, of any thread.
InitiatePut(p) ==
    /\ peer[p] = "idle" /\ status[p] = <<>> /\ p \notin Live /\ pending # p
    /\ IF pending = NoRequest
       THEN pending' = p /\ UNCHANGED status
       ELSE Tell(p, "refused") /\ UNCHANGED pending
    /\ UNCHANGED <<session, sides, limit, answered, left, failures>>

\* Mutant: one session fewer than the cloud allows.
StartSession_Fewer ==
    /\ pending # NoRequest
    /\ limit = 0 \/ Cardinality(Owned) + 1 < limit
    /\ Update(pending, New("send", "get_data"))
    /\ pending' = NoRequest
    /\ UNCHANGED <<sides, limit, ends, failures>>

\* msg_start_session: waits while the cloud's limit is reached.
StartSession ==
    /\ pending # NoRequest
    /\ limit = 0 \/ Cardinality(Owned) < limit
    /\ Update(pending, New("send", "get_data"))
    /\ pending' = NoRequest
    /\ UNCHANGED <<sides, limit, ends, failures>>

(* msg_process_pending: the sessions in turn, once no put is pending.      *)
Process(t, state) ==
    pending = NoRequest /\ t \in Live /\ session[t].state = state

\* msg_send_data, and flow control after every block but the last.
SendBlock(t, s, last) ==
    /\ outgoing' = Packet(t, "data", last)
    /\ \E ack \in BOOLEAN :
           Update(t, [s EXCEPT !.state = "wait_send", !.start = FALSE,
                               !.ack = @ \/ (ack /\ ~last),
                               !.blocks = @ + 1])

\* The callback fills a block, be it not the last, or gives an error.
More_OneMore(t, s) == s.blocks < Blocks[t]     \* Mutant

More(t, s) == s.blocks + 1 < Blocks[t]

FillData(t, s) ==
    \E last \in BOOLEAN : (last \/ More(t, s)) /\ SendBlock(t, s, last)
Refuse(t, s) == Update(t, Failed(s)) /\ UNCHANGED outgoing

\* process_send_request
SendRequest(t, s) == s.type = "send" /\ (FillData(t, s) \/ Refuse(t, s))

\* process_data_service_device_response: an error in the answer to a request
\* that was not handled changes nothing.
DeviceResponse(t, s) ==
    \/ s.type # "send" /\ FillData(t, s)
    \/ s.type \notin {"send", "not_handled"} /\ Refuse(t, s)

GetData(t) ==
    /\ Process(t, "get_data") /\ Free
    /\ SendRequest(t, session[t]) \/ DeviceResponse(t, session[t])
    /\ UNCHANGED <<pending, wire, peer, limit, ends, failures>>

SendAck(t) ==
    /\ Process(t, "send_ack") /\ Free
    /\ outgoing' = Packet(t, "ack", FALSE)
    /\ Update(t, [session[t] EXCEPT !.state = "receive"])
    /\ UNCHANGED <<pending, wire, peer, limit, ends, failures>>

SendError(t) ==
    /\ Process(t, "send_error") /\ Free
    /\ outgoing' = Packet(t, "error", TRUE)
    /\ Delete(t)
    /\ UNCHANGED <<pending, wire, peer, limit, answered, failures>>

DeleteSession(t) ==
    /\ Process(t, "delete") /\ Delete(t)
    /\ UNCHANGED <<pending, sides, limit, answered, failures>>
-----------------------------------------------------------------------------
(* The packet is sent, and the cloud has it: msg_send_complete.            *)
Complete(t, last) ==
    LET s == session[t] IN
    IF t \notin Live THEN UNCHANGED <<session, status, left>>
    ELSE IF ~last
    THEN /\ Update(t, [s EXCEPT !.state = IF s.ack THEN "wait_ack"
                                                    ELSE "get_data"])
         /\ UNCHANGED <<status, left>>
    ELSE IF s.type = "send"
    THEN Update(t, [s EXCEPT !.state = "receive"]) /\ UNCHANGED <<status, left>>
    ELSE Delete(t)

Hears(p) ==
    IF p.what = "data" /\ p.of \in Puts
    THEN IF p.last THEN "answering" ELSE "waiting"
    ELSE IF p.what \in {"data", "error", "busy"} /\ p.last THEN "ended"
         ELSE peer[p.of]

PacketSent ==
    /\ ~Free /\ outgoing' = NoPacket
    /\ peer' = IF outgoing.of = NoRequest \/ peer[outgoing.of] = "ended"
               THEN peer ELSE [peer EXCEPT ![outgoing.of] = Hears(outgoing)]
    /\ IF outgoing.what = "data" THEN Complete(outgoing.of, outgoing.last)
       ELSE UNCHANGED <<session, status, left>>
    /\ answered' = IF outgoing.what = "data" /\ outgoing.last
                      /\ outgoing.of \in Requests
                   THEN answered \cup {outgoing.of} ELSE answered
    /\ UNCHANGED <<pending, wire, limit, failures>>
-----------------------------------------------------------------------------
(* The cloud.                                                              *)
Says(t, what, last) ==
    /\ Len(wire) < MaxWire
    /\ wire' = Append(wire, [of |-> t, what |-> what, last |-> last])

CloudRequests(r, last) ==
    /\ \/ peer[r] = "idle" /\ (last \/ Blocks[r] > 1)
       \/ peer[r] = "sending" /\ last
    /\ Says(r, IF peer[r] = "idle" THEN "start" ELSE "data", last)
    /\ peer' = [peer EXCEPT ![r] = IF last THEN "waiting" ELSE "sending"]
    /\ UNCHANGED <<pending, session, outgoing, limit, ends, failures>>

CloudAnswers(p) ==
    /\ peer[p] = "answering" /\ peer' = [peer EXCEPT ![p] = "ended"]
    /\ Says(p, "start", TRUE)
    /\ UNCHANGED <<pending, session, outgoing, limit, ends, failures>>

\* The gateway waits for it, the window being full.
CloudAck(t) ==
    /\ t \in Live /\ session[t].ack /\ outgoing.of # t /\ peer[t] # "ended"
    /\ \A i \in 1 .. Len(wire) : wire[i].what # "ack"
    /\ Says(t, "ack", FALSE)
    /\ UNCHANGED <<pending, session, outgoing, peer, limit, ends, failures>>

\* A timeout, or a user who cancels.
CloudError(t) ==
    /\ failures < MaxFailures /\ failures' = failures + 1
    /\ peer[t] \in {"sending", "waiting", "answering"}
    /\ peer' = [peer EXCEPT ![t] = "ended"]
    /\ Says(t, "error", TRUE)
    /\ UNCHANGED <<pending, session, outgoing, limit, ends>>

CloudCapability ==
    /\ limit = 0 /\ \A i \in 1 .. Len(wire) : wire[i].what # "capability"
    /\ Says(NoRequest, "capability", FALSE)
    /\ UNCHANGED <<pending, session, outgoing, peer, limit, ends, failures>>
-----------------------------------------------------------------------------
(* msg_process: the packet that the facility holds; it is held until it is *)
(* done with.                                                              *)
Comes(what) == wire # <<>> /\ Head(wire).what = what
Done == wire' = Tail(wire)
Of == Head(wire).of

\* A packet, if one can be sent; else the cloud is told nothing.
Reply(what) ==
    /\ outgoing' = IF Free THEN Packet(Of, what, TRUE) ELSE outgoing
    /\ left' = IF Free \/ Of \in Puts THEN left
               ELSE [left EXCEPT !.unanswered = @ \cup {Of}]

\* msg_pass_service_data: the answer is next after the last block, and an
\* acknowledgement after one that makes the window small.
PassBlock(t, s, last) ==
    \E small \in BOOLEAN :
        Update(t, IF last
                  THEN [s EXCEPT !.state = "get_data", !.sending = TRUE,
                                 !.start = TRUE,
                                 !.type = IF @ = "data" THEN "reply" ELSE @]
                  ELSE [s EXCEPT !.start = FALSE,
                                 !.state = IF small THEN "send_ack" ELSE @])

\* The gateway knows the target, and has memory for the request, or not.
Handled == {"data", "not_handled"}

\* process_ds_receive_target: the packet is held for its data.
ReceiveTarget(t, s) ==
    /\ s.type = "target" /\ UNCHANGED wire
    /\ \E y \in Handled : Update(t, [s EXCEPT !.type = y])

\* Each block has a callback.
TakeData(t, s, last) ==
    /\ s.type = "data" /\ Done
    /\ \E y \in Handled : PassBlock(t, [s EXCEPT !.type = y], last)

\* process_data_service_device_request
Pass(t, s, last) ==
    \/ ReceiveTarget(t, s) \/ TakeData(t, s, last)
    \/ s.type = "not_handled" /\ Done /\ PassBlock(t, s, last)

ReceiveRequest ==
    /\ Comes("start") /\ Of \in Requests
    /\ IF Of \notin Live /\ Live \cap Requests # {}
       THEN Done /\ Reply("busy") /\ UNCHANGED session
       ELSE /\ Pass(Of, IF Of \in Live THEN session[Of]
                             ELSE New("target", "receive"), Head(wire).last)
            /\ UNCHANGED <<outgoing, left>>
    /\ UNCHANGED <<pending, peer, limit, status, answered, failures>>

ReceiveData ==
    /\ Comes("data")
    /\ IF Of \notin Live
       THEN Free /\ Done /\ Reply("error") /\ UNCHANGED session
       ELSE /\ session[Of].state # "send_ack"
            /\ IF session[Of].state = "receive"
               THEN Pass(Of, session[Of], Head(wire).last)
               ELSE Done /\ UNCHANGED session
            /\ UNCHANGED <<outgoing, left>>
    /\ UNCHANGED <<pending, peer, limit, status, answered, failures>>

\* process_send_response; a callback that gives an error fails the session.
ReceiveAnswer ==
    /\ Comes("start") /\ Of \in Puts /\ Done
    /\ IF Of \notin Live
       THEN Reply("error") /\ UNCHANGED <<session, answered>>
       ELSE /\ IF session[Of].state = "send_error"
               THEN UNCHANGED <<session, answered>>
               ELSE LET s == [session[Of] EXCEPT !.sending = FALSE] IN
                    \/ /\ Update(Of, [s EXCEPT !.state = "delete"])
                       /\ answered' = answered \cup {Of}
                    \/ Update(Of, Failed(s)) /\ UNCHANGED answered
            /\ UNCHANGED <<outgoing, left>>
    /\ UNCHANGED <<pending, peer, limit, status, failures>>

ReceiveAck ==
    /\ Comes("ack") /\ Done
    /\ IF Of \in Live /\ session[Of].sending
       THEN Update(Of, [session[Of] EXCEPT !.ack = FALSE,
                !.state = IF @ = "wait_ack" THEN "get_data" ELSE @])
       ELSE UNCHANGED session
    /\ UNCHANGED <<pending, outgoing, peer, limit, ends, failures>>

\* The application is told, and the session deleted, the packet of which
\* may still be on its way.
ReceiveError ==
    /\ Comes("error") /\ Done
    /\ IF Of \in Live /\ session[Of].state \notin {"delete", "send_error"}
       THEN /\ session' = [session EXCEPT ![Of] = Gone]
            /\ Tell(Of, "error")
            /\ left' = [left EXCEPT !.crossed =
                            @ \/ (outgoing.what = "data" /\ outgoing.of = Of)]
       ELSE UNCHANGED <<session, status, left>>
    /\ UNCHANGED <<pending, outgoing, peer, limit, answered, failures>>

\* It asks for those of the gateway, which are sent when a packet can be.
ReceiveCapability ==
    /\ Comes("capability") /\ Free /\ Done
    /\ limit' = 1
    /\ outgoing' = Packet(NoRequest, "capability", FALSE)
    /\ UNCHANGED <<pending, session, peer, ends, failures>>
-----------------------------------------------------------------------------
(* The connection is lost: tcp_send_complete_callback, and the cleanup of  *)
(* the facility.  The limit stays, and the numbers of sessions start anew. *)
Cancelled(t) ==
    LET s == session[t] IN
    IF t = pending THEN <<"cancel">>
    ELSE IF t \notin Live THEN <<>>
    ELSE IF outgoing.what = "data" /\ outgoing.of = t THEN <<"error">>
    ELSE IF s.state = "send_error" THEN <<>>
    ELSE IF s.state = "delete" THEN <<How(s)>> ELSE <<"cancel">>

Silenced == {t \in Owned : session[t].state = "send_error"}

\* Mutant: the packet is not given up.
Lose_KeepPacket ==
    /\ failures < MaxFailures /\ failures' = failures + 1
    /\ status' = [t \in Transactions |-> status[t] \o Cancelled(t)]
    /\ left' = [left EXCEPT !.silent = @ \cup Silenced]
    /\ session' = [t \in Transactions |-> Gone] /\ pending' = NoRequest
    /\ wire' = <<>>
    /\ peer' = [t \in Transactions |->
                   IF peer[t] = "idle" /\ t \notin Live THEN "idle" ELSE "ended"]
    /\ UNCHANGED <<outgoing, limit, answered>>

Lose ==
    /\ failures < MaxFailures /\ failures' = failures + 1
    /\ status' = [t \in Transactions |-> status[t] \o Cancelled(t)]
    /\ left' = [left EXCEPT !.silent = @ \cup Silenced]
    /\ session' = [t \in Transactions |-> Gone] /\ pending' = NoRequest
    /\ outgoing' = NoPacket /\ wire' = <<>>
    /\ peer' = [t \in Transactions |->
                   IF peer[t] = "idle" /\ t \notin Live THEN "idle" ELSE "ended"]
    /\ UNCHANGED <<limit, answered>>
-----------------------------------------------------------------------------
Turns(t) == GetData(t) \/ SendAck(t) \/ SendError(t) \/ DeleteSession(t)
Processes ==
    \/ ReceiveRequest \/ ReceiveData \/ ReceiveAnswer \/ ReceiveAck
    \/ ReceiveError \/ ReceiveCapability
Continues(t) ==
    CloudAck(t) \/ (t \in Puts /\ CloudAnswers(t))
    \/ (t \in Requests /\ peer[t] = "sending" /\ CloudRequests(t, TRUE))

TransferNext ==
    \/ \E p \in Puts : InitiatePut(p) \/ CloudAnswers(p)
    \/ StartSession \/ PacketSent \/ Processes
    \/ \E t \in Transactions : Turns(t) \/ CloudError(t) \/ CloudAck(t)
    \/ \E r \in Requests, last \in BOOLEAN : CloudRequests(r, last)
    \/ CloudCapability \/ Lose

\* The thread runs, what was sent arrives, and the cloud goes on with what
\* it began.  As each step is one that brings a transaction nearer its end,
\* and the limit comes once, this gives every session its turn.
TransferSteps ==
    \/ StartSession \/ PacketSent \/ Processes
    \/ \E t \in Transactions : Turns(t) \/ Continues(t)
TransferFairness == WF_transferVars(TransferSteps)

TransferSpec ==
    TransferInit /\ [][TransferNext]_transferVars /\ TransferFairness
-----------------------------------------------------------------------------
(* The application hears of each put, and of each request, once at most,   *)
(* when its session is over, and that it is complete only if the answer    *)
(* was passed to the other side.                                           *)
ToldOnce ==
    \A t \in Transactions :
        /\ Len(status[t]) <= 1
        /\ status[t] # <<>> => t \notin Live /\ t # pending
        /\ status[t] = <<"complete">> => t \in answered

(* The packet being sent belongs to a session that waits for it, unless an *)
(* error of the cloud crossed it: then its callback gets freed memory.     *)
SenderAlive ==
    outgoing.what = "data" /\ ~left.crossed =>
        outgoing.of \in Live /\ session[outgoing.of].state = "wait_send"

\* No session has its turn.
Full == pending # NoRequest /\ limit # 0 /\ Cardinality(Owned) >= limit

(* Every put ends, and with a status if the cloud has heard of it; but for *)
(* the application's own errors, and for a put that waits while the cloud  *)
(* allows no more.                                                         *)
PutsEnded ==
    \A p \in Puts \ left.silent :
        /\ p # pending /\ p \notin Live
        /\ peer[p] # "idle" => status[p] # <<>>

(* Every request that the cloud has sent is answered, or ends in an error, *)
(* unless there was no packet to say so, or such a put waits.              *)
RequestsAnswered ==
    \A r \in Requests \ left.unanswered :
        peer[r] \notin {"waiting", "answering"}

TransactionsEnd == <>[](Full \/ (PutsEnded /\ RequestsAnswered))

(* What the application is told, and what the connector works with.        *)
TransferSafe == ToldOnce /\ SenderAlive
=============================================================================
