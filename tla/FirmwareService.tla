--------------------------- MODULE FirmwareService ---------------------------
(***************************************************************************)
(* The firmware service of the Digi connector: the cloud asks for a        *)
(* download to a target, sends the image in blocks and completes it, or    *)
(* aborts.  The connector and the gateway's callbacks each remember, in a  *)
(* flag, that a download is under way.  Every response is made in one      *)
(* buffer; while another packet is being sent it waits there, and is sent  *)
(* in place of what the next message of the cloud asks for.                *)
(*                                                                         *)
(* The callbacks are never busy, so that the keepalive which goes with     *)
(* that is never sent.  Blocks are in an image; MaxBad bounds the messages *)
(* and the times out of the cloud that its protocol could do without, and  *)
(* MaxOther the packets of others and the connections lost.                *)
(***************************************************************************)
EXTENDS Naturals, Sequences

CONSTANTS ImageBlocks, MaxBad, MaxOther

ASSUME FirmwareAssumption ==
    ImageBlocks \in Nat \ {0} /\ {MaxBad, MaxOther} \subseteq Nat

VARIABLES
    fw,           \* update_started, target_info.target_number and send_busy
    app,          \* firmware_download_started and the image, of firmware.c
    message,      \* of the cloud, in the facility's packet_buffer
    response,     \* response_buffer
    packet_out,   \* what is in the connector's packet_out
    cloud,        \* the stage of the cloud, and the answer it waits for
    bads, others,
    lapses        \* ghost: what the properties leave out

fwVars ==
    <<fw, app, message, response, packet_out, cloud, bads, others, lapses>>

Targets == {0, 1}          \* firmware_list
Responses == {"download", "denied", "ack", "complete", "incomplete", "info",
            "abort", "error", "mixed"}
Message(op, t, block, ack, short) ==
    [op |-> op, target |-> t, block |-> block, ack |-> ack, short |-> short]
NoMessage == Message("none", 0, 0, FALSE, FALSE)

FwStates == [started : BOOLEAN, target : Targets, busy : BOOLEAN,
             owed : BOOLEAN]
FwApps == [started : BOOLEAN, image : Seq(1 .. ImageBlocks)]
FwMessages ==
    [op : {"none", "info", "download", "block", "abort", "complete", "reset",
           "unknown"},
     target : 0 .. 2, block : 0 .. ImageBlocks, ack : BOOLEAN, short : BOOLEAN]
FwClouds == [at : {"idle", "requested", "sending", "told"}, target : Targets,
             next : 1 .. ImageBlocks + 1, waits : BOOLEAN]

FirmwareTypeOK ==
    /\ fw \in FwStates /\ app \in FwApps /\ cloud \in FwClouds
    /\ message \in FwMessages /\ (message.op = "block" => message.block # 0)
    /\ response \in Responses \cup {"none"}
    /\ packet_out \in {"none", "other", "info", "response"}
    /\ bads \in 0 .. MaxBad /\ others \in 0 .. MaxOther
    /\ lapses \subseteq {"uninitialised", "dropped", "reset", "swallowed",
                         "unsent", "mixed", "retargeted"}

\* connector_facility_firmware_init, once: a new connection finds all this
\* as the last one left it.
FirmwareInit ==
    /\ fw = [started |-> FALSE, target |-> 0, busy |-> FALSE, owed |-> FALSE]
    /\ app = [started |-> FALSE, image |-> <<>>]
    /\ message = NoMessage /\ response = "none" /\ packet_out = "none"
    /\ cloud = [at |-> "idle", target |-> 0, next |-> 1, waits |-> FALSE]
    /\ bads = 0 /\ others = 0 /\ lapses = {}
-----------------------------------------------------------------------------
(* The cloud, which waits for the answer to what it asked; it may time out *)
(* and abort.                                                              *)

Bad == bads < MaxBad /\ bads' = bads + 1

Say(op, c) ==
    /\ message' = Message(op, c.target, 0, FALSE, FALSE)
    /\ cloud' = c

CloudDemands ==
    /\ cloud.at \in {"idle", "told"} /\ UNCHANGED bads
    /\ \E t \in Targets : Say("download",
           [at |-> "requested", target |-> t, next |-> 1, waits |-> TRUE])

CloudSendsBlock ==
    /\ cloud.at = "sending" /\ cloud.next <= ImageBlocks /\ UNCHANGED bads
    /\ \E ack \in BOOLEAN :
          /\ message' = Message("block", cloud.target, cloud.next, ack, FALSE)
          /\ cloud' = [cloud EXCEPT !.next = @ + 1, !.waits = ack]

CloudCompletes ==
    /\ cloud.at = "sending" /\ cloud.next > ImageBlocks /\ UNCHANGED bads
    /\ Say("complete", [cloud EXCEPT !.waits = TRUE])

\* Too short, of another target or of none, or a request nobody knows.
CloudSlips ==
    /\ Bad /\ UNCHANGED cloud
    /\ \E o \in {"info", "download", "block", "complete", "unknown"},
          t \in 0 .. 2, short \in BOOLEAN :
          /\ o \in {"block", "complete"} /\ cloud.at = "sending" =>
                 short \/ t # cloud.target
          /\ o = "download" => short \/ t = 2 \/ cloud.at = "sending"
          /\ message' =
                 Message(o, t, IF o = "block" THEN 1 ELSE 0, FALSE, short)

CloudAborts ==
    /\ cloud.at \in {"requested", "sending"} /\ Bad
    /\ Say("abort", [cloud EXCEPT !.at = "idle", !.waits = FALSE])

CloudResets ==
    /\ cloud.at \in {"idle", "told"} /\ Bad
    /\ Say("reset", [cloud EXCEPT !.at = "idle"])

CloudSends ==
    /\ message.op = "none"
    /\ \/ CloudAborts
       \/ ~cloud.waits /\ (\/ CloudDemands \/ CloudSendsBlock \/ CloudSlips
                           \/ CloudCompletes \/ CloudResets)
    /\ UNCHANGED <<fw, app, response, packet_out, others, lapses>>

\* What the answer means to the cloud, at the stage it has reached.
CloudHears(a) ==
    IF a \in {"abort", "error", "denied", "mixed"}
    THEN [cloud EXCEPT !.at = "idle", !.waits = FALSE]
    ELSE CASE a = "download" /\ cloud.at = "requested" ->
                  [cloud EXCEPT !.at = "sending", !.waits = FALSE]
           [] a = "ack" /\ cloud.at = "sending" ->
                  [cloud EXCEPT !.waits = FALSE]
           [] a \in {"complete", "incomplete"} /\ cloud.at = "sending" ->
                  [cloud EXCEPT !.waits = FALSE, !.at =
                      IF a = "complete" THEN "told" ELSE "idle"]
           [] OTHER -> cloud
-----------------------------------------------------------------------------
(* The callbacks of the application.                                       *)

\* Mutant: what was there of an image stays.
AppDownload_KeepImage(m) == [app EXCEPT !.started = TRUE]

\* app_firmware_download_request
AppDownload(m) ==
    IF app.started THEN app ELSE [started |-> TRUE, image |-> <<>>]

\* app_firmware_image_data
AppImage(m) ==
    IF app.started THEN [app EXCEPT !.image = Append(@, m.block)] ELSE app

\* app_firmware_download_complete, app_firmware_download_abort and
\* app_firmware_reset
AppEnds == [app EXCEPT !.started = FALSE]
-----------------------------------------------------------------------------
(* send_fw_message, of the buffer as it is: a packet that is being sent    *)
(* from it is spoilt, and any packet makes it wait.  Kept is whether the   *)
(* caller passes that on, so that the message stays until it is sent.      *)
SendResponse(f, a, kept, l) ==
    /\ response' = IF packet_out = "response" THEN "mixed" ELSE a
    /\ packet_out' = IF packet_out = "none" THEN "response" ELSE packet_out
    /\ fw' = [f EXCEPT !.busy = packet_out # "none",
                       !.owed = packet_out # "none" /\ ~kept]
    /\ lapses' = l \cup (IF packet_out = "response" THEN {"mixed"} ELSE {})
                   \cup (IF packet_out # "none" /\ ~kept THEN {"unsent"} ELSE {})
    /\ message' = IF packet_out # "none" /\ kept THEN message ELSE NoMessage

\* send_fw_abort: it ends the download of that target, without a word to the
\* application.
SendAbort(a, t, kept) ==
    LET stops == fw.started /\ fw.target = t IN
    SendResponse([fw EXCEPT !.started = @ /\ ~stops], a, kept,
                 lapses \cup IF stops /\ app'.started THEN {"dropped"} ELSE {})

\* The download under way goes on as one of another target.
Retargets(m) ==
    IF fw.started /\ fw.target # m.target THEN {"retargeted"} ELSE {}

\* process_fw_info_request.  The target it is about is from now on the one
\* of the download.
InfoRequest(m) ==
    /\ UNCHANGED app
    /\ IF m.short THEN SendAbort("error", m.target, TRUE)
       ELSE /\ fw' = [fw EXCEPT !.target = m.target]
            /\ packet_out' = IF packet_out = "none" THEN "info" ELSE packet_out
            /\ message' = IF packet_out = "none" THEN NoMessage ELSE message
            /\ lapses' = lapses \cup Retargets(m)
            /\ UNCHANGED response

\* process_fw_download_request.  A request that is too short is no abort: it
\* is answered with a status that was never set, and goes on with that.
DownloadRequest(m) ==
    \/ /\ m.short /\ UNCHANGED app
       /\ \/ SendResponse(fw, "denied", FALSE, lapses)
          \/ SendResponse([fw EXCEPT !.started = TRUE, !.target = m.target],
                          "download", FALSE,
                          (lapses \cup {"uninitialised"}) \cup Retargets(m))
    \/ ~m.short /\ fw.started /\ UNCHANGED app
       /\ SendAbort("abort", m.target, FALSE)
    \/ /\ ~m.short /\ ~fw.started /\ app' = AppDownload(m)
       /\ IF app.started THEN SendAbort("abort", m.target, FALSE)
          ELSE SendResponse([fw EXCEPT !.started = TRUE, !.target = m.target],
                            "download", FALSE, lapses)

\* process_fw_binary_block
BinaryBlock(m) ==
    IF ~fw.started
    THEN /\ message' = NoMessage
         /\ UNCHANGED <<fw, app, response, packet_out, lapses>>
    ELSE IF m.short \/ m.target # fw.target
    THEN UNCHANGED app /\ SendAbort("error", m.target, TRUE)
    ELSE /\ app' = AppImage(m)
         /\ IF ~app.started THEN SendAbort("abort", m.target, TRUE)
            ELSE IF m.ack THEN SendResponse(fw, "ack", TRUE, lapses)
            ELSE message' = NoMessage
                 /\ UNCHANGED <<fw, response, packet_out, lapses>>

\* process_fw_abort
AbortDownload(m) ==
    LET stops == fw.started /\ fw.target = m.target IN
    /\ app' = IF stops THEN AppEnds ELSE app
    /\ fw' = [fw EXCEPT !.started = @ /\ ~stops]
    /\ message' = NoMessage
    /\ UNCHANGED <<response, packet_out, lapses>>

\* process_fw_complete
CompleteDownload(m) ==
    IF m.short \/ ~fw.started \/ fw.target # m.target
    THEN UNCHANGED app /\ SendAbort("error", m.target, TRUE)
    ELSE /\ app' = AppEnds
         /\ SendResponse([fw EXCEPT !.started = FALSE],
                         IF app.started THEN "complete" ELSE "incomplete",
                         TRUE, lapses)

\* process_target_reset: the download of the connector goes on.
TargetReset(m) ==
    /\ app' = AppEnds /\ message' = NoMessage
    /\ lapses' = lapses \cup (IF fw.started THEN {"reset"} ELSE {})
    /\ UNCHANGED <<fw, response, packet_out>>

\* fw_process, of a message: a response that waited is sent, whatever this
\* message is.
WaitedResponse ==
    /\ packet_out' = IF packet_out = "none" THEN "response" ELSE packet_out
    /\ fw' = [fw EXCEPT !.busy = packet_out # "none",
                        !.owed = @ /\ packet_out # "none"]
    /\ message' = IF packet_out = "none" THEN NoMessage ELSE message
    /\ lapses' = lapses \cup (IF fw.owed THEN {"swallowed"} ELSE {})
    /\ UNCHANGED <<app, response>>

ProcessMessage ==
    /\ message.op # "none"
    /\ IF fw.busy THEN WaitedResponse
       ELSE IF message.target \notin Targets
       THEN UNCHANGED app /\ SendAbort("error", message.target, TRUE)
       ELSE \/ message.op = "info" /\ InfoRequest(message)
            \/ message.op = "download" /\ DownloadRequest(message)
            \/ message.op = "block" /\ BinaryBlock(message)
            \/ message.op = "abort" /\ AbortDownload(message)
            \/ message.op = "complete" /\ CompleteDownload(message)
            \/ message.op = "reset" /\ TargetReset(message)
            \/ message.op = "unknown" /\ UNCHANGED app
               /\ SendAbort("error", message.target, TRUE)
    /\ UNCHANGED <<cloud, bads, others>>
-----------------------------------------------------------------------------
(* The connector: packets of others, the end of a packet, and a connection *)
(* that is lost and made again, with the list of targets of fw_discovery.  *)

OtherSends ==
    /\ packet_out = "none" /\ others < MaxOther /\ others' = others + 1
    /\ packet_out' = "other"
    /\ UNCHANGED <<fw, app, message, response, cloud, bads, lapses>>

PacketOut ==
    /\ packet_out # "none" /\ packet_out' = "none"
    /\ cloud' = IF packet_out = "response" THEN CloudHears(response) ELSE cloud
    /\ UNCHANGED <<fw, app, message, response, bads, others, lapses>>

Reconnected ==
    /\ others < MaxOther /\ others' = others + 1
    /\ packet_out' = "none"
    /\ cloud' = [cloud EXCEPT !.at = "idle", !.waits = FALSE]
    /\ message' \in {message} \cup (IF fw.busy THEN {} ELSE {NoMessage})
    /\ UNCHANGED <<fw, app, response, bads, lapses>>
-----------------------------------------------------------------------------
FirmwareNext ==
    CloudSends \/ ProcessMessage \/ OtherSends \/ PacketOut \/ Reconnected

FirmwareSpec == FirmwareInit /\ [][FirmwareNext]_fwVars
-----------------------------------------------------------------------------
(* The connector and the application agree on whether a download is under  *)
(* way; unless the connector ended one by itself, took one for begun on a  *)
(* status never set, or the cloud reset the target in the middle of one.   *)
FlagsAgree ==
    /\ fw.started /\ ~app.started =>
           lapses \cap {"uninitialised", "reset"} # {}
    /\ app.started /\ ~fw.started => "dropped" \in lapses

(* When the cloud hears that a download is complete, the application has   *)
(* each block of the image once and in order; unless a response that was   *)
(* left in the buffer was sent in place of handling one of its messages,   *)
(* or the download was taken for one of another target on the way.         *)
WholeImage ==
    cloud.at = "told" /\ lapses \cap {"swallowed", "retargeted"} = {} =>
        app.image = [i \in 1 .. ImageBlocks |-> i]

(* What the cloud waits for is on its way: its message is being looked at, *)
(* or the response to it is being sent; unless one was left in the buffer. *)
AnswerComes ==
    cloud.waits =>
        \/ message.op # "none" \/ packet_out = "response"
        \/ lapses \cap {"unsent", "swallowed", "retargeted"} # {}

(* Of each download, both sides know how far it is.                        *)
DownloadSafe == FlagsAgree /\ WholeImage /\ AnswerComes
=============================================================================
