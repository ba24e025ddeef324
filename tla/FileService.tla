----------------------------- MODULE FileService -----------------------------
(***************************************************************************)
(* The file system service of the Digi connector: a request of the cloud   *)
(* to get, put, remove or list, in a session of CloudTransfer, carried out *)
(* by one callback of the platform after the other.  A callback is done,   *)
(* fails, or is busy and called again, when the service's function is run  *)
(* once more with the same message, from the state that context has kept.  *)
(*                                                                         *)
(* A file is a sequence of units; FileLength of them are on the disk, and  *)
(* as many are put; a message takes BlockSize.  MaxBusy and MaxFailed      *)
(* bound the callbacks that are busy, and that fail, or sessions that are  *)
(* cancelled.                                                              *)
(***************************************************************************)
EXTENDS Naturals, Sequences

CONSTANTS FileLength, BlockSize, MaxBusy, MaxFailed

ASSUME FileServiceAssumption ==
    /\ {FileLength, BlockSize} \subseteq Nat \ {0}
    /\ {MaxBusy, MaxFailed} \subseteq Nat

VARIABLES
    phase,        \* of the session
    demand,       \* the request as the cloud sent it
    context,      \* fs_context_t
    disk,         \* the file it names
    position, handle,     \* of the open file
    buffer,       \* the message of the answer that is being made
    reply,        \* what was sent
    answer,
    busy, failed,
    slips         \* ghost: what the properties leave out

file_open == <<disk, position, handle>>
sent == <<buffer, reply, answer>>
calls == <<busy, failed>>
fileVars == <<phase, demand, context, file_open, sent, calls, slips>>

Smaller(m, n) == IF m < n THEN m ELSE n
LastBlock == (FileLength + BlockSize - 1) \div BlockSize

Old == [i \in 1 .. FileLength |-> FileLength + i]
Offsets == {0, 1, FileLength + 1}
Demands == [op : {"get", "put", "rm", "ls"}, offset : Offsets,
            trunc : BOOLEAN, long : BOOLEAN]

FileTypeOK ==
    /\ phase \in {"none", "request", "response", "cancel", "drop", "over"}
    /\ demand \in Demands
    /\ context \in [state : {"none", "stat", "open", "lseek1", "lseek",
                             "readdir", "stat_dir_entry", "closing", "closed"},
                    errnum : BOOLEAN, dir : BOOLEAN, block : 1 .. LastBlock,
                    done : 0 .. FileLength, offset : Nat, trunc : BOOLEAN, last : BOOLEAN,
                    started : BOOLEAN]
    /\ disk \in Seq(Nat) /\ position \in Nat
    /\ handle \in {"none", "open", "closed"}
    /\ buffer \in Seq(Nat) /\ reply \in Seq(Nat)
    /\ answer \in {"none", "ok", "error", "cancel"}
    /\ busy \in 0 .. MaxBusy /\ failed \in 0 .. MaxFailed
    /\ slips \subseteq {"path", "seek", "again", "leak"}

\* allocate_file_context
NewContext(d) ==
    [state |-> "none", errnum |-> FALSE, dir |-> FALSE, block |-> 1, done |-> 0,
     offset |-> d.offset, trunc |-> d.trunc, last |-> FALSE, started |-> FALSE]

FileInit ==
    /\ phase = "none"
    /\ demand = [op |-> "rm", offset |-> 0, trunc |-> FALSE, long |-> FALSE]
    /\ context = NewContext(demand)
    /\ disk = Old /\ position = 0 /\ handle = "none"
    /\ buffer = <<>> /\ reply = <<>> /\ answer = "none"
    /\ busy = 0 /\ failed = 0 /\ slips = {}

-----------------------------------------------------------------------------
(* fs_call_user: the callback is done, busy, or gives an error.            *)
Call(done, again, fails) ==
    \/ done /\ UNCHANGED calls
    \/ busy < MaxBusy /\ busy' = busy + 1 /\ again /\ UNCHANGED failed
    \/ failed < MaxFailed /\ failed' = failed + 1 /\ fails /\ UNCHANGED busy

\* The header of the first message of a put is parsed at every call.
Again(c) ==
    IF demand.op = "put" /\ phase = "request" /\ c.block = 1
    THEN [c EXCEPT !.offset = demand.offset, !.trunc = @ \/ demand.trunc]
    ELSE c
Wrong(c) == [c EXCEPT !.errnum = TRUE]

In(ops, in) == phase = in /\ demand.op \in ops
Fine == ~context.errnum
-----------------------------------------------------------------------------
(* file_system_request_callback, with the header.  A path that is too long *)
(* for its message is error 0, which is none: a get goes on with the       *)
(* handle NULL, and so does a put with its second message.                 *)
ReceiveDemand ==
    /\ phase = "none" /\ demand' \in Demands
    /\ demand'.op \in {"rm", "ls"} => demand'.offset = 0 /\ ~demand'.trunc
    /\ LET c == NewContext(demand') IN
       IF ~demand'.long
       THEN context' = c /\ phase' = "request" /\ UNCHANGED slips
       ELSE /\ slips' = {"path"}
            /\ \/ /\ demand'.op = "put" /\ LastBlock > 1 /\ phase' = "request"
                  /\ context' = [c EXCEPT !.block = 2, !.trunc = FALSE]
               \/ /\ demand'.op = "get" /\ phase' = "response"
                  /\ context' = [c EXCEPT !.state = "lseek"]
               \/ /\ demand'.op = "rm" /\ phase' = "response" /\ context' = c
    /\ UNCHANGED <<file_open, sent, calls>>

\* app_process_file_open, when it is done.
Opens(emptied) ==
    /\ handle' = "open" /\ position' = 0
    /\ disk' = IF emptied THEN <<>> ELSE disk

\* call_file_open_user, of a get or put.
OpenFile ==
    /\ In({"get", "put"}, "request") /\ context.state = "none"
    /\ context.block = 1
    /\ LET emptied == demand.op = "put" /\ context.trunc /\ context.offset = 0
           c == [context EXCEPT !.trunc = @ /\ ~emptied]
           on == IF demand.op = "get" THEN "response" ELSE "request"
       IN Call(/\ Opens(emptied)
               /\ context' = [c EXCEPT !.state = IF c.offset = 0 THEN "lseek"
                                                                ELSE "open"]
               /\ phase' = on,
               context' = Again(c) /\ UNCHANGED <<file_open, phase>>,
               /\ context' = Wrong([c EXCEPT !.state = "closed"])
               /\ phase' = "response" /\ UNCHANGED file_open)
    /\ UNCHANGED <<demand, sent, slips>>
-----------------------------------------------------------------------------
(* set_file_position: to the end, to see that the offset is in the file,   *)
(* and to the offset, which is not tried again when it is busy.            *)
\* app_process_file_lseek
Seeks(n) == position' = n

Positioning == In({"put"}, "request") \/ In({"get"}, "response")

SeekEnd ==
    /\ Positioning /\ Fine /\ context.state = "open"
    /\ Call(IF Len(disk) < context.offset
            THEN context' = Wrong(context) /\ UNCHANGED position
            ELSE /\ context' = [context EXCEPT !.state = "lseek1"]
                 /\ Seeks(Len(disk)),
            context' = Again(context) /\ UNCHANGED position,
            context' = Wrong(context) /\ UNCHANGED position)
    /\ UNCHANGED <<phase, demand, disk, handle, sent, slips>>

SeekSet ==
    /\ Positioning /\ Fine /\ context.state = "lseek1"
    /\ LET c == [context EXCEPT !.state = "lseek"] IN
       Call(context' = c /\ Seeks(context.offset) /\ UNCHANGED slips,
            /\ context' = Again(c) /\ slips' = slips \cup {"seek"}
            /\ UNCHANGED position,
            context' = Wrong(context) /\ UNCHANGED <<position, slips>>)
    /\ UNCHANGED <<phase, demand, disk, handle, sent>>
-----------------------------------------------------------------------------
(* process_file_put_request: the data of a block, and after the last the   *)
(* file is cut, if the cloud asked for it, and closed.                     *)
Before(b) == (b - 1) * BlockSize
Remaining == Smaller(BlockSize, FileLength - Before(context.block))
                 - context.done
Writing == In({"put"}, "request") /\ Fine /\ context.state \in {"none", "lseek"}
           /\ (context.state = "none" => context.block > 1)

Written(n) ==
    [i \in 1 .. (IF Len(disk) < position + n THEN position + n ELSE Len(disk))
        |-> IF i \in position + 1 .. position + n
            THEN Before(context.block) + context.done + i - position
            ELSE disk[i]]

\* Mutant: the offset stays, at which the file is cut.
WriteBlock_KeepOffset ==
    /\ Writing /\ Remaining > 0
    /\ Call(/\ \E n \in 1 .. Remaining :
                  /\ context' = [context EXCEPT !.done = @ + n]
                  /\ IF handle = "none" THEN UNCHANGED <<disk, position>>
                     ELSE disk' = Written(n) /\ position' = position + n
            /\ UNCHANGED slips,
            context' = Again(context) /\ UNCHANGED <<disk, position, slips>>,
            context' = Wrong(context) /\ UNCHANGED <<disk, position, slips>>)
    /\ UNCHANGED <<phase, demand, handle, sent>>

WriteBlock ==
    /\ Writing /\ Remaining > 0
    /\ Call(/\ \E n \in 1 .. Remaining :
                  /\ context' = [context EXCEPT !.done = @ + n,
                                                !.offset = @ + n]
                  /\ IF handle = "none" THEN UNCHANGED <<disk, position>>
                     ELSE disk' = Written(n) /\ position' = position + n
            /\ UNCHANGED slips,
            /\ context' = Again(context) /\ UNCHANGED <<disk, position>>
            /\ slips' = IF context.block = 1 /\ context.done > 0
                        THEN slips \cup {"again"} ELSE slips,
            context' = Wrong(context) /\ UNCHANGED <<disk, position, slips>>)
    /\ UNCHANGED <<phase, demand, handle, sent>>

NextBlock ==
    /\ Writing /\ Remaining = 0 /\ context.block < LastBlock
    /\ context' = [context EXCEPT !.block = @ + 1, !.done = 0]
    /\ UNCHANGED <<phase, demand, file_open, sent, calls, slips>>

\* app_process_file_ftruncate
Cuts(n) == disk' = [i \in 1 .. n |-> IF i <= Len(disk) THEN disk[i] ELSE 0]

\* When it is busy, the block is written again.
Truncate ==
    /\ Writing /\ Remaining = 0 /\ context.block = LastBlock /\ context.trunc
    /\ LET c == [context EXCEPT !.trunc = FALSE] IN
       Call(Cuts(context.offset) /\ context' = c /\ UNCHANGED slips,
            /\ context' = Again([context EXCEPT !.done = 0])
            /\ slips' = slips \cup {"again"} /\ UNCHANGED disk,
            context' = Wrong(c) /\ UNCHANGED <<disk, slips>>)
    /\ UNCHANGED <<phase, demand, position, handle, sent>>

PutDone ==
    \/ context.errnum \/ context.state = "closing"
    \/ Writing /\ Remaining = 0 /\ context.block = LastBlock /\ ~context.trunc

\* call_file_close_user: closed, be it with an error.
IsOpen == context.state \notin {"none", "stat", "closed"}
Closes(c) ==
    handle' = (IF handle = "open" THEN "closed" ELSE handle) /\ context' = c

ClosePut ==
    /\ In({"put"}, "request") /\ PutDone /\ context.state # "none"
    /\ LET c == [context EXCEPT !.state = "closed"] IN
       Call(Closes(c) /\ phase' = "response",
            /\ context' = [context EXCEPT !.state = "closing"]
            /\ UNCHANGED <<handle, phase>>,
            Closes(Wrong(c)) /\ phase' = "response")
    /\ UNCHANGED <<demand, disk, position, sent, slips>>

\* Nothing was opened.
NothingToClose ==
    /\ In({"put"}, "request") /\ PutDone /\ context.state = "none"
    /\ phase' = "response"
    /\ UNCHANGED <<demand, context, file_open, sent, calls, slips>>
-----------------------------------------------------------------------------
(* process_file_rm_request, and process_file_response_nodata.              *)
Removes == disk' = <<>>     \* app_process_file_remove

RemoveFile ==
    /\ In({"rm"}, "request")
    /\ Call(Removes /\ phase' = "response" /\ UNCHANGED context,
            UNCHANGED <<disk, phase, context>>,
            context' = Wrong(context) /\ phase' = "response" /\ UNCHANGED disk)
    /\ UNCHANGED <<demand, position, handle, sent, slips>>

Over(a) == answer' = a /\ phase' = "over"

RespondNoData ==
    /\ In({"put", "rm"}, "response")
    /\ Over(IF Fine THEN "ok" ELSE "error")
    /\ UNCHANGED <<demand, context, file_open, buffer, reply, calls, slips>>
-----------------------------------------------------------------------------
(* process_file_get_response: a message is filled until it is full, the    *)
(* read is busy, or the file or the data the cloud asked for ends.         *)
SendBuffer == reply' = reply \o buffer /\ buffer' = <<>>
GetDone == context.last \/ context.done = FileLength

\* app_process_file_read: what there is to read, and a part of it.
Readable == IF handle = "none" \/ Len(disk) < position THEN 0
            ELSE Len(disk) - position
Reads(n) ==
    /\ buffer' = buffer \o SubSeq(disk, position + 1, position + n)
    /\ position' = position + n

ReadFile ==
    /\ In({"get"}, "response") /\ Fine /\ context.state = "lseek" /\ ~GetDone
    /\ Len(buffer) < BlockSize
    /\ LET most == Smaller(Smaller(BlockSize - Len(buffer),
                                   FileLength - context.done),
                           Readable)
       IN Call(/\ IF most = 0
                  THEN /\ context' = [context EXCEPT !.last = TRUE]
                       /\ UNCHANGED <<buffer, position>>
                  ELSE \E n \in 1 .. most :
                          /\ Reads(n)
                          /\ context' = [context EXCEPT !.done = @ + n]
               /\ UNCHANGED reply,
               /\ SendBuffer /\ UNCHANGED position
               /\ context' = [context EXCEPT !.started = @ \/ buffer # <<>>],
               context' = Wrong(context) /\ buffer' = <<>>
                   /\ UNCHANGED <<reply, position>>)
    /\ UNCHANGED <<phase, demand, disk, handle, answer, slips>>

SendMessage ==
    /\ In({"get"}, "response") /\ Fine /\ context.state = "lseek" /\ ~GetDone
    /\ Len(buffer) = BlockSize
    /\ SendBuffer /\ context' = [context EXCEPT !.started = TRUE]
    /\ UNCHANGED <<phase, demand, file_open, answer, calls, slips>>

\* process_get_close.  What was read is sent before the file is closed, if
\* that is busy.  It is too late for an error once something was sent.
Finish(c) ==
    IF ~c.errnum THEN SendBuffer /\ Over("ok")
    ELSE UNCHANGED <<buffer, reply>>
         /\ Over(IF c.started THEN "cancel" ELSE "error")

GetClose ==
    /\ \/ In({"get"}, "response") /\ (GetDone \/ ~Fine)
       \/ In({"ls"}, "response") /\ context.dir /\ (context.last \/ ~Fine)
    /\ IF ~IsOpen THEN Finish(context) /\ UNCHANGED <<context, handle, calls>>
       ELSE LET c == [context EXCEPT !.state = "closed"] IN
            Call(Closes(c) /\ Finish(c),
                 /\ context' = [context EXCEPT !.state = "closing",
                                               !.started = @ \/ Fine]
                 /\ IF Fine THEN SendBuffer ELSE UNCHANGED <<buffer, reply>>
                 /\ UNCHANGED <<handle, answer, phase>>,
                 Closes(Wrong(c)) /\ Finish(Wrong(c)))
    /\ UNCHANGED <<demand, disk, position, slips>>
-----------------------------------------------------------------------------
(* process_file_ls_request: a file, or a directory that is opened.         *)
\* app_process_file_stat: a file or a directory.
Stats(dir) == context' = [context EXCEPT !.state = "stat", !.dir = dir]

Stat ==
    /\ In({"ls"}, "request") /\ context.state = "none"
    /\ Call(\E dir \in BOOLEAN :
               /\ Stats(dir)
               /\ phase' = IF dir THEN phase ELSE "response",
            UNCHANGED <<context, phase>>,
            context' = Wrong(context) /\ phase' = "response")
    /\ UNCHANGED <<demand, file_open, sent, slips>>

\* app_process_file_opendir
OpensDir == handle' = "open" /\ context' = [context EXCEPT !.state = "open"]

OpenDir ==
    /\ In({"ls"}, "request") /\ context.state = "stat"
    /\ Call(OpensDir /\ phase' = "response",
            UNCHANGED <<context, handle, phase>>,
            context' = Wrong(context) /\ phase' = "response" /\ UNCHANGED handle)
    /\ UNCHANGED <<demand, disk, position, sent, slips>>

\* process_file_ls_response, of one file, with its hash.
ListFile ==
    /\ In({"ls"}, "response") /\ ~context.dir
    /\ IF ~Fine THEN Finish(context) /\ UNCHANGED <<context, calls>>
       ELSE Call(reply' = <<1>> /\ Over("ok") /\ UNCHANGED <<buffer, context>>,
                 UNCHANGED <<buffer, reply, answer, phase, context>>,
                 context' = Wrong(context) /\ Finish(Wrong(context)))
    /\ UNCHANGED <<demand, file_open, slips>>

\* And of the entries of a directory, one in a message.
Listing(state) ==
    In({"ls"}, "response") /\ context.dir /\ Fine /\ context.state = state
    /\ ~context.last

\* app_process_file_readdir: the next entry, or none.
NextEntry ==
    context' = IF context.done < FileLength
               THEN [context EXCEPT !.state = "readdir"]
               ELSE [context EXCEPT !.last = TRUE]

ReadDir ==
    /\ Listing("open")
    /\ Call(NextEntry,
            UNCHANGED context, context' = Wrong(context))
    /\ UNCHANGED <<phase, demand, file_open, sent, slips>>

StatDirEntry ==
    /\ Listing("readdir")
    /\ Call(context' = [context EXCEPT !.state = "stat_dir_entry"],
            UNCHANGED context, context' = Wrong(context))
    /\ UNCHANGED <<phase, demand, file_open, sent, slips>>

HashEntry ==
    /\ Listing("stat_dir_entry")
    /\ Call(/\ context' = [context EXCEPT !.state = "open", !.done = @ + 1,
                                          !.started = TRUE]
            /\ reply' = Append(reply, context.done + 1),
            UNCHANGED <<context, reply>>,
            context' = Wrong(context) /\ UNCHANGED reply)
    /\ UNCHANGED <<phase, demand, file_open, buffer, answer, slips>>
-----------------------------------------------------------------------------
(* file_system_session_error_callback: an error of the cloud is held until *)
(* the file is closed; when the connection is lost nothing waits for that. *)
Interrupt ==
    /\ phase \in {"request", "response"}
    /\ failed < MaxFailed /\ failed' = failed + 1
    /\ phase' \in {"cancel", "drop"}
    /\ UNCHANGED <<demand, context, file_open, sent, busy, slips>>

CancelClose ==
    /\ phase \in {"cancel", "drop"}
    /\ LET c == [context EXCEPT !.state = "closed"] IN
       IF ~IsOpen
       THEN Over("cancel") /\ UNCHANGED <<context, handle, calls, slips>>
       ELSE Call(Closes(c) /\ Over("cancel") /\ UNCHANGED slips,
                 /\ context' = [context EXCEPT !.state = "closing"]
                 /\ UNCHANGED handle
                 /\ IF phase = "cancel" THEN UNCHANGED <<phase, answer, slips>>
                    ELSE Over("cancel") /\ slips' = slips \cup {"leak"},
                 Closes(Wrong(c)) /\ Over("cancel") /\ UNCHANGED slips)
    /\ UNCHANGED <<demand, disk, position, buffer, reply>>
-----------------------------------------------------------------------------
FileNext ==
    \/ ReceiveDemand \/ OpenFile \/ SeekEnd \/ SeekSet \/ WriteBlock
    \/ NextBlock \/ Truncate \/ ClosePut \/ NothingToClose \/ RemoveFile
    \/ RespondNoData \/ ReadFile \/ SendMessage \/ GetClose \/ Stat \/ OpenDir
    \/ ListFile \/ ReadDir \/ StatDirEntry \/ HashEntry \/ Interrupt
    \/ CancelClose

FileSpec == FileInit /\ [][FileNext]_fileVars
-----------------------------------------------------------------------------
Put(d) ==
    SubSeq(Old, 1, d.offset) \o [i \in 1 .. FileLength |-> i]
        \o (IF d.trunc THEN <<>>
            ELSE SubSeq(Old, d.offset + FileLength + 1, FileLength))

(* What the cloud is told was done, was done: the file is the one that was *)
(* put, the part of it sent that was asked for, removed, or each entry     *)
(* listed; unless the path was too long, the second seek was busy, or a    *)
(* block was written again.                                                *)
DoneAsTold ==
    answer = "ok" /\ slips \cap {"path", "seek", "again"} = {} =>
        CASE demand.op = "put" -> disk = Put(demand)
          [] demand.op = "get" ->
                 disk = Old /\ reply = SubSeq(Old, demand.offset + 1, FileLength)
          [] demand.op = "rm" -> disk = <<>>
          [] OTHER -> reply = [i \in 1 .. (IF context.dir THEN FileLength ELSE 1)
                                   |-> i]

(* When a session is over, what it had opened is closed, however it ended; *)
(* unless the close was busy when the connection was lost.                 *)
HandleClosed == phase = "over" /\ "leak" \notin slips => handle # "open"

(* Of each session, what was done and what is left.                        *)
SessionSafe == DoneAsTold /\ HandleClosed
=============================================================================
