---------------------------- MODULE RemoteConfig ----------------------------
(***************************************************************************)
(* Remote configuration: the binary RCI parser of the Digi connector and   *)
(* the gateway's callbacks for the groups of settings.  The cloud sends    *)
(* commands in a session; every call of the service moves a state machine  *)
(* by a step (a callback of the gateway, then the input, the traversal,    *)
(* the output or the unwinding of an error), and the response is written   *)
(* into packets while it is made.                                          *)
(*                                                                         *)
(* A token of the request or an item of the response stands for its        *)
(* encoding.  The callbacks never ask to be called again.  A group has an  *)
(* id from 1, instances and fields, each of a kind; the last group has one *)
(* instance, as in this configuration.  MaxTrouble bounds the failures of  *)
(* malloc and the sessions lost, RciSessions the sessions.                 *)
(***************************************************************************)
EXTENDS Naturals, Sequences, FiniteSets, SequencesExt

CONSTANTS
    Instances,      \* group -> the number of its instances
    Kinds,          \* group -> the kinds of its fields
    RciRequests,    \* the requests the cloud makes: sequences of commands
    Rooms,          \* what may be left for the response in its first packet
    PacketRoom,     \* and what a new packet has
    MaxTrouble, RciSessions

Groups == DOMAIN Instances
Fields(g) == DOMAIN Kinds[g]
Values == {"old", "new", "bad"}
Settings == {s \in Groups \X (1 .. 9) \X (1 .. 9) :
                 s[2] <= Instances[s[1]] /\ s[3] \in Fields(s[1])}

FieldKinds == {"number", "text", "address", "password"}

ASSUME RciAssumption ==
    /\ Instances \in Seq(1 .. 9) /\ Instances # <<>>
    /\ Instances[Len(Instances)] = 1
    /\ Kinds \in Seq(Seq(FieldKinds)) /\ DOMAIN Kinds = Groups
    /\ \A g \in Groups : Len(Kinds[g]) \in 1 .. 9
    /\ PacketRoom \in Nat /\ PacketRoom >= 5 /\ Rooms \subseteq 1 .. PacketRoom
    /\ MaxTrouble \in Nat /\ RciSessions \in Nat

VARIABLES
    rci,            \* the parser, as left by the last call
    within,         \* a call is between its callback and its parser step
    tokens, more,   \* of the packet at hand, and of the cloud's next packet
    written, room,  \* the response so far; bytes left in its packet
    user,           \* the gateway's session, group_context, and its copy
    saved,          \* the settings of the gateway
    owed,           \* the request of the session, and the settings before it
    stage,          \* the session: none, running, sending or dead
    sessions, troubles,
    odd             \* ghost: what the properties leave out

rciVars == <<rci, within, tokens, more, written, room, user, saved, owed,
             stage, sessions, troubles, odd>>

-----------------------------------------------------------------------------
\* The request in tokens, and the answer the cloud is owed.

End == <<"end">>
Flat(seqs) == FlattenSeq(seqs)

GroupTokens(do, g) ==
    <<<<"group", g.id, g.index>>>>
    \o [n \in DOMAIN g.fields |->
           <<"field", g.fields[n], IF do = "set" THEN g.value ELSE "none">>]
    \o <<End>>

TokensOf(c) ==
    <<<<"command", c.do>>>>
    \o Flat([k \in DOMAIN c.groups |-> GroupTokens(c.do, c.groups[k])])
    \o <<End>>

AllTokens(wish) == Flat([k \in DOMAIN wish |-> TokensOf(wish[k])])

\* The grammar: what may come at a place of a request, and what place is next.
Tokens == {<<"command", do>> : do \in {"query", "set", "bad"}}
          \cup {<<"group", g, i>> : g \in Groups, i \in 0 .. 9}
          \cup {<<"field", f, v>> : f \in 1 .. 9, v \in Values \cup {"none"}}
          \cup {End}

InCommand == [at |-> "command", do |-> "none", group |-> 0]

MayCome(t, p) ==
    CASE p.at = "command" -> t[1] = "command"
      [] p.at = "group" -> t # End => t[1] = "group" /\ t[3] <= Instances[t[2]]
      [] p.at = "field" -> t # End => /\ t[1] = "field" /\ t[2] \in Fields(p.group)
                                      /\ p.do = "set" <=> t[3] # "none"

NextPlace(t, p) ==
    CASE p.at = "command" -> [at |-> "group", do |-> t[2], group |-> 0]
      [] p.at = "group" /\ t # End ->
             [at |-> "field", do |-> p.do, group |-> t[2]]
      [] p.at = "group" /\ t = End -> InCommand
      [] p.at = "field" /\ t # End -> p
      [] p.at = "field" /\ t = End ->
             [at |-> "group", do |-> p.do, group |-> 0]

PlacesOf(all) ==
    LET place[k \in 1 .. Len(all) + 1] ==
            IF k = 1 THEN InCommand ELSE NextPlace(all[k - 1], place[k - 1])
    IN place

\* A request is a number of whole commands, and at least one.
ASSUME RequestAssumption ==
    \A wish \in RciRequests :
        LET all == AllTokens(wish)
            place == PlacesOf(all)
        IN
        /\ all \in Seq(Tokens) /\ all # <<>>
        /\ place[1] = InCommand /\ place[Len(all) + 1] = InCommand
        /\ \A k \in 1 .. Len(all) :
               /\ MayCome(all[k], place[k])
               /\ place[k + 1] = NextPlace(all[k], place[k])

\* What a command may ask of a group: index 0 is that of no instance, and
\* what is set is not what was there.
GroupWishes == [id : Groups, index : 0 .. 9, fields : Seq(1 .. 9), value : Values]

MayAsk(do, g) ==
    /\ g.index <= Instances[g.id] /\ g.fields \in Seq(Fields(g.id))
    /\ do = "set" => g.value # "old"

ASSUME WishAssumption ==
    \A wish \in RciRequests :
        /\ wish \in Seq([do : {"query", "set", "bad"}, groups : Seq(GroupWishes)])
        /\ \A c \in DOMAIN wish : \A k \in DOMAIN wish[c].groups :
               MayAsk(wish[c].do, wish[c].groups[k])

\* A password is not told, and a field that was set has no value.
FieldAnswer(do, g, i, f, before) ==
    IF do = "query" /\ Kinds[g][f] = "password" THEN <<>>
    ELSE <<<<"field", f>>, IF do = "set" THEN <<"no value">>
                           ELSE <<"value", before[<<g, i, f>>]>> >>

Heading(g, i) ==
    <<<<"group", g>>>> \o (IF i > 1 THEN <<<<"index", i>>>> ELSE <<>>)

Part(do, g, i, fields, before) ==
    Heading(g, i)
    \o Flat([n \in DOMAIN fields |-> FieldAnswer(do, g, i, fields[n], before)])
    \o <<End>>

AllFields(g) == [n \in Fields(g) |-> n]
AllOf(do, g, before) ==
    Flat([i \in 1 .. Instances[g] |-> Part(do, g, i, AllFields(g), before)])

\* A group without fields is asked for them all, and without an index for
\* all its instances.
Instance(g) == IF g.index = 0 THEN 1 ELSE g.index
FieldsOf(g) == IF g.fields = <<>> THEN AllFields(g.id) ELSE g.fields

GroupAnswer(do, g, before) ==
    IF g.fields = <<>> /\ g.index = 0 THEN AllOf(do, g.id, before)
    ELSE Part(do, g.id, Instance(g), FieldsOf(g), before)

AnswerTo(c, before) ==
    <<<<"command", c.do>>>>
    \o Flat(IF c.groups = <<>>
            THEN [g \in Groups |-> AllOf(c.do, g, before)]
            ELSE [k \in DOMAIN c.groups |->
                     GroupAnswer(c.do, c.groups[k], before)])
    \o <<End>>

Sets(g, s) ==
    /\ s[1] = g.id /\ s[2] = Instance(g)
    /\ \E n \in DOMAIN g.fields : g.fields[n] = s[3]

Applied(c, before) ==
    [s \in Settings |->
        IF c.do = "set" /\ \E k \in DOMAIN c.groups : Sets(c.groups[k], s)
        THEN "new" ELSE before[s]]

\* The settings after each command of a request.
Settled(request, before) ==
    LET after[n \in 0 .. Len(request)] ==
            IF n = 0 THEN before ELSE Applied(request[n], after[n - 1])
    IN after

-----------------------------------------------------------------------------
NoSession == [context |-> "none", group |-> "none", copy |-> <<>>]

Parser == [status |-> "complete", parser |-> "input", input |-> "command",
           output |-> "command", traverse |-> "none", process |-> "group",
           unwind |-> "error", failed |-> FALSE, calling |-> "none",
           last |-> "none", group |-> 0, index |-> 0, element |-> 0,
           all |-> FALSE, action |-> "query", value |-> "old",
           half |-> "none"]

RciTypeOK ==
    /\ rci.status \in {"busy", "more", "flush", "complete"}
    /\ rci.parser \in {"input", "output", "traverse", "error"}
    /\ rci.input \in {"command", "group", "field", "done"}
    /\ rci.group \in Groups \cup {0} /\ rci.value \in Values \cup {"none"}
    /\ rci.half \in {"none", "this", "earlier"}
    /\ {within, rci.failed, rci.all} \subseteq BOOLEAN
    /\ room \in 0 .. PacketRoom
    /\ user.context \in {"none", "live"}
    /\ user.group \in {"none", "live", "freed"}
    /\ DOMAIN saved = Settings
    /\ stage \in {"none", "running", "sending", "dead"}
    /\ sessions \in 0 .. RciSessions /\ troubles \in 0 .. MaxTrouble
    /\ odd \subseteq {"sticky", "second", "stuck", "full", "beyond",
                        "stale", "memory", "lost", "late"}

RciInit ==
    /\ rci = Parser /\ within = FALSE /\ tokens = <<>> /\ more = <<>>
    /\ written = <<>> /\ room = PacketRoom /\ user = NoSession
    /\ saved = [s \in Settings |-> "old"]
    /\ owed = [request |-> <<>>, before |-> saved]
    /\ stage = "none" /\ sessions = 0 /\ troubles = 0 /\ odd = {}

Trigger(r, call) == [r EXCEPT !.calling = call, !.last = call]

\* rci_action_session_start, with the first call of the service.  The cloud
\* may send the request in two packets.  A string of which an earlier session
\* wrote only a part is still there: output.content is not reset.
BeginSession(wish, split, spare) ==
    LET all == AllTokens(wish)
        cut == IF split THEN 1 ELSE Len(all)
    IN
    /\ stage = "none" /\ sessions < RciSessions
    /\ tokens' = SubSeq(all, 1, cut) /\ more' = SubSeq(all, cut + 1, Len(all))
    /\ rci' = [Trigger(rci, "session_start")
                  EXCEPT !.status = "busy", !.parser = "input",
                         !.input = "command", !.unwind = "error",
                         !.group = 0, !.index = 0, !.element = 0,
                         !.all = FALSE,
                         !.half = IF @ = "none" THEN @ ELSE "earlier"]
    /\ written' = <<>> /\ room' = spare /\ stage' = "running"
    /\ owed' = [request |-> wish, before |-> saved]
    /\ sessions' = sessions + 1 /\ odd' = {}
    /\ UNCHANGED <<within, user, saved, troubles>>

-----------------------------------------------------------------------------
\* rci_callback: the callbacks of remote_config_cb.c and of the groups.

Returns(error) ==
    /\ rci' = [rci EXCEPT !.calling = "none", !.failed = error]
    /\ within' = ~error

Quiet == UNCHANGED <<saved, troubles, stage, odd>>

Lacks == /\ troubles < MaxTrouble /\ troubles' = troubles + 1
         /\ odd' = odd \cup {"memory"} /\ UNCHANGED stage

\* malloc may fail for the session and for the copy of the group.
AppSessionStart ==
    /\ rci.calling = "session_start"
    /\ \/ /\ Returns(FALSE) /\ user' = [NoSession EXCEPT !.context = "live"]
          /\ Quiet
       \/ Returns(TRUE) /\ user' = NoSession /\ Lacks /\ UNCHANGED saved

AppSessionEnd ==
    /\ rci.calling = "session_end"
    /\ Returns(FALSE) /\ user' = NoSession /\ Quiet

AppAction ==
    /\ rci.calling \in {"action_start", "action_end"}
    /\ Returns(FALSE) /\ Quiet /\ UNCHANGED user

AppGroupStart ==
    /\ rci.calling = "group_start"
    /\ \/ /\ Returns(FALSE) /\ Quiet
          /\ user' = [user EXCEPT !.group = "live",
                 !.copy = [f \in Fields(rci.group) |->
                               saved[<<rci.group, rci.index, f>>]]]
       \/ /\ Returns(TRUE) /\ Lacks /\ UNCHANGED saved
          /\ user' = [user EXCEPT !.group = "none", !.copy = <<>>]

\* ASSERT(session_ptr->group_context != NULL), or a copy that was freed.
AppAsserts ==
    /\ rci.calling \in {"process", "group_end"}
    /\ user.group # "live" /\ stage' = "dead"
    /\ UNCHANGED <<rci, within, user, saved, troubles, odd>>

\* A number out of range is refused; an address is not looked at yet.
AppProcess ==
    LET kind == Kinds[rci.group][rci.element] IN
    /\ rci.calling = "process" /\ user.group = "live" /\ Quiet
    /\ IF rci.action = "set"
       THEN /\ Returns(rci.value = "bad" /\ kind = "number")
            /\ user' = IF rci.value = "bad" /\ kind = "number" THEN user
                       ELSE [user EXCEPT !.copy[rci.element] = rci.value]
       ELSE /\ rci' = [rci EXCEPT !.calling = "none", !.failed = FALSE,
                                  !.value = user.copy[rci.element]]
            /\ within' = TRUE /\ UNCHANGED user

\* The copy is saved field by field, up to the first bad address.
AppGroupEnd ==
    LET bad == {f \in Fields(rci.group) : user.copy[f] = "bad"} IN
    /\ rci.calling = "group_end" /\ user.group = "live"
    /\ Returns(rci.action = "set" /\ bad # {})
    /\ user' = [user EXCEPT !.group = "freed"]
    /\ saved' = IF rci.action = "query" THEN saved
                ELSE [s \in Settings |->
                         IF /\ s[1] = rci.group /\ s[2] = rci.index
                            /\ \A f \in bad : s[3] < f
                         THEN user.copy[s[3]] ELSE saved[s]]
    /\ UNCHANGED <<troubles, stage, odd>>

RciCallback ==
    /\ stage = "running" /\ rci.status = "busy" /\ rci.calling # "none"
    /\ \/ AppSessionStart \/ AppSessionEnd \/ AppAction \/ AppGroupStart
       \/ AppAsserts \/ AppProcess \/ AppGroupEnd
    /\ UNCHANGED <<tokens, more, written, room, owed, sessions>>

-----------------------------------------------------------------------------
\* The parser step of a call, after the callback if there was one.
ParserStep(state) ==
    /\ stage = "running" /\ rci.status = "busy" /\ rci.calling = "none"
    /\ rci.parser = state /\ within' = FALSE
    /\ UNCHANGED <<user, saved, owed, sessions, troubles>>

Traversing(r, state) == [r EXCEPT !.traverse = state, !.parser = "traverse"]
Fails(r, state) ==
    [r EXCEPT !.failed = TRUE, !.output = state, !.parser = "output"]

\* process_rci_command ... process_field_no_value.
CommandToken(r, t) ==
    CASE r.failed -> [r EXCEPT !.output = "field", !.parser = "output"]
      [] ~r.failed /\ t[2] = "bad" ->
             [r EXCEPT !.failed = TRUE, !.parser = "error"]
      [] OTHER -> Traversing([r EXCEPT !.action = t[2], !.input = "group"],
                             "command")

GroupToken(r, t) ==
    CASE t # End -> Traversing(
             [r EXCEPT !.group = t[2], !.index = IF t[3] = 0 THEN 1 ELSE t[3],
                       !.all = @ \/ (t[3] = 0 /\ Instances[t[2]] > 1),
                       !.input = "field"], "group")
      [] t = End /\ r.group # 0 ->
             Traversing([r EXCEPT !.input = "command"], "group_end")
      [] OTHER -> IF r.action = "query" THEN Traversing(r, "all_groups")
                  ELSE Fails(r, "group")

\* process_field_value, of a set.
FieldValue(r, t) ==
    Traversing([r EXCEPT !.element = t[2], !.value = t[3]], "element")

\* process_field_no_value, of a query.
FieldNoValue(r, t) ==
    Traversing([r EXCEPT !.element = t[2], !.value = "none"], "element")

FieldToken(r, t) ==
    CASE t # End -> IF t[3] = "none" THEN FieldNoValue(r, t)
                                     ELSE FieldValue(r, t)
      [] t = End /\ r.element # 0 ->
             Traversing([r EXCEPT !.element = 0, !.input = "group"],
                        "element_end")
      [] OTHER -> IF r.action = "query"
                  THEN Traversing([r EXCEPT !.input = "group"],
                           IF r.all THEN "all_instances" ELSE "all_elements")
                  ELSE Fails(r, "field")

\* rci_parse_input.  The end of the request sends the parser to the traversal
\* whatever the last token did.
ParseInput ==
    LET t == Head(tokens)
        r == CASE rci.input = "command" -> CommandToken(rci, t)
               [] rci.input = "group"   -> GroupToken(rci, t)
               [] rci.input = "field"   -> FieldToken(rci, t)
    IN
    /\ ParserStep("input") /\ tokens # <<>>
    /\ tokens' = Tail(tokens)
    /\ rci' = CASE Len(tokens) > 1 -> r
                [] Len(tokens) = 1 /\ more = <<>> ->
                       [r EXCEPT !.input = "done", !.parser = "traverse"]
                [] OTHER -> [r EXCEPT !.status = "more"]
    \* RCI_FLAG_GET_ALL_INSTANCES stays for the groups that follow.
    /\ odd' = IF rci.input = "group" /\ t # End /\ rci.all /\ t[3] # 0
                THEN odd \cup {"sticky"} ELSE odd
    /\ UNCHANGED <<more, written, room, stage>>

MoreInput ==
    /\ stage = "running" /\ rci.status = "more"
    /\ tokens' = more /\ more' = <<>>
    /\ rci' = [rci EXCEPT !.status = "busy"]
    /\ UNCHANGED <<within, written, room, user, saved, owed, stage, sessions,
                   troubles, odd>>

\* traverse_*: what is called and written next.
ThenCall(r, call, output) ==
    [Trigger(r, call) EXCEPT !.output = output, !.parser = "output"]

TraverseElement(r) ==
    IF r.action = "query" /\ Kinds[r.group][r.element] = "password" THEN r
    ELSE ThenCall(r, "process", "field")

AllElementsDone(r) == r.element = Len(Kinds[r.group])
TraverseAllElements(r) ==
    IF AllElementsDone(r) THEN ThenCall(r, "group_end", "field_end")
    ELSE TraverseElement([r EXCEPT !.element = @ + 1])

TraverseDone(r) == [r EXCEPT !.traverse = "none", !.process = "group"]

TraverseGroup(r, g, i) ==
    ThenCall([r EXCEPT !.group = g, !.index = i, !.process = "element"],
          "group_start", "group")

\* Mutant: the last instance of a group is not reached.
AllInstances_OffByOne(r) ==
    CASE r.process # "instance" ->
             [TraverseAllElements(r) EXCEPT
                 !.process = IF AllElementsDone(r) THEN "instance" ELSE @]
      [] r.process = "instance" /\ r.index + 1 < Instances[r.group] ->
             TraverseGroup(r, r.group, r.index + 1)
      [] OTHER -> TraverseDone(r)

AllInstances(r) ==
    CASE r.process # "instance" ->
             [TraverseAllElements(r) EXCEPT
                 !.process = IF AllElementsDone(r) THEN "instance" ELSE @]
      [] r.process = "instance" /\ r.index < Instances[r.group] ->
             TraverseGroup(r, r.group, r.index + 1)
      [] OTHER -> TraverseDone(r)

AllGroups(r) ==
    CASE r.process = "element" ->
             [TraverseAllElements(r) EXCEPT
                 !.process = IF AllElementsDone(r) THEN "group" ELSE @]
      [] r.process # "element" /\ r.group = Len(Instances) ->
             TraverseDone(ThenCall(r, "action_end", "group_end"))
      [] OTHER -> IF r.group # 0 /\ r.index < Instances[r.group]
                  THEN TraverseGroup(r, r.group, r.index + 1)
                  ELSE TraverseGroup(r, r.group + 1, 1)

TraverseData ==
    /\ ParserStep("traverse")
    /\ rci' = CASE rci.traverse = "none" ->
                       [rci EXCEPT !.parser = IF rci.input = "done"
                                              THEN "output" ELSE "input"]
                [] rci.traverse = "command" ->
                       TraverseDone(ThenCall(rci, "action_start", "command"))
                [] rci.traverse = "group" ->
                       TraverseDone(ThenCall(rci, "group_start", "group"))
                [] rci.traverse = "element" ->
                       TraverseDone(TraverseElement(rci))
                [] rci.traverse = "element_end" ->
                       TraverseDone(ThenCall(rci, "group_end", "field_end"))
                [] rci.traverse = "group_end" ->
                       TraverseDone(ThenCall(rci, "action_end", "group_end"))
                [] rci.traverse = "all_elements" ->
                       IF AllElementsDone(rci)
                       THEN TraverseDone(TraverseAllElements(rci))
                       ELSE TraverseAllElements(rci)
                [] rci.traverse = "all_instances" -> AllInstances(rci)
                [] rci.traverse = "all_groups" -> AllGroups(rci)
    /\ UNCHANGED <<tokens, more, written, room, stage, odd>>

-----------------------------------------------------------------------------
\* Mutant: what does not fit is tried again without sending the packet.
Write_NoFlush(item, bytes, next) ==
    /\ IF bytes > room
       THEN UNCHANGED <<rci, written, room>>
       ELSE /\ rci' = next /\ room' = room - bytes
            /\ written' = Append(written, item)
    /\ UNCHANGED <<stage, odd>>

\* An item is written if it fits, and then the parser goes on as "next";
\* otherwise the packet is sent first.
Write(item, bytes, next) ==
    /\ IF bytes > room
       THEN /\ rci' = [rci EXCEPT !.status = "flush"]
            /\ UNCHANGED <<written, room>>
       ELSE /\ rci' = next /\ room' = room - bytes
            /\ written' = Append(written, item)
    /\ UNCHANGED <<stage, odd>>

Onward(next) == rci' = next /\ UNCHANGED <<written, room, stage, odd>>
To(r) == [r EXCEPT !.parser = IF r.failed THEN "error" ELSE "traverse"]

\* A string is written in parts.  One of an earlier session comes first.
WriteText(item, next) ==
    CASE rci.half = "earlier" ->
             /\ odd' = odd \cup {"stale"} /\ room' = room - 1
             /\ written' = Append(written, <<"rest">>)
             /\ rci' = [next EXCEPT !.half = "none"]
             /\ UNCHANGED stage
      [] rci.half = "this" -> Write(item, 1, [next EXCEPT !.half = "none"])
      [] OTHER -> IF room = 1
                  THEN /\ rci' = [rci EXCEPT !.half = "this",
                                             !.status = "flush"]
                       /\ room' = 0 /\ UNCHANGED <<written, stage, odd>>
                  ELSE Write(item, 2, next)

\* rci_output_ipv4 asks for four bytes and writes five, and does not flush
\* when there are fewer: the parser stays busy for good.
WriteAddress(item, next) ==
    CASE room < 4 -> /\ odd' = odd \cup {"stuck"}
                     /\ UNCHANGED <<rci, written, room, stage>>
      [] room = 4 -> /\ stage' = "dead" /\ odd' = odd \cup {"beyond"}
                     /\ UNCHANGED <<rci, written, room>>
      [] OTHER    -> Write(item, 5, next)

OutputValue ==
    LET next == [rci EXCEPT !.parser = "traverse"]
        item == <<"value", rci.value>>
    IN
    CASE rci.action = "set" -> Write(<<"no value">>, 1, next)
      [] rci.action = "query" /\ Kinds[rci.group][rci.element] = "address" ->
             WriteAddress(item, next)
      [] rci.action = "query" /\ Kinds[rci.group][rci.element] = "text" ->
             WriteText(item, next)
      [] OTHER -> Write(item, 2, next)

\* rci_output_command_id ... rci_output_group_terminator.
OutputItem ==
    CASE rci.output = "command" ->
             Write(<<"command", rci.action>>, 1, To(rci))
      [] rci.output = "group" ->
             IF rci.group = 0 THEN Onward([rci EXCEPT !.parser = "error"])
             ELSE Write(<<"group", rci.group>>, 1,
                        IF rci.failed THEN To(rci)
                        ELSE [rci EXCEPT !.output = "attribute"])
      [] rci.output = "attribute" ->
             LET next == [rci EXCEPT !.parser = "traverse"] IN
             IF rci.index > 1 THEN Write(<<"index", rci.index>>, 1, next)
             ELSE Onward(next)
      [] rci.output = "field" ->
             IF rci.element = 0 THEN Onward([rci EXCEPT !.parser = "error"])
             ELSE Write(<<"field", rci.element>>, 1,
                        IF rci.failed THEN To(rci)
                        ELSE [rci EXCEPT !.output = "value"])
      [] rci.output = "value" -> OutputValue
      [] rci.output = "field_end" ->
             Write(End, 1, To([rci EXCEPT !.element = 0]))
      [] rci.output = "group_end" ->
             LET next == [rci EXCEPT !.group = 0] IN
             IF rci.failed THEN Onward(To(next))
             ELSE Write(End, 1, [next EXCEPT !.output = "response_done"])
      [] rci.output = "response_done" ->
             Onward(IF rci.input = "done"
                  THEN ThenCall(rci, "session_end", "done")
                  ELSE [rci EXCEPT !.parser = "input", !.input = "command"])
      [] rci.output = "done" ->
             IF rci.failed THEN Onward(To(rci))
             ELSE /\ rci' = [rci EXCEPT !.status = "complete"]
                  /\ stage' = "sending" /\ UNCHANGED <<written, room, odd>>

\* rci_generate_output.
GenerateOutput ==
    /\ ParserStep("output") /\ UNCHANGED <<tokens, more>>
    /\ IF room > 0 THEN OutputItem
       ELSE Onward([rci EXCEPT !.status = "flush"])

\* The packet is sent and the same input passed again.
FlushOutput ==
    /\ stage = "running" /\ rci.status = "flush"
    /\ rci' = [rci EXCEPT !.status = "busy"] /\ room' = PacketRoom
    /\ UNCHANGED <<within, tokens, more, written, user, saved, owed, stage,
                   sessions, troubles, odd>>

\* Mutant: the end of a group that failed is not taken for its end.
Unwind_GroupAgain ==
    CASE rci.last = "action_start" -> Onward(Trigger(rci, "action_end"))
      [] rci.last = "session_start" -> Onward(Trigger(rci, "session_end"))
      [] rci.last = "action_end" -> Write(End, 1, Trigger(rci, "session_end"))
      [] rci.last \in {"process", "group_start", "group_end"} ->
             Write(End, 1, Trigger(rci, "group_end"))
      [] rci.last = "session_end" ->
             /\ rci' = [rci EXCEPT !.status = "complete"]
             /\ stage' = "sending" /\ UNCHANGED <<written, room, odd>>

\* rci_generate_error: the error, then the ends of all that was begun, with
\* their callbacks.  A second command that is unknown gets an end too many.
Unwind ==
    CASE rci.last \in {"action_start", "group_end"} ->
             Onward(Trigger(rci, "action_end"))
      [] rci.last = "session_start" -> Onward(Trigger(rci, "session_end"))
      [] rci.last = "action_end" -> Write(End, 1, Trigger(rci, "session_end"))
      [] rci.last \in {"process", "group_start"} ->
             Write(End, 1, Trigger(rci, "group_end"))
      [] rci.last = "session_end" ->
             /\ rci' = [rci EXCEPT !.status = "complete"]
             /\ stage' = "sending" /\ UNCHANGED <<written, room, odd>>

GenerateError ==
    /\ ParserStep("error") /\ UNCHANGED <<tokens, more>>
    /\ CASE room = 0 -> /\ odd' = odd \cup {"full"}
                        /\ UNCHANGED <<rci, written, room, stage>>
         [] room > 0 /\ rci.unwind = "error" ->
                LET next == [rci EXCEPT !.unwind = "callback",
                                        !.half = "none"] IN
                IF room < 3
                THEN rci' = [rci EXCEPT !.status = "flush"]
                     /\ UNCHANGED <<written, room, stage, odd>>
                ELSE /\ rci' = next /\ written' = Append(written, <<"error">>)
                     /\ room' = room - 3 /\ UNCHANGED stage
                     /\ odd' = odd
                           \cup (IF rci.half # "none" THEN {"stale"} ELSE {})
                           \cup (IF rci.last = "action_end" THEN {"second"}
                                 ELSE {})
         [] OTHER -> Unwind

-----------------------------------------------------------------------------
\* What is left of the session; the request and the response are kept here
\* only for the properties.
Forgets ==
    /\ tokens' = <<>> /\ more' = <<>> /\ written' = <<>>
    /\ room' = PacketRoom /\ owed' = [request |-> <<>>, before |-> saved]
    /\ UNCHANGED <<within, saved, sessions>>

ResponseSent ==
    /\ stage = "sending" /\ stage' = "none" /\ odd' = {} /\ Forgets
    /\ UNCHANGED <<rci, user, troubles>>

\* The connection goes or the cloud cancels: rci_session_lost.  After the last
\* call of the session rci.service_data is NULL.  The gateway takes the copy
\* of the group, which may be freed, for the table with its callbacks.
RciLost ==
    /\ stage \in {"running", "sending"} /\ ~within
    /\ troubles < MaxTrouble /\ troubles' = troubles + 1
    /\ \/ stage = "sending" /\ stage' = "dead" /\ odd' = {"late"}
       \/ stage = "running" /\ stage' = "none" /\ odd' = {}
       \/ /\ stage = "running" /\ user.group # "none"
          /\ stage' = "dead" /\ odd' = {"lost"}
    /\ rci' = [rci EXCEPT !.status = "complete", !.calling = "none"]
    /\ user' = NoSession /\ Forgets

RciWork == \/ RciCallback \/ ParseInput \/ MoreInput \/ TraverseData
           \/ GenerateOutput \/ FlushOutput \/ GenerateError

RciNext ==
    \/ \E wish \in RciRequests, split \in BOOLEAN, spare \in Rooms :
           BeginSession(wish, split, spare)
    \/ RciWork \/ ResponseSent \/ RciLost

RciFairness == WF_rciVars(RciWork)
RciSpec == RciInit /\ [][RciNext]_rciVars /\ RciFairness

-----------------------------------------------------------------------------
HasError == \E k \in DOMAIN written : written[k] = <<"error">>

\* What the cloud asked of the settings is what it gets: a session without an
\* error answers every command in order, a query with each field, that can be
\* read, of each instance asked for, as the commands before have left it, and
\* leaves the settings changed in what was set and nowhere else.
Answered ==
    stage = "sending" /\ odd = {} /\ ~HasError =>
        LET asked == owed.request
            after == Settled(asked, owed.before)
        IN
        /\ written = Flat([k \in DOMAIN asked |->
                              AnswerTo(asked[k], after[k - 1])])
        /\ saved = after[Len(asked)]

\* The response is well formed, also with an error in it: an end for each
\* command and for each group that was begun, in turn.
ResponseBalanced ==
    LET opens(n) == {k \in 1 .. n : written[k][1] \in {"command", "group"}}
        ends(n)  == {k \in 1 .. n : written[k] = End}
    IN
    stage = "sending" /\ odd \subseteq {"memory"} =>
        /\ Cardinality(opens(Len(written))) = Cardinality(ends(Len(written)))
        /\ \A n \in DOMAIN written :
               Cardinality(ends(n)) <= Cardinality(opens(n))

\* The callbacks come in brackets: however a session ends, the gateway is not
\* asked about a group it has not begun or has ended, as long as malloc does
\* not fail and the connection stays.
CallbacksBracketed ==
    stage = "dead" => odd \cap {"memory", "lost", "late", "beyond"} # {}

\* So neither the cloud nor the gateway loses its place in a session.
Bracketed == ResponseBalanced /\ CallbacksBracketed

\* A session comes to its end, in whatever packets its response goes, unless
\* the parser finds a packet exactly full before an error or nearly full
\* before an address.
SessionEnds ==
    []<>(stage # "running" \/ odd \cap {"stuck", "full"} # {})
=============================================================================
