---------------------------- MODULE ConfigProofs ----------------------------
(***************************************************************************)
(* Proofs about RemoteConfig, for any table of groups and any requests     *)
(* that are sentences of the grammar.  The callbacks come bracketed        *)
(* because the state of the parser tells which one came last               *)
(* (ControlInv), whether or not the request ended in an error              *)
(* (UnwindInv); and the response is balanced because that state tells how  *)
(* many ends are still to be written (DepthInv).  That the parser meets    *)
(* an end only where the grammar has one is what the requests come in      *)
(* for: what is still to be read is the rest of a sentence (SyncInv).      *)
(***************************************************************************)
EXTENDS RemoteConfig, FiniteSetTheorems, TLAPS

Calls == {"session_start", "action_start", "group_start", "process",
          "group_end", "action_end", "session_end"}

OutputStates == {"command", "group", "attribute", "field", "value", "field_end",
                 "group_end", "response_done", "done"}

Traversals == {"none", "command", "group", "element", "element_end",
               "group_end", "all_elements", "all_instances", "all_groups"}

Statuses == {"busy", "more", "flush", "complete"}

Parsers == {"input", "output", "traverse", "error"}

Inputs == {"command", "group", "field", "done"}

Stages == {"group", "element", "instance"}

ParserTypes ==
    [status : Statuses, parser : Parsers, input : Inputs, output : OutputStates,
     traverse : Traversals, process : Stages, unwind : {"error", "callback"},
     failed : BOOLEAN, calling : Calls \cup {"none"},
     last : Calls \cup {"none"}, group : Groups \cup {0}, index : 0 .. 9,
     element : 0 .. 9, all : BOOLEAN, action : {"query", "set"},
     value : Values \cup {"none"}, half : {"none", "this", "earlier"}]

ConfigTypes ==
    /\ rci \in ParserTypes /\ within \in BOOLEAN
    /\ tokens \in Seq(Tokens) /\ more \in Seq(Tokens)
    /\ room \in 0 .. PacketRoom /\ saved \in [Settings -> Values]
    /\ user.context \in {"none", "live"}
    /\ user.group \in {"none", "live", "freed"}
    /\ user = [context |-> user.context, group |-> user.group,
               copy |-> user.copy]
    /\ stage \in {"none", "running", "sending", "dead"}
    /\ sessions \in 0 .. RciSessions /\ troubles \in 0 .. MaxTrouble
    /\ odd \subseteq {"sticky", "second", "stuck", "full", "beyond",
                      "stale", "memory", "lost", "late"}

\* Which callback came last, or is to come: outside of a command, in one, in
\* a group of it.
Outside == rci.last \in {"session_start", "action_end"}

Between == rci.last \in {"action_start", "group_end"}

InsideGroup == rci.last \in {"group_start", "process"}

Steady == rci.process = "group"

\* How the traversal goes on in a group, and between two.
GoesOnInside ==
    \/ rci.traverse = "none" /\ rci.input = "field" /\ Steady
    \/ rci.traverse = "all_elements" /\ rci.input = "group" /\ Steady
           /\ rci.action = "query"
    \/ rci.traverse = "all_instances" /\ rci.input = "group"
           /\ rci.process # "instance" /\ rci.action = "query"
    \/ rci.traverse = "all_groups" /\ rci.input \in {"group", "done"}
           /\ rci.process = "element" /\ rci.action = "query"

GoesOnBetween ==
    \/ rci.traverse = "none" /\ rci.input = "group" /\ Steady
    \/ rci.traverse = "all_instances" /\ rci.input = "group"
           /\ rci.process = "instance" /\ rci.group # 0
           /\ rci.action = "query"
    \/ rci.traverse = "all_groups" /\ rci.input \in {"group", "done"}
           /\ rci.process # "element" /\ rci.action = "query"

InGroup ==
    /\ rci.group # 0 /\ rci.index \in 1 .. Instances[rci.group]
    /\ rci.element \in 0 .. Len(Kinds[rci.group])

OfGroup == InGroup /\ rci.element # 0

HasValue == rci.action = "set" => rci.value # "none"

NoElement == rci.element = 0

CallRefused == rci.failed /\ rci.calling = "none"

AtInput ==
    /\ rci.calling # "none" => rci.last = "session_start"
    /\ CallRefused => rci.last = "session_start"
    /\ rci.input # "command" => rci.traverse = "none"
    /\ \/ rci.input = "command" /\ Outside /\ NoElement /\ rci.group = 0
       \/ rci.input = "group" /\ GoesOnBetween /\ Between /\ NoElement
       \/ rci.input = "field" /\ GoesOnInside /\ InsideGroup /\ InGroup

AtTraverse ==
    /\ rci.calling = "none"
    /\ \/ /\ ~rci.failed
          /\ \/ GoesOnInside /\ InsideGroup /\ InGroup
             \/ GoesOnBetween /\ Between /\ NoElement
             \/ /\ rci.traverse = "command" /\ rci.input = "group"
                /\ Outside /\ NoElement /\ rci.group = 0
             \/ /\ rci.traverse = "group" /\ rci.input = "field" /\ Steady
                /\ Between /\ NoElement /\ InGroup
             \/ /\ rci.traverse = "element" /\ rci.input = "field" /\ Steady
                /\ InsideGroup /\ OfGroup /\ HasValue
             \/ /\ rci.traverse = "element_end" /\ rci.input = "group" /\ Steady
                /\ InsideGroup /\ NoElement /\ InGroup
             \/ /\ rci.traverse = "group_end" /\ Steady
                /\ rci.input \in {"command", "done"} /\ Between /\ NoElement
       \/ /\ rci.failed /\ rci.traverse = "none" /\ rci.input = "done"
          /\ rci.output = "group" /\ Between /\ NoElement /\ rci.group = 0

AtOutput ==
    /\ rci.output = "command" =>
           /\ rci.last = "action_start" /\ ~CallRefused /\ Steady /\ NoElement
           /\ rci.traverse = "none" /\ rci.input = "group"
    /\ rci.output = "group" =>
           \/ rci.last = "group_start" /\ InGroup /\ NoElement /\ GoesOnInside
           \/ CallRefused /\ Between /\ rci.group = 0
    /\ rci.output = "attribute" =>
           /\ rci.last = "group_start" /\ InGroup /\ NoElement /\ GoesOnInside
           /\ ~rci.failed /\ rci.calling = "none"
    /\ rci.output = "field" =>
           \/ rci.last = "process" /\ OfGroup /\ GoesOnInside
           \/ CallRefused /\ InsideGroup /\ NoElement
           \/ CallRefused /\ Outside /\ NoElement
    /\ rci.output = "value" =>
           /\ rci.last = "process" /\ OfGroup /\ GoesOnInside
           /\ ~rci.failed /\ rci.calling = "none"
    /\ rci.output = "field_end" =>
           rci.last = "group_end" /\ InGroup /\ GoesOnBetween
    /\ rci.output \in {"group_end", "response_done"} =>
           /\ rci.last = "action_end" /\ ~CallRefused /\ Steady /\ NoElement
           /\ rci.traverse = "none" /\ rci.input # "field"
    /\ rci.output = "response_done" => rci.calling = "none" /\ rci.group = 0
    /\ rci.output = "done" => rci.last = "session_end" /\ ~CallRefused

ControlInv ==
    stage = "running" =>
        /\ rci.last # "none" /\ rci.calling \in {"none", rci.last}
        /\ rci.parser = "input" => AtInput
        /\ rci.parser = "traverse" => AtTraverse
        /\ rci.parser = "output" => AtOutput
        /\ rci.calling \in {"group_start", "process"} => InGroup
        /\ rci.calling = "process" => rci.element # 0 /\ HasValue

\* A group that was begun is there until its end; the copy is of that group.
LiveInv ==
    /\ stage = "running" /\ "memory" \notin odd =>
           /\ rci.calling \in {"process", "group_end"} => user.group = "live"
           /\ rci.calling = "none" /\ InsideGroup => user.group = "live"
    /\ stage = "running" /\ user.group = "live"
           /\ rci.calling # "session_start" =>
           /\ InGroup /\ user.copy \in [Fields(rci.group) -> Values]
           /\ \/ rci.calling = "group_end"
              \/ InsideGroup /\ rci.calling # "group_start"

\* How many commands and groups of the response are open.
Openings(w, n) ==
    Cardinality({k \in 1 .. n : w[k][1] \in {"command", "group"}})
Endings(w, n) == Cardinality({k \in 1 .. n : w[k] = End})
OpenBy(w, d) ==
    /\ Openings(w, Len(w)) = Endings(w, Len(w)) + d
    /\ \A n \in DOMAIN w : Endings(w, n) <= Openings(w, n)

Depth ==
    IF rci.parser = "output" /\ rci.output \in
           {"command", "group", "field_end", "group_end"}
    THEN CASE rci.output = "command" -> 0
           [] rci.output = "field_end" -> 2
           [] OTHER -> 1
    ELSE CASE InsideGroup -> 2
           [] Between -> 1
           [] rci.last = "action_end" /\ rci.parser = "error"
                  /\ rci.unwind = "callback" -> 1
           [] OTHER -> 0

DepthInv ==
    "second" \notin odd =>
        /\ stage = "running" => OpenBy(written, Depth)
        /\ stage = "sending" => OpenBy(written, 0)

UnwindInv ==
    stage = "running" /\ rci.parser # "error" => rci.unwind = "error"

\* Where in the request the parser is.
Doomed == rci.parser = "error" \/ (rci.parser # "input" /\ CallRefused)

Expected ==
    IF rci.traverse = "all_groups"
       \/ (rci.parser = "output" /\ rci.output \in {"group_end", "response_done"})
    THEN "command" ELSE rci.input

Expects(q) ==
    ~Doomed /\ rci.input # "done" =>
        /\ q.at = Expected
        /\ Expected # "command" => q.do = rci.action
        /\ Expected = "field" => q.group = rci.group

\* The tokens of the request, how many of them were read, and the place the
\* next one has.
OwedTokens == AllTokens(owed.request)

HaveRead == Len(OwedTokens) - Len(tokens) - Len(more)

Place == PlacesOf(OwedTokens)[HaveRead + 1]

SyncInv ==
    stage = "running" =>
        /\ owed.request \in RciRequests
        /\ HaveRead >= 0
        /\ \A i \in 1 .. Len(tokens) : tokens[i] = OwedTokens[HaveRead + i]
        /\ \A i \in 1 .. Len(more) :
               more[i] = OwedTokens[HaveRead + Len(tokens) + i]
        /\ rci.input = "done" <=> tokens = <<>> /\ more = <<>> /\ HaveRead > 0
        /\ Expects(Place)

\* A step that leaves the parser where it is in the request.
SamePlace ==
    /\ rci'.input = rci.input /\ rci'.action = rci.action
    /\ ~Doomed' /\ rci.input # "done" =>
           /\ ~Doomed /\ Expected' = Expected
           /\ Expected = "field" => rci'.group = rci.group

\* What the response is made of, and how an item changes the depth.
Items == {<<"command", a>> : a \in {"query", "set"}}
         \cup {<<"group", g>> : g \in Groups}
         \cup {<<"index", i>> : i \in 0 .. 9}
         \cup {<<"field", f>> : f \in 0 .. 9}
         \cup {<<"value", v>> : v \in Values \cup {"none"}}
         \cup {<<"no value">>, <<"rest">>, <<"error">>, End}

ItemsInv == written \in Seq(Items)

BeginsPart(x) == x[1] \in {"command", "group"}

Writes ==
    \/ written' = written /\ Depth' = Depth
    \/ \E x \in Items :
          /\ written' = Append(written, x)
          /\ \/ BeginsPart(x) /\ x # End /\ Depth' = Depth + 1
             \/ x = End /\ Depth = Depth' + 1
             \/ ~BeginsPart(x) /\ x # End /\ Depth' = Depth

-----------------------------------------------------------------------------

LEMMA ParserFields ==
    ASSUME NEW r \in ParserTypes
    PROVE  /\ r.status \in {"busy", "more", "flush", "complete"}
           /\ r.parser \in {"input", "output", "traverse", "error"}
           /\ r.input \in {"command", "group", "field", "done"}
           /\ r.output \in OutputStates
           /\ r.traverse \in {"none", "command", "group", "element",
                  "element_end", "group_end", "all_elements",
                  "all_instances", "all_groups"}
           /\ r.process \in {"group", "element", "instance"}
           /\ r.unwind \in {"error", "callback"} /\ r.failed \in BOOLEAN
           /\ r.calling \in Calls \cup {"none"}
           /\ r.last \in Calls \cup {"none"} /\ r.group \in Groups \cup {0}
           /\ r.index \in 0 .. 9 /\ r.element \in 0 .. 9 /\ r.all \in BOOLEAN
           /\ r.action \in {"query", "set"} /\ r.value \in Values \cup {"none"}
           /\ r.half \in {"none", "this", "earlier"}
BY DEF ParserTypes, Statuses, Parsers, Inputs, Traversals, Stages

\* A record with one field changed, and the rest as it was.
LEMMA NewStatus ==
    ASSUME NEW r \in ParserTypes, NEW s \in Statuses,
           NEW q, q = [r EXCEPT !.status = s]
    PROVE  /\ q \in ParserTypes /\ q.status = s /\ q.parser = r.parser
           /\ q.input = r.input /\ q.output = r.output
           /\ q.traverse = r.traverse /\ q.process = r.process
           /\ q.unwind = r.unwind /\ q.failed = r.failed
           /\ q.calling = r.calling /\ q.last = r.last /\ q.group = r.group
           /\ q.index = r.index /\ q.element = r.element /\ q.all = r.all
           /\ q.action = r.action /\ q.value = r.value /\ q.half = r.half
<1>1. q \in ParserTypes
  BY DEF ParserTypes
<1> QED
  BY <1>1 DEF ParserTypes

LEMMA UpTo ==
    ASSUME NEW n \in 1 .. 9, NEW i \in 1 .. n
    PROVE  i \in 1 .. 9 /\ i <= n
OBVIOUS

LEMMA GroupFacts ==
    /\ Groups = 1 .. Len(Instances) /\ Len(Instances) \in Nat \ {0}
    /\ \A g \in Groups : /\ Instances[g] \in 1 .. 9
                         /\ Fields(g) = 1 .. Len(Kinds[g])
                         /\ Len(Kinds[g]) \in 1 .. 9
                         /\ \A f \in Fields(g) : Kinds[g][f] \in FieldKinds
                         /\ \A i \in 1 .. Instances[g], f \in Fields(g) :
                                <<g, i, f>> \in Settings
    /\ \A s \in Settings : s[1] \in Groups /\ s[3] \in Fields(s[1])
<1>1. /\ Groups = 1 .. Len(Instances) /\ Len(Instances) \in Nat \ {0}
      /\ \A g \in Groups : Instances[g] \in 1 .. 9
  BY RciAssumption DEF Groups
<1>2. \A g \in Groups : /\ Kinds[g] \in Seq(FieldKinds)
                        /\ Len(Kinds[g]) \in 1 .. 9
  BY RciAssumption
<1>3. \A g \in Groups : /\ Fields(g) = 1 .. Len(Kinds[g])
                        /\ \A f \in Fields(g) : Kinds[g][f] \in FieldKinds
  BY <1>2 DEF Fields
<1>4. ASSUME NEW g \in Groups, NEW i \in 1 .. Instances[g], NEW f \in Fields(g)
      PROVE  <<g, i, f>> \in Settings
  <2>1. Instances[g] \in 1 .. 9
    BY <1>1, <1>4
  <2>2. Len(Kinds[g]) \in 1 .. 9
    BY <1>2, <1>4
  <2>3. f \in 1 .. Len(Kinds[g])
    BY <1>2, <1>4 DEF Fields
  <2>4. i \in 1 .. 9 /\ f \in 1 .. 9 /\ i <= Instances[g]
    BY <2>1, <2>2, <2>3, UpTo
  <2>5. <<g, i, f>> \in Groups \X (1 .. 9) \X (1 .. 9)
    BY <1>4, <2>4
  <2> QED
    BY <1>4, <2>4, <2>5 DEF Settings
<1>5. \A s \in Settings : s[1] \in Groups /\ s[3] \in Fields(s[1])
  BY DEF Settings
<1> QED
  BY <1>1, <1>2, <1>3, <1>4, <1>5

\* A step that changes what does not matter here, as the status.
Alike ==
    /\ rci' \in ParserTypes /\ rci'.parser = rci.parser
    /\ rci'.input = rci.input /\ rci'.output = rci.output
    /\ rci'.traverse = rci.traverse /\ rci'.process = rci.process
    /\ rci'.unwind = rci.unwind /\ rci'.failed = rci.failed
    /\ rci'.calling = rci.calling /\ rci'.last = rci.last
    /\ rci'.group = rci.group /\ rci'.index = rci.index
    /\ rci'.element = rci.element /\ rci'.action = rci.action
    /\ rci'.value = rci.value /\ rci'.all = rci.all

LEMMA StatusAlike ==
    ASSUME rci \in ParserTypes, NEW s \in Statuses,
           rci' = [rci EXCEPT !.status = s]
    PROVE  Alike
BY NewStatus DEF Alike

LEMMA AlikeWell ==
    ASSUME ControlInv, LiveInv, Alike, UNCHANGED <<user, stage>>,
           "memory" \in odd' <=> "memory" \in odd
    PROVE  ControlInv' /\ LiveInv' /\ Depth' = Depth /\ SamePlace
<1>1. /\ GoesOnInside' = GoesOnInside /\ GoesOnBetween' = GoesOnBetween
      /\ InsideGroup' = InsideGroup /\ Between' = Between /\ Outside' = Outside
      /\ InGroup' = InGroup /\ OfGroup' = OfGroup /\ NoElement' = NoElement
      /\ CallRefused' = CallRefused /\ Steady' = Steady /\ HasValue' = HasValue
  BY DEF Alike, GoesOnInside, GoesOnBetween, InsideGroup, Between, Outside, InGroup,
     OfGroup, NoElement, CallRefused, Steady, HasValue
<1>2. AtInput' = AtInput /\ AtTraverse' = AtTraverse /\ AtOutput' = AtOutput
  BY <1>1 DEF Alike, AtInput, AtTraverse, AtOutput
<1>3. ControlInv'
  BY <1>1, <1>2 DEF ControlInv, Alike
<1>4. LiveInv'
  BY <1>1 DEF LiveInv, Alike
<1>5. Depth' = Depth
  BY <1>1 DEF Depth, Alike
<1>6. SamePlace
  BY <1>1 DEF SamePlace, Alike, Doomed, Expected
<1> QED
  BY <1>3, <1>4, <1>5, <1>6

-----------------------------------------------------------------------------

(* The callbacks.                                                          *)

\* The parser as a callback leaves it, but for a value.
UserReplied(e) ==
    /\ rci' \in ParserTypes /\ rci'.calling = "none" /\ rci'.failed = e
    /\ rci'.parser = rci.parser /\ rci'.input = rci.input
    /\ rci'.output = rci.output /\ rci'.traverse = rci.traverse
    /\ rci'.process = rci.process /\ rci'.unwind = rci.unwind
    /\ rci'.last = rci.last /\ rci'.group = rci.group
    /\ rci'.index = rci.index /\ rci'.element = rci.element
    /\ rci'.action = rci.action /\ rci'.all = rci.all

LEMMA ReturnsReplies ==
    ASSUME rci \in ParserTypes, NEW e \in BOOLEAN, Returns(e)
    PROVE  UserReplied(e) /\ within' \in BOOLEAN
BY DEF ParserTypes, Returns, UserReplied

LEMMA ReplyKeepsControl ==
    ASSUME ConfigTypes, ControlInv, stage = "running", stage' = "running",
           rci.calling # "none", NEW e \in BOOLEAN, UserReplied(e),
           e => rci.calling \notin {"action_start", "action_end", "session_end"}
    PROVE  ControlInv'
<1>1. /\ rci.last # "none" /\ rci.calling = rci.last
      /\ rci.parser = "input" => AtInput
      /\ rci.parser = "traverse" => AtTraverse
      /\ rci.parser = "output" => AtOutput
  BY DEF ControlInv
<1>2. /\ GoesOnInside' = GoesOnInside /\ GoesOnBetween' = GoesOnBetween
      /\ InsideGroup' = InsideGroup /\ Between' = Between /\ Outside' = Outside
      /\ InGroup' = InGroup /\ OfGroup' = OfGroup /\ NoElement' = NoElement
      /\ Steady' = Steady /\ CallRefused' = e /\ ~CallRefused
  BY DEF UserReplied, GoesOnInside, GoesOnBetween, InsideGroup, Between, Outside,
     InGroup, OfGroup, NoElement, CallRefused, Steady
<1>3. rci.parser # "traverse"
  BY <1>1 DEF AtTraverse
<1>4. rci.parser = "input" => AtInput'
  BY <1>1, <1>2 DEF AtInput, UserReplied
<1>5. ASSUME rci.parser = "output" PROVE AtOutput'
  <2>1. AtOutput
    BY <1>1, <1>5
  <2> QED
    BY <1>1, <1>2, <2>1 DEF AtOutput, UserReplied
<1> QED
  BY <1>1, <1>3, <1>4, <1>5 DEF ControlInv, UserReplied

\* How the record of the gateway changes.
LEMMA UserFields ==
    ASSUME ConfigTypes, NEW g, NEW c
    PROVE  LET u == [user EXCEPT !.group = g, !.copy = c] IN
           /\ u = [context |-> u.context, group |-> u.group, copy |-> u.copy]
           /\ u.context = user.context /\ u.group = g /\ u.copy = c
<1>1. PICK x, y, z : user = [context |-> x, group |-> y, copy |-> z]
  BY DEF ConfigTypes
<1>2. [user EXCEPT !.group = g] = [context |-> x, group |-> g, copy |-> z]
  BY <1>1
<1>3. [[context |-> x, group |-> g, copy |-> z] EXCEPT !.copy = c]
          = [context |-> x, group |-> g, copy |-> c]
  OBVIOUS
<1>4. [user EXCEPT !.group = g, !.copy = c]
          = [context |-> x, group |-> g, copy |-> c]
  BY <1>2, <1>3
<1> QED
  BY <1>1, <1>4

LEMMA UserGroup ==
    ASSUME ConfigTypes, NEW g
    PROVE  LET u == [user EXCEPT !.group = g] IN
           /\ u = [context |-> u.context, group |-> u.group, copy |-> u.copy]
           /\ u.context = user.context /\ u.group = g /\ u.copy = user.copy
BY DEF ConfigTypes

LEMMA UserCopy ==
    ASSUME ConfigTypes, NEW f, NEW v
    PROVE  LET u == [user EXCEPT !.copy[f] = v] IN
           /\ u = [context |-> u.context, group |-> u.group, copy |-> u.copy]
           /\ u.context = user.context /\ u.group = user.group
           /\ u.copy = [user.copy EXCEPT ![f] = v]
<1> DEFINE u == [user EXCEPT !.copy[f] = v]
<1>1. PICK context, group, copy :
          user = [context |-> context, group |-> group, copy |-> copy]
  BY DEF ConfigTypes
<1>2. u = [context |-> context, group |-> group,
           copy |-> [copy EXCEPT ![f] = v]]
  BY <1>1
<1> HIDE DEF u
<1>3. /\ u.context = context /\ u.group = group
      /\ u.copy = [copy EXCEPT ![f] = v]
  BY <1>2
<1>4. user.context = context /\ user.group = group /\ user.copy = copy
  BY <1>1
<1>5. /\ u = [context |-> u.context, group |-> u.group, copy |-> u.copy]
      /\ u.context = user.context /\ u.group = user.group
      /\ u.copy = [user.copy EXCEPT ![f] = v]
  BY <1>2, <1>3, <1>4
<1> QED
  BY <1>5 DEF u

LEMMA NoUser ==
    ASSUME NEW c
    PROVE  LET u == [NoSession EXCEPT !.context = c] IN
           /\ u = [context |-> u.context, group |-> u.group, copy |-> u.copy]
           /\ u.context = c /\ u.group = "none"
           /\ NoSession.context = "none" /\ NoSession.group = "none"
           /\ NoSession = [context |-> "none", group |-> "none",
                           copy |-> NoSession.copy]
BY DEF NoSession

CallStep == UNCHANGED <<tokens, more, written, room, owed, sessions>>

LEMMA SessionCalls ==
    ASSUME ConfigTypes, ControlInv, LiveInv, CallStep, stage = "running",
           AppSessionStart \/ AppSessionEnd
    PROVE  ConfigTypes' /\ ControlInv' /\ LiveInv'
<1>1. rci \in ParserTypes /\ rci.calling # "none" /\ rci.last = rci.calling
  BY DEF ConfigTypes, ControlInv, AppSessionStart, AppSessionEnd
<1>2. PICK e \in BOOLEAN : Returns(e) /\ (e => rci.calling = "session_start")
  BY DEF AppSessionStart, AppSessionEnd
<1>3. UserReplied(e) /\ within' \in BOOLEAN
  BY <1>1, <1>2, ReturnsReplies
<1>4. /\ stage' = "running" /\ saved' = saved
      /\ odd' = odd \/ odd' = odd \cup {"memory"}
      /\ \/ troubles' = troubles
         \/ troubles < MaxTrouble /\ troubles' = troubles + 1
  BY DEF AppSessionStart, AppSessionEnd, Quiet, Lacks
<1>5. /\ user' = [context |-> user'.context, group |-> user'.group,
                 copy |-> user'.copy]
      /\ user'.context \in {"none", "live"} /\ user'.group = "none"
  BY NoUser DEF AppSessionStart, AppSessionEnd
<1>9. troubles' \in 0 .. MaxTrouble
  BY <1>4, RciAssumption DEF ConfigTypes
<1>6. ConfigTypes'
  BY <1>3, <1>4, <1>5, <1>9 DEF ConfigTypes, CallStep, UserReplied
<1>7. ControlInv'
  BY <1>1, <1>2, <1>3, <1>4, ReplyKeepsControl
<1>8. LiveInv'
  <2>1. ~InsideGroup' /\ rci'.calling = "none"
    BY <1>1, <1>3 DEF UserReplied, InsideGroup, AppSessionStart, AppSessionEnd
  <2> QED
    BY <1>5, <2>1 DEF LiveInv
<1> QED
  BY <1>6, <1>7, <1>8

LEMMA ActionCalls ==
    ASSUME ConfigTypes, ControlInv, LiveInv, CallStep, stage = "running",
           AppAction
    PROVE  ConfigTypes' /\ ControlInv' /\ LiveInv'
<1>1. rci \in ParserTypes /\ rci.calling # "none" /\ rci.last = rci.calling
  BY DEF ConfigTypes, ControlInv, AppAction
<1>2. Returns(FALSE) /\ UNCHANGED <<user, stage, odd, saved, troubles>>
  BY DEF AppAction, Quiet
<1>3. UserReplied(FALSE) /\ within' \in BOOLEAN
  BY <1>1, <1>2, ReturnsReplies
<1>4. ConfigTypes'
  BY <1>2, <1>3 DEF ConfigTypes, CallStep, UserReplied
<1>5. ControlInv'
  BY <1>1, <1>2, <1>3, ReplyKeepsControl
<1>6. user.group # "live" /\ ~InsideGroup'
  BY <1>1, <1>3 DEF LiveInv, InsideGroup, AppAction, UserReplied
<1>7. LiveInv'
  BY <1>2, <1>3, <1>6 DEF LiveInv, UserReplied
<1> QED
  BY <1>4, <1>5, <1>7

LEMMA GroupStart ==
    ASSUME ConfigTypes, ControlInv, LiveInv, CallStep, stage = "running",
           AppGroupStart
    PROVE  ConfigTypes' /\ ControlInv' /\ LiveInv'
<1>1. /\ rci \in ParserTypes /\ rci.calling = "group_start"
      /\ rci.last = "group_start" /\ InGroup
      /\ rci.group \in Groups
  BY ParserFields DEF ConfigTypes, ControlInv, AppGroupStart, InGroup
<1>2. PICK e \in BOOLEAN :
          /\ Returns(e) /\ saved' = saved
          /\ ~e => /\ Quiet
                   /\ user' = [user EXCEPT !.group = "live",
                         !.copy = [f \in Fields(rci.group) |->
                                       saved[<<rci.group, rci.index, f>>]]]
          /\ e => Lacks /\ user' = [user EXCEPT !.group = "none", !.copy = <<>>]
  BY DEF AppGroupStart, Quiet
<1>3. UserReplied(e) /\ within' \in BOOLEAN
  BY <1>1, <1>2, ReturnsReplies
<1>4. /\ stage' = "running" /\ odd' = IF e THEN odd \cup {"memory"} ELSE odd
      /\ \/ troubles' = troubles
         \/ troubles < MaxTrouble /\ troubles' = troubles + 1
  BY <1>2 DEF Quiet, Lacks
<1>5. troubles' \in 0 .. MaxTrouble
  BY <1>4, RciAssumption DEF ConfigTypes
<1>6. /\ user' = [context |-> user'.context, group |-> user'.group,
                 copy |-> user'.copy]
      /\ user'.context = user.context
      /\ user'.group = IF e THEN "none" ELSE "live"
      /\ ~e => user'.copy = [f \in Fields(rci.group) |->
                                 saved[<<rci.group, rci.index, f>>]]
  <2>1. CASE e
    <3>1. user' = [user EXCEPT !.group = "none", !.copy = <<>>]
      BY <1>2, <2>1
    <3> QED
      BY <2>1, <3>1, UserFields, ZenonT(40)
  <2>2. CASE ~e
    <3> DEFINE c == [f \in Fields(rci.group) |->
                         saved[<<rci.group, rci.index, f>>]]
    <3>1. user' = [user EXCEPT !.group = "live", !.copy = c]
      BY <1>2, <2>2
    <3> HIDE DEF c
    <3>2. /\ user' = [context |-> user'.context, group |-> user'.group,
                      copy |-> user'.copy]
          /\ user'.context = user.context /\ user'.group = "live"
          /\ user'.copy = c
      BY <3>1, UserFields, ZenonT(40)
    <3> QED
      BY <2>2, <3>2 DEF c
  <2> QED
    BY <2>1, <2>2
<1>7. ~e => user'.copy \in [Fields(rci.group) -> Values]
  <2>1. \A f \in Fields(rci.group) :
            <<rci.group, rci.index, f>> \in Settings
    BY <1>1, GroupFacts DEF InGroup
  <2> QED
    BY <1>6, <2>1 DEF ConfigTypes
<1>8. ConfigTypes'
  BY <1>2, <1>3, <1>4, <1>5, <1>6 DEF ConfigTypes, CallStep, UserReplied
<1>9. ControlInv'
  BY <1>1, <1>3, <1>4, ReplyKeepsControl
<1>10. LiveInv'
  <2>1. rci'.calling = "none" /\ rci'.group = rci.group /\ InsideGroup' /\ InGroup'
    BY <1>1, <1>3 DEF UserReplied, InsideGroup, InGroup
  <2> QED
    BY <1>4, <1>6, <1>7, <2>1 DEF LiveInv
<1> QED
  BY <1>8, <1>9, <1>10

LEMMA Asserts ==
    ASSUME ConfigTypes, AppAsserts, CallStep
    PROVE  ConfigTypes' /\ ControlInv' /\ LiveInv'
BY DEF AppAsserts, CallStep, ConfigTypes, ControlInv, LiveInv

\* What the callback of a field leaves, and the copy.
LEMMA ProcessReplies ==
    ASSUME ConfigTypes, ControlInv, LiveInv, stage = "running", AppProcess
    PROVE  \E e \in BOOLEAN :
               /\ UserReplied(e) /\ within' \in BOOLEAN
               /\ user' = [context |-> user'.context, group |-> user'.group,
                           copy |-> user'.copy]
               /\ user'.context = user.context /\ user'.group = "live"
               /\ user'.copy \in [Fields(rci.group) -> Values]
<1>1. /\ rci \in ParserTypes /\ InGroup /\ rci.group \in Groups
      /\ user.group = "live" /\ user.copy \in [Fields(rci.group) -> Values]
      /\ rci.element \in Fields(rci.group)
  <2>1. rci \in ParserTypes /\ InGroup /\ rci.element # 0
    BY DEF ConfigTypes, ControlInv, AppProcess
  <2>2. rci.group \in Groups
    BY <2>1, ParserFields DEF InGroup
  <2>3. Len(Kinds[rci.group]) \in 1 .. 9
        /\ Fields(rci.group) = 1 .. Len(Kinds[rci.group])
    BY <2>2, GroupFacts
  <2>4. rci.element \in 1 .. Len(Kinds[rci.group])
    BY <2>1, <2>3 DEF InGroup
  <2> QED
    BY <2>1, <2>2, <2>3, <2>4 DEF LiveInv, AppProcess
<1>2. CASE rci.action = "set"
  <2> DEFINE e == rci.value = "bad"
                  /\ Kinds[rci.group][rci.element] = "number"
  <2>1. Returns(e)
        /\ user' = IF e THEN user ELSE [user EXCEPT !.copy[rci.element] = rci.value]
    BY <1>2 DEF AppProcess
  <2>2. e \in BOOLEAN
    OBVIOUS
  <2> HIDE DEF e
  <2>3. UserReplied(e) /\ within' \in BOOLEAN
    BY <1>1, <2>1, <2>2, ReturnsReplies
  <2>4. rci.value \in Values
    BY <1>1, <1>2, ParserFields DEF ControlInv, AppProcess, HasValue
  <2>5. ~e => user'.copy = [user.copy EXCEPT ![rci.element] = rci.value]
    BY <2>1, UserCopy
  <2>6. /\ user' = [context |-> user'.context, group |-> user'.group,
                    copy |-> user'.copy]
        /\ user'.context = user.context /\ user'.group = user.group
        /\ e => user'.copy = user.copy
    BY <2>1, UserCopy DEF ConfigTypes
  <2> QED
    BY <1>1, <2>2, <2>3, <2>4, <2>5, <2>6
<1>3. CASE rci.action = "query"
  <2>1. /\ rci' = [rci EXCEPT !.calling = "none", !.failed = FALSE,
                              !.value = user.copy[rci.element]]
        /\ within' = TRUE /\ user' = user
    BY <1>3 DEF AppProcess
  <2>2. user.copy[rci.element] \in Values
    BY <1>1
  <2>3. UserReplied(FALSE)
    BY <1>1, <2>1, <2>2 DEF ParserTypes, UserReplied
  <2> QED
    BY <1>1, <2>1, <2>3 DEF ConfigTypes
<1> QED
  BY <1>1, <1>2, <1>3, ParserFields

LEMMA ProcessCall ==
    ASSUME ConfigTypes, ControlInv, LiveInv, CallStep, stage = "running",
           AppProcess
    PROVE  ConfigTypes' /\ ControlInv' /\ LiveInv'
<1>1. PICK e \in BOOLEAN :
          /\ UserReplied(e) /\ within' \in BOOLEAN
          /\ user' = [context |-> user'.context, group |-> user'.group,
                      copy |-> user'.copy]
          /\ user'.context = user.context /\ user'.group = "live"
          /\ user'.copy \in [Fields(rci.group) -> Values]
  BY ProcessReplies
<1>2. /\ UNCHANGED <<saved, troubles, stage, odd>>
      /\ rci.calling = "process" /\ rci.last = "process" /\ InGroup
  BY DEF AppProcess, Quiet, ControlInv
<1>3. ConfigTypes'
  BY <1>1, <1>2 DEF ConfigTypes, CallStep, UserReplied
<1>4. ControlInv'
  BY <1>1, <1>2, ReplyKeepsControl
<1>5. rci'.calling = "none" /\ rci'.group = rci.group /\ InsideGroup' /\ InGroup'
  BY <1>1, <1>2 DEF UserReplied, InsideGroup, InGroup
<1>6. LiveInv'
  BY <1>1, <1>5 DEF LiveInv
<1> QED
  BY <1>3, <1>4, <1>6

LEMMA GroupEnd ==
    ASSUME ConfigTypes, ControlInv, LiveInv, CallStep, stage = "running",
           AppGroupEnd
    PROVE  ConfigTypes' /\ ControlInv' /\ LiveInv'
<1>1. /\ rci \in ParserTypes /\ rci.calling = "group_end"
      /\ rci.last = "group_end" /\ InGroup /\ user.group = "live"
      /\ user.copy \in [Fields(rci.group) -> Values]
      /\ UNCHANGED <<troubles, stage, odd>>
      /\ user' = [user EXCEPT !.group = "freed"]
  BY DEF ConfigTypes, ControlInv, LiveInv, AppGroupEnd
<1>2. PICK e \in BOOLEAN : Returns(e)
  BY DEF AppGroupEnd
<1>3. UserReplied(e) /\ within' \in BOOLEAN
  BY <1>1, <1>2, ReturnsReplies
<1>4. saved' \in [Settings -> Values]
  <2>1. saved \in [Settings -> Values]
    BY DEF ConfigTypes
  <2>2. PICK P : saved' = IF rci.action = "query" THEN saved
                          ELSE [s \in Settings |->
                                   IF s[1] = rci.group /\ P[s]
                                   THEN user.copy[s[3]] ELSE saved[s]]
    <3> DEFINE bad == {f \in Fields(rci.group) : user.copy[f] = "bad"}
               P == [s \in Settings |-> /\ s[2] = rci.index
                                        /\ \A f \in bad : s[3] < f]
    <3>1. saved' = IF rci.action = "query" THEN saved
                   ELSE [s \in Settings |->
                            IF s[1] = rci.group /\ P[s]
                            THEN user.copy[s[3]] ELSE saved[s]]
      BY DEF AppGroupEnd
    <3> QED
      BY <3>1
  <2>3. ASSUME NEW s \in Settings, s[1] = rci.group
        PROVE  user.copy[s[3]] \in Values
    BY <1>1, <2>3, GroupFacts
  <2> QED
    BY <2>1, <2>2, <2>3
<1>5. /\ user' = [context |-> user'.context, group |-> user'.group,
                 copy |-> user'.copy]
      /\ user'.context = user.context /\ user'.group = "freed"
  BY <1>1, UserGroup
<1>6. ConfigTypes'
  BY <1>1, <1>3, <1>4, <1>5 DEF ConfigTypes, CallStep, UserReplied
<1>7. ControlInv'
  BY <1>1, <1>3, ReplyKeepsControl
<1>8. LiveInv'
  BY <1>1, <1>3, <1>5 DEF LiveInv, UserReplied, InsideGroup
<1> QED
  BY <1>6, <1>7, <1>8

LEMMA CallbackControl ==
    ASSUME ConfigTypes, ControlInv, LiveInv, RciCallback
    PROVE  ConfigTypes' /\ ControlInv' /\ LiveInv'
<1>1. CallStep /\ stage = "running"
  BY DEF RciCallback, CallStep
<1> QED
  BY <1>1, SessionCalls, ActionCalls, GroupStart, Asserts, ProcessCall, GroupEnd
     DEF RciCallback

-----------------------------------------------------------------------------

(* The input.                                                              *)

LEMMA TokenShape ==
    ASSUME NEW t \in Tokens
    PROVE  /\ t[1] = "command" => t # End /\ t[2] \in {"query", "set", "bad"}
           /\ t[1] = "group" => t # End /\ t[2] \in Groups /\ t[3] \in 0 .. 9
           /\ t[1] = "field" => /\ t # End /\ t[2] \in 1 .. 9
                                /\ t[3] \in Values \cup {"none"}
BY DEF Tokens, End

\* The token at hand may come where the parser is; and the last one ends a
\* command.
LEMMA TokenComes ==
    ASSUME ConfigTypes, ControlInv, SyncInv, stage = "running",
           rci.parser = "input", rci.calling = "none", tokens # <<>>,
           NEW t, t = Head(tokens)
    PROVE  /\ t \in Tokens
           /\ rci.input \in {"command", "group", "field"}
           /\ rci.input = "command" =>
                  t # End /\ t[2] \in {"query", "set", "bad"}
           /\ rci.input = "group" /\ t # End =>
                  t[2] \in Groups /\ t[3] \in 0 .. Instances[t[2]]
           /\ rci.input = "field" /\ t # End =>
                  /\ t[2] \in Fields(rci.group) /\ t[2] \in 1 .. 9
                  /\ t[3] \in Values \cup {"none"}
                  /\ rci.action = "set" <=> t[3] # "none"
           /\ Len(tokens) = 1 /\ more = <<>> => rci.input = "group" /\ t = End
<1> DEFINE all == OwedTokens
           k == HaveRead
           place == PlacesOf(all)
<1>1. /\ owed.request \in RciRequests /\ k >= 0
      /\ \A i \in 1 .. Len(tokens) : tokens[i] = all[k + i]
      /\ rci.input # "done"
      /\ ~Doomed =>
             /\ place[k + 1].at = Expected
             /\ Expected # "command" => place[k + 1].do = rci.action
             /\ Expected = "field" => place[k + 1].group = rci.group
  BY DEF SyncInv, ControlInv, AtInput, Expects, Place
<1>2. /\ all \in Seq(Tokens)
      /\ place[1] = InCommand /\ place[Len(all) + 1] = InCommand
      /\ \A j \in 1 .. Len(all) :
             /\ MayCome(all[j], place[j])
             /\ place[j + 1] = NextPlace(all[j], place[j])
  BY <1>1, RequestAssumption DEF OwedTokens
<1>3. /\ tokens \in Seq(Tokens) /\ more \in Seq(Tokens)
      /\ Len(tokens) \in Nat \ {0} /\ Len(more) \in Nat /\ t = tokens[1]
      /\ rci \in ParserTypes /\ rci.input \in {"command", "group", "field"}
  BY <1>1, ParserFields DEF ConfigTypes
<1>4. AtInput /\ ~Doomed /\ Expected = rci.input
  BY ParserFields DEF ControlInv, AtInput, Doomed, Expected, ConfigTypes
<1> HIDE DEF place
<1>5. k + 1 \in 1 .. Len(all) /\ t = all[k + 1]
  <2>1. Len(all) \in Nat
    BY <1>2
  <2>2. k = Len(all) - Len(tokens) - Len(more)
    BY DEF HaveRead
  <2>3. k \in Nat /\ k + 1 \in 1 .. Len(all)
    BY <1>1, <1>3, <2>1, <2>2
  <2> QED
    BY <1>1, <1>3, <2>3
<1>6. Len(tokens) = 1 /\ more = <<>> => k + 1 = Len(all)
  BY <1>2, <1>3 DEF HaveRead
<1> DEFINE n == k + 1
<1>7. /\ n \in 1 .. Len(all) /\ t = all[n] /\ MayCome(t, place[n])
      /\ place[n + 1] = NextPlace(t, place[n])
      /\ place[n].at = rci.input
      /\ rci.input # "command" => place[n].do = rci.action
      /\ rci.input = "field" => place[n].group = rci.group
      /\ Len(tokens) = 1 /\ more = <<>> => n = Len(all)
  BY <1>1, <1>2, <1>4, <1>5, <1>6
<1> HIDE DEF k, n, all
<1>8. t \in Tokens
  BY <1>3
<1>9. CASE rci.input = "command"
  <2>1. t[1] = "command"
    BY <1>7, <1>9 DEF MayCome
  <2>2. place[n + 1].at = "group"
    BY <1>7, <1>9 DEF NextPlace
  <2> QED
    BY <1>2, <1>7, <1>8, <1>9, <2>1, <2>2, TokenShape DEF InCommand
<1>10. CASE rci.input = "group"
  <2>1. ASSUME t # End
        PROVE  t[1] = "group" /\ t[3] <= Instances[t[2]]
               /\ place[n + 1].at = "field"
    BY <1>7, <1>10, <2>1 DEF MayCome, NextPlace
  <2>2. ASSUME t # End
        PROVE  t[2] \in Groups /\ t[3] \in 0 .. 9 /\ Instances[t[2]] \in 1 .. 9
    BY <1>8, <2>1, <2>2, TokenShape, GroupFacts
  <2>3. ASSUME t # End
        PROVE  t[3] \in 0 .. Instances[t[2]]
    BY <2>1, <2>2, <2>3
  <2>4. ASSUME t # End
        PROVE  place[n + 1] # InCommand
    BY <2>1, <2>4 DEF InCommand
  <2> QED
    BY <1>2, <1>7, <1>8, <1>10, <2>2, <2>3, <2>4
<1>11. CASE rci.input = "field"
  <2>1. ASSUME t # End
        PROVE  /\ t[1] = "field" /\ t[2] \in Fields(rci.group)
               /\ rci.action = "set" <=> t[3] # "none"
               /\ place[n + 1] = place[n]
    BY <1>7, <1>11, <2>1 DEF MayCome, NextPlace
  <2>2. ASSUME t = End
        PROVE  place[n + 1].at = "group"
    BY <1>7, <1>11, <2>2 DEF NextPlace
  <2>3. place[n + 1] # InCommand
    BY <1>7, <1>11, <2>1, <2>2 DEF InCommand
  <2> QED
    BY <1>2, <1>7, <1>8, <1>11, <2>1, <2>3, TokenShape
<1> QED
  BY <1>3, <1>9, <1>10, <1>11

\* The parser after a token, but for the status.
LEMMA TokenTaken ==
    ASSUME NEW r \in ParserTypes,
           rci' = r \/ rci' = [r EXCEPT !.status = "more"]
    PROVE  /\ rci' \in ParserTypes /\ rci'.parser = r.parser
           /\ rci'.input = r.input /\ rci'.output = r.output
           /\ rci'.traverse = r.traverse /\ rci'.process = r.process
           /\ rci'.unwind = r.unwind /\ rci'.failed = r.failed
           /\ rci'.calling = r.calling /\ rci'.last = r.last
           /\ rci'.group = r.group /\ rci'.index = r.index
           /\ rci'.element = r.element /\ rci'.action = r.action
           /\ rci'.value = r.value /\ rci'.all = r.all
<1>1. "more" \in Statuses
  BY DEF Statuses
<1> QED
  BY <1>1, NewStatus

\* A record that is sent to the traversal, or fails.
LEMMA Traverses ==
    ASSUME NEW r \in ParserTypes, NEW s \in Traversals,
           NEW q, q = Traversing(r, s)
    PROVE  /\ q \in ParserTypes /\ q.parser = "traverse" /\ q.traverse = s
           /\ q.input = r.input /\ q.output = r.output
           /\ q.process = r.process /\ q.unwind = r.unwind
           /\ q.failed = r.failed /\ q.calling = r.calling
           /\ q.last = r.last /\ q.group = r.group /\ q.index = r.index
           /\ q.element = r.element /\ q.action = r.action
           /\ q.value = r.value /\ q.all = r.all
<1>1. "traverse" \in Parsers
  BY DEF Parsers
<1>2. q \in ParserTypes
  BY <1>1 DEF ParserTypes, Traversing
<1> QED
  BY <1>2 DEF ParserTypes, Traversing

LEMMA FailsHere ==
    ASSUME NEW r \in ParserTypes, NEW s \in OutputStates,
           NEW q, q = Fails(r, s)
    PROVE  /\ q \in ParserTypes /\ q.parser = "output" /\ q.output = s
           /\ q.failed /\ q.input = r.input
           /\ q.traverse = r.traverse /\ q.process = r.process
           /\ q.unwind = r.unwind /\ q.calling = r.calling
           /\ q.last = r.last /\ q.group = r.group /\ q.index = r.index
           /\ q.element = r.element /\ q.action = r.action
           /\ q.value = r.value /\ q.all = r.all
<1>1. "output" \in Parsers
  BY DEF Parsers
<1>2. q \in ParserTypes
  BY <1>1 DEF ParserTypes, Fails
<1> QED
  BY <1>2 DEF ParserTypes, Fails

LEMMA CommandFields ==
    ASSUME rci \in ParserTypes, NEW t, t[2] \in {"query", "set", "bad"},
           NEW r, r = CommandToken(rci, t)
    PROVE  /\ r \in ParserTypes /\ r.calling = rci.calling
           /\ r.last = rci.last /\ r.group = rci.group
           /\ r.element = rci.element /\ r.unwind = rci.unwind
           /\ r.process = rci.process /\ r.index = rci.index
           /\ \/ /\ rci.failed /\ r.failed /\ r.parser = "output"
                 /\ r.output = "field" /\ r.input = rci.input
                 /\ r.traverse = rci.traverse
              \/ /\ ~rci.failed /\ r.failed /\ r.parser = "error"
                 /\ r.input = rci.input
              \/ /\ ~rci.failed /\ ~r.failed /\ r.parser = "traverse"
                 /\ r.traverse = "command" /\ r.input = "group"
                 /\ t[2] # "bad" /\ r.action = t[2]
<1>1. CASE rci.failed
  <2>1. r = [rci EXCEPT !.output = "field", !.parser = "output"]
    BY <1>1 DEF CommandToken
  <2>2. "field" \in OutputStates /\ "output" \in Parsers
    BY DEF OutputStates, Parsers
  <2>3. r \in ParserTypes
    BY <2>1, <2>2, ZenonT(40) DEF ParserTypes
  <2> QED
    BY <1>1, <2>1, <2>3 DEF ParserTypes
<1>2. CASE ~rci.failed /\ t[2] = "bad"
  <2>1. r = [rci EXCEPT !.failed = TRUE, !.parser = "error"]
    BY <1>2 DEF CommandToken
  <2>2. "error" \in Parsers
    BY DEF Parsers
  <2>3. r \in ParserTypes
    BY <2>1, <2>2 DEF ParserTypes
  <2> QED
    BY <1>2, <2>1, <2>3 DEF ParserTypes
<1>3. CASE ~rci.failed /\ t[2] # "bad"
  <2> DEFINE p == [rci EXCEPT !.action = t[2], !.input = "group"]
  <2>1. r = Traversing(p, "command")
    BY <1>3 DEF CommandToken
  <2>2. "group" \in Inputs /\ "command" \in Traversals
    BY DEF Inputs, Traversals
  <2>3. p \in ParserTypes
    BY <1>3, <2>2 DEF ParserTypes
  <2>4. /\ p.calling = rci.calling /\ p.last = rci.last
        /\ p.group = rci.group /\ p.element = rci.element
        /\ p.unwind = rci.unwind /\ p.process = rci.process
        /\ p.index = rci.index /\ p.failed = rci.failed
        /\ p.input = "group" /\ p.action = t[2]
    BY <2>3 DEF ParserTypes
  <2> HIDE DEF p
  <2> QED
    BY <1>3, <2>1, <2>2, <2>3, <2>4, Traverses
<1> QED
  BY <1>1, <1>2, <1>3

LEMMA GroupFields ==
    ASSUME rci \in ParserTypes, NEW t,
           t # End => t[2] \in Groups /\ t[3] \in 0 .. Instances[t[2]],
           NEW r, r = GroupToken(rci, t)
    PROVE  /\ r \in ParserTypes /\ r.calling = rci.calling
           /\ r.last = rci.last /\ r.element = rci.element
           /\ r.unwind = rci.unwind /\ r.action = rci.action
           /\ r.process = rci.process
           /\ \/ /\ t # End /\ r.parser = "traverse" /\ r.traverse = "group"
                 /\ r.input = "field" /\ r.group = t[2] /\ r.group # 0
                 /\ r.group \in Groups /\ r.index \in 1 .. Instances[r.group]
                 /\ r.failed = rci.failed
                 /\ r.index = IF t[3] = 0 THEN 1 ELSE t[3]
                 /\ r.all = (rci.all \/ (t[3] = 0 /\ Instances[t[2]] > 1))
              \/ /\ t = End /\ r.parser = "traverse"
                 /\ r.traverse = "group_end" /\ r.input = "command"
                 /\ r.group = rci.group /\ r.failed = rci.failed
                 /\ r.output = rci.output /\ rci.group # 0
              \/ /\ t = End /\ r.parser = "traverse"
                 /\ r.traverse = "all_groups" /\ r.input = rci.input
                 /\ r.group = rci.group /\ r.failed = rci.failed
                 /\ r.group = 0
                 /\ r.action = "query" /\ r.output = rci.output
              \/ /\ t = End /\ r.parser = "output" /\ r.output = "group"
                 /\ r.failed /\ r.input = rci.input
                 /\ r.traverse = rci.traverse /\ r.group = 0
                 /\ rci.group = 0
<1>1. CASE t # End
  <2> DEFINE i == IF t[3] = 0 THEN 1 ELSE t[3]
             a == rci.all \/ (t[3] = 0 /\ Instances[t[2]] > 1)
             p == [rci EXCEPT !.group = t[2], !.index = i, !.all = a,
                              !.input = "field"]
  <2>1. Instances[t[2]] \in 1 .. 9 /\ t[2] # 0 /\ t[2] \in Groups
    BY <1>1, GroupFacts
  <2>2. i \in 1 .. Instances[t[2]] /\ i \in 0 .. 9
    BY <1>1, <2>1
  <2>3. a \in BOOLEAN
    BY ParserFields
  <2>4. r = Traversing(p, "group")
    BY <1>1 DEF GroupToken
  <2> HIDE DEF i, a
  <2>5. "field" \in Inputs /\ "group" \in Traversals
    BY DEF Inputs, Traversals
  <2>6. p \in ParserTypes
    BY <2>1, <2>2, <2>3, <2>5 DEF ParserTypes
  <2>7. /\ p.calling = rci.calling /\ p.last = rci.last
        /\ p.group = t[2] /\ p.element = rci.element
        /\ p.unwind = rci.unwind /\ p.process = rci.process
        /\ p.index = i /\ p.failed = rci.failed /\ p.all = a
        /\ p.input = "field" /\ p.action = rci.action
    BY <2>6 DEF ParserTypes
  <2> HIDE DEF p
  <2>8. /\ i = IF t[3] = 0 THEN 1 ELSE t[3]
        /\ a = (rci.all \/ (t[3] = 0 /\ Instances[t[2]] > 1))
    BY DEF i, a
  <2> QED
    BY <1>1, <2>1, <2>2, <2>4, <2>5, <2>6, <2>7, <2>8, Traverses
<1>2. CASE t = End /\ rci.group # 0
  <2> DEFINE p == [rci EXCEPT !.input = "command"]
  <2>1. r = Traversing(p, "group_end")
    BY <1>2 DEF GroupToken
  <2>2. "command" \in Inputs /\ "group_end" \in Traversals
    BY DEF Inputs, Traversals
  <2>3. p \in ParserTypes
    BY <2>2 DEF ParserTypes
  <2>4. /\ p.calling = rci.calling /\ p.last = rci.last
        /\ p.group = rci.group /\ p.element = rci.element
        /\ p.unwind = rci.unwind /\ p.process = rci.process
        /\ p.failed = rci.failed /\ p.output = rci.output
        /\ p.input = "command" /\ p.action = rci.action
    BY <2>3 DEF ParserTypes
  <2> HIDE DEF p
  <2> QED
    BY <1>2, <2>1, <2>2, <2>3, <2>4, Traverses
<1>3. CASE t = End /\ rci.group = 0 /\ rci.action = "query"
  <2>1. r = Traversing(rci, "all_groups")
    BY <1>3 DEF GroupToken
  <2>2. "all_groups" \in Traversals
    BY DEF Traversals
  <2> QED
    BY <1>3, <2>1, <2>2, Traverses
<1>4. CASE t = End /\ rci.group = 0 /\ rci.action # "query"
  <2>1. r = Fails(rci, "group")
    BY <1>4 DEF GroupToken
  <2>2. "group" \in OutputStates
    BY DEF OutputStates
  <2> QED
    BY <1>4, <2>1, <2>2, FailsHere
<1> QED
  BY <1>1, <1>2, <1>3, <1>4

LEMMA FieldFields ==
    ASSUME rci \in ParserTypes, NEW t,
           t # End => t[2] \in 1 .. 9 /\ t[3] \in Values \cup {"none"},
           NEW r, r = FieldToken(rci, t)
    PROVE  /\ r \in ParserTypes /\ r.calling = rci.calling
           /\ r.last = rci.last /\ r.unwind = rci.unwind
           /\ r.action = rci.action /\ r.process = rci.process
           /\ r.group = rci.group /\ r.index = rci.index
           /\ r.all = rci.all
           /\ \/ /\ t # End /\ r.parser = "traverse"
                 /\ r.traverse = "element" /\ r.element = t[2]
                 /\ r.value = t[3] /\ r.input = rci.input
                 /\ r.failed = rci.failed
              \/ /\ t = End /\ r.parser = "traverse"
                 /\ r.traverse = "element_end" /\ r.element = 0
                 /\ rci.element # 0
                 /\ r.input = "group" /\ r.failed = rci.failed
              \/ /\ t = End /\ r.parser = "traverse" /\ r.action = "query"
                 /\ r.traverse \in {"all_instances", "all_elements"}
                 /\ r.traverse = IF rci.all THEN "all_instances"
                                           ELSE "all_elements"
                 /\ r.element = 0 /\ rci.element = 0
                 /\ r.input = "group" /\ r.failed = rci.failed
              \/ /\ t = End /\ r.parser = "output" /\ r.output = "field"
                 /\ r.failed /\ r.element = 0 /\ rci.element = 0
                 /\ r.input = rci.input /\ r.traverse = rci.traverse
<1>1. CASE t # End
  <2> DEFINE p == [rci EXCEPT !.element = t[2], !.value = t[3]]
  <2>1. r = Traversing(p, "element")
    BY <1>1, Zenon DEF FieldToken, FieldValue, FieldNoValue
  <2>2. "element" \in Traversals /\ t[2] \in 0 .. 9
    BY <1>1 DEF Traversals
  <2>3. p \in ParserTypes
    BY <1>1, <2>2 DEF ParserTypes
  <2>4. /\ p.calling = rci.calling /\ p.last = rci.last
        /\ p.group = rci.group /\ p.element = t[2] /\ p.value = t[3]
        /\ p.unwind = rci.unwind /\ p.process = rci.process
        /\ p.index = rci.index /\ p.failed = rci.failed
        /\ p.input = rci.input /\ p.action = rci.action
        /\ p.all = rci.all
    BY <2>3 DEF ParserTypes
  <2> HIDE DEF p
  <2> QED
    BY <1>1, <2>1, <2>2, <2>3, <2>4, Traverses
<1>2. CASE t = End /\ rci.element # 0
  <2> DEFINE p == [rci EXCEPT !.element = 0, !.input = "group"]
  <2>1. r = Traversing(p, "element_end")
    BY <1>2 DEF FieldToken
  <2>2. "element_end" \in Traversals /\ "group" \in Inputs /\ 0 \in 0 .. 9
    BY DEF Traversals, Inputs
  <2>3. p \in ParserTypes
    BY <2>2 DEF ParserTypes
  <2>4. /\ p.calling = rci.calling /\ p.last = rci.last
        /\ p.group = rci.group /\ p.element = 0
        /\ p.unwind = rci.unwind /\ p.process = rci.process
        /\ p.index = rci.index /\ p.failed = rci.failed
        /\ p.input = "group" /\ p.action = rci.action
        /\ p.all = rci.all
    BY <2>3 DEF ParserTypes
  <2> HIDE DEF p
  <2> QED
    BY <1>2, <2>1, <2>2, <2>3, <2>4, Traverses
<1>3. CASE t = End /\ rci.element = 0 /\ rci.action = "query"
  <2> DEFINE p == [rci EXCEPT !.input = "group"]
  <2>1. PICK s \in {"all_instances", "all_elements"} :
            /\ r = Traversing(p, s)
            /\ s = IF rci.all THEN "all_instances" ELSE "all_elements"
    BY <1>3 DEF FieldToken
  <2>2. s \in Traversals /\ "group" \in Inputs
    BY DEF Traversals, Inputs
  <2>3. p \in ParserTypes
    BY <2>2 DEF ParserTypes
  <2>4. /\ p.calling = rci.calling /\ p.last = rci.last
        /\ p.group = rci.group /\ p.element = rci.element
        /\ p.unwind = rci.unwind /\ p.process = rci.process
        /\ p.index = rci.index /\ p.failed = rci.failed
        /\ p.input = "group" /\ p.action = rci.action
        /\ p.all = rci.all
    BY <2>3 DEF ParserTypes
  <2> HIDE DEF p
  <2> QED
    BY <1>3, <2>1, <2>2, <2>3, <2>4, Traverses
<1>4. CASE t = End /\ rci.element = 0 /\ rci.action # "query"
  <2>1. r = Fails(rci, "field")
    BY <1>4 DEF FieldToken
  <2>2. "field" \in OutputStates
    BY DEF OutputStates
  <2> QED
    BY <1>4, <2>1, <2>2, FailsHere
<1> QED
  BY <1>1, <1>2, <1>3, <1>4

\* What the reading of a token leaves alone.
TokenRead ==
    /\ rci.calling = "none" /\ stage = "running" /\ stage' = "running"
    /\ ("memory" \in odd') = ("memory" \in odd)
    /\ UNCHANGED <<user, saved, owed, sessions, troubles, written, room, more>>

LEMMA ReadsToken ==
    ASSUME ConfigTypes, ControlInv, LiveInv, SyncInv, ParseInput,
           NEW t, t = Head(tokens), NEW r,
           r = CASE rci.input = "command" -> CommandToken(rci, t)
                 [] rci.input = "group"   -> GroupToken(rci, t)
                 [] rci.input = "field"   -> FieldToken(rci, t)
    PROVE  /\ TokenRead /\ rci \in ParserTypes /\ AtInput
           /\ rci.input \in {"command", "group", "field"}
           /\ rci.failed => rci.last = "session_start"
           /\ \/ rci' = r \/ rci' = [r EXCEPT !.status = "more"]
              \/ /\ rci' = [r EXCEPT !.input = "done", !.parser = "traverse"]
                 /\ rci.input = "group" /\ t = End
           /\ within' = FALSE /\ tokens' \in Seq(Tokens)
           /\ odd' \subseteq odd \cup {"sticky"}
<1>1. /\ ParserStep("input") /\ tokens # <<>> /\ tokens' = Tail(tokens)
      /\ rci' = CASE Len(tokens) > 1 -> r
                  [] Len(tokens) = 1 /\ more = <<>> ->
                         [r EXCEPT !.input = "done", !.parser = "traverse"]
                  [] OTHER -> [r EXCEPT !.status = "more"]
      /\ odd' = odd \cup {"sticky"} \/ odd' = odd
      /\ UNCHANGED <<more, written, room, stage>>
  BY DEF ParseInput
<1>2. /\ stage = "running" /\ rci.calling = "none" /\ rci.parser = "input"
      /\ within' = FALSE /\ UNCHANGED <<user, saved, owed, sessions, troubles>>
  BY <1>1 DEF ParserStep
<1>3. /\ rci \in ParserTypes /\ AtInput
      /\ rci.input \in {"command", "group", "field"}
      /\ Len(tokens) = 1 /\ more = <<>> => rci.input = "group" /\ t = End
  BY <1>1, <1>2, TokenComes DEF ConfigTypes, ControlInv
<1>4. tokens' \in Seq(Tokens)
  BY <1>1 DEF ConfigTypes
<1>5. \/ rci' = r \/ rci' = [r EXCEPT !.status = "more"]
      \/ /\ rci' = [r EXCEPT !.input = "done", !.parser = "traverse"]
         /\ Len(tokens) = 1 /\ more = <<>>
  <2> DEFINE x == [r EXCEPT !.input = "done", !.parser = "traverse"]
             y == [r EXCEPT !.status = "more"]
  <2>1. rci' = CASE Len(tokens) > 1 -> r
                 [] Len(tokens) = 1 /\ more = <<>> -> x
                 [] OTHER -> y
    BY <1>1
  <2> HIDE DEF x, y
  <2>2. rci' = r \/ rci' = y \/ (rci' = x /\ Len(tokens) = 1 /\ more = <<>>)
    <3>1. Len(tokens) > 1 /\ Len(tokens) = 1 => FALSE
      OBVIOUS
    <3>2. CASE Len(tokens) > 1
      BY <2>1, <3>1, <3>2
    <3>3. CASE ~(Len(tokens) > 1) /\ Len(tokens) = 1 /\ more = <<>>
      BY <2>1, <3>3
    <3>4. CASE ~(Len(tokens) > 1) /\ ~(Len(tokens) = 1 /\ more = <<>>)
      BY <2>1, <3>4
    <3> QED
      BY <3>2, <3>3, <3>4, Zenon
  <2> QED
    BY <2>2 DEF x, y
<1>6. TokenRead
  BY <1>1, <1>2 DEF TokenRead
<1>7. rci.failed => rci.last = "session_start"
  BY <1>2, <1>3, Zenon DEF AtInput, CallRefused
<1>8. \/ rci' = r \/ rci' = [r EXCEPT !.status = "more"]
      \/ /\ rci' = [r EXCEPT !.input = "done", !.parser = "traverse"]
         /\ rci.input = "group" /\ t = End
  BY <1>3, <1>5, Zenon
<1>9. odd' \subseteq odd \cup {"sticky"}
  BY <1>1
<1> QED
  BY <1>2, <1>3, <1>4, <1>6, <1>7, <1>8, <1>9, Zenon

LEMMA CommandRead ==
    ASSUME ConfigTypes, ControlInv, LiveInv, SyncInv, ParseInput,
           rci.input = "command"
    PROVE  ControlInv' /\ LiveInv' /\ rci' \in ParserTypes
<1> DEFINE t == Head(tokens)
           r == CommandToken(rci, t)
<1>1. /\ TokenRead /\ rci \in ParserTypes /\ AtInput
      /\ rci' = r \/ rci' = [r EXCEPT !.status = "more"]
  BY ReadsToken
<1>2. t[2] \in {"query", "set", "bad"}
  BY <1>1, TokenComes DEF TokenRead, ParseInput, ParserStep
<1>3. Outside /\ NoElement /\ rci.group = 0 /\ rci.last # "none"
  BY <1>1 DEF AtInput, Outside
<1> HIDE DEF t
<1>4. /\ r \in ParserTypes /\ r.calling = rci.calling
      /\ r.last = rci.last /\ r.group = rci.group
      /\ r.element = rci.element /\ r.process = rci.process
      /\ \/ /\ r.failed /\ r.parser = "output" /\ r.output = "field"
         \/ r.failed /\ r.parser = "error"
         \/ /\ ~r.failed /\ r.parser = "traverse"
            /\ r.traverse = "command" /\ r.input = "group"
  BY <1>1, <1>2, CommandFields
<1> HIDE DEF r
<1>5. /\ rci' \in ParserTypes /\ rci'.calling = "none"
      /\ rci'.last = rci.last /\ rci'.group = 0 /\ rci'.element = 0
      /\ \/ rci'.failed /\ rci'.parser = "output" /\ rci'.output = "field"
         \/ rci'.failed /\ rci'.parser = "error"
         \/ /\ ~rci'.failed /\ rci'.parser = "traverse"
            /\ rci'.traverse = "command" /\ rci'.input = "group"
  BY <1>1, <1>3, <1>4, TokenTaken DEF TokenRead, NoElement
<1>6. Outside' /\ NoElement'
  BY <1>3, <1>5 DEF Outside, NoElement
<1>7. rci'.parser = "traverse" => AtTraverse'
  BY <1>5, <1>6 DEF AtTraverse
<1>8. rci'.parser = "output" => AtOutput'
  BY <1>5, <1>6 DEF AtOutput, CallRefused
<1>9. ControlInv'
  BY <1>3, <1>5, <1>7, <1>8 DEF ControlInv
<1>10. user.group # "live" /\ ~InsideGroup'
  BY <1>1, <1>3, <1>5 DEF LiveInv, InsideGroup, Outside, TokenRead
<1>11. LiveInv'
  BY <1>1, <1>5, <1>10 DEF LiveInv, TokenRead
<1> QED
  BY <1>5, <1>9, <1>11

LEMMA GroupRead ==
    ASSUME ConfigTypes, ControlInv, LiveInv, SyncInv, ParseInput,
           rci.input = "group"
    PROVE  ControlInv' /\ LiveInv' /\ rci' \in ParserTypes
<1> DEFINE t == Head(tokens)
           r == GroupToken(rci, t)
           q == [r EXCEPT !.input = "done", !.parser = "traverse"]
<1>1. /\ TokenRead /\ rci \in ParserTypes /\ AtInput
      /\ rci.failed => rci.last = "session_start"
      /\ \/ rci' = r \/ rci' = [r EXCEPT !.status = "more"]
         \/ rci' = q /\ t = End
  BY ReadsToken
<1>2. t # End => t[2] \in Groups /\ t[3] \in 0 .. Instances[t[2]]
  BY <1>1, TokenComes DEF TokenRead, ParseInput, ParserStep
<1>3. /\ Between /\ NoElement /\ Steady /\ rci.traverse = "none"
      /\ ~rci.failed
  BY <1>1 DEF AtInput, Between, GoesOnBetween
<1> HIDE DEF t
<1>4. /\ r \in ParserTypes /\ r.calling = rci.calling
      /\ r.last = rci.last /\ r.element = rci.element
      /\ r.process = rci.process /\ r.action = rci.action
      /\ \/ /\ t # End /\ r.parser = "traverse" /\ r.traverse = "group"
            /\ r.input = "field" /\ r.group # 0
            /\ r.group \in Groups /\ r.index \in 1 .. Instances[r.group]
            /\ ~r.failed
         \/ /\ r.parser = "traverse" /\ r.traverse = "group_end"
            /\ r.input = "command" /\ ~r.failed
         \/ /\ r.parser = "traverse" /\ r.traverse = "all_groups"
            /\ r.input = "group" /\ ~r.failed /\ r.action = "query"
         \/ /\ r.parser = "output" /\ r.output = "group" /\ r.failed
            /\ r.traverse = "none" /\ r.group = 0
  BY <1>1, <1>2, <1>3, GroupFields
<1> HIDE DEF r
<1>5. /\ q \in ParserTypes /\ q.parser = "traverse" /\ q.input = "done"
      /\ q.calling = r.calling /\ q.last = r.last /\ q.element = r.element
      /\ q.process = r.process /\ q.action = r.action /\ q.group = r.group
      /\ q.traverse = r.traverse /\ q.failed = r.failed
      /\ q.output = r.output
  <2>1. "done" \in Inputs /\ "traverse" \in Parsers
    BY DEF Inputs, Parsers
  <2>2. q \in ParserTypes
    BY <1>4, <2>1, ZenonT(40) DEF ParserTypes
  <2> QED
    BY <1>4, <2>2 DEF ParserTypes
<1> HIDE DEF q
<1>6. /\ rci' \in ParserTypes /\ rci'.calling = "none"
      /\ rci'.last = rci.last /\ rci'.element = 0
      /\ rci'.process = "group" /\ rci'.action = rci.action
      /\ \/ /\ rci'.parser = "traverse" /\ rci'.traverse = "group"
            /\ rci'.input = "field" /\ rci'.group # 0
            /\ rci'.group \in Groups
            /\ rci'.index \in 1 .. Instances[rci'.group] /\ ~rci'.failed
         \/ /\ rci'.parser = "traverse" /\ rci'.traverse = "group_end"
            /\ rci'.input \in {"command", "done"} /\ ~rci'.failed
         \/ /\ rci'.parser = "traverse" /\ rci'.traverse = "all_groups"
            /\ rci'.input \in {"group", "done"} /\ ~rci'.failed
            /\ rci'.action = "query"
         \/ /\ rci'.parser = "output" /\ rci'.output = "group" /\ rci'.failed
            /\ rci'.group = 0
         \/ /\ rci'.parser = "traverse" /\ rci'.output = "group" /\ rci'.failed
            /\ rci'.traverse = "none" /\ rci'.input = "done"
            /\ rci'.group = 0
  BY <1>1, <1>3, <1>4, <1>5, TokenTaken DEF TokenRead, NoElement, Steady
<1>7. Between' /\ NoElement' /\ Steady'
  BY <1>3, <1>6 DEF Between, NoElement, Steady
<1>8. rci'.traverse = "group" /\ rci'.group \in Groups
      /\ rci'.index \in 1 .. Instances[rci'.group] /\ rci'.group # 0
      => InGroup'
  <2>1. rci'.group \in Groups => 0 \in 0 .. Len(Kinds[rci'.group])
    BY GroupFacts
  <2> QED
    BY <1>6, <2>1 DEF InGroup
<1>9. rci'.parser = "traverse" => AtTraverse'
  BY <1>6, <1>7, <1>8 DEF AtTraverse, GoesOnBetween, Steady
<1>10. rci'.parser = "output" => AtOutput'
  BY <1>6, <1>7 DEF AtOutput, CallRefused
<1>11. ControlInv'
  BY <1>1, <1>3, <1>6, <1>9, <1>10 DEF ControlInv, Between
<1>12. user.group # "live" /\ ~InsideGroup'
  BY <1>1, <1>3, <1>6 DEF LiveInv, InsideGroup, Between, TokenRead
<1>13. LiveInv'
  BY <1>1, <1>6, <1>12 DEF LiveInv, TokenRead
<1> QED
  BY <1>6, <1>11, <1>13

LEMMA FieldRead ==
    ASSUME ConfigTypes, ControlInv, LiveInv, SyncInv, ParseInput,
           rci.input = "field"
    PROVE  ControlInv' /\ LiveInv' /\ rci' \in ParserTypes
<1> DEFINE t == Head(tokens)
           r == FieldToken(rci, t)
<1>1. /\ TokenRead /\ rci \in ParserTypes /\ AtInput
      /\ rci.failed => rci.last = "session_start"
      /\ rci' = r \/ rci' = [r EXCEPT !.status = "more"]
  BY ReadsToken
<1>2. t # End => /\ t[2] \in Fields(rci.group) /\ t[2] \in 1 .. 9
                 /\ t[3] \in Values \cup {"none"}
                 /\ rci.action = "set" <=> t[3] # "none"
  BY <1>1, TokenComes DEF TokenRead, ParseInput, ParserStep
<1>3. /\ InsideGroup /\ InGroup /\ Steady /\ rci.traverse = "none"
      /\ ~rci.failed /\ rci.group \in Groups
  BY <1>1, ParserFields DEF AtInput, InsideGroup, GoesOnInside, InGroup
<1> HIDE DEF t
<1>4. /\ r \in ParserTypes /\ r.calling = rci.calling
      /\ r.last = rci.last /\ r.action = rci.action
      /\ r.process = rci.process
      /\ r.group = rci.group /\ r.index = rci.index
      /\ \/ /\ t # End /\ r.parser = "traverse" /\ ~r.failed
            /\ r.traverse = "element" /\ r.element = t[2]
            /\ r.value = t[3] /\ r.input = "field"
         \/ /\ r.parser = "traverse" /\ r.traverse = "element_end"
            /\ r.element = 0 /\ r.input = "group" /\ ~r.failed
         \/ /\ r.parser = "traverse" /\ r.action = "query"
            /\ r.traverse \in {"all_instances", "all_elements"}
            /\ r.element = 0 /\ r.input = "group" /\ ~r.failed
         \/ /\ r.parser = "output" /\ r.output = "field"
            /\ r.failed /\ r.element = 0
  BY <1>1, <1>2, <1>3, FieldFields
<1> HIDE DEF r
<1>5. /\ rci' \in ParserTypes /\ rci'.calling = "none"
      /\ rci'.last = rci.last /\ rci'.action = rci.action
      /\ rci'.process = "group"
      /\ rci'.group = rci.group /\ rci'.index = rci.index
      /\ \/ /\ t # End /\ rci'.parser = "traverse" /\ ~rci'.failed
            /\ rci'.traverse = "element" /\ rci'.element = t[2]
            /\ rci'.value = t[3] /\ rci'.input = "field"
         \/ /\ rci'.parser = "traverse" /\ rci'.traverse = "element_end"
            /\ rci'.element = 0 /\ rci'.input = "group" /\ ~rci'.failed
         \/ /\ rci'.parser = "traverse" /\ rci'.action = "query"
            /\ rci'.traverse \in {"all_instances", "all_elements"}
            /\ rci'.element = 0 /\ rci'.input = "group" /\ ~rci'.failed
         \/ /\ rci'.parser = "output" /\ rci'.output = "field"
            /\ rci'.failed /\ rci'.element = 0
  BY <1>1, <1>3, <1>4, TokenTaken DEF TokenRead, Steady
<1>6. InsideGroup' /\ Steady' /\ InGroup'
  <2>1. /\ Len(Kinds[rci.group]) \in 1 .. 9
        /\ Fields(rci.group) = 1 .. Len(Kinds[rci.group])
    BY <1>3, GroupFacts
  <2>2. t # End => t[2] \in 0 .. Len(Kinds[rci.group])
    BY <1>2, <2>1
  <2>3. rci'.element \in 0 .. Len(Kinds[rci.group])
    BY <1>5, <2>1, <2>2
  <2> QED
    BY <1>3, <1>5, <2>3 DEF InsideGroup, Steady, InGroup
<1>7. rci'.traverse = "element" /\ t # End /\ rci'.element = t[2]
      /\ rci'.value = t[3] => rci'.element # 0 /\ HasValue'
  <2>1. t # End => t[2] # 0
    BY <1>2
  <2> QED
    BY <1>2, <1>5, <2>1 DEF HasValue
<1>8. rci'.parser = "traverse" => AtTraverse'
  BY <1>5, <1>6, <1>7 DEF AtTraverse, GoesOnInside, Steady, NoElement, OfGroup
<1>9. rci'.parser = "output" => AtOutput'
  BY <1>5, <1>6 DEF AtOutput, CallRefused, NoElement
<1>10. ControlInv'
  BY <1>1, <1>3, <1>5, <1>8, <1>9 DEF ControlInv, InsideGroup
<1>11. LiveInv'
  BY <1>1, <1>3, <1>5, <1>6 DEF LiveInv, TokenRead, InsideGroup
<1> QED
  BY <1>5, <1>10, <1>11

LEMMA InputControl ==
    ASSUME ConfigTypes, ControlInv, LiveInv, SyncInv, ParseInput
    PROVE  ConfigTypes' /\ ControlInv' /\ LiveInv'
<1>1. /\ TokenRead /\ rci.input \in {"command", "group", "field"}
      /\ within' = FALSE /\ tokens' \in Seq(Tokens)
      /\ odd' \subseteq odd \cup {"sticky"}
  BY ReadsToken
<1>2. ControlInv' /\ LiveInv' /\ rci' \in ParserTypes
  BY <1>1, CommandRead, GroupRead, FieldRead
<1>3. ConfigTypes'
  BY <1>1, <1>2 DEF ConfigTypes, TokenRead
<1> QED
  BY <1>2, <1>3

-----------------------------------------------------------------------------

(* The traversal.                                                          *)

LEMMA ThenCalls ==
    ASSUME NEW r \in ParserTypes, NEW c \in Calls, NEW s \in OutputStates,
           NEW q, q = ThenCall(r, c, s)
    PROVE  /\ q \in ParserTypes /\ q.parser = "output" /\ q.output = s
           /\ q.calling = c /\ q.last = c
           /\ q.input = r.input /\ q.traverse = r.traverse
           /\ q.process = r.process /\ q.unwind = r.unwind
           /\ q.failed = r.failed /\ q.group = r.group /\ q.index = r.index
           /\ q.element = r.element /\ q.action = r.action
           /\ q.value = r.value /\ q.all = r.all
<1> DEFINE p == Trigger(r, c)
<1>1. p \in ParserTypes
  BY DEF ParserTypes, Trigger
<1>2. /\ p.calling = c /\ p.last = c
      /\ p.input = r.input /\ p.traverse = r.traverse
      /\ p.process = r.process /\ p.unwind = r.unwind
      /\ p.failed = r.failed /\ p.group = r.group /\ p.index = r.index
      /\ p.element = r.element /\ p.action = r.action /\ p.value = r.value
      /\ p.all = r.all
  BY <1>1 DEF ParserTypes, Trigger
<1>3. q = [p EXCEPT !.output = s, !.parser = "output"]
  BY DEF ThenCall
<1> HIDE DEF p
<1>4. "output" \in Parsers
  BY DEF Parsers
<1>5. q \in ParserTypes
  BY <1>1, <1>3, <1>4, ZenonT(40) DEF ParserTypes
<1>6. /\ q.parser = "output" /\ q.output = s
      /\ q.calling = p.calling /\ q.last = p.last
      /\ q.input = p.input /\ q.traverse = p.traverse
      /\ q.process = p.process /\ q.unwind = p.unwind
      /\ q.failed = p.failed /\ q.group = p.group /\ q.index = p.index
      /\ q.element = p.element /\ q.action = p.action /\ q.value = p.value
      /\ q.all = p.all
  BY <1>1, <1>3 DEF ParserTypes
<1> QED
  BY <1>2, <1>5, <1>6

LEMMA TraversalDone ==
    ASSUME NEW r \in ParserTypes, NEW q, q = TraverseDone(r)
    PROVE  /\ q \in ParserTypes /\ q.traverse = "none" /\ q.process = "group"
           /\ q.parser = r.parser /\ q.output = r.output
           /\ q.calling = r.calling /\ q.last = r.last
           /\ q.input = r.input /\ q.unwind = r.unwind
           /\ q.failed = r.failed /\ q.group = r.group /\ q.index = r.index
           /\ q.element = r.element /\ q.action = r.action
           /\ q.value = r.value /\ q.all = r.all
<1>1. "none" \in Traversals /\ "group" \in Stages
  BY DEF Traversals, Stages
<1>2. q \in ParserTypes
  BY <1>1 DEF ParserTypes, TraverseDone
<1> QED
  BY <1>2 DEF ParserTypes, TraverseDone

\* A query is not told a password.
Untold(r) == r.action = "query" /\ Kinds[r.group][r.element] = "password"

LEMMA ElementCalled ==
    ASSUME NEW r \in ParserTypes, NEW q, q = TraverseElement(r)
    PROVE  /\ q \in ParserTypes /\ q.traverse = r.traverse
           /\ q.process = r.process
           /\ q.input = r.input /\ q.unwind = r.unwind
           /\ q.failed = r.failed /\ q.group = r.group /\ q.index = r.index
           /\ q.element = r.element /\ q.action = r.action
           /\ q.value = r.value /\ q.all = r.all
           /\ \/ /\ Untold(r)
                 /\ q.parser = r.parser /\ q.calling = r.calling
                 /\ q.last = r.last /\ q.output = r.output
              \/ /\ ~Untold(r)
                 /\ q.parser = "output" /\ q.calling = "process"
                 /\ q.last = "process" /\ q.output = "field"
<1>1. \/ Untold(r) /\ q = r
      \/ ~Untold(r) /\ q = ThenCall(r, "process", "field")
  BY DEF TraverseElement, Untold
<1>2. "process" \in Calls /\ "field" \in OutputStates
  BY DEF Calls, OutputStates
<1> QED
  BY <1>1, <1>2, ThenCalls

LEMMA OneUp ==
    ASSUME NEW n \in 1 .. 9, NEW e \in 0 .. n, e # n
    PROVE  e + 1 \in 1 .. n /\ e + 1 \in 0 .. 9
OBVIOUS

\* The next field of all of a group, or its end.
LEMMA ElementsNext ==
    ASSUME NEW r \in ParserTypes, r.group \in Groups,
           r.element \in 0 .. Len(Kinds[r.group]),
           NEW q, q = TraverseAllElements(r)
    PROVE  /\ q \in ParserTypes /\ q.traverse = r.traverse
           /\ q.process = r.process
           /\ q.input = r.input /\ q.unwind = r.unwind
           /\ q.failed = r.failed /\ q.group = r.group /\ q.index = r.index
           /\ q.action = r.action /\ q.all = r.all
           /\ \/ /\ AllElementsDone(r) /\ q.parser = "output"
                 /\ q.calling = "group_end" /\ q.last = "group_end"
                 /\ q.output = "field_end" /\ q.element = r.element
              \/ /\ ~AllElementsDone(r) /\ q.element = r.element + 1
                 /\ q.element \in 1 .. Len(Kinds[r.group])
                 /\ \/ /\ Untold(q) /\ q.parser = r.parser
                       /\ q.calling = r.calling /\ q.last = r.last
                    \/ /\ ~Untold(q) /\ q.parser = "output" /\ q.calling = "process"
                       /\ q.last = "process" /\ q.output = "field"
<1>1. CASE AllElementsDone(r)
  <2>1. q = ThenCall(r, "group_end", "field_end")
    BY <1>1 DEF TraverseAllElements
  <2>2. "group_end" \in Calls /\ "field_end" \in OutputStates
    BY DEF Calls, OutputStates
  <2> QED
    BY <1>1, <2>1, <2>2, ThenCalls
<1>2. CASE ~AllElementsDone(r)
  <2> DEFINE p == [r EXCEPT !.element = @ + 1]
  <2>1. q = TraverseElement(p)
    BY <1>2 DEF TraverseAllElements
  <2>2. Len(Kinds[r.group]) \in 1 .. 9 /\ r.element # Len(Kinds[r.group])
    BY <1>2, GroupFacts DEF AllElementsDone
  <2>3. /\ r.element + 1 \in 1 .. Len(Kinds[r.group])
        /\ r.element + 1 \in 0 .. 9
    BY <2>2, OneUp
  <2>4. p = [r EXCEPT !.element = r.element + 1]
    BY DEF ParserTypes
  <2>5. p \in ParserTypes
    BY <2>3, <2>4 DEF ParserTypes
  <2>6. /\ p.traverse = r.traverse /\ p.process = r.process
        /\ p.input = r.input /\ p.unwind = r.unwind
        /\ p.failed = r.failed /\ p.group = r.group /\ p.index = r.index
        /\ p.action = r.action /\ p.element = r.element + 1
        /\ p.all = r.all
        /\ p.parser = r.parser /\ p.calling = r.calling /\ p.last = r.last
    BY <2>4, <2>5 DEF ParserTypes
  <2> HIDE DEF p
  <2> QED
    BY <1>2, <2>1, <2>3, <2>5, <2>6, ElementCalled DEF Untold
<1> QED
  BY <1>1, <1>2

LEMMA MoreWell ==
    ASSUME ConfigTypes, ControlInv, LiveInv, MoreInput
    PROVE  ConfigTypes' /\ ControlInv' /\ LiveInv' /\ Depth' = Depth
           /\ Alike /\ SamePlace
<1>1. "busy" \in Statuses /\ rci' = [rci EXCEPT !.status = "busy"]
      /\ UNCHANGED <<user, stage, odd>> /\ rci \in ParserTypes
  BY DEF Statuses, MoreInput, ConfigTypes
<1>2. Alike
  BY <1>1, StatusAlike
<1>3. ControlInv' /\ LiveInv' /\ Depth' = Depth /\ SamePlace
  BY <1>1, <1>2, AlikeWell
<1>4. ConfigTypes'
  BY <1>2 DEF ConfigTypes, MoreInput, Alike
<1> QED
  BY <1>2, <1>3, <1>4

\* What a step of the traversal does.
Called(call, output) ==
    /\ rci'.parser = "output" /\ rci'.output = output
    /\ rci'.calling = call /\ rci'.last = call

Stays == /\ rci'.parser = "traverse" /\ rci'.calling = "none"
         /\ rci'.last = rci.last

Finished == rci'.traverse = "none" /\ rci'.process = "group"

GoesOn == rci'.traverse = rci.traverse /\ rci'.process = rci.process

SameGroup == rci'.group = rci.group /\ rci'.index = rci.index

SameElement == SameGroup /\ rci'.element = rci.element

AField == \/ Untold(rci') /\ Stays
          \/ ~Untold(rci') /\ Called("process", "field")

AnotherField ==
    /\ SameGroup /\ rci'.element = rci.element + 1
    /\ rci'.element \in 1 .. Len(Kinds[rci.group]) /\ AField

AnotherGroup ==
    /\ rci'.element = rci.element /\ rci'.group \in Groups
    /\ rci'.index \in 1 .. Instances[rci'.group]
    /\ Called("group_start", "group")
    /\ rci'.process = "element" /\ rci'.traverse = rci.traverse

NextOfGroup == rci'.group = rci.group /\ rci'.index = rci.index + 1

Resumes ==
    /\ rci.traverse = "none" /\ SameElement /\ GoesOn
    /\ rci'.value = rci.value /\ rci'.calling = "none"
    /\ rci'.last = rci.last /\ rci'.output = rci.output
    /\ rci'.parser = IF rci.input = "done" THEN "output" ELSE "input"

OfACommand ==
    /\ SameElement /\ Finished
    /\ \/ rci.traverse = "command" /\ Called("action_start", "command")
       \/ rci.traverse = "group" /\ Called("group_start", "group")
       \/ rci.traverse = "element_end" /\ Called("group_end", "field_end")
       \/ rci.traverse = "group_end" /\ Called("action_end", "group_end")
       \/ rci.traverse = "element" /\ AField /\ rci'.value = rci.value

OfElements ==
    /\ rci.traverse = "all_elements"
    /\ \/ AnotherField /\ GoesOn
       \/ /\ AllElementsDone(rci) /\ Finished /\ SameElement
          /\ Called("group_end", "field_end")

OfInstances ==
    /\ rci.traverse = "all_instances"
    /\ \/ rci.process # "instance" /\ AnotherField /\ GoesOn
       \/ /\ rci.process # "instance" /\ AllElementsDone(rci) /\ SameElement
          /\ rci'.traverse = rci.traverse /\ rci'.process = "instance"
          /\ Called("group_end", "field_end")
       \/ rci.process = "instance" /\ AnotherGroup /\ NextOfGroup
       \/ /\ rci.process = "instance" /\ SameElement /\ Finished /\ Stays
          /\ ~(rci.index < Instances[rci.group])

OfGroups ==
    /\ rci.traverse = "all_groups"
    /\ \/ rci.process = "element" /\ AnotherField /\ GoesOn
       \/ /\ rci.process = "element" /\ AllElementsDone(rci) /\ SameElement
          /\ rci'.traverse = rci.traverse /\ rci'.process = "group"
          /\ Called("group_end", "field_end")
       \/ /\ rci.process # "element" /\ AnotherGroup
          /\ IF rci.group # 0 /\ rci.index < Instances[rci.group]
             THEN NextOfGroup
             ELSE rci'.group = rci.group + 1 /\ rci'.index = 1
       \/ /\ rci.process # "element" /\ SameElement /\ Finished
          /\ rci.group = Len(Instances) /\ Called("action_end", "group_end")

WalksOn == Resumes \/ OfACommand \/ OfElements \/ OfInstances \/ OfGroups

Kept == /\ rci'.input = rci.input /\ rci'.unwind = rci.unwind
        /\ rci'.failed = rci.failed /\ rci'.action = rci.action
        /\ rci'.all = rci.all

LEMMA ResumesShape ==
    ASSUME rci \in ParserTypes, rci.calling = "none", rci.traverse = "none",
           rci' = [rci EXCEPT !.parser = IF rci.input = "done"
                                         THEN "output" ELSE "input"]
    PROVE  rci' \in ParserTypes /\ Kept /\ Resumes
<1> DEFINE p == IF rci.input = "done" THEN "output" ELSE "input"
<1>1. p \in Parsers /\ rci' = [rci EXCEPT !.parser = p]
  BY DEF Parsers
<1>2. p = IF rci.input = "done" THEN "output" ELSE "input"
  OBVIOUS
<1> HIDE DEF p
<1>3. rci' \in ParserTypes
  BY <1>1 DEF ParserTypes
<1>4. /\ Kept /\ SameElement /\ GoesOn /\ rci'.value = rci.value
      /\ rci'.calling = "none" /\ rci'.last = rci.last
      /\ rci'.output = rci.output /\ rci'.parser = p
  BY <1>1 DEF Kept, SameElement, SameGroup, GoesOn, ParserTypes
<1> QED
  BY <1>2, <1>3, <1>4 DEF Resumes

LEMMA CommandShape ==
    ASSUME rci \in ParserTypes, rci.calling = "none",
           rci.parser = "traverse",
           \/ rci.traverse = "command"
              /\ rci' = TraverseDone(ThenCall(rci, "action_start", "command"))
           \/ rci.traverse = "group"
              /\ rci' = TraverseDone(ThenCall(rci, "group_start", "group"))
           \/ rci.traverse = "element_end"
              /\ rci' = TraverseDone(ThenCall(rci, "group_end", "field_end"))
           \/ rci.traverse = "group_end"
              /\ rci' = TraverseDone(ThenCall(rci, "action_end", "group_end"))
           \/ rci.traverse = "element"
              /\ rci' = TraverseDone(TraverseElement(rci))
    PROVE  rci' \in ParserTypes /\ Kept /\ OfACommand
<1>1. ASSUME NEW c \in Calls, NEW s \in OutputStates,
             rci' = TraverseDone(ThenCall(rci, c, s))
      PROVE  rci' \in ParserTypes /\ Kept /\ SameElement /\ Finished
             /\ Called(c, s)
  <2> DEFINE q == ThenCall(rci, c, s)
  <2>1. /\ q \in ParserTypes /\ q.parser = "output" /\ q.output = s
        /\ q.calling = c /\ q.last = c
        /\ q.input = rci.input /\ q.unwind = rci.unwind
        /\ q.failed = rci.failed /\ q.group = rci.group
        /\ q.index = rci.index /\ q.element = rci.element
        /\ q.action = rci.action /\ q.all = rci.all
    BY ThenCalls
  <2>2. rci' = TraverseDone(q)
    BY <1>1
  <2> HIDE DEF q
  <2> QED
    BY <2>1, <2>2, TraversalDone
       DEF Kept, SameElement, SameGroup, Finished, Called
<1>2. CASE rci.traverse = "element"
  <2> DEFINE q == TraverseElement(rci)
  <2>1. /\ q \in ParserTypes
        /\ q.input = rci.input /\ q.unwind = rci.unwind
        /\ q.failed = rci.failed /\ q.group = rci.group
        /\ q.index = rci.index /\ q.element = rci.element
        /\ q.action = rci.action /\ q.value = rci.value
        /\ q.all = rci.all
        /\ \/ /\ Untold(rci) /\ q.parser = "traverse" /\ q.calling = "none"
              /\ q.last = rci.last
           \/ /\ ~Untold(rci) /\ q.parser = "output" /\ q.calling = "process"
              /\ q.last = "process" /\ q.output = "field"
    BY ElementCalled
  <2>2. rci' = TraverseDone(q)
    BY <1>2
  <2> HIDE DEF q
  <2>3. rci' \in ParserTypes /\ Kept /\ SameElement /\ Finished
        /\ rci'.value = rci.value
    BY <2>1, <2>2, TraversalDone DEF Kept, SameElement, SameGroup, Finished
  <2>5. Untold(rci') <=> Untold(rci)
    BY <2>1, <2>2, TraversalDone DEF Untold
  <2>4. AField
    BY <2>1, <2>2, <2>5, TraversalDone DEF AField, Stays, Called
  <2> QED
    BY <1>2, <2>3, <2>4 DEF OfACommand
<1>3. /\ "action_start" \in Calls /\ "group_start" \in Calls
      /\ "group_end" \in Calls /\ "action_end" \in Calls
      /\ "command" \in OutputStates /\ "group" \in OutputStates
      /\ "field_end" \in OutputStates /\ "group_end" \in OutputStates
  BY DEF Calls, OutputStates
<1>4. CASE rci.traverse = "command"
  BY <1>1, <1>3, <1>4 DEF OfACommand
<1>5. CASE rci.traverse = "group"
  BY <1>1, <1>3, <1>5 DEF OfACommand
<1>6. CASE rci.traverse = "element_end"
  BY <1>1, <1>3, <1>6 DEF OfACommand
<1>7. CASE rci.traverse = "group_end"
  BY <1>1, <1>3, <1>7 DEF OfACommand
<1> QED
  BY <1>2, <1>4, <1>5, <1>6, <1>7

\* The step to the next field, or to the end of the group, from the traversal.
LEMMA FieldOrEnd ==
    ASSUME rci \in ParserTypes, rci.calling = "none", rci.parser = "traverse",
           InGroup, NEW q, q = TraverseAllElements(rci)
    PROVE  /\ q \in ParserTypes /\ q.traverse = rci.traverse
           /\ q.process = rci.process
           /\ q.input = rci.input /\ q.unwind = rci.unwind
           /\ q.failed = rci.failed /\ q.action = rci.action
           /\ q.group = rci.group /\ q.index = rci.index
           /\ q.all = rci.all
           /\ \/ /\ AllElementsDone(rci) /\ q.parser = "output"
                 /\ q.calling = "group_end" /\ q.last = "group_end"
                 /\ q.output = "field_end" /\ q.element = rci.element
              \/ /\ ~AllElementsDone(rci) /\ q.element = rci.element + 1
                 /\ q.element \in 1 .. Len(Kinds[rci.group])
                 /\ \/ /\ Untold(q) /\ q.parser = "traverse"
                       /\ q.calling = "none" /\ q.last = rci.last
                    \/ /\ ~Untold(q) /\ q.parser = "output" /\ q.calling = "process"
                       /\ q.last = "process" /\ q.output = "field"
<1>1. rci.group \in Groups /\ rci.element \in 0 .. Len(Kinds[rci.group])
  BY ParserFields DEF InGroup
<1> QED
  BY <1>1, ElementsNext

LEMMA ElementsShape ==
    ASSUME rci \in ParserTypes, rci.calling = "none",
           rci.parser = "traverse", rci.traverse = "all_elements", InGroup,
           rci' = IF AllElementsDone(rci)
                  THEN TraverseDone(TraverseAllElements(rci))
                  ELSE TraverseAllElements(rci)
    PROVE  rci' \in ParserTypes /\ Kept /\ OfElements
<1> DEFINE q == TraverseAllElements(rci)
<1>1. CASE AllElementsDone(rci)
  <2>1. /\ q \in ParserTypes /\ q.input = rci.input /\ q.unwind = rci.unwind
        /\ q.failed = rci.failed /\ q.action = rci.action
        /\ q.group = rci.group /\ q.index = rci.index
        /\ q.all = rci.all
        /\ q.parser = "output" /\ q.calling = "group_end"
        /\ q.last = "group_end" /\ q.output = "field_end"
        /\ q.element = rci.element
    BY <1>1, FieldOrEnd
  <2>2. rci' = TraverseDone(q)
    BY <1>1
  <2> HIDE DEF q
  <2>3. rci' \in ParserTypes /\ Kept /\ SameElement /\ Finished
        /\ Called("group_end", "field_end")
    BY <2>1, <2>2, TraversalDone
       DEF Kept, SameElement, SameGroup, Finished, Called
  <2> QED
    BY <1>1, <2>3 DEF OfElements
<1>2. CASE ~AllElementsDone(rci)
  <2>1. rci' = TraverseAllElements(rci)
    BY <1>2
  <2>2. /\ rci' \in ParserTypes /\ Kept /\ GoesOn /\ SameGroup
        /\ rci'.element = rci.element + 1
        /\ rci'.element \in 1 .. Len(Kinds[rci.group])
    BY <1>2, <2>1, FieldOrEnd DEF Kept, GoesOn, SameGroup
  <2>3. AField
    BY <1>2, <2>1, FieldOrEnd DEF AField, Stays, Called
  <2> QED
    BY <2>2, <2>3 DEF OfElements, AnotherField
<1> QED
  BY <1>1, <1>2

\* The same, with what is to come next after the end of the group.
LEMMA FieldThen ==
    ASSUME rci \in ParserTypes, rci.calling = "none",
           rci.parser = "traverse", InGroup, NEW s \in Stages,
           rci' = [TraverseAllElements(rci) EXCEPT
                      !.process = IF AllElementsDone(rci) THEN s ELSE @]
    PROVE  /\ rci' \in ParserTypes /\ Kept
           /\ \/ AnotherField /\ GoesOn
              \/ /\ AllElementsDone(rci)
                 /\ SameElement /\ rci'.traverse = rci.traverse
                 /\ rci'.process = s /\ Called("group_end", "field_end")
<1> DEFINE q == TraverseAllElements(rci)
           p == IF AllElementsDone(rci) THEN s ELSE q.process
<1>1. /\ q \in ParserTypes /\ q.traverse = rci.traverse
      /\ q.process = rci.process
      /\ q.input = rci.input /\ q.unwind = rci.unwind
      /\ q.failed = rci.failed /\ q.action = rci.action
      /\ q.group = rci.group /\ q.index = rci.index
      /\ q.all = rci.all
      /\ \/ /\ AllElementsDone(rci) /\ q.parser = "output"
            /\ q.calling = "group_end" /\ q.last = "group_end"
            /\ q.output = "field_end" /\ q.element = rci.element
         \/ /\ ~AllElementsDone(rci) /\ q.element = rci.element + 1
            /\ q.element \in 1 .. Len(Kinds[rci.group])
            /\ \/ /\ Untold(q) /\ q.parser = "traverse"
                  /\ q.calling = "none" /\ q.last = rci.last
               \/ /\ ~Untold(q) /\ q.parser = "output" /\ q.calling = "process"
                  /\ q.last = "process" /\ q.output = "field"
  BY FieldOrEnd
<1>2. rci' = [q EXCEPT !.process = IF AllElementsDone(rci) THEN s ELSE @]
  OBVIOUS
<1> HIDE DEF q
<1>3. rci' = [q EXCEPT !.process = p]
  BY <1>1, <1>2 DEF ParserTypes
<1>4. p \in Stages /\ p = IF AllElementsDone(rci) THEN s ELSE rci.process
  BY <1>1 DEF ParserTypes
<1> HIDE DEF p
<1>5. /\ rci' \in ParserTypes /\ rci'.process = p
      /\ rci'.traverse = q.traverse
      /\ rci'.parser = q.parser /\ rci'.output = q.output
      /\ rci'.calling = q.calling /\ rci'.last = q.last
      /\ rci'.input = q.input /\ rci'.unwind = q.unwind
      /\ rci'.failed = q.failed /\ rci'.group = q.group
      /\ rci'.index = q.index /\ rci'.element = q.element
      /\ rci'.action = q.action /\ rci'.all = q.all
  <2>1. q \in ParserTypes /\ p \in Stages
    BY <1>1, <1>4
  <2>2. rci' \in ParserTypes
    BY <1>3, <2>1, ZenonT(40) DEF ParserTypes
  <2> QED
    BY <1>3, <2>1, <2>2 DEF ParserTypes
<1>6. Kept /\ SameGroup /\ rci'.traverse = rci.traverse
  BY <1>1, <1>5 DEF Kept, SameGroup
<1>7. CASE AllElementsDone(rci)
  <2>1. Called("group_end", "field_end") /\ SameElement /\ rci'.process = s
    BY <1>1, <1>4, <1>5, <1>6, <1>7 DEF Called, SameElement
  <2> QED
    BY <1>5, <1>6, <1>7, <2>1
<1>8. CASE ~AllElementsDone(rci)
  <2>4. Untold(rci') <=> Untold(q)
    BY <1>5 DEF Untold
  <2>1. AField
    BY <1>1, <1>5, <1>8, <2>4 DEF AField, Stays, Called
  <2>2. GoesOn
    BY <1>4, <1>5, <1>6, <1>8 DEF GoesOn
  <2>3. rci'.element = rci.element + 1
        /\ rci'.element \in 1 .. Len(Kinds[rci.group])
    BY <1>1, <1>5, <1>8
  <2> QED
    BY <1>5, <1>6, <2>1, <2>2, <2>3 DEF AnotherField
<1> QED
  BY <1>7, <1>8

LEMMA OneMore ==
    ASSUME NEW n \in 1 .. 9, NEW i \in 0 .. 9, i < n
    PROVE  i + 1 \in 1 .. n
OBVIOUS

LEMMA GroupBegins ==
    ASSUME rci \in ParserTypes, NEW g \in Groups,
           NEW i \in 1 .. Instances[g], rci' = TraverseGroup(rci, g, i)
    PROVE  /\ rci' \in ParserTypes /\ Kept /\ AnotherGroup
           /\ rci'.group = g /\ rci'.index = i
<1> DEFINE p == [rci EXCEPT !.group = g, !.index = i, !.process = "element"]
<1>1. "element" \in Stages /\ "group_start" \in Calls /\ "group" \in OutputStates
  BY DEF Stages, Calls, OutputStates
<1>2. Instances[g] \in 1 .. 9
  BY GroupFacts
<1>3. i \in 0 .. 9
  BY <1>2
<1>4. p \in ParserTypes
  BY <1>1, <1>3 DEF ParserTypes
<1>5. /\ p.group = g /\ p.index = i /\ p.process = "element"
      /\ p.input = rci.input /\ p.traverse = rci.traverse
      /\ p.unwind = rci.unwind /\ p.failed = rci.failed
      /\ p.element = rci.element /\ p.action = rci.action
      /\ p.all = rci.all
  BY <1>4 DEF ParserTypes
<1>6. rci' = ThenCall(p, "group_start", "group")
  BY DEF TraverseGroup
<1> HIDE DEF p
<1>7. /\ rci' \in ParserTypes /\ Called("group_start", "group")
      /\ rci'.traverse = p.traverse /\ rci'.process = p.process
      /\ rci'.input = p.input /\ rci'.unwind = p.unwind
      /\ rci'.failed = p.failed /\ rci'.action = p.action
      /\ rci'.group = p.group /\ rci'.index = p.index
      /\ rci'.element = p.element /\ rci'.all = p.all
  BY <1>1, <1>4, <1>6, ThenCalls DEF Called
<1>8. rci'.group \in Groups /\ rci'.index \in 1 .. Instances[rci'.group]
  BY <1>5, <1>7
<1> QED
  BY <1>5, <1>7, <1>8 DEF AnotherGroup, Kept

LEMMA InstancesShape ==
    ASSUME rci \in ParserTypes, rci.calling = "none",
           rci.parser = "traverse", rci.traverse = "all_instances",
           rci.process # "instance" => InGroup, rci.group # 0,
           rci' = AllInstances(rci)
    PROVE  rci' \in ParserTypes /\ Kept /\ OfInstances
<1>1. /\ rci.group \in Groups /\ Instances[rci.group] \in 1 .. 9
      /\ rci.index \in 0 .. 9
  BY ParserFields, GroupFacts
<1>2. CASE rci.process # "instance"
  <2>1. "instance" \in Stages
    BY DEF Stages
  <2>2. rci' = [TraverseAllElements(rci) EXCEPT
                   !.process = IF AllElementsDone(rci) THEN "instance" ELSE @]
    BY <1>2, Zenon DEF AllInstances
  <2> QED
    BY <1>2, <2>1, <2>2, FieldThen DEF OfInstances
<1>3. CASE rci.process = "instance" /\ rci.index < Instances[rci.group]
  <2>1. rci' = TraverseGroup(rci, rci.group, rci.index + 1)
    BY <1>3, Zenon DEF AllInstances
  <2>2. rci.index + 1 \in 1 .. Instances[rci.group]
    BY <1>1, <1>3
  <2>3. rci' \in ParserTypes /\ Kept /\ AnotherGroup /\ NextOfGroup
    BY <1>1, <2>1, <2>2, GroupBegins DEF NextOfGroup
  <2> QED
    BY <1>3, <2>3 DEF OfInstances
<1>4. CASE rci.process = "instance" /\ ~(rci.index < Instances[rci.group])
  <2>1. rci' = TraverseDone(rci)
    BY <1>4, Zenon DEF AllInstances
  <2>2. /\ rci' \in ParserTypes /\ Kept /\ SameElement /\ Finished /\ Stays
    BY <2>1, TraversalDone DEF Kept, SameElement, SameGroup, Finished, Stays
  <2> QED
    BY <1>4, <2>2 DEF OfInstances
<1> QED
  BY <1>2, <1>3, <1>4

LEMMA GroupsShape ==
    ASSUME rci \in ParserTypes, rci.calling = "none",
           rci.parser = "traverse", rci.traverse = "all_groups",
           rci.process = "element" => InGroup,
           rci' = AllGroups(rci)
    PROVE  rci' \in ParserTypes /\ Kept /\ OfGroups
<1>1. /\ rci.group \in Groups \cup {0} /\ rci.index \in 0 .. 9
      /\ \A g \in Groups : Instances[g] \in 1 .. 9
      /\ Groups = 1 .. Len(Instances) /\ Len(Instances) \in Nat \ {0}
  BY ParserFields, GroupFacts
<1>2. CASE rci.process = "element"
  <2>1. "group" \in Stages
    BY DEF Stages
  <2>2. rci' = [TraverseAllElements(rci) EXCEPT
                   !.process = IF AllElementsDone(rci) THEN "group" ELSE @]
    BY <1>2, Zenon DEF AllGroups
  <2> QED
    BY <1>2, <2>1, <2>2, FieldThen DEF OfGroups
<1>3. CASE rci.process # "element" /\ rci.group = Len(Instances)
  <2> DEFINE q == ThenCall(rci, "action_end", "group_end")
  <2>1. rci' = TraverseDone(q)
    BY <1>3, Zenon DEF AllGroups
  <2>2. "action_end" \in Calls /\ "group_end" \in OutputStates
    BY DEF Calls, OutputStates
  <2>3. /\ q \in ParserTypes /\ q.parser = "output" /\ q.output = "group_end"
        /\ q.calling = "action_end" /\ q.last = "action_end"
        /\ q.input = rci.input /\ q.unwind = rci.unwind
        /\ q.failed = rci.failed /\ q.group = rci.group
        /\ q.index = rci.index /\ q.element = rci.element
        /\ q.action = rci.action /\ q.all = rci.all
    BY <2>2, ThenCalls
  <2> HIDE DEF q
  <2>4. rci' \in ParserTypes /\ Kept /\ SameElement /\ Finished
        /\ Called("action_end", "group_end")
    BY <2>1, <2>3, TraversalDone
       DEF Kept, SameElement, SameGroup, Finished, Called
  <2> QED
    BY <1>3, <2>4 DEF OfGroups
<1>4. CASE rci.process # "element" /\ rci.group # Len(Instances)
  <2>1. rci' = IF rci.group # 0 /\ rci.index < Instances[rci.group]
               THEN TraverseGroup(rci, rci.group, rci.index + 1)
               ELSE TraverseGroup(rci, rci.group + 1, 1)
    BY <1>4, Zenon DEF AllGroups
  <2>2. CASE rci.group # 0 /\ rci.index < Instances[rci.group]
    <3>1. rci.group \in Groups
      BY <1>1, <2>2
    <3>3. rci.index + 1 \in 1 .. Instances[rci.group]
      BY <1>1, <2>2, <3>1, OneMore
    <3>2. rci' = TraverseGroup(rci, rci.group, rci.index + 1)
      BY <2>1, <2>2
    <3>4. rci' \in ParserTypes /\ Kept /\ AnotherGroup /\ NextOfGroup
      BY <3>1, <3>2, <3>3, GroupBegins DEF NextOfGroup
    <3> QED
      BY <1>4, <2>2, <3>4 DEF OfGroups
  <2>3. CASE ~(rci.group # 0 /\ rci.index < Instances[rci.group])
    <3>1. rci.group + 1 \in Groups
      BY <1>1, <1>4
    <3>2. 1 \in 1 .. Instances[rci.group + 1]
      BY <1>1, <3>1
    <3>3. rci' = TraverseGroup(rci, rci.group + 1, 1)
      BY <2>1, <2>3
    <3>4. /\ rci' \in ParserTypes /\ Kept /\ AnotherGroup
          /\ rci'.group = rci.group + 1 /\ rci'.index = 1
      BY <3>1, <3>2, <3>3, GroupBegins
    <3> QED
      BY <1>4, <2>3, <3>4 DEF OfGroups
  <2> QED
    BY <2>2, <2>3
<1> QED
  BY <1>2, <1>3, <1>4

LEMMA TraverseShape ==
    ASSUME ConfigTypes, ControlInv, TraverseData
    PROVE  /\ rci \in ParserTypes /\ rci.parser = "traverse"
           /\ stage = "running" /\ AtTraverse
           /\ rci' \in ParserTypes /\ Kept /\ WalksOn /\ within' = FALSE
           /\ UNCHANGED <<user, saved, owed, sessions, troubles, tokens, more,
                          written, room, stage, odd>>
<1>1. /\ stage = "running" /\ rci.calling = "none" /\ rci.parser = "traverse"
      /\ within' = FALSE /\ rci \in ParserTypes
      /\ UNCHANGED <<user, saved, owed, sessions, troubles, tokens, more,
                     written, room, stage, odd>>
  BY DEF TraverseData, ParserStep, ConfigTypes
<1>2. AtTraverse
  BY <1>1 DEF ControlInv
<1>3. CASE rci.traverse = "none"
  <2>1. rci' = [rci EXCEPT !.parser = IF rci.input = "done"
                                      THEN "output" ELSE "input"]
    BY <1>3 DEF TraverseData
  <2> QED
    BY <1>1, <1>2, <1>3, <2>1, ResumesShape DEF WalksOn
<1>4. CASE rci.traverse \in
              {"command", "group", "element", "element_end", "group_end"}
  <2>1. rci' \in ParserTypes /\ Kept /\ OfACommand
    BY <1>1, <1>4, CommandShape DEF TraverseData
  <2> QED
    BY <1>1, <1>2, <2>1 DEF WalksOn
<1>5. CASE rci.traverse = "all_elements"
  <2>1. InGroup
    BY <1>2, <1>5 DEF AtTraverse, GoesOnBetween
  <2>2. rci' \in ParserTypes /\ Kept /\ OfElements
    BY <1>1, <1>5, <2>1, ElementsShape DEF TraverseData
  <2> QED
    BY <1>1, <1>2, <2>2 DEF WalksOn
<1>6. CASE rci.traverse = "all_instances"
  <2>1. rci.group # 0 /\ (rci.process # "instance" => InGroup)
    BY <1>2, <1>6 DEF AtTraverse, GoesOnInside, GoesOnBetween, InGroup
  <2>2. rci' = AllInstances(rci)
    BY <1>6 DEF TraverseData
  <2>3. rci' \in ParserTypes /\ Kept /\ OfInstances
    BY <1>1, <1>6, <2>1, <2>2, InstancesShape
  <2> QED
    BY <1>1, <1>2, <2>3 DEF WalksOn
<1>7. CASE rci.traverse = "all_groups"
  <2>1. rci.process = "element" => InGroup
    BY <1>2, <1>7 DEF AtTraverse, GoesOnBetween
  <2>2. rci' = AllGroups(rci)
    BY <1>7 DEF TraverseData
  <2>3. rci' \in ParserTypes /\ Kept /\ OfGroups
    BY <1>1, <1>7, <2>1, <2>2, GroupsShape
  <2> QED
    BY <1>1, <1>2, <2>3 DEF WalksOn
<1> QED
  BY <1>1, <1>3, <1>4, <1>5, <1>6, <1>7, ParserFields

\* What is shown of every step of the traversal.
Traversed ==
    /\ ControlInv' /\ LiveInv' /\ Depth' = Depth /\ SamePlace
    /\ rci'.parser # "error"

LEMMA ResumesWell ==
    ASSUME rci \in ParserTypes, rci' \in ParserTypes, ControlInv, LiveInv,
           stage = "running", rci.parser = "traverse", AtTraverse,
           UNCHANGED <<user, stage, odd>>, Kept, Resumes
    PROVE  Traversed
<1>1. /\ rci.calling = "none" /\ rci.last # "none"
      /\ rci.traverse = "none" /\ SameGroup
      /\ rci'.element = rci.element /\ rci'.traverse = "none"
      /\ rci'.process = rci.process /\ rci'.calling = "none"
      /\ rci'.last = rci.last /\ rci'.output = rci.output
      /\ rci'.value = rci.value
      /\ rci'.parser = IF rci.input = "done" THEN "output" ELSE "input"
  BY DEF AtTraverse, Resumes, SameElement, GoesOn, ControlInv
<1>2. /\ GoesOnInside' = GoesOnInside /\ GoesOnBetween' = GoesOnBetween
      /\ InsideGroup' = InsideGroup /\ Between' = Between /\ InGroup' = InGroup
      /\ NoElement' = NoElement
  BY <1>1 DEF Kept, SameGroup, GoesOnInside, GoesOnBetween, InsideGroup, Between,
     InGroup, NoElement, Steady
<1>3. \/ ~rci.failed /\ InsideGroup /\ InGroup /\ GoesOnInside
         /\ rci.input = "field"
      \/ ~rci.failed /\ Between /\ NoElement /\ GoesOnBetween
         /\ rci.input = "group"
      \/ rci.failed /\ rci.input = "done" /\ rci.output = "group"
         /\ Between /\ NoElement /\ rci.group = 0
  BY <1>1 DEF AtTraverse, GoesOnInside, GoesOnBetween
<1>4. rci'.parser = "input" => AtInput'
  BY <1>1, <1>2, <1>3 DEF AtInput, Kept, CallRefused
<1>5. rci'.parser = "output" => AtOutput'
  BY <1>1, <1>2, <1>3 DEF AtOutput, Kept, CallRefused, SameGroup
<1>6. ControlInv'
  BY <1>1, <1>4, <1>5 DEF ControlInv
<1>7. LiveInv'
  BY <1>1, <1>2 DEF LiveInv, SameGroup
<1>8. Depth' = Depth
  BY <1>1, <1>2, <1>3 DEF Depth, Between, InsideGroup
<1>9. SamePlace
  BY <1>1, <1>3 DEF SamePlace, Kept, Doomed, Expected, CallRefused, SameGroup
<1> QED
  BY <1>1, <1>6, <1>7, <1>8, <1>9 DEF Traversed

LEMMA CommandWell ==
    ASSUME rci \in ParserTypes, rci' \in ParserTypes, ControlInv, LiveInv,
           stage = "running", rci.parser = "traverse", AtTraverse,
           UNCHANGED <<user, stage, odd>>, Kept, OfACommand
    PROVE  Traversed
<1>1. /\ rci.calling = "none" /\ rci.last # "none"
      /\ SameGroup /\ rci'.element = rci.element
      /\ rci'.traverse = "none" /\ rci'.process = "group"
  BY DEF AtTraverse, OfACommand, SameElement, Finished, ControlInv
<1>2. Steady' /\ InGroup' = InGroup /\ NoElement' = NoElement
  BY <1>1 DEF Steady, SameGroup, InGroup, NoElement
<1>3. CASE rci.traverse = "command"
  <2>1. ~rci.failed /\ rci.input = "group" /\ Outside /\ NoElement
        /\ rci.group = 0
    BY <1>3 DEF AtTraverse, GoesOnInside, GoesOnBetween
  <2>2. Called("action_start", "command")
    BY <1>3 DEF OfACommand
  <2>3. AtOutput'
    BY <1>1, <1>2, <2>1, <2>2 DEF AtOutput, Called, Kept, CallRefused
  <2>4. ControlInv'
    BY <2>2, <2>3 DEF ControlInv, Called
  <2>5. LiveInv'
    BY <1>1, <2>1, <2>2 DEF LiveInv, Outside, InsideGroup, Called
  <2>6. Depth' = Depth
    BY <2>1, <2>2 DEF Depth, Called, Outside, InsideGroup, Between
  <2>7. SamePlace
    BY <1>1, <1>3, <2>1, <2>2
       DEF SamePlace, Kept, Doomed, Expected, CallRefused, Called,
       SameGroup
  <2> QED
    BY <2>2, <2>4, <2>5, <2>6, <2>7 DEF Traversed, Called
<1>4. CASE rci.traverse = "group"
  <2>1. ~rci.failed /\ rci.input = "field" /\ Between /\ NoElement /\ InGroup
    BY <1>4 DEF AtTraverse, GoesOnInside, GoesOnBetween
  <2>2. Called("group_start", "group")
    BY <1>4 DEF OfACommand
  <2>3. GoesOnInside'
    BY <1>1, <1>2, <2>1 DEF GoesOnInside, Kept
  <2>4. AtOutput'
    BY <1>2, <2>1, <2>2, <2>3 DEF AtOutput, Called
  <2>5. ControlInv'
    BY <1>2, <2>1, <2>2, <2>4 DEF ControlInv, Called
  <2>6. LiveInv'
    BY <1>1, <2>1, <2>2 DEF LiveInv, Between, InsideGroup, Called
  <2>7. Depth' = Depth
    BY <2>1, <2>2 DEF Depth, Called, Between, InsideGroup
  <2>8. SamePlace
    BY <1>1, <1>4, <2>1, <2>2
       DEF SamePlace, Kept, Doomed, Expected, CallRefused, Called,
       SameGroup
  <2> QED
    BY <2>2, <2>5, <2>6, <2>7, <2>8 DEF Traversed, Called
<1>5. CASE rci.traverse = "element_end"
  <2>1. ~rci.failed /\ rci.input = "group" /\ InsideGroup /\ InGroup
    BY <1>5 DEF AtTraverse, GoesOnInside, GoesOnBetween
  <2>2. Called("group_end", "field_end")
    BY <1>5 DEF OfACommand
  <2>3. GoesOnBetween'
    BY <1>1, <1>2, <2>1 DEF GoesOnBetween, Kept
  <2>4. AtOutput'
    BY <1>2, <2>1, <2>2, <2>3 DEF AtOutput, Called
  <2>5. ControlInv'
    BY <1>2, <2>1, <2>2, <2>4 DEF ControlInv, Called
  <2>6. LiveInv'
    BY <1>1, <1>2, <2>1, <2>2 DEF LiveInv, InsideGroup, Called, SameGroup
  <2>7. Depth' = Depth
    BY <2>1, <2>2 DEF Depth, Called, InsideGroup, Between
  <2>8. SamePlace
    BY <1>1, <1>5, <2>1, <2>2
       DEF SamePlace, Kept, Doomed, Expected, CallRefused, Called,
       SameGroup
  <2> QED
    BY <2>2, <2>5, <2>6, <2>7, <2>8 DEF Traversed, Called
<1>6. CASE rci.traverse = "group_end"
  <2>1. ~rci.failed /\ rci.input \in {"command", "done"}
        /\ Between /\ NoElement
    BY <1>6 DEF AtTraverse, GoesOnInside, GoesOnBetween
  <2>2. Called("action_end", "group_end")
    BY <1>6 DEF OfACommand
  <2>3. AtOutput'
    BY <1>1, <1>2, <2>1, <2>2 DEF AtOutput, Called, Kept, CallRefused
  <2>4. ControlInv'
    BY <2>2, <2>3 DEF ControlInv, Called
  <2>5. LiveInv'
    BY <1>1, <2>1, <2>2 DEF LiveInv, Between, InsideGroup, Called
  <2>6. Depth' = Depth
    BY <2>1, <2>2 DEF Depth, Called, Between, InsideGroup
  <2>7. SamePlace
    BY <1>1, <1>6, <2>1, <2>2
       DEF SamePlace, Kept, Doomed, Expected, CallRefused, Called,
       SameGroup
  <2> QED
    BY <2>2, <2>4, <2>5, <2>6, <2>7 DEF Traversed, Called
<1>7. CASE rci.traverse = "element"
  <2>1. ~rci.failed /\ rci.input = "field" /\ InsideGroup /\ OfGroup /\ HasValue
    BY <1>7 DEF AtTraverse, GoesOnInside, GoesOnBetween
  <2>2. AField /\ rci'.value = rci.value
    BY <1>7 DEF OfACommand
  <2>3. GoesOnInside'
    BY <1>1, <1>2, <2>1 DEF GoesOnInside, Kept
  <2>4. HasValue' /\ OfGroup' /\ InsideGroup' /\ InGroup'
    BY <1>1, <1>2, <2>1, <2>2
       DEF HasValue, OfGroup, InsideGroup, AField, Stays, Called,
       Kept
  <2>5. CASE Stays
    <3>1. AtTraverse'
      BY <2>1, <2>3, <2>4, <2>5 DEF AtTraverse, Stays, Kept
    <3>2. ControlInv'
      BY <1>1, <2>5, <3>1 DEF ControlInv, Stays
    <3>3. LiveInv'
      BY <1>1, <2>1, <2>4, <2>5 DEF LiveInv, Stays, InsideGroup, SameGroup
    <3>4. Depth' = Depth
      BY <2>1, <2>4, <2>5 DEF Depth, Stays
    <3>5. SamePlace
      BY <1>1, <1>7, <2>1, <2>5 DEF SamePlace, Kept, Doomed, Expected, CallRefused,
         Stays, SameGroup
    <3> QED
      BY <2>5, <3>2, <3>3, <3>4, <3>5 DEF Traversed, Stays
  <2>6. CASE Called("process", "field")
    <3>1. AtOutput'
      BY <2>3, <2>4, <2>6 DEF AtOutput, Called
    <3>2. ControlInv'
      BY <2>4, <2>6, <3>1 DEF ControlInv, Called, OfGroup
    <3>3. LiveInv'
      BY <1>1, <2>1, <2>4, <2>6 DEF LiveInv, Called, SameGroup
    <3>4. Depth' = Depth
      BY <2>1, <2>4, <2>6 DEF Depth, Called, InsideGroup, Between
    <3>5. SamePlace
      BY <1>1, <1>7, <2>1, <2>6 DEF SamePlace, Kept, Doomed, Expected, CallRefused,
         Called, SameGroup
    <3> QED
      BY <2>6, <3>2, <3>3, <3>4, <3>5 DEF Traversed, Called
  <2> QED
    BY <2>2, <2>5, <2>6 DEF AField
<1> QED
  BY <1>3, <1>4, <1>5, <1>6, <1>7 DEF OfACommand

\* The next of all the fields of a group.
LEMMA FieldWell ==
    ASSUME rci \in ParserTypes, rci' \in ParserTypes, ControlInv, LiveInv,
           stage = "running", rci.parser = "traverse", rci.calling = "none",
           UNCHANGED <<user, stage, odd>>, Kept, AnotherField, GoesOn,
           ~rci.failed, InsideGroup, InGroup, GoesOnInside, rci.action = "query",
           rci.input # "field"
    PROVE  Traversed
<1>1. /\ SameGroup /\ rci'.element \in 1 .. Len(Kinds[rci.group])
      /\ rci'.traverse = rci.traverse /\ rci'.process = rci.process /\ AField
      /\ Len(Kinds[rci.group]) \in 1 .. 9
  BY GroupFacts, ParserFields DEF AnotherField, GoesOn, InGroup
<1>2. GoesOnInside' /\ HasValue'
  BY <1>1 DEF GoesOnInside, HasValue, Steady, Kept
<1>3. OfGroup' /\ InGroup'
  <2>1. rci'.element # 0 /\ rci'.element \in 0 .. Len(Kinds[rci.group])
    BY <1>1
  <2> QED
    BY <1>1, <2>1 DEF OfGroup, InGroup, SameGroup
<1>4. InsideGroup' /\ rci'.last # "none" /\ rci'.calling # "group_start"
  BY <1>1 DEF InsideGroup, AField, Stays, Called
<1>5. CASE Stays
  <2>1. AtTraverse'
    BY <1>2, <1>3, <1>4, <1>5 DEF AtTraverse, Stays, Kept
  <2>2. ControlInv'
    BY <1>4, <1>5, <2>1 DEF ControlInv, Stays
  <2>3. LiveInv'
    BY <1>1, <1>3, <1>4, <1>5 DEF LiveInv, Stays, SameGroup
  <2>4. Depth' = Depth
    BY <1>4, <1>5 DEF Depth, Stays
  <2>5. SamePlace
    BY <1>1, <1>5 DEF SamePlace, Kept, Doomed, Expected, CallRefused, Stays,
       SameGroup
  <2> QED
    BY <1>5, <2>2, <2>3, <2>4, <2>5 DEF Traversed, Stays
<1>6. CASE Called("process", "field")
  <2>1. AtOutput'
    BY <1>2, <1>3, <1>6 DEF AtOutput, Called
  <2>2. ControlInv'
    BY <1>2, <1>3, <1>6, <2>1 DEF ControlInv, Called, OfGroup
  <2>3. LiveInv'
    BY <1>1, <1>3, <1>4, <1>6 DEF LiveInv, Called, SameGroup
  <2>4. Depth' = Depth
    BY <1>4, <1>6 DEF Depth, Called, InsideGroup, Between
  <2>5. SamePlace
    BY <1>1, <1>6 DEF SamePlace, Kept, Doomed, Expected, CallRefused, Called,
       SameGroup
  <2> QED
    BY <1>6, <2>2, <2>3, <2>4, <2>5 DEF Traversed, Called
<1> QED
  BY <1>1, <1>5, <1>6 DEF AField

\* The end of a group of which all the fields have been.
LEMMA EndWell ==
    ASSUME rci \in ParserTypes, rci' \in ParserTypes, ControlInv, LiveInv,
           stage = "running", rci.parser = "traverse", rci.calling = "none",
           UNCHANGED <<user, stage, odd>>, Kept, SameElement,
           Called("group_end", "field_end"), GoesOnBetween',
           rci.traverse = "all_groups" <=> rci'.traverse = "all_groups",
           ~rci.failed, InsideGroup, InGroup, rci.input # "field"
    PROVE  Traversed
<1>1. SameGroup /\ InGroup'
  BY DEF SameElement, SameGroup, InGroup
<1>2. AtOutput'
  BY <1>1 DEF AtOutput, Called
<1>3. ControlInv'
  BY <1>1, <1>2 DEF ControlInv, Called
<1>4. LiveInv'
  BY <1>1 DEF LiveInv, InsideGroup, Called, SameGroup
<1>5. Depth' = Depth
  BY DEF Depth, Called, InsideGroup, Between
<1>6. SamePlace
  BY DEF SamePlace, Kept, Doomed, Expected, CallRefused, Called
<1> QED
  BY <1>3, <1>4, <1>5, <1>6 DEF Traversed, Called

\* The beginning of the next of all the groups or instances.
LEMMA BeginWell ==
    ASSUME rci \in ParserTypes, rci' \in ParserTypes, ControlInv, LiveInv,
           stage = "running", rci.parser = "traverse", rci.calling = "none",
           UNCHANGED <<user, stage, odd>>, Kept, AnotherGroup,
           GoesOnInside', ~rci.failed, Between, NoElement,
           rci.input # "field"
    PROVE  Traversed
<1>1. /\ rci'.traverse = rci.traverse /\ rci'.element = 0
      /\ rci'.group \in Groups /\ rci'.index \in 1 .. Instances[rci'.group]
      /\ Called("group_start", "group")
  BY DEF AnotherGroup, NoElement
<1>2. InGroup' /\ NoElement'
  <2>1. rci'.group # 0 /\ 0 \in 0 .. Len(Kinds[rci'.group])
    BY <1>1, GroupFacts
  <2> QED
    BY <1>1, <2>1 DEF InGroup, NoElement
<1>3. AtOutput'
  BY <1>1, <1>2 DEF AtOutput, Called
<1>4. ControlInv'
  BY <1>1, <1>2, <1>3 DEF ControlInv, Called
<1>5. LiveInv'
  BY <1>1 DEF LiveInv, InsideGroup, Between, Called
<1>6. Depth' = Depth
  BY <1>1 DEF Depth, Called, InsideGroup, Between
<1>7. SamePlace
  BY <1>1 DEF SamePlace, Kept, Doomed, Expected, CallRefused, Called
<1> QED
  BY <1>1, <1>4, <1>5, <1>6, <1>7 DEF Traversed, Called

LEMMA ElementsWell ==
    ASSUME rci \in ParserTypes, rci' \in ParserTypes, ControlInv, LiveInv,
           stage = "running", rci.parser = "traverse", AtTraverse,
           UNCHANGED <<user, stage, odd>>, Kept, OfElements
    PROVE  Traversed
<1>1. /\ rci.calling = "none" /\ ~rci.failed /\ InsideGroup /\ InGroup
      /\ GoesOnInside /\ rci.input = "group" /\ rci.action = "query"
      /\ rci.traverse = "all_elements" /\ Steady
  BY DEF AtTraverse, OfElements, GoesOnInside, GoesOnBetween
<1>2. CASE AnotherField /\ GoesOn
  BY <1>1, <1>2, FieldWell
<1>3. CASE Finished /\ SameElement /\ Called("group_end", "field_end")
  <2>1. GoesOnBetween'
    BY <1>1, <1>3 DEF GoesOnBetween, Finished, Steady, Kept
  <2> QED
    BY <1>1, <1>3, <2>1, EndWell DEF Finished
<1> QED
  BY <1>2, <1>3 DEF OfElements

LEMMA InstancesWell ==
    ASSUME rci \in ParserTypes, rci' \in ParserTypes, ControlInv, LiveInv,
           stage = "running", rci.parser = "traverse", AtTraverse,
           UNCHANGED <<user, stage, odd>>, Kept, OfInstances
    PROVE  Traversed
<1>1. /\ rci.calling = "none" /\ ~rci.failed /\ rci.last # "none"
      /\ rci.input = "group" /\ rci.action = "query"
      /\ rci.traverse = "all_instances"
      /\ \/ InsideGroup /\ InGroup /\ GoesOnInside /\ rci.process # "instance"
         \/ Between /\ NoElement /\ rci.process = "instance"
            /\ rci.group # 0
  BY DEF AtTraverse, OfInstances, GoesOnInside, GoesOnBetween, ControlInv
<1>2. CASE rci.process # "instance" /\ AnotherField /\ GoesOn
  BY <1>1, <1>2, FieldWell
<1>3. CASE /\ rci.process # "instance" /\ SameElement
           /\ rci'.traverse = rci.traverse /\ rci'.process = "instance"
           /\ Called("group_end", "field_end")
  <2>1. GoesOnBetween'
    BY <1>1, <1>3 DEF GoesOnBetween, Kept, SameElement, SameGroup, InGroup
  <2> QED
    BY <1>1, <1>3, <2>1, EndWell
<1>4. CASE rci.process = "instance" /\ AnotherGroup
  <2>1. GoesOnInside'
    BY <1>1, <1>4 DEF GoesOnInside, Kept, AnotherGroup
  <2> QED
    BY <1>1, <1>4, <2>1, BeginWell
<1>5. CASE rci.process = "instance" /\ SameElement /\ Finished /\ Stays
  <2>1. Between' /\ NoElement' /\ GoesOnBetween'
    BY <1>1, <1>5 DEF Between, NoElement, GoesOnBetween, Steady, SameElement,
       Finished, Stays, Kept
  <2>2. AtTraverse'
    BY <1>1, <1>5, <2>1 DEF AtTraverse, Stays, Kept
  <2>3. ControlInv'
    BY <1>1, <1>5, <2>2 DEF ControlInv, Stays
  <2>4. LiveInv'
    BY <1>1, <1>5 DEF LiveInv, Between, InsideGroup, Stays
  <2>5. Depth' = Depth
    BY <1>5, <2>1 DEF Depth, Between, InsideGroup, Stays
  <2>6. SamePlace
    BY <1>1, <1>5 DEF SamePlace, Kept, Doomed, Expected, CallRefused, Stays,
       Finished
  <2> QED
    BY <1>5, <2>3, <2>4, <2>5, <2>6 DEF Traversed, Stays
<1> QED
  BY <1>2, <1>3, <1>4, <1>5 DEF OfInstances

LEMMA GroupsWell ==
    ASSUME rci \in ParserTypes, rci' \in ParserTypes, ControlInv, LiveInv,
           stage = "running", rci.parser = "traverse", AtTraverse,
           UNCHANGED <<user, stage, odd>>, Kept, OfGroups
    PROVE  Traversed
<1>1. /\ rci.calling = "none" /\ ~rci.failed /\ rci.last # "none"
      /\ rci.input \in {"group", "done"} /\ rci.action = "query"
      /\ rci.traverse = "all_groups"
      /\ \/ InsideGroup /\ InGroup /\ GoesOnInside /\ rci.process = "element"
         \/ Between /\ NoElement /\ rci.process # "element"
  BY DEF AtTraverse, OfGroups, GoesOnInside, GoesOnBetween, ControlInv
<1>2. CASE rci.process = "element" /\ AnotherField /\ GoesOn
  BY <1>1, <1>2, FieldWell
<1>3. CASE /\ rci.process = "element" /\ SameElement
           /\ rci'.traverse = rci.traverse /\ rci'.process = "group"
           /\ Called("group_end", "field_end")
  <2>1. GoesOnBetween'
    BY <1>1, <1>3 DEF GoesOnBetween, Kept
  <2> QED
    BY <1>1, <1>3, <2>1, EndWell
<1>4. CASE rci.process # "element" /\ AnotherGroup
  <2>1. GoesOnInside'
    BY <1>1, <1>4 DEF GoesOnInside, Kept, AnotherGroup
  <2> QED
    BY <1>1, <1>4, <2>1, BeginWell
<1>5. CASE /\ rci.process # "element" /\ SameElement /\ Finished
           /\ Called("action_end", "group_end")
  <2>1. NoElement' /\ Steady'
    BY <1>1, <1>5 DEF NoElement, Steady, SameElement, Finished
  <2>2. AtOutput'
    BY <1>1, <1>5, <2>1 DEF AtOutput, Called, Kept, CallRefused, Finished
  <2>3. ControlInv'
    BY <1>5, <2>2 DEF ControlInv, Called
  <2>4. LiveInv'
    BY <1>1, <1>5 DEF LiveInv, Between, InsideGroup, Called
  <2>5. Depth' = Depth
    BY <1>1, <1>5 DEF Depth, Between, InsideGroup, Called
  <2>6. SamePlace
    BY <1>1, <1>5 DEF SamePlace, Kept, Doomed, Expected, CallRefused, Called,
       Finished
  <2> QED
    BY <1>5, <2>3, <2>4, <2>5, <2>6 DEF Traversed, Called
<1> QED
  BY <1>2, <1>3, <1>4, <1>5 DEF OfGroups

LEMMA TraverseWell ==
    ASSUME ConfigTypes, ControlInv, LiveInv, TraverseData
    PROVE  ConfigTypes' /\ Traversed /\ rci'.unwind = rci.unwind
<1>1. /\ rci \in ParserTypes /\ rci.parser = "traverse"
      /\ stage = "running" /\ AtTraverse
      /\ rci' \in ParserTypes /\ Kept /\ WalksOn /\ within' = FALSE
      /\ UNCHANGED <<user, saved, owed, sessions, troubles, tokens, more,
                     written, room, stage, odd>>
  BY TraverseShape
<1>2. Traversed
  BY <1>1, ResumesWell, CommandWell, ElementsWell, InstancesWell, GroupsWell
     DEF WalksOn
<1>3. ConfigTypes'
  BY <1>1 DEF ConfigTypes
<1> QED
  BY <1>1, <1>2, <1>3 DEF Kept

-----------------------------------------------------------------------------

(* The response.                                                           *)

LEMMA CountOneMore ==
    ASSUME NEW n \in Nat, NEW S, S \subseteq 1 .. n
    PROVE  /\ Cardinality(S) \in Nat
           /\ Cardinality(S \cup {n + 1}) = Cardinality(S) + 1
<1>1. IsFiniteSet(S)
  <2>1. IsFiniteSet(1 .. n)
    BY FS_Interval
  <2> QED
    BY <2>1, FS_Subset
<1>2. n + 1 \notin S
  OBVIOUS
<1> QED
  BY <1>1, <1>2, FS_CardinalityType, FS_AddElement

\* The counts of what begins and ends, when an item is added.
LEMMA CountsGrow ==
    ASSUME NEW S, NEW w \in Seq(S), NEW x
    PROVE  LET v == Append(w, x)
               n == Len(w)
           IN
           /\ Len(v) = n + 1 /\ n \in Nat
           /\ \A k \in 0 .. n : Openings(v, k) = Openings(w, k)
                                /\ Endings(v, k) = Endings(w, k)
           /\ Openings(w, n) \in Nat /\ Endings(w, n) \in Nat
           /\ Openings(v, n + 1) = Openings(w, n) + (IF BeginsPart(x) THEN 1 ELSE 0)
           /\ Endings(v, n + 1) = Endings(w, n) + (IF x = End THEN 1 ELSE 0)
<1> DEFINE v == Append(w, x)
           n == Len(w)
           O(u, m) == {k \in 1 .. m : u[k][1] \in {"command", "group"}}
           E(u, m) == {k \in 1 .. m : u[k] = End}
<1>1. /\ n \in Nat /\ Len(v) = n + 1 /\ v[n + 1] = x
      /\ \A k \in 1 .. n : v[k] = w[k]
  OBVIOUS
<1> HIDE DEF v, n
<1>2. \A k \in 0 .. n : O(v, k) = O(w, k) /\ E(v, k) = E(w, k)
  <2>1. \A k \in 0 .. n : \A i \in 1 .. k : i \in 1 .. n
    BY <1>1
  <2> QED
    BY <1>1, <2>1
<1>3. 1 .. (n + 1) = (1 .. n) \cup {n + 1} /\ n \in 0 .. n
  BY <1>1
<1>4. O(v, n + 1) = IF BeginsPart(x) THEN O(w, n) \cup {n + 1} ELSE O(w, n)
  <2>1. O(v, n + 1) = O(v, n) \cup {k \in {n + 1} : BeginsPart(v[k])}
    BY <1>3 DEF BeginsPart
  <2> QED
    BY <1>1, <1>2, <1>3, <2>1
<1>5. E(v, n + 1) = IF x = End THEN E(w, n) \cup {n + 1} ELSE E(w, n)
  <2>1. E(v, n + 1) = E(v, n) \cup {k \in {n + 1} : v[k] = End}
    BY <1>3
  <2> QED
    BY <1>1, <1>2, <1>3, <2>1
<1>6. O(w, n) \subseteq 1 .. n /\ E(w, n) \subseteq 1 .. n
  OBVIOUS
<1> HIDE DEF O, E
<1>7. /\ Cardinality(O(w, n)) \in Nat /\ Cardinality(E(w, n)) \in Nat
      /\ Cardinality(O(w, n) \cup {n + 1}) = Cardinality(O(w, n)) + 1
      /\ Cardinality(E(w, n) \cup {n + 1}) = Cardinality(E(w, n)) + 1
  BY <1>1, <1>6, CountOneMore
<1>8. \A u, m : Openings(u, m) = Cardinality(O(u, m))
                /\ Endings(u, m) = Cardinality(E(u, m))
  BY DEF Openings, Endings, O, E
<1>9. /\ Openings(w, n) \in Nat /\ Endings(w, n) \in Nat
      /\ \A k \in 0 .. n : Openings(v, k) = Openings(w, k)
                           /\ Endings(v, k) = Endings(w, k)
  BY <1>2, <1>7, <1>8
<1>10. Openings(v, n + 1) = Openings(w, n) + (IF BeginsPart(x) THEN 1 ELSE 0)
  BY <1>4, <1>7, <1>8
<1>11. Endings(v, n + 1) = Endings(w, n) + (IF x = End THEN 1 ELSE 0)
  BY <1>5, <1>7, <1>8
<1> QED
  BY <1>1, <1>9, <1>10, <1>11 DEF v, n

\* An item that begins or ends something, or does neither.
LEMMA OpenGrows ==
    ASSUME NEW S, NEW w \in Seq(S), NEW x, NEW d \in Nat, NEW e \in Nat,
           OpenBy(w, d),
           \/ BeginsPart(x) /\ x # End /\ e = d + 1
           \/ x = End /\ ~BeginsPart(x) /\ d = e + 1
           \/ ~BeginsPart(x) /\ x # End /\ e = d
    PROVE  OpenBy(Append(w, x), e)
<1> DEFINE v == Append(w, x)
           n == Len(w)
<1>1. /\ Len(v) = n + 1 /\ n \in Nat
      /\ \A k \in 0 .. n : Openings(v, k) = Openings(w, k)
                           /\ Endings(v, k) = Endings(w, k)
      /\ Openings(w, n) \in Nat /\ Endings(w, n) \in Nat
      /\ Openings(v, n + 1) = Openings(w, n) + (IF BeginsPart(x) THEN 1 ELSE 0)
      /\ Endings(v, n + 1) = Endings(w, n) + (IF x = End THEN 1 ELSE 0)
  BY CountsGrow
<1>2. /\ Openings(w, n) = Endings(w, n) + d
      /\ \A k \in 1 .. n : Endings(w, k) <= Openings(w, k)
  BY DEF OpenBy
<1>3. DOMAIN v = 1 .. (n + 1)
  OBVIOUS
<1> HIDE DEF v, n
<1>4. Openings(v, n + 1) = Endings(v, n + 1) + e
  <2>1. PICK a : a = Openings(w, n)
    OBVIOUS
  <2>2. PICK b : b = Endings(w, n)
    OBVIOUS
  <2>3. a \in Nat /\ b \in Nat /\ a = b + d
    BY <1>1, <1>2, <2>1, <2>2
  <2>4. /\ Openings(v, n + 1) = a + (IF BeginsPart(x) THEN 1 ELSE 0)
        /\ Endings(v, n + 1) = b + (IF x = End THEN 1 ELSE 0)
    BY <1>1, <2>1, <2>2
  <2> QED
    BY <2>3, <2>4
<1>5. Endings(v, n + 1) \in Nat /\ Endings(v, n + 1) <= Openings(v, n + 1)
  BY <1>1, <1>4
<1>6. \A k \in 1 .. (n + 1) : Endings(v, k) <= Openings(v, k)
  <2>1. ASSUME NEW k \in 1 .. (n + 1) PROVE k = n + 1 \/ k \in 1 .. n
    BY <1>1
  <2>2. \A k \in 1 .. n : Endings(v, k) <= Openings(v, k)
    BY <1>1, <1>2
  <2> QED
    BY <1>5, <2>1, <2>2
<1>7. OpenBy(v, e)
  BY <1>1, <1>3, <1>4, <1>6 DEF OpenBy
<1> QED
  BY <1>7 DEF v

\* The parser goes to another state, or to another item.
Rest ==
    /\ rci' \in ParserTypes /\ rci'.input = rci.input
    /\ rci'.traverse = rci.traverse /\ rci'.process = rci.process
    /\ rci'.unwind = rci.unwind /\ rci'.failed = rci.failed
    /\ rci'.calling = rci.calling /\ rci'.last = rci.last
    /\ rci'.action = rci.action /\ rci'.value = rci.value
    /\ rci'.all = rci.all
TurnsTo(p) ==
    /\ Rest /\ SameElement /\ rci'.parser = p /\ rci'.output = rci.output
Outputs(s) ==
    /\ Rest /\ SameElement /\ rci'.parser = rci.parser /\ rci'.output = s

LEMMA ParserTurns ==
    ASSUME rci \in ParserTypes, NEW p \in Parsers,
           rci' = [rci EXCEPT !.parser = p]
    PROVE  TurnsTo(p)
<1>1. rci' \in ParserTypes
  BY DEF ParserTypes
<1> QED
  BY <1>1 DEF ParserTypes, TurnsTo, Rest, SameElement, SameGroup

LEMMA ParserOutputs ==
    ASSUME rci \in ParserTypes, NEW s \in OutputStates,
           rci' = [rci EXCEPT !.output = s]
    PROVE  Outputs(s)
<1>1. rci' \in ParserTypes
  BY DEF ParserTypes
<1> QED
  BY <1>1 DEF ParserTypes, Outputs, Rest, SameElement, SameGroup

LEMMA ParserGoesTo ==
    ASSUME rci \in ParserTypes, rci' = To(rci)
    PROVE  IF rci.failed THEN TurnsTo("error") ELSE TurnsTo("traverse")
<1>1. "error" \in Parsers /\ "traverse" \in Parsers
  BY DEF Parsers
<1>2. CASE rci.failed
  <2>1. rci' = [rci EXCEPT !.parser = "error"]
    BY <1>2 DEF To
  <2> QED
    BY <1>1, <1>2, <2>1, ParserTurns
<1>3. CASE ~rci.failed
  <2>1. rci' = [rci EXCEPT !.parser = "traverse"]
    BY <1>3 DEF To
  <2> QED
    BY <1>1, <1>3, <2>1, ParserTurns
<1> QED
  BY <1>2, <1>3

LEMMA WriteShape ==
    ASSUME rci \in ParserTypes, room \in 0 .. PacketRoom,
           NEW item, NEW bytes \in Nat, NEW next, Write(item, bytes, next)
    PROVE  /\ room' \in 0 .. PacketRoom /\ UNCHANGED <<stage, odd>>
           /\ \/ Alike /\ written' = written
              \/ rci' = next /\ written' = Append(written, item)
<1>1. CASE bytes > room
  <2>1. /\ rci' = [rci EXCEPT !.status = "flush"] /\ "flush" \in Statuses
        /\ UNCHANGED <<written, room, stage, odd>>
    BY <1>1 DEF Write, Statuses
  <2> QED
    BY <2>1, StatusAlike
<1>2. CASE ~(bytes > room)
  <2>1. /\ rci' = next /\ room' = room - bytes
        /\ written' = Append(written, item) /\ UNCHANGED <<stage, odd>>
    BY <1>2 DEF Write
  <2>2. room' \in 0 .. PacketRoom
    BY <1>2, <2>1, RciAssumption
  <2> QED
    BY <2>1, <2>2
<1> QED
  BY <1>1, <1>2

\* Where the output begins, and what every step of it leads to.
AtItem ==
    /\ stage = "running" /\ rci \in ParserTypes /\ rci.parser = "output"
    /\ rci.calling = "none" /\ rci.last # "none" /\ rci.unwind = "error"
    /\ AtOutput /\ ControlInv /\ LiveInv /\ user' = user
    /\ room \in 0 .. PacketRoom

NextCommand ==
    /\ Expected = "command" /\ Expected' = "command" /\ ~Doomed
    /\ rci.input # "done" /\ rci'.input = "command"

Outcome ==
    /\ rci' \in ParserTypes /\ room' \in 0 .. PacketRoom
    /\ ControlInv' /\ LiveInv' /\ odd \subseteq odd'
    /\ odd' \subseteq odd \cup {"stuck", "full", "beyond", "stale", "second"}
    /\ \/ stage' = "running" /\ rci'.unwind = "error"
          /\ Writes /\ (SamePlace \/ NextCommand)
       \/ stage' = "sending" /\ written' = written /\ Depth = 0
       \/ stage' = "dead" /\ "beyond" \in odd' /\ written' = written

LEMMA AlikeOutcome ==
    ASSUME AtItem, Alike, room' \in 0 .. PacketRoom, written' = written,
           stage' = stage, odd' = odd \/ odd' = odd \cup {"stuck"}
    PROVE  Outcome
<1>1. ControlInv' /\ LiveInv' /\ Depth' = Depth /\ SamePlace
  BY AlikeWell DEF AtItem
<1> QED
  BY <1>1 DEF Outcome, Alike, AtItem, Writes

\* The error is next.
LEMMA ErrorNext ==
    ASSUME AtItem, TurnsTo("error"), UNCHANGED <<stage, odd>>
    PROVE  /\ ControlInv' /\ LiveInv' /\ SamePlace /\ rci'.unwind = "error"
           /\ Depth' = CASE InsideGroup -> 2 [] Between -> 1 [] OTHER -> 0
<1>1. /\ rci' \in ParserTypes /\ rci'.parser = "error"
      /\ rci'.unwind = "error" /\ rci'.calling = "none"
      /\ rci'.last = rci.last /\ SameElement /\ Rest
  BY DEF AtItem, TurnsTo, Rest
<1>2. InsideGroup' = InsideGroup /\ Between' = Between /\ InGroup' = InGroup
  BY <1>1 DEF InsideGroup, Between, InGroup, SameElement, SameGroup
<1>3. ControlInv'
  BY <1>1 DEF ControlInv, AtItem
<1>4. LiveInv'
  BY <1>1, <1>2 DEF LiveInv, AtItem, SameElement, SameGroup
<1>5. SamePlace
  BY <1>1 DEF SamePlace, Rest, Doomed
<1>6. Depth' = CASE InsideGroup -> 2 [] Between -> 1 [] OTHER -> 0
  BY <1>1, <1>2 DEF Depth
<1> QED
  BY <1>1, <1>3, <1>4, <1>5, <1>6

\* The traversal is next, in a group or between two.
LEMMA TraverseNext ==
    ASSUME AtItem, TurnsTo("traverse"), UNCHANGED <<stage, odd>>, ~rci.failed,
           \/ GoesOnInside /\ InsideGroup /\ InGroup
           \/ GoesOnBetween /\ Between /\ NoElement,
           rci.output \notin {"group_end", "response_done"}
    PROVE  /\ ControlInv' /\ LiveInv' /\ SamePlace /\ rci'.unwind = "error"
           /\ Depth' = IF InsideGroup THEN 2 ELSE 1
<1>1. /\ rci' \in ParserTypes /\ rci'.parser = "traverse"
      /\ rci'.unwind = "error" /\ rci'.calling = "none"
      /\ rci'.last = rci.last /\ SameElement /\ Rest
  BY DEF AtItem, TurnsTo, Rest
<1>2. /\ InsideGroup' = InsideGroup /\ Between' = Between /\ InGroup' = InGroup
      /\ NoElement' = NoElement /\ GoesOnInside' = GoesOnInside
      /\ GoesOnBetween' = GoesOnBetween
  BY <1>1 DEF InsideGroup, Between, InGroup, NoElement, GoesOnInside,
     GoesOnBetween, Steady, SameElement, SameGroup, Rest
<1>3. AtTraverse'
  BY <1>1, <1>2 DEF AtTraverse, Rest
<1>4. ControlInv'
  BY <1>1, <1>3 DEF ControlInv, AtItem
<1>5. LiveInv'
  BY <1>1, <1>2 DEF LiveInv, AtItem, SameElement, SameGroup
<1>6. SamePlace
  BY <1>1 DEF SamePlace, Rest, Doomed, Expected, CallRefused, AtItem, SameElement,
     SameGroup
<1>7. Depth' = IF InsideGroup THEN 2 ELSE 1
  BY <1>1, <1>2 DEF Depth, InsideGroup, Between
<1> QED
  BY <1>1, <1>4, <1>5, <1>6, <1>7

LEMMA ItemKinds ==
    /\ \A a \in {"query", "set"} :
           <<"command", a>> \in Items /\ BeginsPart(<<"command", a>>)
           /\ <<"command", a>> # End
    /\ \A g \in Groups :
           <<"group", g>> \in Items /\ BeginsPart(<<"group", g>>)
           /\ <<"group", g>> # End
    /\ \A i \in 0 .. 9 :
           <<"index", i>> \in Items /\ ~BeginsPart(<<"index", i>>)
           /\ <<"index", i>> # End
    /\ \A f \in 0 .. 9 :
           <<"field", f>> \in Items /\ ~BeginsPart(<<"field", f>>)
           /\ <<"field", f>> # End
    /\ \A v \in Values \cup {"none"} :
           <<"value", v>> \in Items /\ ~BeginsPart(<<"value", v>>)
           /\ <<"value", v>> # End
    /\ <<"no value">> \in Items /\ ~BeginsPart(<<"no value">>)
    /\ <<"rest">> \in Items /\ ~BeginsPart(<<"rest">>)
    /\ <<"error">> \in Items /\ ~BeginsPart(<<"error">>)
    /\ <<"no value">> # End /\ <<"rest">> # End /\ <<"error">> # End
    /\ End \in Items /\ ~BeginsPart(End)
BY DEF Items, BeginsPart, End

LEMMA CommandOut ==
    ASSUME AtItem, rci.output = "command", OutputItem
    PROVE  Outcome
<1>1. /\ rci.last = "action_start" /\ ~rci.failed /\ Steady /\ NoElement
      /\ rci.traverse = "none" /\ rci.input = "group"
      /\ rci.action \in {"query", "set"} /\ rci \in ParserTypes
  BY ParserFields DEF AtItem, AtOutput, CallRefused
<1> DEFINE item == <<"command", rci.action>>
<1>2. Write(item, 1, To(rci))
  BY <1>1 DEF OutputItem
<1> HIDE DEF item
<1>3. /\ room' \in 0 .. PacketRoom /\ UNCHANGED <<stage, odd>>
      /\ \/ Alike /\ written' = written
         \/ rci' = To(rci) /\ written' = Append(written, item)
  BY <1>2, WriteShape DEF AtItem
<1>4. CASE Alike /\ written' = written
  BY <1>3, <1>4, AlikeOutcome
<1>5. CASE rci' = To(rci) /\ written' = Append(written, item)
  <2>1. TurnsTo("traverse")
    BY <1>1, <1>5, ParserGoesTo
  <2>2. GoesOnBetween /\ Between /\ ~InsideGroup
    BY <1>1 DEF GoesOnBetween, Between, InsideGroup
  <2>3. /\ ControlInv' /\ LiveInv' /\ SamePlace /\ rci'.unwind = "error"
        /\ Depth' = 1
    BY <1>1, <1>3, <2>1, <2>2, TraverseNext
  <2>4. Depth = 0
    BY <1>1 DEF Depth, AtItem
  <2>5. item \in Items /\ BeginsPart(item) /\ item # End
    BY <1>1, ItemKinds DEF item
  <2>6. Writes
    BY <1>5, <2>3, <2>4, <2>5 DEF Writes
  <2> QED
    BY <1>3, <2>1, <2>3, <2>6 DEF Outcome, AtItem, TurnsTo, Rest
<1> QED
  BY <1>3, <1>4, <1>5

LEMMA GroupOut ==
    ASSUME AtItem, rci.output = "group", OutputItem
    PROVE  Outcome
<1>1. CASE rci.group = 0
  <2>1. rci' = [rci EXCEPT !.parser = "error"] /\ "error" \in Parsers
        /\ UNCHANGED <<written, room, stage, odd>> /\ rci \in ParserTypes
    BY <1>1 DEF OutputItem, Onward, Parsers, AtItem
  <2>2. TurnsTo("error")
    BY <2>1, ParserTurns
  <2>3. Between /\ ~InsideGroup
    BY <1>1 DEF AtItem, AtOutput, InGroup, Between, InsideGroup
  <2>4. /\ ControlInv' /\ LiveInv' /\ SamePlace /\ rci'.unwind = "error"
        /\ Depth' = 1
    BY <2>1, <2>2, <2>3, ErrorNext
  <2>5. Depth = 1
    BY <2>3 DEF Depth, AtItem
  <2> QED
    BY <2>1, <2>2, <2>4, <2>5 DEF Outcome, AtItem, TurnsTo, Rest, Writes
<1>2. CASE rci.group # 0
  <2> DEFINE item == <<"group", rci.group>>
             next == IF rci.failed THEN To(rci)
                     ELSE [rci EXCEPT !.output = "attribute"]
  <2>1. /\ rci.last = "group_start" /\ InGroup /\ NoElement /\ GoesOnInside
        /\ InsideGroup /\ ~Between /\ rci \in ParserTypes /\ rci.group \in Groups
    BY <1>2, ParserFields DEF AtItem, AtOutput, InsideGroup, Between
  <2>2. Write(item, 1, next)
    BY <1>2 DEF OutputItem, AtItem
  <2>3. item \in Items /\ BeginsPart(item) /\ item # End
    BY <2>1, ItemKinds
  <2> HIDE DEF item, next
  <2>4. /\ room' \in 0 .. PacketRoom /\ UNCHANGED <<stage, odd>>
        /\ \/ Alike /\ written' = written
           \/ rci' = next /\ written' = Append(written, item)
    BY <2>2, WriteShape DEF AtItem
  <2>5. Depth = 1
    BY DEF Depth, AtItem
  <2>6. CASE Alike /\ written' = written
    BY <2>4, <2>6, AlikeOutcome
  <2>7. CASE rci' = next /\ written' = Append(written, item) /\ rci.failed
    <3>1. TurnsTo("error")
      BY <2>1, <2>7, ParserGoesTo DEF next
    <3>2. /\ ControlInv' /\ LiveInv' /\ SamePlace /\ rci'.unwind = "error"
          /\ Depth' = 2
      BY <2>1, <2>4, <3>1, ErrorNext
    <3>3. Writes
      BY <2>3, <2>5, <2>7, <3>2 DEF Writes
    <3> QED
      BY <2>4, <3>1, <3>2, <3>3 DEF Outcome, AtItem, TurnsTo, Rest
  <2>8. CASE rci' = next /\ written' = Append(written, item) /\ ~rci.failed
    <3>1. rci' = [rci EXCEPT !.output = "attribute"]
      BY <2>8 DEF next
    <3>2. Outputs("attribute")
      BY <2>1, <3>1, ParserOutputs DEF OutputStates
    <3>3. /\ rci' \in ParserTypes /\ rci'.parser = "output"
          /\ rci'.output = "attribute" /\ rci'.calling = "none"
          /\ rci'.last = "group_start" /\ ~rci'.failed
          /\ rci'.unwind = "error" /\ SameElement /\ Rest
      BY <2>1, <2>8, <3>2 DEF Outputs, Rest, AtItem
    <3>4. /\ InGroup' /\ NoElement' /\ GoesOnInside' /\ InsideGroup'
      BY <2>1, <3>3 DEF InGroup, NoElement, GoesOnInside, Steady, InsideGroup,
         SameElement, SameGroup, Rest
    <3>5. AtOutput'
      BY <3>3, <3>4 DEF AtOutput
    <3>6. ControlInv'
      BY <3>3, <3>5 DEF ControlInv
    <3>7. LiveInv'
      BY <2>1, <2>4, <3>3, <3>4
         DEF LiveInv, AtItem, SameElement, SameGroup
    <3>8. Depth' = 2
      BY <3>3, <3>4 DEF Depth, InsideGroup, Between
    <3>9. SamePlace
      BY <2>8, <3>3 DEF SamePlace, Rest, Doomed, CallRefused, Expected, AtItem,
         SameElement, SameGroup
    <3>10. Writes
      BY <2>3, <2>5, <2>8, <3>8 DEF Writes
    <3> QED
      BY <2>4, <3>3, <3>6, <3>7, <3>9, <3>10 DEF Outcome, AtItem
  <2> QED
    BY <2>4, <2>6, <2>7, <2>8
<1> QED
  BY <1>1, <1>2

LEMMA AttributeOut ==
    ASSUME AtItem, rci.output = "attribute", OutputItem
    PROVE  Outcome
<1> DEFINE next == [rci EXCEPT !.parser = "traverse"]
           item == <<"index", rci.index>>
<1>1. /\ rci.last = "group_start" /\ InGroup /\ GoesOnInside /\ ~rci.failed
      /\ InsideGroup /\ rci \in ParserTypes /\ rci.index \in 0 .. 9
  BY ParserFields DEF AtItem, AtOutput, InsideGroup
<1>2. Write(item, 1, next) \/ Onward(next)
  BY DEF OutputItem
<1>3. item \in Items /\ ~BeginsPart(item) /\ item # End
  BY <1>1, ItemKinds
<1> HIDE DEF item, next
<1>4. /\ room' \in 0 .. PacketRoom /\ UNCHANGED <<stage, odd>>
      /\ \/ Alike /\ written' = written
         \/ rci' = next /\ written' = Append(written, item)
         \/ rci' = next /\ written' = written
  BY <1>2, WriteShape DEF AtItem, Onward
<1>5. CASE Alike /\ written' = written
  BY <1>4, <1>5, AlikeOutcome
<1>6. CASE /\ rci' = next
           /\ written' = Append(written, item) \/ written' = written
  <2>1. rci' = [rci EXCEPT !.parser = "traverse"] /\ "traverse" \in Parsers
    BY <1>6 DEF next, Parsers
  <2>2. TurnsTo("traverse")
    BY <1>1, <2>1, ParserTurns
  <2>3. /\ ControlInv' /\ LiveInv' /\ SamePlace /\ rci'.unwind = "error"
        /\ Depth' = 2
    BY <1>1, <1>4, <2>2, TraverseNext
  <2>4. Depth = 2
    BY <1>1 DEF Depth, AtItem, InsideGroup, Between
  <2>5. Writes
    BY <1>3, <1>6, <2>3, <2>4 DEF Writes
  <2> QED
    BY <1>4, <2>2, <2>3, <2>5 DEF Outcome, AtItem, TurnsTo, Rest
<1> QED
  BY <1>4, <1>5, <1>6

LEMMA FieldOut ==
    ASSUME AtItem, rci.output = "field", OutputItem
    PROVE  Outcome
<1>1. CASE rci.element = 0
  <2>1. rci' = [rci EXCEPT !.parser = "error"] /\ "error" \in Parsers
        /\ UNCHANGED <<written, room, stage, odd>> /\ rci \in ParserTypes
    BY <1>1 DEF OutputItem, Onward, Parsers, AtItem
  <2>2. TurnsTo("error")
    BY <2>1, ParserTurns
  <2>3. /\ ControlInv' /\ LiveInv' /\ SamePlace /\ rci'.unwind = "error"
        /\ Depth' = CASE InsideGroup -> 2 [] Between -> 1 [] OTHER -> 0
    BY <2>1, <2>2, ErrorNext
  <2>4. Depth = CASE InsideGroup -> 2 [] Between -> 1 [] OTHER -> 0
    BY DEF Depth, AtItem, InsideGroup, Between
  <2>5. Depth' = Depth
    BY <2>3, <2>4
  <2> QED
    BY <2>1, <2>2, <2>3, <2>5 DEF Outcome, AtItem, TurnsTo, Rest, Writes
<1>2. CASE rci.element # 0
  <2> DEFINE item == <<"field", rci.element>>
             next == IF rci.failed THEN To(rci)
                     ELSE [rci EXCEPT !.output = "value"]
  <2>1. /\ rci.last = "process" /\ OfGroup /\ GoesOnInside
        /\ InsideGroup /\ ~Between /\ rci \in ParserTypes
        /\ rci.element \in 0 .. 9
    BY <1>2, ParserFields DEF AtItem, AtOutput, InsideGroup, Between, NoElement
  <2>2. Write(item, 1, next)
    BY <1>2 DEF OutputItem, AtItem
  <2>3. item \in Items /\ ~BeginsPart(item) /\ item # End
    BY <2>1, ItemKinds
  <2> HIDE DEF item, next
  <2>4. /\ room' \in 0 .. PacketRoom /\ UNCHANGED <<stage, odd>>
        /\ \/ Alike /\ written' = written
           \/ rci' = next /\ written' = Append(written, item)
    BY <2>2, WriteShape DEF AtItem
  <2>5. Depth = 2
    BY <2>1 DEF Depth, AtItem, InsideGroup, Between
  <2>6. CASE Alike /\ written' = written
    BY <2>4, <2>6, AlikeOutcome
  <2>7. CASE rci' = next /\ written' = Append(written, item) /\ rci.failed
    <3>1. TurnsTo("error")
      BY <2>1, <2>7, ParserGoesTo DEF next
    <3>2. /\ ControlInv' /\ LiveInv' /\ SamePlace /\ rci'.unwind = "error"
          /\ Depth' = 2
      BY <2>1, <2>4, <3>1, ErrorNext
    <3>3. Writes
      BY <2>3, <2>5, <2>7, <3>2 DEF Writes
    <3> QED
      BY <2>4, <3>1, <3>2, <3>3 DEF Outcome, AtItem, TurnsTo, Rest
  <2>8. CASE rci' = next /\ written' = Append(written, item) /\ ~rci.failed
    <3>1. rci' = [rci EXCEPT !.output = "value"]
      BY <2>8 DEF next
    <3>2. Outputs("value")
      BY <2>1, <3>1, ParserOutputs DEF OutputStates
    <3>3. /\ rci' \in ParserTypes /\ rci'.parser = "output"
          /\ rci'.output = "value" /\ rci'.calling = "none"
          /\ rci'.last = "process" /\ ~rci'.failed
          /\ rci'.unwind = "error" /\ SameElement /\ Rest
      BY <2>1, <2>8, <3>2 DEF Outputs, Rest, AtItem
    <3>4. OfGroup' /\ InGroup' /\ GoesOnInside' /\ InsideGroup'
      BY <2>1, <3>3 DEF OfGroup, InGroup, GoesOnInside, Steady, InsideGroup,
         SameElement, SameGroup, Rest
    <3>5. AtOutput'
      BY <3>3, <3>4 DEF AtOutput
    <3>6. ControlInv'
      BY <3>3, <3>5 DEF ControlInv
    <3>7. LiveInv'
      BY <2>1, <2>4, <3>3, <3>4
         DEF LiveInv, AtItem, SameElement, SameGroup
    <3>8. Depth' = 2
      BY <3>3, <3>4 DEF Depth, InsideGroup, Between
    <3>9. SamePlace
      BY <2>8, <3>3 DEF SamePlace, Rest, Doomed, CallRefused, Expected, AtItem,
         SameElement, SameGroup
    <3>10. Writes
      BY <2>3, <2>5, <2>8, <3>8 DEF Writes
    <3> QED
      BY <2>4, <3>3, <3>6, <3>7, <3>9, <3>10 DEF Outcome, AtItem
  <2> QED
    BY <2>4, <2>6, <2>7, <2>8
<1> QED
  BY <1>1, <1>2

\* What is written of a value, in one part or in two.
LEMMA ValueShape ==
    ASSUME AtItem, rci.output = "value", OutputItem, room # 0,
           NEW next, next = [rci EXCEPT !.parser = "traverse"]
    PROVE  /\ room' \in 0 .. PacketRoom
           /\ \/ /\ Alike /\ written' = written /\ stage' = stage
                 /\ odd' = odd \/ odd' = odd \cup {"stuck"}
              \/ /\ stage' = "dead" /\ odd' = odd \cup {"beyond"}
                 /\ UNCHANGED <<rci, written>>
              \/ /\ stage' = stage
                 /\ odd' = odd \/ odd' = odd \cup {"stale"}
                 /\ rci' = next \/ rci' = [next EXCEPT !.half = "none"]
                 /\ \E x \in Items : /\ ~BeginsPart(x) /\ x # End
                                     /\ written' = Append(written, x)
<1> DEFINE item == <<"value", rci.value>>
           half == [next EXCEPT !.half = "none"]
           no == <<"no value">>
           rest == <<"rest">>
<1>1. /\ rci \in ParserTypes /\ room \in 0 .. PacketRoom /\ room # 0
      /\ rci.action \in {"query", "set"} /\ rci.value \in Values \cup {"none"}
      /\ PacketRoom \in Nat
  BY ParserFields, RciAssumption DEF AtItem
<1>2. /\ item \in Items /\ ~BeginsPart(item) /\ item # End
      /\ no \in Items /\ ~BeginsPart(no) /\ no # End
      /\ rest \in Items /\ ~BeginsPart(rest) /\ rest # End
  BY <1>1, ItemKinds
<1>3. \/ Write(no, 1, next)
      \/ WriteAddress(item, next) \/ WriteText(item, next)
      \/ Write(item, 2, next)
  BY <1>1 DEF OutputItem, OutputValue
<1> HIDE DEF item, half, no, rest
<1>4. CASE Write(no, 1, next) \/ Write(item, 2, next)
  BY <1>1, <1>2, <1>4, WriteShape
<1>5. CASE WriteAddress(item, next)
  <2>1. \/ odd' = odd \cup {"stuck"} /\ UNCHANGED <<rci, written, room, stage>>
        \/ /\ stage' = "dead" /\ odd' = odd \cup {"beyond"}
           /\ UNCHANGED <<rci, written, room>>
        \/ Write(item, 5, next)
    BY <1>5 DEF WriteAddress
  <2>2. CASE Write(item, 5, next)
    BY <1>1, <1>2, <2>2, WriteShape
  <2>3. rci' = rci => Alike
    BY <1>1 DEF Alike
  <2> QED
    BY <1>1, <2>1, <2>2, <2>3
<1>6. CASE WriteText(item, next)
  <2>1. \/ /\ odd' = odd \cup {"stale"} /\ room' = room - 1
           /\ written' = Append(written, rest) /\ rci' = half
           /\ UNCHANGED stage
        \/ Write(item, 1, half)
        \/ /\ rci' = [rci EXCEPT !.half = "this", !.status = "flush"]
           /\ room' = 0 /\ UNCHANGED <<written, stage, odd>>
        \/ Write(item, 2, next)
    BY <1>6 DEF WriteText, half, rest
  <2>2. CASE Write(item, 2, next) \/ Write(item, 1, half)
    BY <1>1, <1>2, <2>2, WriteShape DEF half
  <2>3. CASE /\ odd' = odd \cup {"stale"} /\ room' = room - 1
             /\ written' = Append(written, rest) /\ rci' = half
             /\ UNCHANGED stage
    <3>1. room' \in 0 .. PacketRoom
      BY <1>1, <2>3
    <3> QED
      BY <1>2, <2>3, <3>1 DEF half
  <2>4. CASE /\ rci' = [rci EXCEPT !.half = "this", !.status = "flush"]
             /\ room' = 0 /\ UNCHANGED <<written, stage, odd>>
    <3>1. "flush" \in Statuses
      BY DEF Statuses
    <3>2. rci' \in ParserTypes
      BY <1>1, <2>4, <3>1 DEF ParserTypes
    <3>3. Alike
      BY <1>1, <2>4, <3>2 DEF ParserTypes, Alike
    <3>4. room' \in 0 .. PacketRoom
      BY <1>1, <2>4
    <3> QED
      BY <2>4, <3>3, <3>4
  <2> QED
    BY <2>1, <2>2, <2>3, <2>4
<1> QED
  BY <1>3, <1>4, <1>5, <1>6

LEMMA ValueOut ==
    ASSUME AtItem, rci.output = "value", OutputItem, room # 0
    PROVE  Outcome
<1> DEFINE next == [rci EXCEPT !.parser = "traverse"]
<1>1. /\ rci.last = "process" /\ OfGroup /\ GoesOnInside /\ ~rci.failed
      /\ InGroup /\ InsideGroup /\ rci \in ParserTypes /\ stage = "running"
  BY DEF AtItem, AtOutput, InsideGroup, OfGroup
<1>2. /\ room' \in 0 .. PacketRoom
      /\ \/ /\ Alike /\ written' = written /\ stage' = stage
            /\ odd' = odd \/ odd' = odd \cup {"stuck"}
         \/ /\ stage' = "dead" /\ odd' = odd \cup {"beyond"}
            /\ UNCHANGED <<rci, written>>
         \/ /\ stage' = stage
            /\ odd' = odd \/ odd' = odd \cup {"stale"}
            /\ rci' = next \/ rci' = [next EXCEPT !.half = "none"]
            /\ \E x \in Items : /\ ~BeginsPart(x) /\ x # End
                                /\ written' = Append(written, x)
  BY ValueShape
<1>3. CASE /\ Alike /\ written' = written /\ stage' = stage
           /\ odd' = odd \/ odd' = odd \cup {"stuck"}
  BY <1>2, <1>3, AlikeOutcome
<1>4. CASE /\ stage' = "dead" /\ odd' = odd \cup {"beyond"}
           /\ UNCHANGED <<rci, written>>
  <2>1. ControlInv' /\ LiveInv'
    BY <1>4 DEF ControlInv, LiveInv
  <2> QED
    BY <1>1, <1>2, <1>4, <2>1 DEF Outcome
<1>5. CASE /\ stage' = stage
           /\ odd' = odd \/ odd' = odd \cup {"stale"}
           /\ rci' = next \/ rci' = [next EXCEPT !.half = "none"]
           /\ \E x \in Items : /\ ~BeginsPart(x) /\ x # End
                               /\ written' = Append(written, x)
  <2>1. "traverse" \in Parsers
    BY DEF Parsers
  <2>2. /\ rci' \in ParserTypes /\ rci'.parser = "traverse"
        /\ rci'.unwind = "error" /\ rci'.calling = "none"
        /\ rci'.last = rci.last /\ SameElement /\ Rest
    <3>1. CASE rci' = next
      <4>1. TurnsTo("traverse")
        BY <1>1, <2>1, <3>1, ParserTurns
      <4> QED
        BY <4>1 DEF TurnsTo, Rest, AtItem
    <3>2. CASE rci' = [next EXCEPT !.half = "none"]
      <4>1. next \in ParserTypes
        BY <1>1, <2>1 DEF ParserTypes
      <4>2. /\ next.parser = "traverse" /\ next.input = rci.input
            /\ next.traverse = rci.traverse /\ next.process = rci.process
            /\ next.unwind = rci.unwind /\ next.failed = rci.failed
            /\ next.calling = rci.calling /\ next.last = rci.last
            /\ next.action = rci.action /\ next.value = rci.value
            /\ next.group = rci.group /\ next.index = rci.index
            /\ next.element = rci.element /\ next.all = rci.all
        BY <1>1, <4>1 DEF ParserTypes
      <4> HIDE DEF next
      <4>3. rci' \in ParserTypes
        BY <3>2, <4>1 DEF ParserTypes
      <4>4. /\ rci'.parser = next.parser /\ rci'.input = next.input
            /\ rci'.traverse = next.traverse /\ rci'.process = next.process
            /\ rci'.unwind = next.unwind /\ rci'.failed = next.failed
            /\ rci'.calling = next.calling /\ rci'.last = next.last
            /\ rci'.action = next.action /\ rci'.value = next.value
            /\ rci'.group = next.group /\ rci'.index = next.index
            /\ rci'.element = next.element /\ rci'.all = next.all
        BY <3>2, <4>1, <4>3 DEF ParserTypes
      <4> QED
        BY <4>2, <4>3, <4>4 DEF Rest, SameElement, SameGroup, AtItem
    <3> QED
      BY <1>5, <3>1, <3>2
  <2> HIDE DEF next
  <2>3. InsideGroup' /\ InGroup' /\ GoesOnInside'
    BY <1>1, <2>2 DEF InsideGroup, InGroup, GoesOnInside, Steady, SameElement,
       SameGroup, Rest
  <2>4. AtTraverse'
    BY <1>1, <2>2, <2>3 DEF AtTraverse, Rest
  <2>5. ControlInv'
    BY <1>1, <2>2, <2>4 DEF ControlInv
  <2>6. LiveInv'
    BY <1>1, <1>5, <2>2, <2>3 DEF LiveInv, AtItem, SameElement, SameGroup
  <2>7. SamePlace
    BY <1>1, <2>2 DEF SamePlace, Rest, Doomed, Expected, CallRefused, AtItem,
       SameElement, SameGroup
  <2>8. Depth = 2 /\ Depth' = 2
    BY <1>1, <2>2, <2>3 DEF Depth, AtItem, InsideGroup, Between
  <2>9. Writes
    BY <1>5, <2>8 DEF Writes
  <2>10. odd \subseteq odd' /\ odd' \subseteq odd \cup {"stale"}
    BY <1>5
  <2> QED
    BY <1>1, <1>2, <1>5, <2>2, <2>5, <2>6, <2>7, <2>9, <2>10 DEF Outcome
<1> QED
  BY <1>2, <1>3, <1>4, <1>5

LEMMA FieldEndOut ==
    ASSUME AtItem, rci.output = "field_end", OutputItem
    PROVE  Outcome
<1> DEFINE p == [rci EXCEPT !.element = 0]
           next == To(p)
<1>1. /\ rci.last = "group_end" /\ InGroup /\ GoesOnBetween
      /\ Between /\ ~InsideGroup /\ rci \in ParserTypes /\ user.group # "live"
  BY DEF AtItem, AtOutput, Between, InsideGroup, LiveInv
<1>2. Write(End, 1, next)
  BY DEF OutputItem
<1>3. /\ p \in ParserTypes /\ p.parser = rci.parser /\ p.input = rci.input
      /\ p.traverse = rci.traverse /\ p.process = rci.process
      /\ p.unwind = rci.unwind /\ p.failed = rci.failed
      /\ p.calling = rci.calling /\ p.last = rci.last
      /\ p.action = rci.action /\ p.value = rci.value
      /\ p.group = rci.group /\ p.index = rci.index /\ p.element = 0
      /\ p.all = rci.all
  <2>1. 0 \in 0 .. 9
    OBVIOUS
  <2>2. p \in ParserTypes
    BY <1>1, <2>1 DEF ParserTypes
  <2> QED
    BY <1>1, <2>2 DEF ParserTypes
<1> HIDE DEF p
<1>4. next = [p EXCEPT !.parser = IF rci.failed THEN "error" ELSE "traverse"]
  BY <1>3, Zenon DEF To
<1> HIDE DEF next
<1>5. /\ room' \in 0 .. PacketRoom /\ UNCHANGED <<stage, odd>>
      /\ \/ Alike /\ written' = written
         \/ rci' = next /\ written' = Append(written, End)
  BY <1>1, <1>2, WriteShape DEF AtItem
<1>6. CASE Alike /\ written' = written
  BY <1>5, <1>6, AlikeOutcome
<1>7. CASE rci' = next /\ written' = Append(written, End)
  <2> DEFINE s == IF rci.failed THEN "error" ELSE "traverse"
  <2>1. s \in Parsers /\ (s = "error" \/ (s = "traverse" /\ ~rci.failed))
    BY DEF Parsers
  <2>2. rci' = [p EXCEPT !.parser = s]
    BY <1>4, <1>7
  <2> HIDE DEF s
  <2>3. rci' \in ParserTypes
    BY <1>3, <2>1, <2>2 DEF ParserTypes
  <2>4. /\ rci'.parser = s /\ rci'.input = p.input
        /\ rci'.traverse = p.traverse /\ rci'.process = p.process
        /\ rci'.unwind = p.unwind /\ rci'.failed = p.failed
        /\ rci'.calling = p.calling /\ rci'.last = p.last
        /\ rci'.action = p.action /\ rci'.value = p.value
        /\ rci'.group = p.group /\ rci'.index = p.index
        /\ rci'.element = p.element /\ rci'.all = p.all
    BY <1>3, <2>2, <2>3 DEF ParserTypes
  <2>5. /\ Rest /\ SameGroup /\ rci'.element = 0 /\ rci'.calling = "none"
        /\ rci'.unwind = "error" /\ rci'.last = rci.last
        /\ stage = "running" /\ rci'.last # "none"
    BY <1>3, <2>3, <2>4 DEF Rest, SameGroup, AtItem
  <2>6. Between' /\ ~InsideGroup' /\ NoElement' /\ GoesOnBetween'
    BY <1>1, <2>5 DEF Between, InsideGroup, NoElement, GoesOnBetween, Steady,
       SameGroup, Rest
  <2>7. s = "traverse" => AtTraverse'
    BY <2>1, <2>5, <2>6 DEF AtTraverse, Rest
  <2>8. ControlInv'
    BY <2>1, <2>4, <2>5, <2>7 DEF ControlInv
  <2>9. LiveInv'
    BY <1>1, <2>5, <2>6 DEF LiveInv, AtItem
  <2>10. SamePlace
    BY <2>1, <2>4, <2>5 DEF SamePlace, Rest, Doomed, Expected, CallRefused, AtItem,
       SameGroup
  <2>11. Depth = 2 /\ Depth' = 1
    BY <2>1, <2>4, <2>6 DEF Depth, AtItem
  <2>12. Writes
    <3>1. Depth = Depth' + 1
      BY <2>11
    <3>2. End \in Items
      BY ItemKinds
    <3> QED
      BY <1>7, <3>1, <3>2 DEF Writes
  <2> QED
    BY <1>5, <2>3, <2>5, <2>8, <2>9, <2>10, <2>12 DEF Outcome
<1> QED
  BY <1>5, <1>6, <1>7

LEMMA GroupEndOut ==
    ASSUME AtItem, rci.output = "group_end", OutputItem
    PROVE  Outcome
<1> DEFINE next == [rci EXCEPT !.group = 0, !.output = "response_done"]
<1>1. /\ rci.last = "action_end" /\ ~rci.failed /\ Steady /\ NoElement
      /\ rci.traverse = "none" /\ rci.input # "field"
      /\ ~Between /\ ~InsideGroup /\ rci \in ParserTypes /\ user.group # "live"
  BY DEF AtItem, AtOutput, CallRefused, Between, InsideGroup, LiveInv
<1>2. Write(End, 1, next)
  BY <1>1 DEF OutputItem
<1>3. "response_done" \in OutputStates
  BY DEF OutputStates
<1>4. /\ next \in ParserTypes /\ next.parser = rci.parser
      /\ next.input = rci.input
      /\ next.traverse = rci.traverse /\ next.process = rci.process
      /\ next.unwind = rci.unwind /\ next.failed = rci.failed
      /\ next.calling = rci.calling /\ next.last = rci.last
      /\ next.action = rci.action /\ next.value = rci.value
      /\ next.group = 0 /\ next.index = rci.index
      /\ next.element = rci.element /\ next.all = rci.all
      /\ next.output = "response_done"
  <2>1. next \in ParserTypes
    BY <1>1, <1>3 DEF ParserTypes
  <2> QED
    BY <1>1, <2>1 DEF ParserTypes
<1> HIDE DEF next
<1>5. /\ room' \in 0 .. PacketRoom /\ UNCHANGED <<stage, odd>>
      /\ \/ Alike /\ written' = written
         \/ rci' = next /\ written' = Append(written, End)
  BY <1>1, <1>2, WriteShape DEF AtItem
<1>6. CASE Alike /\ written' = written
  BY <1>5, <1>6, AlikeOutcome
<1>7. CASE rci' = next /\ written' = Append(written, End)
  <2>1. /\ Rest /\ rci'.group = 0 /\ rci'.element = 0 /\ rci'.calling = "none"
        /\ rci'.unwind = "error" /\ rci'.last = "action_end"
        /\ stage = "running" /\ ~rci'.failed
        /\ rci'.parser = "output" /\ rci'.output = "response_done"
    BY <1>1, <1>4, <1>7 DEF Rest, AtItem, NoElement
  <2>2. ~Between' /\ ~InsideGroup' /\ NoElement' /\ Steady'
    BY <1>1, <2>1 DEF Between, InsideGroup, NoElement, Steady, Rest
  <2>3. AtOutput'
    BY <1>1, <2>1, <2>2 DEF AtOutput, Rest, CallRefused
  <2>4. ControlInv'
    BY <2>1, <2>3 DEF ControlInv
  <2>5. LiveInv'
    BY <1>1, <2>1, <2>2 DEF LiveInv, AtItem
  <2>6. SamePlace
    BY <1>1, <2>1 DEF SamePlace, Rest, Doomed, Expected, CallRefused, AtItem
  <2>7. Depth = 1 /\ Depth' = 0
    BY <1>1, <2>1, <2>2 DEF Depth, AtItem
  <2>8. Writes
    <3>1. Depth = Depth' + 1
      BY <2>7
    <3>2. End \in Items
      BY ItemKinds
    <3> QED
      BY <1>7, <3>1, <3>2 DEF Writes
  <2> QED
    BY <1>5, <2>1, <2>4, <2>5, <2>6, <2>8 DEF Outcome, Rest
<1> QED
  BY <1>5, <1>6, <1>7

LEMMA ResponseDoneOut ==
    ASSUME AtItem, rci.output = "response_done", OutputItem
    PROVE  Outcome
<1>1. /\ rci.last = "action_end" /\ ~rci.failed /\ Steady /\ NoElement
      /\ rci.traverse = "none" /\ rci.input # "field" /\ rci.group = 0
      /\ ~Between /\ ~InsideGroup /\ rci \in ParserTypes /\ user.group # "live"
      /\ stage = "running"
  BY DEF AtItem, AtOutput, CallRefused, Between, InsideGroup, LiveInv
<1>2. /\ UNCHANGED <<written, room, stage, odd>>
      /\ rci' = IF rci.input = "done"
                THEN ThenCall(rci, "session_end", "done")
                ELSE [rci EXCEPT !.parser = "input", !.input = "command"]
  BY DEF OutputItem, Onward
<1>3. Depth = 0
  BY <1>1 DEF Depth, AtItem
<1>4. CASE rci.input = "done"
  <2>1. "session_end" \in Calls /\ "done" \in OutputStates
    BY DEF Calls, OutputStates
  <2>2. rci' = ThenCall(rci, "session_end", "done")
    BY <1>2, <1>4
  <2>3. /\ rci' \in ParserTypes /\ Called("session_end", "done")
        /\ rci'.input = "done" /\ rci'.action = rci.action
        /\ rci'.unwind = "error"
    BY <1>1, <1>4, <2>1, <2>2, ThenCalls DEF Called, AtItem
  <2>4. AtOutput'
    BY <2>3 DEF AtOutput, Called, CallRefused
  <2>5. ControlInv'
    BY <2>3, <2>4 DEF ControlInv, Called
  <2>6. LiveInv'
    BY <1>1, <2>3 DEF LiveInv, Called, AtItem
  <2>7. SamePlace
    BY <1>4, <2>3 DEF SamePlace
  <2>8. Depth' = 0
    BY <2>3 DEF Depth, Called, InsideGroup, Between
  <2> QED
    BY <1>1, <1>2, <1>3, <2>3, <2>5, <2>6, <2>7, <2>8
       DEF Outcome, Writes, AtItem
<1>5. CASE rci.input # "done"
  <2>1. "input" \in Parsers /\ "command" \in Inputs
    BY DEF Parsers, Inputs
  <2>2. rci' = [rci EXCEPT !.parser = "input", !.input = "command"]
    BY <1>2, <1>5
  <2>3. rci' \in ParserTypes
    BY <1>1, <2>1, <2>2, ZenonT(40) DEF ParserTypes
  <2>4. /\ rci'.parser = "input" /\ rci'.input = "command"
        /\ rci'.calling = rci.calling /\ rci'.last = rci.last
        /\ rci'.failed = rci.failed /\ rci'.element = rci.element
        /\ rci'.group = rci.group /\ rci'.unwind = rci.unwind
        /\ rci'.traverse = rci.traverse
    BY <1>1, <2>2, <2>3 DEF ParserTypes
  <2>5. AtInput'
    BY <1>1, <2>4 DEF AtInput, CallRefused, Outside, NoElement, AtItem
  <2>6. ControlInv'
    BY <1>1, <2>4, <2>5 DEF ControlInv, AtItem
  <2>7. LiveInv'
    BY <1>1, <2>4 DEF LiveInv, InsideGroup, AtItem
  <2>8. Depth' = 0
    BY <1>1, <2>4 DEF Depth, InsideGroup, Between
  <2>9. NextCommand
    BY <1>1, <1>5, <2>4 DEF NextCommand, Expected, Doomed, CallRefused, AtItem
  <2> QED
    BY <1>1, <1>2, <1>3, <2>3, <2>4, <2>6, <2>7, <2>8, <2>9
       DEF Outcome, Writes, AtItem
<1> QED
  BY <1>4, <1>5

LEMMA DoneOut ==
    ASSUME AtItem, rci.output = "done", OutputItem
    PROVE  Outcome
<1>1. /\ rci.last = "session_end" /\ ~rci.failed
      /\ rci \in ParserTypes
  BY DEF AtItem, AtOutput, CallRefused
<1>2. /\ rci' = [rci EXCEPT !.status = "complete"] /\ stage' = "sending"
      /\ UNCHANGED <<written, room, odd>> /\ "complete" \in Statuses
  BY <1>1 DEF OutputItem, Statuses
<1>3. rci' \in ParserTypes
  BY <1>1, <1>2, NewStatus
<1>4. ControlInv' /\ LiveInv'
  BY <1>2 DEF ControlInv, LiveInv
<1>5. Depth = 0
  BY <1>1 DEF Depth, AtItem, InsideGroup, Between
<1> QED
  BY <1>2, <1>3, <1>4, <1>5 DEF Outcome, AtItem

LEMMA OutputWell ==
    ASSUME ConfigTypes, ControlInv, LiveInv, UnwindInv, GenerateOutput
    PROVE  /\ Outcome /\ stage = "running"
           /\ UNCHANGED <<user, saved, owed, sessions, troubles, tokens, more>>
           /\ within' = FALSE
<1>1. /\ stage = "running" /\ rci.calling = "none" /\ rci.parser = "output"
      /\ within' = FALSE /\ rci \in ParserTypes
      /\ UNCHANGED <<user, saved, owed, sessions, troubles, tokens, more>>
      /\ room \in 0 .. PacketRoom
  BY DEF GenerateOutput, ParserStep, ConfigTypes
<1>2. AtItem
  BY <1>1 DEF AtItem, ControlInv, UnwindInv
<1>3. CASE room > 0
  <2>1. OutputItem /\ room # 0
    BY <1>1, <1>3 DEF GenerateOutput
  <2>2. Outcome \/ rci.output \notin {"command", "group", "attribute", "field",
                "value", "field_end", "group_end", "response_done", "done"}
    BY <1>2, <2>1, CommandOut, GroupOut, AttributeOut, FieldOut, ValueOut,
       FieldEndOut, GroupEndOut, ResponseDoneOut, DoneOut
  <2> QED
    BY <1>1, <2>2, ParserFields DEF OutputStates
<1>4. CASE ~(room > 0)
  <2>1. /\ rci' = [rci EXCEPT !.status = "flush"] /\ "flush" \in Statuses
        /\ UNCHANGED <<written, room, stage, odd>>
    BY <1>4 DEF GenerateOutput, Onward, Statuses
  <2>2. Alike
    BY <1>1, <2>1, StatusAlike
  <2>3. Outcome
    BY <1>1, <1>2, <2>1, <2>2, AlikeOutcome
  <2> QED
    BY <1>1, <2>3
<1> QED
  BY <1>3, <1>4

-----------------------------------------------------------------------------

(* The error, and the ends of what was begun.                              *)

AtError ==
    /\ stage = "running" /\ rci \in ParserTypes /\ rci.parser = "error"
    /\ rci.calling = "none" /\ rci.last # "none"
    /\ ControlInv /\ LiveInv /\ user' = user
    /\ room \in 0 .. PacketRoom

ErrorOutcome ==
    /\ rci' \in ParserTypes /\ room' \in 0 .. PacketRoom
    /\ ControlInv' /\ LiveInv' /\ odd \subseteq odd'
    /\ odd' \subseteq odd \cup {"stuck", "full", "beyond", "stale", "second"}
    /\ \/ stage' = "running" /\ rci'.parser = "error" /\ SamePlace
          /\ (Writes \/ (/\ "second" \in odd'
                         /\ \E x \in Items : written' = Append(written, x)))
       \/ stage' = "sending" /\ written' = written /\ Depth = 0

LEMMA AlikeError ==
    ASSUME AtError, Alike, room' \in 0 .. PacketRoom, written' = written,
           stage' = stage, odd' = odd \/ odd' = odd \cup {"full"}
    PROVE  ErrorOutcome
<1>1. ControlInv' /\ LiveInv' /\ Depth' = Depth /\ SamePlace
  BY AlikeWell DEF AtError
<1> QED
  BY <1>1 DEF ErrorOutcome, Alike, AtError, Writes

\* The error itself.
LEMMA ErrorWritten ==
    ASSUME AtError, rci.unwind = "error",
           rci' = [rci EXCEPT !.unwind = "callback", !.half = "none"],
           written' = Append(written, <<"error">>),
           room' \in 0 .. PacketRoom, stage' = stage,
           odd' = odd \cup (IF rci.half # "none" THEN {"stale"} ELSE {})
                      \cup (IF rci.last = "action_end" THEN {"second"}
                            ELSE {})
    PROVE  ErrorOutcome
<1>1. rci \in ParserTypes
  BY DEF AtError
<1>2. rci' \in ParserTypes
  BY <1>1 DEF ParserTypes
<1>3. /\ rci'.parser = "error" /\ rci'.calling = "none"
      /\ rci'.last = rci.last /\ rci'.input = rci.input
      /\ rci'.action = rci.action /\ SameElement
      /\ rci'.unwind = "callback"
  BY <1>1, <1>2 DEF ParserTypes, AtError, SameElement, SameGroup
<1>4. InsideGroup' = InsideGroup /\ Between' = Between /\ InGroup' = InGroup
  BY <1>3 DEF InsideGroup, Between, InGroup, SameElement, SameGroup
<1>5. /\ odd \subseteq odd' /\ odd' \subseteq odd \cup {"stale", "second"}
      /\ rci.last = "action_end" => "second" \in odd'
  OBVIOUS
<1>6. "memory" \in odd' <=> "memory" \in odd
  BY <1>5
<1>7. ControlInv'
  BY <1>3 DEF ControlInv, AtError
<1>8. LiveInv'
  BY <1>3, <1>4, <1>6 DEF LiveInv, AtError, SameElement, SameGroup
<1>9. SamePlace
  BY <1>3 DEF SamePlace, Doomed
<1>10. rci.last # "action_end" => Depth' = Depth
  BY <1>3, <1>4 DEF Depth, AtError
<1>11. <<"error">> \in Items /\ ~BeginsPart(<<"error">>) /\ <<"error">> # End
  BY ItemKinds
<1> DEFINE x == <<"error">>
<1>12. written' = Append(written, x)
  OBVIOUS
<1>13. x \in Items /\ ~BeginsPart(x) /\ x # End
  BY <1>11
<1> HIDE DEF x
<1>14. rci.last # "action_end" => Writes
  BY <1>10, <1>12, <1>13 DEF Writes
<1>15. rci.last = "action_end" =>
           "second" \in odd' /\ \E y \in Items : written' = Append(written, y)
  BY <1>5, <1>12, <1>13
<1> QED
  BY <1>2, <1>3, <1>5, <1>7, <1>8, <1>9, <1>14, <1>15
     DEF ErrorOutcome, AtError

LEMMA Triggers ==
    ASSUME NEW r \in ParserTypes, NEW c \in Calls, NEW q, q = Trigger(r, c)
    PROVE  /\ q \in ParserTypes /\ q.parser = r.parser
           /\ q.calling = c /\ q.last = c /\ q.input = r.input
           /\ q.action = r.action /\ q.unwind = r.unwind
           /\ q.group = r.group /\ q.index = r.index
           /\ q.element = r.element /\ q.failed = r.failed
<1>1. q \in ParserTypes
  BY DEF ParserTypes, Trigger
<1> QED
  BY <1>1 DEF ParserTypes, Trigger

\* A callback that ends what was begun.
LEMMA EndCalled ==
    ASSUME AtError, rci.unwind # "error", NEW c \in Calls,
           rci' = Trigger(rci, c), room' \in 0 .. PacketRoom,
           UNCHANGED <<stage, odd>>,
           \/ /\ written' = written
              /\ \/ rci.last \in {"action_start", "group_end"}
                    /\ c = "action_end"
                 \/ rci.last = "session_start" /\ c = "session_end"
           \/ /\ written' = Append(written, End)
              /\ \/ rci.last = "action_end" /\ c = "session_end"
                 \/ InsideGroup /\ c = "group_end"
    PROVE  ErrorOutcome
<1>1. /\ rci' \in ParserTypes /\ rci'.parser = "error"
      /\ rci'.calling = c /\ rci'.last = c /\ rci'.input = rci.input
      /\ rci'.action = rci.action /\ rci'.unwind = "callback"
      /\ SameElement
  BY Triggers, ParserFields DEF AtError, SameElement, SameGroup
<1>2. c \in {"action_end", "session_end", "group_end"} /\ ~InsideGroup'
  BY <1>1 DEF InsideGroup
<1>3. ControlInv'
  BY <1>1, <1>2 DEF ControlInv
<1>4. InGroup' = InGroup
  BY <1>1 DEF InGroup, SameElement, SameGroup
<1>5. LiveInv'
  <2>1. user.group = "live" => InsideGroup /\ InGroup
        /\ user.copy \in [Fields(rci.group) -> Values]
    BY DEF LiveInv, AtError
  <2>2. InsideGroup => c = "group_end"
    BY DEF InsideGroup
  <2>3. "memory" \notin odd /\ InsideGroup => user.group = "live"
    BY DEF LiveInv, AtError
  <2>4. c = "group_end" => InsideGroup
    BY DEF InsideGroup
  <2> QED
    BY <1>1, <1>2, <1>4, <2>1, <2>2, <2>3, <2>4
       DEF LiveInv, AtError, SameElement, SameGroup
<1>6. SamePlace
  BY <1>1 DEF SamePlace, Doomed
<1>7. End \in Items
  BY ItemKinds
<1>8. Writes
  <2>1. CASE written' = written
    <3>1. Depth' = Depth
      BY <1>1, <2>1, ParserFields DEF Depth, AtError, InsideGroup, Between
    <3> QED
      BY <2>1, <3>1 DEF Writes
  <2>2. CASE rci.last = "action_end" /\ c = "session_end"
             /\ written' = Append(written, End)
    <3>1. Depth = 1
      BY <2>2, ParserFields DEF Depth, AtError, InsideGroup, Between
    <3>2. Depth' = 0
      BY <1>1, <2>2 DEF Depth, InsideGroup, Between
    <3>3. Depth = Depth' + 1
      BY <3>1, <3>2
    <3> QED
      BY <1>7, <2>2, <3>3 DEF Writes
  <2>3. CASE InsideGroup /\ c = "group_end" /\ written' = Append(written, End)
    <3>1. Depth = 2
      BY <2>3 DEF Depth, AtError, InsideGroup, Between
    <3>2. Depth' = 1
      BY <1>1, <2>3 DEF Depth, InsideGroup, Between
    <3>3. Depth = Depth' + 1
      BY <3>1, <3>2
    <3> QED
      BY <1>7, <2>3, <3>3 DEF Writes
  <2> QED
    BY <2>1, <2>2, <2>3
<1> QED
  BY <1>1, <1>3, <1>5, <1>6, <1>8 DEF ErrorOutcome, AtError

LEMMA UnwindWell ==
    ASSUME AtError, rci.unwind # "error", Unwind
    PROVE  ErrorOutcome
<1>1. /\ rci \in ParserTypes /\ room \in 0 .. PacketRoom
      /\ rci.last \in Calls
  BY ParserFields DEF AtError
<1>2. /\ "action_end" \in Calls /\ "session_end" \in Calls
      /\ "group_end" \in Calls
  BY DEF Calls
<1>3. CASE rci.last \in {"action_start", "group_end"}
  <2>1. /\ rci' = Trigger(rci, "action_end")
        /\ UNCHANGED <<written, room, stage, odd>>
    BY <1>3 DEF Unwind, Onward
  <2> QED
    BY <1>1, <1>2, <1>3, <2>1, EndCalled
<1>4. CASE rci.last = "session_start"
  <2>1. /\ rci' = Trigger(rci, "session_end")
        /\ UNCHANGED <<written, room, stage, odd>>
    BY <1>4 DEF Unwind, Onward
  <2> QED
    BY <1>1, <1>2, <1>4, <2>1, EndCalled
<1>5. CASE rci.last = "action_end"
  <2> DEFINE next == Trigger(rci, "session_end")
  <2>1. Write(End, 1, next)
    BY <1>5 DEF Unwind
  <2> HIDE DEF next
  <2>2. /\ room' \in 0 .. PacketRoom /\ UNCHANGED <<stage, odd>>
        /\ \/ Alike /\ written' = written
           \/ rci' = next /\ written' = Append(written, End)
    BY <1>1, <2>1, WriteShape
  <2>3. CASE Alike /\ written' = written
    BY <2>2, <2>3, AlikeError
  <2>4. CASE rci' = next /\ written' = Append(written, End)
    BY <1>2, <1>5, <2>2, <2>4, EndCalled DEF next
  <2> QED
    BY <2>2, <2>3, <2>4
<1>6. CASE rci.last \in {"process", "group_start"}
  <2> DEFINE next == Trigger(rci, "group_end")
  <2>1. Write(End, 1, next)
    BY <1>6 DEF Unwind
  <2> HIDE DEF next
  <2>2. /\ room' \in 0 .. PacketRoom /\ UNCHANGED <<stage, odd>>
        /\ \/ Alike /\ written' = written
           \/ rci' = next /\ written' = Append(written, End)
    BY <1>1, <2>1, WriteShape
  <2>3. CASE Alike /\ written' = written
    BY <2>2, <2>3, AlikeError
  <2>4. CASE rci' = next /\ written' = Append(written, End)
    <3>1. InsideGroup
      BY <1>6 DEF InsideGroup
    <3> QED
      BY <1>2, <2>2, <2>4, <3>1, EndCalled DEF next
  <2> QED
    BY <2>2, <2>3, <2>4
<1>7. CASE rci.last = "session_end"
  <2>1. /\ rci' = [rci EXCEPT !.status = "complete"] /\ stage' = "sending"
        /\ UNCHANGED <<written, room, odd>> /\ "complete" \in Statuses
    BY <1>7 DEF Unwind, Statuses
  <2>2. rci' \in ParserTypes
    BY <1>1, <2>1, NewStatus
  <2>3. ControlInv' /\ LiveInv'
    BY <2>1 DEF ControlInv, LiveInv
  <2>4. Depth = 0
    BY <1>7 DEF Depth, AtError, InsideGroup, Between
  <2> QED
    BY <1>1, <2>1, <2>2, <2>3, <2>4 DEF ErrorOutcome
<1> QED
  BY <1>1, <1>3, <1>4, <1>5, <1>6, <1>7 DEF Calls

LEMMA ErrorWell ==
    ASSUME ConfigTypes, ControlInv, LiveInv, GenerateError
    PROVE  /\ ErrorOutcome /\ stage = "running" /\ rci.parser = "error"
           /\ UNCHANGED <<user, saved, owed, sessions, troubles, tokens, more>>
           /\ within' = FALSE
<1>1. /\ stage = "running" /\ rci.calling = "none" /\ rci.parser = "error"
      /\ within' = FALSE /\ rci \in ParserTypes
      /\ UNCHANGED <<user, saved, owed, sessions, troubles, tokens, more>>
      /\ room \in 0 .. PacketRoom /\ PacketRoom \in Nat
  BY RciAssumption DEF GenerateError, ParserStep, ConfigTypes
<1>2. AtError
  BY <1>1 DEF AtError, ControlInv
<1>3. CASE room = 0
  <2>1. odd' = odd \cup {"full"} /\ UNCHANGED <<rci, written, room, stage>>
    BY <1>3 DEF GenerateError
  <2>2. Alike
    BY <1>1, <2>1 DEF Alike
  <2>3. ErrorOutcome
    BY <1>1, <1>2, <2>1, <2>2, AlikeError
  <2> QED
    BY <1>1, <2>3
<1>4. CASE room > 0 /\ rci.unwind = "error" /\ room < 3
  <2>1. /\ rci' = [rci EXCEPT !.status = "flush"] /\ "flush" \in Statuses
        /\ UNCHANGED <<written, room, stage, odd>>
    BY <1>4 DEF GenerateError, Statuses
  <2>2. Alike
    BY <1>1, <2>1, StatusAlike
  <2>3. ErrorOutcome
    BY <1>1, <1>2, <2>1, <2>2, AlikeError
  <2> QED
    BY <1>1, <2>3
<1>5. CASE room > 0 /\ rci.unwind = "error" /\ ~(room < 3)
  <2>1. /\ rci' = [rci EXCEPT !.unwind = "callback", !.half = "none"]
        /\ written' = Append(written, <<"error">>)
        /\ room' = room - 3 /\ UNCHANGED stage
        /\ odd' = odd \cup (IF rci.half # "none" THEN {"stale"} ELSE {})
                      \cup (IF rci.last = "action_end" THEN {"second"}
                            ELSE {})
    BY <1>5 DEF GenerateError
  <2>2. room' \in 0 .. PacketRoom
    BY <1>1, <1>5, <2>1
  <2>3. ErrorOutcome
    BY <1>2, <1>5, <2>1, <2>2, ErrorWritten
  <2> QED
    BY <1>1, <2>3
<1>6. CASE room > 0 /\ rci.unwind # "error"
  <2>1. Unwind
    BY <1>6 DEF GenerateError
  <2>2. ErrorOutcome
    BY <1>2, <1>6, <2>1, UnwindWell
  <2> QED
    BY <1>1, <2>2
<1>7. room = 0 \/ room > 0
  BY <1>1
<1> QED
  BY <1>3, <1>4, <1>5, <1>6, <1>7, Zenon

LEMMA FlushWell ==
    ASSUME ConfigTypes, ControlInv, LiveInv, FlushOutput
    PROVE  /\ ConfigTypes' /\ ControlInv' /\ LiveInv' /\ Depth' = Depth
           /\ Alike /\ SamePlace
<1>1. /\ "busy" \in Statuses /\ rci' = [rci EXCEPT !.status = "busy"]
      /\ UNCHANGED <<user, stage, odd>> /\ rci \in ParserTypes
      /\ room' \in 0 .. PacketRoom
  BY RciAssumption DEF Statuses, FlushOutput, ConfigTypes
<1>2. Alike
  BY <1>1, StatusAlike
<1>3. ControlInv' /\ LiveInv' /\ Depth' = Depth /\ SamePlace
  BY <1>1, <1>2, AlikeWell
<1>4. ConfigTypes'
  BY <1>1, <1>2 DEF ConfigTypes, FlushOutput, Alike
<1> QED
  BY <1>2, <1>3, <1>4

-----------------------------------------------------------------------------

(* The rest of what a step keeps.                                          *)

\* The next packet is taken when the one at hand is read.
MoreInv == stage = "running" /\ rci.status = "more" => tokens = <<>>

LEMMA CallbackPlace ==
    ASSUME ConfigTypes, ControlInv, LiveInv, RciCallback
    PROVE  /\ stage = "running" /\ UNCHANGED <<tokens, more, written, owed>>
           /\ Depth' = Depth /\ SamePlace
           /\ rci'.unwind = rci.unwind /\ rci'.parser = rci.parser
           /\ odd \subseteq odd' /\ odd' \subseteq odd \cup {"memory"}
           /\ stage' = "running"
              \/ (/\ stage' = "dead" /\ "memory" \in odd')
<1>1. /\ stage = "running" /\ UNCHANGED <<tokens, more, written, owed>>
      /\ rci \in ParserTypes /\ rci.calling = rci.last /\ rci.calling # "none"
  BY DEF RciCallback, ConfigTypes, ControlInv
<1>2. CASE AppAsserts
  <2>1. UNCHANGED <<rci, odd>> /\ stage' = "dead" /\ "memory" \in odd'
    BY <1>1, <1>2 DEF AppAsserts, LiveInv
  <2>2. Alike
    BY <1>1, <2>1 DEF Alike
  <2>3. Depth' = Depth /\ SamePlace
    BY <2>1 DEF Depth, InsideGroup, Between, SamePlace, Doomed, Expected, CallRefused
  <2> QED
    BY <1>1, <2>1, <2>3
<1>3. CASE ~AppAsserts
  <2>1. PICK e \in BOOLEAN : UserReplied(e)
    <3>1. AppProcess => \E e \in BOOLEAN : UserReplied(e)
      BY <1>1, ProcessReplies
    <3>2. ~AppProcess => \E e \in BOOLEAN : Returns(e)
      BY <1>3 DEF RciCallback, AppSessionStart, AppSessionEnd, AppAction,
         AppGroupStart, AppGroupEnd
    <3> QED
      BY <1>1, <3>1, <3>2, ReturnsReplies
  <2>2. /\ stage' = stage /\ odd \subseteq odd'
        /\ odd' \subseteq odd \cup {"memory"}
    BY <1>3 DEF RciCallback, AppSessionStart, AppSessionEnd, AppAction,
       AppGroupStart, AppProcess, AppGroupEnd, Quiet, Lacks
  <2>3. Depth' = Depth
    BY <2>1 DEF UserReplied, Depth, InsideGroup, Between
  <2>4. SamePlace
    BY <1>1, <2>1 DEF UserReplied, SamePlace, Doomed, CallRefused, Expected
  <2> QED
    BY <1>1, <2>1, <2>2, <2>3, <2>4 DEF UserReplied
<1> QED
  BY <1>2, <1>3

\* A parser that is still busy, however it is changed.
Busy(r) == "status" \in DOMAIN r /\ r.status = "busy"

LEMMA BusyStays ==
    ASSUME NEW r, Busy(r), NEW f, f # "status", NEW v
    PROVE  Busy([r EXCEPT ![f] = v])
BY DEF Busy

LEMMA BusyParsers ==
    ASSUME NEW r, Busy(r)
    PROVE  /\ \A c : Busy(Trigger(r, c))
           /\ \A c, s : Busy(ThenCall(r, c, s))
           /\ Busy(To(r))
           /\ Busy(TraverseElement(r)) /\ Busy(TraverseAllElements(r))
           /\ Busy(TraverseDone(r))
           /\ \A g, i : Busy(TraverseGroup(r, g, i))
           /\ Busy(AllInstances(r)) /\ Busy(AllGroups(r))
<1>1. ASSUME NEW q, Busy(q)
      PROVE  /\ \A c : Busy(Trigger(q, c))
             /\ \A c, s : Busy(ThenCall(q, c, s))
             /\ Busy(To(q)) /\ Busy(TraverseDone(q))
  BY <1>1, BusyStays DEF Trigger, ThenCall, To, TraverseDone, Busy
<1>2. ASSUME NEW q, Busy(q)
      PROVE  Busy(TraverseElement(q))
  BY <1>1, <1>2 DEF TraverseElement
<1>3. ASSUME NEW q, Busy(q)
      PROVE  Busy(TraverseAllElements(q))
  <2>1. Busy([q EXCEPT !.element = @ + 1])
    BY <1>3, BusyStays
  <2> QED
    BY <1>1, <1>2, <1>3, <2>1 DEF TraverseAllElements
<1>4. ASSUME NEW q, Busy(q), NEW g, NEW i
      PROVE  Busy(TraverseGroup(q, g, i))
  <2>1. Busy([q EXCEPT !.group = g, !.index = i, !.process = "element"])
    BY <1>4 DEF Busy
  <2> QED
    BY <1>1, <2>1 DEF TraverseGroup
<1>5. \A p : Busy([TraverseAllElements(r) EXCEPT !.process = p])
  BY <1>3, BusyStays
<1>6. Busy(AllInstances(r))
  BY <1>1, <1>4, <1>5 DEF AllInstances
<1>7. Busy(AllGroups(r))
  <2>1. CASE r.process = "element"
    BY <1>5, <2>1 DEF AllGroups
  <2>2. CASE r.process # "element" /\ r.group = Len(Instances)
    BY <1>1, <2>2 DEF AllGroups
  <2>3. CASE r.process # "element" /\ r.group # Len(Instances)
    BY <1>4, <2>3 DEF AllGroups
  <2> QED
    BY <2>1, <2>2, <2>3
<1> QED
  BY <1>1, <1>2, <1>3, <1>4, <1>6, <1>7

NotMore == rci'.status # "more"

LEMMA SendsOrStays ==
    ASSUME "status" \in DOMAIN rci, Busy(rci)
    PROVE  /\ rci' = [rci EXCEPT !.status = "flush"] => NotMore
           /\ rci' = [rci EXCEPT !.status = "complete"] => NotMore
           /\ rci' = [rci EXCEPT !.half = "this", !.status = "flush"] => NotMore
           /\ rci' = rci => NotMore
           /\ \A next : Busy(next) /\ rci' = next => NotMore
           /\ \A next : Busy(next) /\ Onward(next) => NotMore
           /\ \A item, bytes, next :
                  Busy(next) /\ Write(item, bytes, next) => NotMore
BY DEF NotMore, Busy, Write, Onward

LEMMA TextNotMore ==
    ASSUME Busy(rci), NEW next, Busy(next), NEW item, WriteText(item, next)
    PROVE  NotMore
<1>1. Busy([next EXCEPT !.half = "none"])
  BY BusyStays
<1>2. CASE rci.half = "earlier"
  BY <1>1, <1>2, SendsOrStays DEF WriteText, Busy
<1>3. CASE rci.half = "this"
  BY <1>1, <1>3, SendsOrStays DEF WriteText, Busy
<1>4. CASE rci.half # "earlier" /\ rci.half # "this" /\ room = 1
  BY <1>4, SendsOrStays DEF WriteText, Busy
<1>5. CASE rci.half # "earlier" /\ rci.half # "this" /\ room # 1
  BY <1>5, SendsOrStays DEF WriteText, Busy
<1> QED
  BY <1>2, <1>3, <1>4, <1>5

LEMMA ValueNotMore ==
    ASSUME Busy(rci), OutputValue
    PROVE  NotMore
<1> DEFINE next == [rci EXCEPT !.parser = "traverse"]
           item == <<"value", rci.value>>
<1>1. Busy(next) /\ "status" \in DOMAIN rci
  BY BusyStays DEF Busy
<1>2. ASSUME WriteAddress(item, next)
      PROVE  NotMore
  BY <1>1, <1>2, SendsOrStays DEF WriteAddress
<1>3. \/ Write(<<"no value">>, 1, next) \/ WriteAddress(item, next)
      \/ WriteText(item, next) \/ Write(item, 2, next)
  BY DEF OutputValue
<1> HIDE DEF next, item
<1> QED
  BY <1>1, <1>2, <1>3, SendsOrStays, TextNotMore

LEMMA ItemNotMore ==
    ASSUME rci \in ParserTypes, Busy(rci), OutputItem
    PROVE  NotMore
<1>1. /\ "status" \in DOMAIN rci /\ Busy(To(rci))
      /\ \A s : Busy(ThenCall(rci, "session_end", s))
  BY BusyParsers DEF Busy
<1>2. /\ \A p : Busy([rci EXCEPT !.parser = p])
      /\ \A s : Busy([rci EXCEPT !.output = s])
      /\ \A p, i : Busy([rci EXCEPT !.parser = p, !.input = i])
  BY DEF Busy
<1>3. /\ Busy([rci EXCEPT !.group = 0]) /\ Busy(To([rci EXCEPT !.group = 0]))
      /\ \A s : Busy([[rci EXCEPT !.group = 0] EXCEPT !.output = s])
      /\ Busy(To([rci EXCEPT !.element = 0]))
  BY BusyStays, BusyParsers
<1>4. CASE rci.output = "command"
  BY <1>1, <1>4, SendsOrStays DEF OutputItem
<1>5. CASE rci.output = "group"
  <2>1. Busy(IF rci.failed THEN To(rci) ELSE [rci EXCEPT !.output = "attribute"])
    BY <1>1, <1>2
  <2> QED
    BY <1>1, <1>2, <1>5, <2>1, SendsOrStays DEF OutputItem
<1>6. CASE rci.output = "attribute"
  <2> DEFINE next == [rci EXCEPT !.parser = "traverse"]
  <2>1. \/ Write(<<"index", rci.index>>, 1, next)
        \/ Onward(next)
    BY <1>6 DEF OutputItem
  <2>2. Busy(next)
    BY <1>2
  <2> HIDE DEF next
  <2> QED
    BY <1>1, <2>1, <2>2, SendsOrStays
<1>7. CASE rci.output = "field"
  <2>1. Busy(IF rci.failed THEN To(rci) ELSE [rci EXCEPT !.output = "value"])
    BY <1>1, <1>2
  <2> QED
    BY <1>1, <1>2, <1>7, <2>1, SendsOrStays DEF OutputItem
<1>8. CASE rci.output = "value"
  BY <1>8, ValueNotMore DEF OutputItem
<1>9. CASE rci.output = "field_end"
  BY <1>1, <1>3, <1>9, SendsOrStays DEF OutputItem
<1>10. CASE rci.output = "group_end"
  <2> DEFINE next == [rci EXCEPT !.group = 0]
             x == To(next)
             y == [next EXCEPT !.output = "response_done"]
  <2>1. Onward(x) \/ Write(End, 1, y)
    BY <1>10 DEF OutputItem
  <2>2. Busy(x) /\ Busy(y)
    BY <1>3
  <2> HIDE DEF x, y
  <2> QED
    BY <1>1, <2>1, <2>2, SendsOrStays
<1>11. CASE rci.output = "response_done"
  BY <1>1, <1>2, <1>11, SendsOrStays DEF OutputItem
<1>12. CASE rci.output = "done"
  BY <1>1, <1>12, SendsOrStays DEF OutputItem
<1>13. rci.output \in {"command", "group", "attribute", "field", "value",
                       "field_end", "group_end", "response_done", "done"}
  BY ParserFields DEF OutputStates
<1> QED
  BY <1>4, <1>5, <1>6, <1>7, <1>8, <1>9, <1>10, <1>11, <1>12, <1>13

LEMMA UnwindNotMore ==
    ASSUME rci \in ParserTypes, Busy(rci), Unwind, rci.last # "none"
    PROVE  NotMore
<1>1. /\ "status" \in DOMAIN rci /\ \A c : Busy(Trigger(rci, c))
  BY BusyParsers DEF Busy
<1>2. \/ \E c \in Calls : Onward(Trigger(rci, c))
      \/ \E c \in Calls : Write(End, 1, Trigger(rci, c))
      \/ rci' = [rci EXCEPT !.status = "complete"]
  BY ParserFields DEF Unwind, Calls
<1> QED
  BY <1>1, <1>2, SendsOrStays

LEMMA ErrorNotMore ==
    ASSUME rci \in ParserTypes, Busy(rci), GenerateError, rci.last # "none",
           room \in 0 .. PacketRoom
    PROVE  NotMore
<1> DEFINE next == [rci EXCEPT !.unwind = "callback", !.half = "none"]
<1>1. Busy(next) /\ "status" \in DOMAIN rci
  BY DEF Busy
<1>2. \/ rci' = rci \/ rci' = [rci EXCEPT !.status = "flush"]
      \/ rci' = next \/ Unwind
  BY DEF GenerateError
<1> HIDE DEF next
<1> QED
  BY <1>1, <1>2, SendsOrStays, UnwindNotMore

LEMMA TraverseNotMore ==
    ASSUME rci \in ParserTypes, Busy(rci), TraverseData
    PROVE  NotMore
<1>1. /\ \A p : Busy([rci EXCEPT !.parser = p])
      /\ \A c, s : Busy(TraverseDone(ThenCall(rci, c, s)))
      /\ Busy(TraverseDone(TraverseElement(rci)))
      /\ Busy(TraverseDone(TraverseAllElements(rci)))
      /\ Busy(TraverseAllElements(rci))
      /\ Busy(AllInstances(rci)) /\ Busy(AllGroups(rci))
  BY BusyStays, BusyParsers
<1>2. \E q : rci' = q /\ Busy(q)
  <2>1. rci.traverse = "none" => \E q : rci' = q /\ Busy(q)
    BY <1>1 DEF TraverseData
  <2>2. rci.traverse \in {"command", "group", "element_end", "group_end"}
        => \E c, s : rci' = TraverseDone(ThenCall(rci, c, s))
    BY DEF TraverseData
  <2>3. rci.traverse = "element" => rci' = TraverseDone(TraverseElement(rci))
    BY DEF TraverseData
  <2>4. rci.traverse = "all_elements"
        => \/ rci' = TraverseDone(TraverseAllElements(rci))
           \/ rci' = TraverseAllElements(rci)
    BY DEF TraverseData
  <2>5. rci.traverse = "all_instances" => rci' = AllInstances(rci)
    BY DEF TraverseData
  <2>6. rci.traverse = "all_groups" => rci' = AllGroups(rci)
    BY DEF TraverseData
  <2>7. rci.traverse \in {"none", "command", "group", "element", "element_end",
                  "group_end", "all_elements", "all_instances", "all_groups"}
    BY ParserFields
  <2> QED
    BY <1>1, <2>1, <2>2, <2>3, <2>4, <2>5, <2>6, <2>7
<1> QED
  BY <1>2 DEF NotMore, Busy

\* What is left of the request when a token is read.
LEMMA NextToken ==
    ASSUME ConfigTypes, ControlInv, SyncInv, ParseInput,
           NEW t, t = Head(tokens)
    PROVE  \E p, q :
               /\ q = NextPlace(t, p) /\ MayCome(t, p)
               /\ p.at = rci.input
               /\ rci.input # "command" => p.do = rci.action
               /\ rci.input = "field" => p.group = rci.group
               /\ Expects(q)' /\ (rci'.input = "done" <=> tokens' = <<>>
                                                          /\ more' = <<>>)
                  => SyncInv'
<1> DEFINE place == PlacesOf(OwedTokens)
<1>1. PICK p : p = place[HaveRead + 1]
  OBVIOUS
<1>2. PICK q : q = place[HaveRead + 1 + 1]
  OBVIOUS
<1>3. /\ stage = "running" /\ rci.parser = "input" /\ rci.calling = "none"
      /\ tokens # <<>> /\ tokens' = Tail(tokens)
      /\ UNCHANGED <<more, owed, stage>>
  BY DEF ParseInput, ParserStep
<1>4. /\ owed.request \in RciRequests /\ HaveRead >= 0
      /\ \A i \in 1 .. Len(tokens) : tokens[i] = OwedTokens[HaveRead + i]
      /\ \A i \in 1 .. Len(more) :
             more[i] = OwedTokens[HaveRead + Len(tokens) + i]
      /\ Expects(p)
  BY <1>1, <1>3 DEF SyncInv, Place
<1>5. /\ OwedTokens \in Seq(Tokens)
      /\ \A j \in 1 .. Len(OwedTokens) :
             /\ MayCome(OwedTokens[j], place[j])
             /\ place[j + 1] = NextPlace(OwedTokens[j], place[j])
  BY <1>4, RequestAssumption DEF OwedTokens
<1>6. /\ tokens \in Seq(Tokens) /\ more \in Seq(Tokens)
      /\ Len(tokens) \in Nat \ {0} /\ Len(more) \in Nat /\ t = tokens[1]
      /\ Len(OwedTokens) \in Nat /\ Len(tokens') = Len(tokens) - 1
      /\ \A i \in 1 .. Len(tokens') : tokens'[i] = tokens[i + 1]
  BY <1>3, <1>5 DEF ConfigTypes
<1>7. /\ AtInput /\ ~Doomed /\ Expected = rci.input
      /\ rci.input \in {"command", "group", "field"}
  BY <1>3, ParserFields DEF ControlInv, AtInput, Doomed, Expected, ConfigTypes
<1> HIDE DEF place
<1>8. /\ HaveRead = Len(OwedTokens) - Len(tokens) - Len(more)
      /\ HaveRead' = Len(OwedTokens) - Len(tokens') - Len(more)
      /\ OwedTokens' = OwedTokens /\ place' = place
  BY <1>3 DEF HaveRead, OwedTokens, place
<1>9. /\ HaveRead \in Nat /\ HaveRead + 1 \in 1 .. Len(OwedTokens)
      /\ t = OwedTokens[HaveRead + 1] /\ HaveRead' = HaveRead + 1
  <2> DEFINE h == HaveRead
             a == Len(tokens)
             b == Len(more)
             c == Len(OwedTokens)
  <2>1. /\ a \in Nat \ {0} /\ b \in Nat /\ c \in Nat
        /\ h = c - a - b /\ h >= 0 /\ HaveRead' = c - (a - 1) - b
    BY <1>4, <1>6, <1>8
  <2>2. t = OwedTokens[h + 1]
    BY <1>4, <1>6
  <2> HIDE DEF h, a, b, c
  <2>3. h \in Nat /\ h + 1 \in 1 .. c /\ HaveRead' = h + 1
    BY <2>1
  <2> QED
    BY <2>2, <2>3 DEF h, c
<1>10. /\ q = NextPlace(t, p) /\ MayCome(t, p)
  BY <1>1, <1>2, <1>5, <1>9
<1>11. \A i \in 1 .. Len(tokens') : tokens'[i] = OwedTokens'[HaveRead' + i]
  <2>1. ASSUME NEW i \in 1 .. Len(tokens')
        PROVE  i + 1 \in 1 .. Len(tokens) /\ HaveRead' + i = HaveRead + (i + 1)
    <3>1. i \in Int /\ i >= 1 /\ i <= Len(tokens) - 1 /\ Len(tokens) \in Nat
      BY <1>6
    <3>2. i + 1 \in 1 .. Len(tokens)
      BY <3>1
    <3>3. HaveRead \in Nat /\ HaveRead' = HaveRead + 1
      BY <1>9
    <3>4. HaveRead' + i = HaveRead + (i + 1)
      BY <3>1, <3>3
    <3> QED
      BY <3>2, <3>4
  <2> QED
    BY <1>4, <1>6, <1>8, <2>1
<1>12. \A i \in 1 .. Len(more') :
           more'[i] = OwedTokens'[HaveRead' + Len(tokens') + i]
  <2>1. HaveRead' + Len(tokens') = HaveRead + Len(tokens)
    BY <1>6, <1>9
  <2> QED
    BY <1>3, <1>4, <1>8, <2>1
<1>13. Place' = q /\ HaveRead' >= 0 /\ HaveRead' > 0
  BY <1>2, <1>8, <1>9 DEF Place, place
<1>14. ASSUME Expects(q)', rci'.input = "done" <=> tokens' = <<>> /\ more' = <<>>
       PROVE  SyncInv'
  <2>1. Expects(Place)'
    BY <1>13, <1>14 DEF Expects
  <2> QED
    BY <1>3, <1>4, <1>11, <1>12, <1>13, <1>14, <2>1 DEF SyncInv
<1>15. /\ p.at = rci.input
       /\ rci.input # "command" => p.do = rci.action
       /\ rci.input = "field" => p.group = rci.group
  BY <1>4, <1>7 DEF Expects
<1> QED
  BY <1>10, <1>14, <1>15

\* What a token leads to, where the parser is in the request.
Moved == Depth' = Depth /\ rci'.unwind = rci.unwind

LEMMA TheEnd ==
    ASSUME ConfigTypes, ParseInput, NEW t, t = Head(tokens), NEW r,
           r = CASE rci.input = "command" -> CommandToken(rci, t)
                 [] rci.input = "group"   -> GroupToken(rci, t)
                 [] rci.input = "field"   -> FieldToken(rci, t),
           r \in ParserTypes, r.input # "done", r.status = "busy"
    PROVE  /\ rci'.input = "done" <=> tokens' = <<>> /\ more' = <<>>
           /\ rci'.status = "more" => tokens' = <<>>
<1> DEFINE x == [r EXCEPT !.input = "done", !.parser = "traverse"]
           y == [r EXCEPT !.status = "more"]
<1>1. /\ tokens \in Seq(Tokens) /\ tokens # <<>> /\ tokens' = Tail(tokens)
      /\ more' = more
      /\ rci' = CASE Len(tokens) > 1 -> r
                  [] Len(tokens) = 1 /\ more = <<>> -> x
                  [] OTHER -> y
  BY DEF ParseInput, ConfigTypes
<1>2. /\ x.input = "done" /\ x.status = "busy"
      /\ y.input # "done"
  BY DEF ParserTypes
<1> HIDE DEF x, y
<1>3. /\ Len(tokens) \in Nat /\ Len(tokens) >= 1
      /\ Len(tokens) > 1 => tokens' # <<>>
      /\ ~(Len(tokens) > 1) => tokens' = <<>> /\ Len(tokens) = 1
  <2>1. /\ Len(tokens) \in Nat /\ Len(tokens) >= 1
        /\ Len(tokens') = Len(tokens) - 1 /\ tokens' \in Seq(Tokens)
    BY <1>1
  <2>2. Len(tokens) > 1 => Len(tokens') # 0
    BY <2>1
  <2>3. ~(Len(tokens) > 1) => Len(tokens') = 0 /\ Len(tokens) = 1
    BY <2>1
  <2>4. Len(tokens') # 0 <=> tokens' # <<>>
    BY <2>1
  <2> QED
    BY <2>1, <2>2, <2>3, <2>4
<1>4. CASE Len(tokens) > 1
  <2>1. Len(tokens) > 1 /\ Len(tokens) # 1
    <3>1. PICK n : n = Len(tokens)
      OBVIOUS
    <3>2. n \in Nat /\ n > 1
      BY <1>3, <1>4, <3>1
    <3>3. n # 1
      BY <3>2
    <3> QED
      BY <1>4, <3>1, <3>3
  <2>2. rci' = r
    BY <1>1, <1>4, <2>1
  <2> QED
    BY <1>3, <1>4, <2>2
<1>5. CASE ~(Len(tokens) > 1) /\ more = <<>>
  <2>1. rci' = x
    BY <1>1, <1>3, <1>5
  <2> QED
    BY <1>1, <1>2, <1>3, <1>5, <2>1
<1>6. CASE ~(Len(tokens) > 1) /\ more # <<>>
  <2>1. rci' = y
    BY <1>1, <1>3, <1>6
  <2> QED
    BY <1>1, <1>2, <1>3, <1>6, <2>1
<1> QED
  BY <1>4, <1>5, <1>6

LEMMA CommandMoved ==
    ASSUME ConfigTypes, ControlInv, LiveInv, SyncInv, ParseInput, UnwindInv,
           rci.input = "command"
    PROVE  SyncInv' /\ Moved /\ (rci'.status = "more" => tokens' = <<>>)
<1> DEFINE t == Head(tokens)
           r == CommandToken(rci, t)
<1>1. /\ TokenRead /\ rci \in ParserTypes /\ AtInput
      /\ rci' = r \/ rci' = [r EXCEPT !.status = "more"]
  BY ReadsToken
<1>2. t[2] \in {"query", "set", "bad"} /\ rci.status = "busy"
      /\ rci.parser = "input" /\ rci.unwind = "error"
  BY <1>1, TokenComes DEF TokenRead, ParseInput, ParserStep, UnwindInv
<1>3. Outside /\ NoElement /\ rci.group = 0 /\ rci.last # "none"
      /\ ~InsideGroup /\ ~Between
  BY <1>1 DEF AtInput, Outside, InsideGroup, Between
<1>4. PICK p, q :
          /\ q = NextPlace(t, p) /\ MayCome(t, p)
          /\ p.at = rci.input
          /\ Expects(q)' /\ (rci'.input = "done" <=> tokens' = <<>> /\ more' = <<>>)
             => SyncInv'
  BY NextToken
<1>5. q.at = "group" /\ q.do = t[2]
  BY <1>4 DEF NextPlace
<1>6. r.status = "busy"
  BY <1>1, <1>2 DEF CommandToken, Traversing, ParserTypes
<1>7. r \in ParserTypes /\ r.input # "done"
      => /\ rci'.input = "done" <=> tokens' = <<>> /\ more' = <<>>
         /\ rci'.status = "more" => tokens' = <<>>
  BY <1>6, TheEnd
<1> HIDE DEF t
<1>8. /\ r \in ParserTypes /\ r.calling = rci.calling
      /\ r.last = rci.last /\ r.unwind = rci.unwind
      /\ \/ /\ r.failed /\ r.parser = "output" /\ r.output = "field"
            /\ r.input = rci.input
         \/ r.failed /\ r.parser = "error" /\ r.input = rci.input
         \/ /\ ~r.failed /\ r.parser = "traverse"
            /\ r.traverse = "command" /\ r.input = "group"
            /\ r.action = t[2]
  BY <1>1, <1>2, CommandFields
<1> HIDE DEF r
<1>9. /\ rci'.calling = "none" /\ rci'.last = rci.last
      /\ rci'.unwind = rci.unwind
      /\ \/ rci'.failed /\ rci'.parser = "output" /\ rci'.output = "field"
         \/ rci'.failed /\ rci'.parser = "error"
         \/ /\ ~rci'.failed /\ rci'.parser = "traverse"
            /\ rci'.traverse = "command" /\ rci'.input = "group"
            /\ rci'.action = t[2]
  BY <1>1, <1>8, TokenTaken DEF TokenRead
<1>10. Expects(q)'
  BY <1>5, <1>9 DEF Expects, Doomed, CallRefused, Expected
<1>11. Depth' = Depth
  <2>1. Depth = 0
    BY <1>2, <1>3 DEF Depth
  <2>2. ~InsideGroup' /\ ~Between'
    BY <1>3, <1>9 DEF InsideGroup, Between
  <2>3. Depth' = 0
    BY <1>2, <1>9, <2>2 DEF Depth
  <2> QED
    BY <2>1, <2>3
<1>12. r.input # "done"
  BY <1>8
<1> QED
  BY <1>4, <1>7, <1>8, <1>9, <1>10, <1>11, <1>12 DEF Moved

LEMMA GroupMoved ==
    ASSUME ConfigTypes, ControlInv, LiveInv, SyncInv, ParseInput, UnwindInv,
           rci.input = "group"
    PROVE  SyncInv' /\ Moved /\ (rci'.status = "more" => tokens' = <<>>)
<1> DEFINE t == Head(tokens)
           r == GroupToken(rci, t)
           x == [r EXCEPT !.input = "done", !.parser = "traverse"]
<1>1. /\ TokenRead /\ rci \in ParserTypes /\ AtInput
      /\ rci.failed => rci.last = "session_start"
      /\ \/ rci' = r \/ rci' = [r EXCEPT !.status = "more"] \/ rci' = x
  BY ReadsToken
<1>2. /\ t # End => t[2] \in Groups /\ t[3] \in 0 .. Instances[t[2]]
      /\ rci.status = "busy" /\ rci.parser = "input" /\ rci.unwind = "error"
  BY <1>1, TokenComes DEF TokenRead, ParseInput, ParserStep, UnwindInv
<1>3. /\ Between /\ ~InsideGroup /\ rci.traverse = "none" /\ rci.last # "none"
      /\ ~rci.failed
  BY <1>1 DEF AtInput, GoesOnBetween, Between, InsideGroup
<1>4. PICK p, q :
          /\ q = NextPlace(t, p) /\ p.at = "group" /\ p.do = rci.action
          /\ Expects(q)' /\ (rci'.input = "done" <=> tokens' = <<>> /\ more' = <<>>)
             => SyncInv'
  BY NextToken
<1>5. /\ t # End => q.at = "field" /\ q.do = rci.action /\ q.group = t[2]
      /\ t = End => q.at = "command"
  BY <1>4 DEF NextPlace, InCommand
<1>6. r.status = "busy"
  BY <1>1, <1>2 DEF GroupToken, Traversing, Fails, ParserTypes
<1>7. r \in ParserTypes /\ r.input # "done"
      => /\ rci'.input = "done" <=> tokens' = <<>> /\ more' = <<>>
         /\ rci'.status = "more" => tokens' = <<>>
  BY <1>6, TheEnd
<1> HIDE DEF t
<1>8. /\ r \in ParserTypes /\ r.calling = rci.calling
      /\ r.last = rci.last /\ r.unwind = rci.unwind /\ r.action = rci.action
      /\ \/ /\ t # End /\ r.parser = "traverse" /\ r.traverse = "group"
            /\ r.input = "field" /\ r.group = t[2] /\ ~r.failed
         \/ /\ t = End /\ r.parser = "traverse" /\ r.traverse = "group_end"
            /\ r.input = "command" /\ ~r.failed
         \/ /\ t = End /\ r.parser = "traverse" /\ r.traverse = "all_groups"
            /\ r.input = "group" /\ ~r.failed
         \/ /\ t = End /\ r.parser = "output" /\ r.output = "group"
            /\ r.failed /\ r.input = "group"
  BY <1>1, <1>2, <1>3, GroupFields
<1> HIDE DEF r
<1>9. /\ x.input = "done" /\ x.parser = "traverse" /\ x.calling = r.calling
      /\ x.last = r.last /\ x.unwind = r.unwind
  BY <1>8 DEF ParserTypes
<1> HIDE DEF x
<1>10. /\ rci'.calling = "none" /\ rci'.last = rci.last
       /\ rci'.unwind = rci.unwind
       /\ \/ /\ rci'.input = "done" /\ rci'.parser = "traverse"
          \/ /\ rci'.action = rci.action
             /\ \/ /\ t # End /\ rci'.parser = "traverse"
                   /\ rci'.traverse = "group" /\ rci'.input = "field"
                   /\ rci'.group = t[2] /\ ~rci'.failed
                \/ /\ t = End /\ rci'.parser = "traverse"
                   /\ rci'.traverse = "group_end"
                   /\ rci'.input = "command" /\ ~rci'.failed
                \/ /\ t = End /\ rci'.parser = "traverse"
                   /\ rci'.traverse = "all_groups"
                   /\ rci'.input = "group" /\ ~rci'.failed
                \/ /\ t = End /\ rci'.parser = "output"
                   /\ rci'.output = "group" /\ rci'.failed
  <2>1. CASE rci' = x
    BY <1>1, <1>8, <1>9, <2>1 DEF TokenRead
  <2>2. CASE rci' = r \/ rci' = [r EXCEPT !.status = "more"]
    BY <1>1, <1>8, <2>2, TokenTaken DEF TokenRead
  <2> QED
    BY <1>1, <2>1, <2>2
<1>11. Expects(q)'
  BY <1>5, <1>10 DEF Expects, Doomed, CallRefused, Expected
<1>12. Depth' = Depth
  <2>1. Depth = 1
    BY <1>2, <1>3 DEF Depth
  <2>2. ~InsideGroup' /\ Between'
    BY <1>3, <1>10 DEF InsideGroup, Between
  <2>3. Depth' = 1
    BY <1>2, <1>10, <2>2 DEF Depth
  <2> QED
    BY <2>1, <2>3
<1>13. r.input # "done"
  BY <1>8
<1> QED
  BY <1>4, <1>7, <1>8, <1>10, <1>11, <1>12, <1>13 DEF Moved

LEMMA FieldMoved ==
    ASSUME ConfigTypes, ControlInv, LiveInv, SyncInv, ParseInput, UnwindInv,
           rci.input = "field"
    PROVE  SyncInv' /\ Moved /\ (rci'.status = "more" => tokens' = <<>>)
<1> DEFINE t == Head(tokens)
           r == FieldToken(rci, t)
<1>1. /\ TokenRead /\ rci \in ParserTypes /\ AtInput
      /\ rci.failed => rci.last = "session_start"
      /\ rci' = r \/ rci' = [r EXCEPT !.status = "more"]
  BY ReadsToken
<1>2. /\ t # End => t[2] \in 1 .. 9 /\ t[3] \in Values \cup {"none"}
      /\ rci.status = "busy" /\ rci.parser = "input" /\ rci.unwind = "error"
  BY <1>1, TokenComes DEF TokenRead, ParseInput, ParserStep, UnwindInv
<1>3. /\ InsideGroup /\ ~Between /\ rci.traverse = "none" /\ rci.last # "none"
      /\ ~rci.failed
  BY <1>1 DEF AtInput, GoesOnInside, InsideGroup, Between
<1>4. PICK p, q :
          /\ q = NextPlace(t, p) /\ p.at = "field" /\ p.do = rci.action
          /\ p.group = rci.group
          /\ Expects(q)' /\ (rci'.input = "done" <=> tokens' = <<>> /\ more' = <<>>)
             => SyncInv'
  BY NextToken
<1>5. /\ t # End => /\ q.at = "field" /\ q.do = rci.action
                    /\ q.group = rci.group
      /\ t = End => q.at = "group" /\ q.do = rci.action
  BY <1>4 DEF NextPlace
<1>6. r.status = "busy"
  BY <1>1, <1>2 DEF FieldToken, FieldValue, FieldNoValue, Traversing, Fails,
     ParserTypes
<1>7. r \in ParserTypes /\ r.input # "done"
      => /\ rci'.input = "done" <=> tokens' = <<>> /\ more' = <<>>
         /\ rci'.status = "more" => tokens' = <<>>
  BY <1>6, TheEnd
<1> HIDE DEF t
<1>8. /\ r \in ParserTypes /\ r.calling = rci.calling
      /\ r.last = rci.last /\ r.unwind = rci.unwind /\ r.action = rci.action
      /\ r.group = rci.group
      /\ \/ /\ t # End /\ r.parser = "traverse" /\ r.traverse = "element"
            /\ r.input = "field" /\ ~r.failed
         \/ /\ t = End /\ r.parser = "traverse" /\ r.input = "group"
            /\ r.traverse \in {"element_end", "all_instances", "all_elements"}
            /\ ~r.failed
         \/ /\ t = End /\ r.parser = "output" /\ r.output = "field"
            /\ r.failed /\ r.input = "field"
  BY <1>1, <1>2, <1>3, FieldFields
<1> HIDE DEF r
<1>9. /\ rci'.calling = "none" /\ rci'.last = rci.last
      /\ rci'.unwind = rci.unwind /\ rci'.action = rci.action
      /\ rci'.group = rci.group
      /\ \/ /\ t # End /\ rci'.parser = "traverse"
            /\ rci'.traverse = "element" /\ rci'.input = "field" /\ ~rci'.failed
         \/ /\ t = End /\ rci'.parser = "traverse" /\ rci'.input = "group"
            /\ rci'.traverse \in {"element_end", "all_instances",
                                  "all_elements"}
            /\ ~rci'.failed
         \/ /\ t = End /\ rci'.parser = "output" /\ rci'.output = "field"
            /\ rci'.failed
  BY <1>1, <1>8, TokenTaken DEF TokenRead
<1>10. Expects(q)'
  BY <1>5, <1>9 DEF Expects, Doomed, CallRefused, Expected
<1>11. Depth' = Depth
  <2>1. Depth = 2
    BY <1>2, <1>3 DEF Depth
  <2>2. InsideGroup' /\ ~Between'
    BY <1>3, <1>9 DEF InsideGroup, Between
  <2>3. Depth' = 2
    BY <1>2, <1>9, <2>2 DEF Depth
  <2> QED
    BY <2>1, <2>3
<1>12. r.input # "done"
  BY <1>8
<1> QED
  BY <1>4, <1>7, <1>8, <1>9, <1>10, <1>11, <1>12 DEF Moved

LEMMA InputWell ==
    ASSUME ConfigTypes, ControlInv, LiveInv, SyncInv, UnwindInv, ParseInput
    PROVE  /\ ConfigTypes' /\ ControlInv' /\ LiveInv' /\ SyncInv'
           /\ Depth' = Depth /\ UnwindInv' /\ MoreInv'
           /\ stage = "running" /\ stage' = "running" /\ written' = written
           /\ odd \subseteq odd' /\ odd' \subseteq odd \cup {"sticky"}
<1>1. /\ TokenRead /\ rci.input \in {"command", "group", "field"}
      /\ odd' \subseteq odd \cup {"sticky"}
  BY ReadsToken
<1>2. /\ rci.parser = "input" /\ rci.unwind = "error" /\ odd \subseteq odd'
  BY <1>1 DEF ParseInput, ParserStep, UnwindInv
<1>3. SyncInv' /\ Moved /\ (rci'.status = "more" => tokens' = <<>>)
  BY <1>1, CommandMoved, GroupMoved, FieldMoved
<1>4. UnwindInv' /\ MoreInv'
  BY <1>1, <1>2, <1>3 DEF UnwindInv, MoreInv, Moved
<1> QED
  BY <1>1, <1>2, <1>3, <1>4, InputControl DEF Moved, TokenRead

-----------------------------------------------------------------------------

(* The place in the request.                                               *)

LEMMA SyncKept ==
    ASSUME SyncInv, stage = "running", UNCHANGED <<tokens, more, owed>>,
           SamePlace \/ NextCommand
    PROVE  SyncInv'
<1>1. OwedTokens' = OwedTokens /\ HaveRead' = HaveRead /\ Place' = Place
  BY DEF OwedTokens, HaveRead, Place
<1>2. /\ owed.request \in RciRequests /\ HaveRead >= 0
      /\ \A i \in 1 .. Len(tokens) : tokens[i] = OwedTokens[HaveRead + i]
      /\ \A i \in 1 .. Len(more) :
             more[i] = OwedTokens[HaveRead + Len(tokens) + i]
      /\ rci.input = "done" <=> tokens = <<>> /\ more = <<>> /\ HaveRead > 0
      /\ Expects(Place)
  BY DEF SyncInv
<1>3. PICK q : q = Place
  OBVIOUS
<1>4. Expects(q)'
  <2>1. CASE SamePlace
    BY <1>2, <1>3, <2>1 DEF Expects, SamePlace
  <2>2. CASE NextCommand
    BY <1>2, <1>3, <2>2 DEF Expects, NextCommand
  <2> QED
    BY <2>1, <2>2
<1>5. Expects(Place)'
  BY <1>1, <1>3, <1>4 DEF Expects
<1>6. rci'.input = "done" <=> rci.input = "done"
  BY DEF SamePlace, NextCommand
<1>7. /\ \A i \in 1 .. Len(tokens') : tokens'[i] = OwedTokens'[HaveRead' + i]
      /\ \A i \in 1 .. Len(more') :
             more'[i] = OwedTokens'[HaveRead' + Len(tokens') + i]
      /\ rci'.input = "done" <=> tokens' = <<>> /\ more' = <<>> /\ HaveRead' > 0
  BY <1>1, <1>2, <1>6
<1> HIDE DEF OwedTokens, HaveRead, Place
<1> QED
  BY <1>1, <1>2, <1>5, <1>7 DEF SyncInv

LEMMA MoreSync ==
    ASSUME ConfigTypes, SyncInv, MoreInv, MoreInput, SamePlace
    PROVE  SyncInv'
<1>1. /\ stage = "running" /\ tokens = <<>> /\ tokens' = more /\ more' = <<>>
      /\ owed' = owed
  BY DEF MoreInput, MoreInv
<1>2. Len(tokens) = 0 /\ Len(more') = 0 /\ Len(more) \in Nat
  BY <1>1 DEF ConfigTypes
<1>3. /\ owed.request \in RciRequests /\ HaveRead >= 0
      /\ \A i \in 1 .. Len(more) :
             more[i] = OwedTokens[HaveRead + Len(tokens) + i]
      /\ rci.input = "done" <=> tokens = <<>> /\ more = <<>> /\ HaveRead > 0
      /\ Expects(Place)
  BY <1>1 DEF SyncInv
<1>4. OwedTokens' = OwedTokens
  BY <1>1 DEF OwedTokens
<1>5. OwedTokens \in Seq(Tokens)
  BY <1>3, RequestAssumption DEF OwedTokens
<1>6. HaveRead' = HaveRead /\ HaveRead \in Int
  <2>1. /\ HaveRead = Len(OwedTokens) - Len(tokens) - Len(more)
        /\ HaveRead' = Len(OwedTokens) - Len(more) - Len(more')
    BY <1>1, <1>4 DEF HaveRead
  <2>2. Len(OwedTokens) \in Nat
    BY <1>5
  <2> QED
    BY <1>2, <2>1, <2>2
<1>7. PICK q : q = Place
  OBVIOUS
<1>8. Place' = q
  BY <1>4, <1>6, <1>7 DEF Place
<1>9. Expects(q)'
  BY <1>3, <1>7 DEF Expects, SamePlace
<1>10. Expects(Place)'
  BY <1>8, <1>9 DEF Expects
<1>11. \A i \in 1 .. Len(tokens') : tokens'[i] = OwedTokens'[HaveRead' + i]
  BY <1>1, <1>2, <1>3, <1>4, <1>6
<1>12. \A i \in 1 .. Len(more') :
           more'[i] = OwedTokens'[HaveRead' + Len(tokens') + i]
  BY <1>2
<1>13. rci'.input = "done" <=> tokens' = <<>> /\ more' = <<>> /\ HaveRead' > 0
  BY <1>1, <1>3, <1>6 DEF SamePlace
<1> QED
  BY <1>1, <1>3, <1>6, <1>10, <1>11, <1>12, <1>13 DEF SyncInv

LEMMA BeginSync ==
    ASSUME NEW wish \in RciRequests, NEW split \in BOOLEAN, NEW spare,
           BeginSession(wish, split, spare), rci \in ParserTypes
    PROVE  SyncInv' /\ tokens' \in Seq(Tokens) /\ more' \in Seq(Tokens)
<1> DEFINE all == AllTokens(wish)
           cut == IF split THEN 1 ELSE Len(all)
<1>1. /\ tokens' = SubSeq(all, 1, cut)
      /\ more' = SubSeq(all, cut + 1, Len(all))
      /\ owed' = [request |-> wish, before |-> saved]
      /\ rci' = [Trigger(rci, "session_start")
                    EXCEPT !.status = "busy", !.parser = "input",
                           !.input = "command", !.unwind = "error",
                           !.group = 0, !.index = 0, !.element = 0,
                           !.all = FALSE,
                           !.half = IF @ = "none" THEN @ ELSE "earlier"]
  BY DEF BeginSession
<1>2. /\ all \in Seq(Tokens) /\ all # <<>>
      /\ PlacesOf(all)[1] = InCommand
  BY RequestAssumption
<1>3. owed'.request = wish /\ OwedTokens' = all
  BY <1>1 DEF OwedTokens
<1> HIDE DEF all
<1>4. /\ Len(all) \in Nat \ {0} /\ cut \in 1 .. Len(all)
  BY <1>2
<1>5. /\ tokens' \in Seq(Tokens) /\ Len(tokens') = cut
      /\ \A i \in 1 .. cut : tokens'[i] = all[i]
  BY <1>1, <1>2, <1>4
<1>6. /\ more' \in Seq(Tokens) /\ Len(more') = Len(all) - cut
      /\ \A i \in 1 .. Len(all) - cut : more'[i] = all[cut + i]
  <2> DEFINE n == Len(all)
  <2>1. n \in Nat /\ cut + 1 \in 1 .. n + 1 /\ cut \in Nat
    BY <1>4
  <2> HIDE DEF n, cut
  <2>2. Len(more') = n - cut
    BY <1>1, <1>2, <2>1 DEF n
  <2>3. ASSUME NEW i \in 1 .. n - cut
        PROVE  more'[i] = all[cut + i]
    BY <1>1, <1>2, <2>1 DEF n
  <2>4. more' \in Seq(Tokens)
    BY <1>1, <1>2, <2>1 DEF n
  <2> QED
    BY <2>2, <2>3, <2>4 DEF n
<1>7. HaveRead' = 0
  BY <1>3, <1>4, <1>5, <1>6 DEF HaveRead
<1>8. Place' = InCommand
  BY <1>2, <1>3, <1>7 DEF Place
<1>9. /\ rci'.input = "command" /\ rci'.parser = "input"
      /\ rci'.traverse = rci.traverse
  BY <1>1 DEF Trigger, ParserTypes
<1>10. Expects(InCommand)'
  BY <1>9 DEF Expects, Expected, InCommand
<1>11. Expects(Place)'
  BY <1>8, <1>10 DEF Expects, InCommand
<1>12. /\ \A i \in 1 .. Len(tokens') : tokens'[i] = OwedTokens'[HaveRead' + i]
       /\ \A i \in 1 .. Len(more') :
              more'[i] = OwedTokens'[HaveRead' + Len(tokens') + i]
  <2>1. \A i \in 1 .. Len(tokens') : tokens'[i] = all[HaveRead' + i]
    BY <1>5, <1>7
  <2>2. \A i \in 1 .. Len(more') : more'[i] = all[HaveRead' + Len(tokens') + i]
    BY <1>4, <1>5, <1>6, <1>7
  <2>3. OwedTokens' = all
    BY <1>3
  <2> QED
    BY <2>1, <2>2, <2>3, Zenon
<1> QED
  BY <1>3, <1>5, <1>6, <1>7, <1>9, <1>11, <1>12 DEF SyncInv

-----------------------------------------------------------------------------

(* The steps together.                                                     *)

LEMMA BeginWellTyped ==
    ASSUME ConfigTypes, NEW wish \in RciRequests, NEW split \in BOOLEAN,
           NEW spare \in Rooms, BeginSession(wish, split, spare)
    PROVE  /\ ConfigTypes' /\ ControlInv' /\ LiveInv' /\ SyncInv'
           /\ UnwindInv' /\ MoreInv' /\ Depth' = 0 /\ written' = <<>>
           /\ stage' = "running"
<1> DEFINE p == Trigger(rci, "session_start")
           h == IF p.half = "none" THEN p.half ELSE "earlier"
<1>1. /\ rci' = [p EXCEPT !.status = "busy", !.parser = "input",
                          !.input = "command", !.unwind = "error",
                          !.group = 0, !.index = 0, !.element = 0,
                          !.all = FALSE, !.half = h]
      /\ written' = <<>> /\ room' = spare /\ stage' = "running"
      /\ sessions < RciSessions /\ sessions' = sessions + 1 /\ odd' = {}
      /\ UNCHANGED <<within, user, saved, troubles>>
  BY DEF BeginSession
<1>2. p \in ParserTypes /\ p.calling = "session_start"
      /\ p.last = "session_start"
  <2>1. "session_start" \in Calls
    BY DEF Calls
  <2>2. p \in ParserTypes
    BY <2>1 DEF ParserTypes, Trigger, ConfigTypes
  <2> QED
    BY <2>2 DEF ParserTypes, Trigger, ConfigTypes
<1>3. h \in {"none", "this", "earlier"}
  BY <1>2, ParserFields
<1> HIDE DEF p, h
<1>4. rci' \in ParserTypes
  <2>1. /\ "busy" \in Statuses /\ "input" \in Parsers /\ "command" \in Inputs
    BY DEF Statuses, Parsers, Inputs
  <2> DEFINE x == [p EXCEPT !.status = "busy", !.parser = "input",
                            !.input = "command", !.unwind = "error"]
             y == [x EXCEPT !.group = 0]
             z == [y EXCEPT !.index = 0]
             u == [z EXCEPT !.element = 0]
  <2>2. x \in ParserTypes
    BY <1>2, <2>1 DEF ParserTypes
  <2>3. rci' = [u EXCEPT !.all = FALSE, !.half = h]
    BY <1>1
  <2> HIDE DEF x
  <2>4. y \in ParserTypes
    BY <2>2 DEF ParserTypes
  <2> HIDE DEF y
  <2>5. z \in ParserTypes
    BY <2>4 DEF ParserTypes
  <2> HIDE DEF z
  <2>6. u \in ParserTypes
    BY <2>5 DEF ParserTypes
  <2> HIDE DEF u
  <2> QED
    BY <1>3, <2>3, <2>6 DEF ParserTypes
<1>5. /\ rci'.calling = "session_start" /\ rci'.last = "session_start"
      /\ rci'.parser = "input" /\ rci'.input = "command"
      /\ rci'.unwind = "error" /\ rci'.group = 0 /\ rci'.element = 0
      /\ rci'.status = "busy"
  BY <1>1, <1>2 DEF ParserTypes
<1>6. /\ SyncInv' /\ tokens' \in Seq(Tokens) /\ more' \in Seq(Tokens)
  BY BeginSync DEF ConfigTypes
<1>7. room' \in 0 .. PacketRoom /\ sessions' \in 0 .. RciSessions
  BY <1>1, RciAssumption DEF ConfigTypes
<1>8. ConfigTypes'
  BY <1>1, <1>4, <1>6, <1>7 DEF ConfigTypes
<1>9. Outside' /\ ~InsideGroup' /\ ~Between' /\ NoElement' /\ ~CallRefused'
  BY <1>5 DEF Outside, InsideGroup, Between, NoElement, CallRefused
<1>10. AtInput'
  BY <1>5, <1>9 DEF AtInput
<1>11. ControlInv'
  BY <1>5, <1>10 DEF ControlInv
<1>12. LiveInv'
  BY <1>5 DEF LiveInv
<1>13. Depth' = 0
  BY <1>5, <1>9 DEF Depth
<1>14. UnwindInv' /\ MoreInv'
  BY <1>5 DEF UnwindInv, MoreInv
<1> QED
  BY <1>1, <1>6, <1>8, <1>11, <1>12, <1>13, <1>14

LEMMA EmptyOpen == OpenBy(<<>>, 0) /\ <<>> \in Seq(Items)
<1>1. /\ {k \in 1 .. 0 : <<>>[k][1] \in {"command", "group"}} = {}
      /\ {k \in 1 .. 0 : <<>>[k] = End} = {} /\ Len(<<>>) = 0
  OBVIOUS
<1>2. Openings(<<>>, 0) = 0 /\ Endings(<<>>, 0) = 0
  BY <1>1, FS_EmptySet DEF Openings, Endings
<1> QED
  BY <1>1, <1>2 DEF OpenBy

\* What is written keeps the count of what is open.
LEMMA WritesWell ==
    ASSUME ItemsInv, DepthInv, Writes, stage = "running", stage' = "running",
           odd \subseteq odd'
    PROVE  ItemsInv' /\ DepthInv'
<1>1. Depth \in Nat /\ Depth' \in Nat
  BY DEF Depth
<1>2. CASE written' = written /\ Depth' = Depth
  BY <1>2 DEF ItemsInv, DepthInv
<1>3. ASSUME NEW x \in Items, written' = Append(written, x),
             \/ BeginsPart(x) /\ x # End /\ Depth' = Depth + 1
             \/ x = End /\ Depth = Depth' + 1
             \/ ~BeginsPart(x) /\ x # End /\ Depth' = Depth
      PROVE  ItemsInv' /\ DepthInv'
  <2>1. written \in Seq(Items) /\ ItemsInv'
    BY <1>3 DEF ItemsInv
  <2>2. x = End => ~BeginsPart(x)
    BY DEF End, BeginsPart
  <2>3. PICK d \in Nat, e \in Nat : d = Depth /\ e = Depth'
    BY <1>1
  <2>4. OpenBy(written, d) => OpenBy(Append(written, x), e)
    BY <1>3, <2>1, <2>2, <2>3, OpenGrows
  <2>5. OpenBy(written, Depth) => OpenBy(written, Depth)'
    BY <1>3, <2>3, <2>4 DEF OpenBy, Openings, Endings
  <2> QED
    BY <2>1, <2>5 DEF DepthInv
<1> QED
  BY <1>2, <1>3 DEF Writes

ConfigInv ==
    /\ ConfigTypes /\ ControlInv /\ LiveInv /\ UnwindInv /\ MoreInv
    /\ SyncInv /\ ItemsInv /\ DepthInv /\ CallbacksBracketed

LEMMA StaysOpen ==
    ASSUME ItemsInv, DepthInv, written' = written, Depth' = Depth,
           stage = "running", stage' \in {"running", "dead"}, odd \subseteq odd'
    PROVE  ItemsInv' /\ DepthInv'
<1>1. PICK d : d = Depth /\ d = Depth'
  OBVIOUS
<1>2. OpenBy(written, d) => OpenBy(written, d)'
  BY DEF OpenBy, Openings, Endings
<1>3. OpenBy(written, Depth) => OpenBy(written, Depth)'
  BY <1>1, <1>2 DEF OpenBy
<1> QED
  BY <1>3 DEF ItemsInv, DepthInv

LEMMA OutputStep ==
    ASSUME ConfigInv, GenerateOutput
    PROVE  ConfigInv'
<1>1. /\ Outcome /\ stage = "running" /\ within' = FALSE
      /\ UNCHANGED <<user, saved, owed, sessions, troubles, tokens, more>>
  BY OutputWell DEF ConfigInv
<1>2. /\ rci \in ParserTypes /\ Busy(rci) /\ rci.parser = "output"
  BY DEF ConfigInv, ConfigTypes, GenerateOutput, ParserStep, Busy, ParserTypes
<1>3. NotMore
  <2>1. CASE room > 0
    BY <1>2, <2>1, ItemNotMore DEF GenerateOutput
  <2>2. CASE ~(room > 0)
    BY <1>2, <2>2, SendsOrStays DEF GenerateOutput, Busy, Onward
  <2> QED
    BY <2>1, <2>2
<1>4. ConfigTypes'
  BY <1>1 DEF ConfigInv, ConfigTypes, Outcome
<1>5. ControlInv' /\ LiveInv' /\ MoreInv'
  BY <1>1, <1>3 DEF Outcome, MoreInv, NotMore
<1>6. CASE stage' = "running"
  <2>1. rci'.unwind = "error" /\ Writes /\ (SamePlace \/ NextCommand)
        /\ odd \subseteq odd'
    BY <1>1, <1>6 DEF Outcome
  <2>2. UnwindInv' /\ CallbacksBracketed'
    BY <1>6, <2>1 DEF UnwindInv, CallbacksBracketed
  <2>3. SyncInv'
    BY <1>1, <2>1, SyncKept DEF ConfigInv
  <2>4. ItemsInv' /\ DepthInv'
    BY <1>1, <1>6, <2>1, WritesWell DEF ConfigInv
  <2> QED
    BY <1>4, <1>5, <2>2, <2>3, <2>4 DEF ConfigInv
<1>7. CASE stage' = "sending"
  <2>1. written' = written /\ Depth = 0 /\ odd \subseteq odd'
    BY <1>1, <1>7 DEF Outcome
  <2>2. UnwindInv' /\ CallbacksBracketed' /\ SyncInv'
    BY <1>7 DEF UnwindInv, CallbacksBracketed, SyncInv
  <2>3. OpenBy(written, 0) => OpenBy(written, 0)'
    BY <2>1 DEF OpenBy, Openings, Endings
  <2>4. ItemsInv' /\ DepthInv'
    BY <1>1, <1>7, <2>1, <2>3 DEF ConfigInv, ItemsInv, DepthInv
  <2> QED
    BY <1>4, <1>5, <2>2, <2>4 DEF ConfigInv
<1>8. CASE stage' = "dead"
  <2>1. written' = written /\ "beyond" \in odd'
    BY <1>1, <1>8 DEF Outcome
  <2>2. UnwindInv' /\ CallbacksBracketed' /\ SyncInv' /\ ItemsInv' /\ DepthInv'
    BY <1>8, <2>1 DEF ConfigInv, UnwindInv, CallbacksBracketed, SyncInv,
       ItemsInv, DepthInv
  <2> QED
    BY <1>4, <1>5, <2>2 DEF ConfigInv
<1> QED
  BY <1>1, <1>6, <1>7, <1>8 DEF Outcome

LEMMA ErrorStep ==
    ASSUME ConfigInv, GenerateError
    PROVE  ConfigInv'
<1>1. /\ stage = "running" /\ rci.parser = "error" /\ within' = FALSE
      /\ UNCHANGED <<user, saved, owed, sessions, troubles, tokens, more>>
      /\ rci \in ParserTypes /\ Busy(rci) /\ rci.last # "none"
      /\ room \in 0 .. PacketRoom
  BY DEF GenerateError, ParserStep, ConfigInv, ConfigTypes, Busy, ParserTypes,
     ControlInv
<1>2. ErrorOutcome
  BY ErrorWell DEF ConfigInv
<1>3. NotMore
  BY <1>1, ErrorNotMore
<1>4. ConfigTypes'
  BY <1>1, <1>2 DEF ConfigInv, ConfigTypes, ErrorOutcome
<1>5. ControlInv' /\ LiveInv' /\ MoreInv' /\ odd \subseteq odd'
  BY <1>2, <1>3 DEF ErrorOutcome, MoreInv, NotMore
<1>6. CASE stage' = "running"
  <2>1. /\ rci'.parser = "error" /\ SamePlace
        /\ \/ Writes
           \/ "second" \in odd' /\ \E x \in Items : written' = Append(written, x)
    BY <1>2, <1>6 DEF ErrorOutcome
  <2>2. UnwindInv' /\ CallbacksBracketed'
    BY <1>6, <2>1 DEF UnwindInv, CallbacksBracketed
  <2>3. SyncInv'
    BY <1>1, <2>1, SyncKept DEF ConfigInv
  <2>4. ASSUME Writes
        PROVE  ItemsInv' /\ DepthInv'
    BY <1>1, <1>5, <1>6, <2>4, WritesWell DEF ConfigInv
  <2>5. ASSUME "second" \in odd',
               \E x \in Items : written' = Append(written, x)
        PROVE  ItemsInv' /\ DepthInv'
    BY <2>5 DEF ConfigInv, ItemsInv, DepthInv
  <2>6. ItemsInv' /\ DepthInv'
    BY <2>1, <2>4, <2>5
  <2> QED
    BY <1>4, <1>5, <2>2, <2>3, <2>6 DEF ConfigInv
<1>7. CASE stage' = "sending"
  <2>1. written' = written /\ Depth = 0
    BY <1>2, <1>7 DEF ErrorOutcome
  <2>2. UnwindInv' /\ CallbacksBracketed' /\ SyncInv'
    BY <1>7 DEF UnwindInv, CallbacksBracketed, SyncInv
  <2>3. OpenBy(written, 0) => OpenBy(written, 0)'
    BY <2>1 DEF OpenBy, Openings, Endings
  <2>4. ItemsInv' /\ DepthInv'
    BY <1>1, <1>5, <1>7, <2>1, <2>3 DEF ConfigInv, ItemsInv, DepthInv
  <2> QED
    BY <1>4, <1>5, <2>2, <2>4 DEF ConfigInv
<1> QED
  BY <1>2, <1>6, <1>7 DEF ErrorOutcome

LEMMA TraverseStep ==
    ASSUME ConfigInv, TraverseData
    PROVE  ConfigInv'
<1>1. /\ stage = "running" /\ stage' = "running" /\ rci.parser = "traverse"
      /\ UNCHANGED <<owed, tokens, more, written, odd>>
      /\ rci \in ParserTypes /\ Busy(rci)
  BY DEF TraverseData, ParserStep, ConfigInv, ConfigTypes, Busy, ParserTypes
<1>2. ConfigTypes' /\ Traversed /\ rci'.unwind = rci.unwind
  BY TraverseWell DEF ConfigInv
<1>3. NotMore
  BY <1>1, TraverseNotMore
<1>4. UnwindInv' /\ MoreInv' /\ CallbacksBracketed'
  BY <1>1, <1>2, <1>3 DEF ConfigInv, UnwindInv, MoreInv, NotMore,
     CallbacksBracketed
<1>5. SyncInv'
  BY <1>1, <1>2, SyncKept DEF ConfigInv, Traversed
<1>6. ItemsInv' /\ DepthInv'
  BY <1>1, <1>2, StaysOpen DEF ConfigInv, Traversed
<1> QED
  BY <1>2, <1>4, <1>5, <1>6 DEF ConfigInv, Traversed

LEMMA PacketStep ==
    ASSUME ConfigInv, MoreInput \/ FlushOutput
    PROVE  ConfigInv'
<1>1. /\ stage = "running" /\ stage' = "running"
      /\ UNCHANGED <<owed, written, odd>>
      /\ rci' = [rci EXCEPT !.status = "busy"] /\ rci \in ParserTypes
  BY DEF MoreInput, FlushOutput, ConfigInv, ConfigTypes
<1>2. ConfigTypes' /\ ControlInv' /\ LiveInv' /\ Depth' = Depth
      /\ Alike /\ SamePlace
  BY MoreWell, FlushWell DEF ConfigInv
<1>3. rci'.status = "busy"
  BY <1>1 DEF ParserTypes
<1>4. UnwindInv' /\ MoreInv' /\ CallbacksBracketed'
  BY <1>1, <1>2, <1>3 DEF ConfigInv, UnwindInv, MoreInv, CallbacksBracketed,
     Alike
<1>5. SyncInv'
  <2>1. CASE MoreInput
    BY <1>2, <2>1, MoreSync DEF ConfigInv
  <2>2. CASE FlushOutput
    BY <1>1, <1>2, <2>2, SyncKept DEF ConfigInv, FlushOutput
  <2> QED
    BY <2>1, <2>2
<1>6. ItemsInv' /\ DepthInv'
  BY <1>1, <1>2, StaysOpen DEF ConfigInv
<1> QED
  BY <1>2, <1>4, <1>5, <1>6 DEF ConfigInv

LEMMA InputStep ==
    ASSUME ConfigInv, ParseInput
    PROVE  ConfigInv'
<1>1. /\ ConfigTypes' /\ ControlInv' /\ LiveInv' /\ SyncInv'
      /\ Depth' = Depth /\ UnwindInv' /\ MoreInv'
      /\ stage = "running" /\ stage' = "running" /\ written' = written
      /\ odd \subseteq odd' /\ odd' \subseteq odd \cup {"sticky"}
  BY InputWell DEF ConfigInv
<1>2. ItemsInv' /\ DepthInv'
  BY <1>1, StaysOpen DEF ConfigInv
<1>3. CallbacksBracketed'
  BY <1>1 DEF CallbacksBracketed
<1> QED
  BY <1>1, <1>2, <1>3 DEF ConfigInv

LEMMA CallbackStep ==
    ASSUME ConfigInv, RciCallback
    PROVE  ConfigInv'
<1>1. ConfigTypes' /\ ControlInv' /\ LiveInv'
  BY CallbackControl DEF ConfigInv
<1>2. /\ stage = "running" /\ UNCHANGED <<tokens, more, written, owed>>
      /\ Depth' = Depth /\ SamePlace
      /\ rci'.unwind = rci.unwind /\ rci'.parser = rci.parser
      /\ odd \subseteq odd' /\ stage' \in {"running", "dead"}
      /\ stage' = "dead" => "memory" \in odd'
  BY CallbackPlace DEF ConfigInv
<1>3. UnwindInv' /\ CallbacksBracketed'
  BY <1>2 DEF ConfigInv, UnwindInv, CallbacksBracketed
<1>4. ItemsInv' /\ DepthInv'
  BY <1>2, StaysOpen DEF ConfigInv
<1>5. SyncInv'
  BY <1>2, SyncKept DEF ConfigInv
<1>6. MoreInv'
  <2>1. rci.status = "busy" /\ rci \in ParserTypes
    BY DEF RciCallback, ConfigInv, ConfigTypes
  <2>2. Busy(rci)
    BY <2>1 DEF Busy, ParserTypes
  <2>3. NotMore
    BY <2>1, <2>2 DEF RciCallback, AppSessionStart, AppSessionEnd, AppAction,
       AppGroupStart, AppAsserts, AppProcess, AppGroupEnd, Returns, NotMore, Busy
  <2> QED
    BY <2>3 DEF MoreInv, NotMore
<1> QED
  BY <1>1, <1>3, <1>4, <1>5, <1>6 DEF ConfigInv

LEMMA BeginStep ==
    ASSUME ConfigInv, NEW wish \in RciRequests, NEW split \in BOOLEAN,
           NEW spare \in Rooms, BeginSession(wish, split, spare)
    PROVE  ConfigInv'
<1>1. /\ ConfigTypes' /\ ControlInv' /\ LiveInv' /\ SyncInv'
      /\ UnwindInv' /\ MoreInv' /\ Depth' = 0 /\ written' = <<>>
      /\ stage' = "running"
  BY BeginWellTyped DEF ConfigInv
<1>2. OpenBy(written, 0)' /\ ItemsInv'
  BY <1>1, EmptyOpen DEF OpenBy, Openings, Endings, ItemsInv
<1>3. DepthInv' /\ CallbacksBracketed'
  <2>1. OpenBy(written, Depth)'
    BY <1>1, <1>2 DEF OpenBy
  <2> QED
    BY <1>1, <2>1 DEF DepthInv, CallbacksBracketed
<1> QED
  BY <1>1, <1>2, <1>3 DEF ConfigInv

LEMMA LastSteps ==
    ASSUME ConfigInv, ResponseSent \/ RciLost
    PROVE  ConfigInv'
<1>1. /\ tokens' = <<>> /\ more' = <<>> /\ written' = <<>>
      /\ room' = PacketRoom /\ UNCHANGED <<within, saved, sessions>>
  BY DEF ResponseSent, RciLost, Forgets
<1>2. rci' \in ParserTypes
  <2>1. "complete" \in Statuses
    BY DEF Statuses
  <2>2. rci \in ParserTypes
    BY DEF ConfigInv, ConfigTypes
  <2>3. CASE ResponseSent
    BY <2>2, <2>3 DEF ResponseSent
  <2>4. CASE RciLost
    BY <2>1, <2>2, <2>4 DEF RciLost, ParserTypes
  <2> QED
    BY <2>3, <2>4
<1>3. /\ stage' = "none"
         \/ (stage' = "dead" /\ (odd' = {"late"} \/ odd' = {"lost"}))
      /\ odd' = {} \/ odd' = {"late"} \/ odd' = {"lost"}
  BY DEF ResponseSent, RciLost
<1>4. /\ user' = user \/ user' = NoSession
      /\ troubles' = troubles \/ (troubles < MaxTrouble
                                  /\ troubles' = troubles + 1)
  BY DEF ResponseSent, RciLost
<1>5. troubles' \in 0 .. MaxTrouble
  BY <1>4, RciAssumption DEF ConfigInv, ConfigTypes
<1>6. ConfigTypes'
  <2>1. /\ user'.context \in {"none", "live"}
        /\ user'.group \in {"none", "live", "freed"}
        /\ user' = [context |-> user'.context, group |-> user'.group,
                    copy |-> user'.copy]
    BY <1>4 DEF ConfigInv, ConfigTypes, NoSession
  <2>2. /\ tokens' \in Seq(Tokens) /\ more' \in Seq(Tokens)
        /\ room' \in 0 .. PacketRoom
    BY <1>1, RciAssumption
  <2>3. /\ stage' \in {"none", "running", "sending", "dead"}
        /\ odd' \subseteq {"sticky", "second", "stuck", "full", "beyond",
                           "stale", "memory", "lost", "late"}
    BY <1>3
  <2>4. /\ saved' \in [Settings -> Values] /\ within' \in BOOLEAN
        /\ sessions' \in 0 .. RciSessions
    BY <1>1 DEF ConfigInv, ConfigTypes
  <2> QED
    BY <1>2, <1>5, <2>1, <2>2, <2>3, <2>4 DEF ConfigTypes
<1>7. /\ ControlInv' /\ LiveInv' /\ UnwindInv' /\ MoreInv' /\ SyncInv'
      /\ DepthInv' /\ CallbacksBracketed'
  BY <1>3 DEF ControlInv, LiveInv, UnwindInv, MoreInv, SyncInv, DepthInv,
     CallbacksBracketed
<1>8. ItemsInv'
  BY <1>1 DEF ItemsInv
<1> QED
  BY <1>6, <1>7, <1>8 DEF ConfigInv

LEMMA ConfigStarts ==
    ASSUME RciInit
    PROVE  ConfigInv
<1>1. Parser \in ParserTypes
  BY DEF Parser, ParserTypes, Statuses, Parsers, Inputs, OutputStates, Traversals,
     Stages, Calls, Values
<1>2. ConfigTypes
  <2>1. saved \in [Settings -> Values]
    BY DEF RciInit, Values
  <2>2. PacketRoom \in 0 .. PacketRoom /\ 0 \in 0 .. RciSessions
        /\ 0 \in 0 .. MaxTrouble
    BY RciAssumption
  <2>3. /\ rci = Parser /\ within = FALSE /\ tokens = <<>> /\ more = <<>>
        /\ room = PacketRoom /\ user = NoSession /\ stage = "none"
        /\ sessions = 0 /\ troubles = 0 /\ odd = {}
    BY DEF RciInit
  <2>4. tokens \in Seq(Tokens) /\ more \in Seq(Tokens)
    BY <2>3
  <2>5. /\ user.context \in {"none", "live"}
        /\ user.group \in {"none", "live", "freed"}
        /\ user = [context |-> user.context, group |-> user.group,
                   copy |-> user.copy]
    BY <2>3 DEF NoSession
  <2> QED
    BY <1>1, <2>1, <2>2, <2>3, <2>4, <2>5 DEF ConfigTypes
<1>3. ItemsInv
  BY DEF RciInit, ItemsInv
<1> QED
  BY <1>2, <1>3 DEF RciInit, ConfigInv, ControlInv, LiveInv, UnwindInv, MoreInv,
     SyncInv, DepthInv, CallbacksBracketed

LEMMA ConfigSteps ==
    ASSUME ConfigInv, [RciNext]_rciVars
    PROVE  ConfigInv'
<1>1. CASE \E wish \in RciRequests, split \in BOOLEAN, spare \in Rooms :
               BeginSession(wish, split, spare)
  BY <1>1, BeginStep
<1>2. CASE RciCallback
  BY <1>2, CallbackStep
<1>3. CASE ParseInput
  BY <1>3, InputStep
<1>4. CASE MoreInput \/ FlushOutput
  BY <1>4, PacketStep
<1>5. CASE TraverseData
  BY <1>5, TraverseStep
<1>6. CASE GenerateOutput
  BY <1>6, OutputStep
<1>7. CASE GenerateError
  BY <1>7, ErrorStep
<1>8. CASE ResponseSent \/ RciLost
  BY <1>8, LastSteps
<1>9. CASE UNCHANGED rciVars
  <2>1. /\ Depth' = Depth /\ UNCHANGED <<rci, tokens, more, written, owed,
                                          stage, odd, user>>
    BY <1>9 DEF rciVars, Depth, InsideGroup, Between
  <2>2. ConfigTypes'
    BY <1>9 DEF rciVars, ConfigInv, ConfigTypes
  <2>3. ControlInv'
    BY <2>1 DEF ConfigInv, ControlInv, AtInput, AtTraverse, AtOutput, CallRefused,
       Outside, Between, InsideGroup, Steady, GoesOnInside, GoesOnBetween, InGroup,
       OfGroup, HasValue, NoElement
  <2>4. LiveInv'
    BY <2>1 DEF ConfigInv, LiveInv, InsideGroup, InGroup
  <2>5. UnwindInv' /\ MoreInv' /\ ItemsInv' /\ CallbacksBracketed'
    BY <2>1 DEF ConfigInv, UnwindInv, MoreInv, ItemsInv, CallbacksBracketed
  <2>6. OwedTokens' = OwedTokens /\ HaveRead' = HaveRead /\ Place' = Place
        /\ Doomed' = Doomed /\ Expected' = Expected
    BY <2>1 DEF OwedTokens, HaveRead, Place, Doomed, CallRefused, Expected
  <2>7. SyncInv'
    BY <2>1, <2>6 DEF ConfigInv, SyncInv, Expects
  <2>8. DepthInv'
    BY <2>1 DEF ConfigInv, DepthInv, OpenBy, Openings, Endings
  <2> QED
    BY <2>2, <2>3, <2>4, <2>5, <2>7, <2>8 DEF ConfigInv
<1> QED
  BY <1>1, <1>2, <1>3, <1>4, <1>5, <1>6, <1>7, <1>8, <1>9 DEF RciNext, RciWork

LEMMA ConfigHolds == RciSpec => []ConfigInv
<1>1. RciInit => ConfigInv
  BY ConfigStarts
<1>2. ConfigInv /\ [RciNext]_rciVars => ConfigInv'
  BY ConfigSteps
<1> QED
  BY <1>1, <1>2, PTL DEF RciSpec

LEMMA ConfigTypesHold == ConfigInv => RciTypeOK
<1> SUFFICES ASSUME ConfigInv
             PROVE  RciTypeOK
  OBVIOUS
<1>1. rci \in ParserTypes
  BY DEF ConfigInv, ConfigTypes
<1>2. /\ rci.status \in {"busy", "more", "flush", "complete"}
      /\ rci.parser \in {"input", "output", "traverse", "error"}
      /\ rci.input \in {"command", "group", "field", "done"}
      /\ rci.group \in Groups \cup {0}
      /\ rci.value \in Values \cup {"none"}
      /\ rci.half \in {"none", "this", "earlier"}
      /\ rci.failed \in BOOLEAN /\ rci.all \in BOOLEAN
  BY <1>1, ParserFields
<1> QED
  BY <1>2 DEF ConfigInv, ConfigTypes, RciTypeOK

\* Remote configuration keeps to its types.
THEOREM ConfigTypeCorrect == RciSpec => []RciTypeOK
BY ConfigTypesHold, ConfigHolds, PTL

LEMMA ConfigBrackets == ConfigInv => Bracketed
<1>1. ConfigInv => ResponseBalanced
  <2>1. ASSUME ConfigInv, stage = "sending", odd \subseteq {"memory"}
        PROVE  /\ Openings(written, Len(written)) = Endings(written, Len(written))
               /\ \A n \in DOMAIN written :
                      Endings(written, n) <= Openings(written, n)
    <3>1. OpenBy(written, 0)
      BY <2>1 DEF ConfigInv, DepthInv
    <3>2. written \in Seq(Items)
      BY <2>1 DEF ConfigInv, ItemsInv
    <3>3. Endings(written, Len(written)) \in Nat
      BY <3>2, CountsGrow
    <3> QED
      BY <3>1, <3>3 DEF OpenBy
  <2> QED
    BY <2>1 DEF ResponseBalanced, Openings, Endings
<1>2. ConfigInv => CallbacksBracketed
  BY DEF ConfigInv
<1> QED
  BY <1>1, <1>2 DEF Bracketed

\* The response has an end for each command and group that it begins, and the
\* callbacks of rci_callback come in brackets, whatever fails in a session
\* (rci_traverse_data, rci_generate_output, rci_generate_error).
THEOREM ConfigIsBracketed == RciSpec => []Bracketed
BY ConfigBrackets, ConfigHolds, PTL
=============================================================================
