----------------------------- MODULE ConfigAnswers -----------------------------
(***************************************************************************)
(* Remote configuration answers what it was asked: proofs about            *)
(* RemoteConfig that rest on those of ConfigProofs, and are as general.    *)
(*                                                                         *)
(* For each place the parser can be in, Stand says how much of the request *)
(* was read, of the answer written and of the settings saved, and which    *)
(* command, group, instance and field are at hand (AnswerInv).  Requests   *)
(* and answers are sequences of sequences, told as one; lemmas say where a *)
(* part of them begins, by induction over the parts before it.             *)
(***************************************************************************)
EXTENDS ConfigProofs, SequenceTheorems, WellFoundedInduction

\* The sequences before the n-th one and it, in one.
Flats(seqs) ==
    LET upTo[n \in 0 .. Len(seqs)] ==
            IF n = 0 THEN <<>> ELSE upTo[n - 1] \o seqs[n]
    IN upTo

\* Of what is owed: the c-th command of the request, the settings before it,
\* and its k-th group.
Asked(o, c) == o.request[c]
SavedAt(o, c) == Settled(o.request, o.before)[c - 1]
Wish(o, c, k) == Asked(o, c).groups[k]
Number(o, c) == Len(Asked(o, c).groups)

\* The settings when m of its groups have been set.
SavedTo(o, c, m) ==
    [s \in Settings |->
        IF Asked(o, c).do = "set" /\ \E k \in 1 .. m : Sets(Wish(o, c, k), s)
        THEN "new" ELSE SavedAt(o, c)[s]]

\* How much was read: c - 1 commands, and k - 1 of the groups of a command.
CommandTokens(o) == [j \in DOMAIN o.request |-> TokensOf(o.request[j])]
CommandsRead(o, c) == Len(Flats(CommandTokens(o))[c - 1])
WishTokens(o, c) ==
    [j \in DOMAIN Asked(o, c).groups |->
        GroupTokens(Asked(o, c).do, Asked(o, c).groups[j])]
GroupsRead(o, c, k) ==
    CommandsRead(o, c) + 1 + Len(Flats(WishTokens(o, c))[k - 1])

\* What was written: the answers to c - 1 commands, and k - 1 of the parts of
\* one, which are the groups asked for, or all.
AnswersOf(o) ==
    [c \in DOMAIN o.request |-> AnswerTo(o.request[c], SavedAt(o, c))]
ToldUpTo(o, c) == Flats(AnswersOf(o))[c - 1]
CommandOpened(o, c) == Append(ToldUpTo(o, c), <<"command", Asked(o, c).do>>)
AnswerParts(o, c) ==
    IF Asked(o, c).groups = <<>>
    THEN [g \in Groups |-> AllOf(Asked(o, c).do, g, SavedAt(o, c))]
    ELSE [k \in DOMAIN Asked(o, c).groups |->
             GroupAnswer(Asked(o, c).do, Asked(o, c).groups[k], SavedAt(o, c))]
PartsTold(o, c, k) == CommandOpened(o, c) \o Flats(AnswerParts(o, c))[k - 1]

\* The instances of a group, and the fields of one.
Instants(o, c, g) ==
    [i \in 1 .. Instances[g] |->
        Part(Asked(o, c).do, g, i, AllFields(g), SavedAt(o, c))]
InstancesTold(o, c, g, start, i) == start \o Flats(Instants(o, c, g))[i - 1]
FieldAnswers(o, c, g, i, fields) ==
    [n \in DOMAIN fields |->
        FieldAnswer(Asked(o, c).do, g, i, fields[n], SavedAt(o, c))]
Spelled(o, c, g, i, fields, start, n) ==
    (start \o Heading(g, i)) \o Flats(FieldAnswers(o, c, g, i, fields))[n]

\* Whether the parser is about to traverse so, or to write that.
Walks(t) == rci.parser = "traverse" /\ rci.traverse = t
Utters(s) == rci.parser = "output" /\ rci.output = s

\* The command at work, and the group at hand.
OfCommand(c) ==
    c \in 1 .. Len(owed.request) /\ rci.action = Asked(owed, c).do
OfWish(c, k) ==
    /\ OfCommand(c) /\ k \in 1 .. Number(owed, c)
    /\ rci.group = Wish(owed, c, k).id

\* The fields that the cloud named, after the answer so far.
Named(c, k, n, start, fields) ==
    /\ rci.input = "field" /\ OfWish(c, k)
    /\ rci.traverse \in {"none", "group", "element"}
    /\ rci.index = Instance(Wish(owed, c, k))
    /\ HaveRead = GroupsRead(owed, c, k) + 1 + n
    /\ rci.all => Wish(owed, c, k).index = 0
    /\ rci.all \/ Wish(owed, c, k).index # 0 \/ Instances[rci.group] = 1
    /\ start = PartsTold(owed, c, k) /\ fields = Wish(owed, c, k).fields

\* It named none: all fields, of one instance or of all instances.
OfOne(c, k, start) ==
    /\ OfWish(c, k) /\ Wish(owed, c, k).fields = <<>>
    /\ rci.input = "group" /\ HaveRead = GroupsRead(owed, c, k + 1)
    /\ rci.index = Instance(Wish(owed, c, k))
    /\ Wish(owed, c, k).index # 0 \/ Instances[rci.group] = 1
    /\ start = PartsTold(owed, c, k)
OfAll(c, k, start) ==
    /\ OfWish(c, k) /\ Wish(owed, c, k).fields = <<>>
    /\ rci.input = "group" /\ HaveRead = GroupsRead(owed, c, k + 1)
    /\ rci.traverse = "all_instances" /\ Wish(owed, c, k).index = 0
    /\ rci.index \in 1 .. Instances[rci.group]
    /\ start = InstancesTold(owed, c, rci.group, PartsTold(owed, c, k),
                             rci.index)

\* It named no group: all fields of all instances of all groups.
OfEvery(c, start) ==
    /\ OfCommand(c) /\ Number(owed, c) = 0 /\ rci.traverse = "all_groups"
    /\ HaveRead = CommandsRead(owed, c + 1) /\ rci.group \in Groups
    /\ rci.index \in 1 .. Instances[rci.group]
    /\ start = InstancesTold(owed, c, rci.group,
                             PartsTold(owed, c, rci.group), rci.index)

Scope(c, k, n, start, fields) ==
    \/ Named(c, k, n, start, fields)
    \/ /\ fields = AllFields(rci.group) /\ Asked(owed, c).do = "query"
       /\ \/ OfOne(c, k, start) /\ rci.traverse = "all_elements"
          \/ OfAll(c, k, start) /\ rci.process # "instance"
          \/ OfEvery(c, start) /\ rci.process = "element"

\* A password is not told.
Hidden(f) == rci.action = "query" /\ Kinds[rci.group][f] = "password"

\* Of the instance at hand n fields were taken up: the last one is written
\* from its callback on.
SpelledTo(c, start, fields, n) ==
    Spelled(owed, c, rci.group, rci.index, fields, start, n)
Spelling(c, start, fields, n) ==
    /\ n \in 0 .. Len(fields)
    /\ rci.element = IF n = 0 THEN 0 ELSE fields[n]
    /\ \/ /\ n = 0 /\ (Walks("group") \/ Utters("group"))
          /\ written = start
       \/ /\ n = 0 /\ Utters("attribute")
          /\ written = Append(start, <<"group", rci.group>>)
       \/ /\ n # 0 /\ (Walks("element") \/ Utters("field"))
          /\ written = SpelledTo(c, start, fields, n - 1)
       \/ /\ n # 0 /\ Utters("value")
          /\ written = Append(SpelledTo(c, start, fields, n - 1),
                              <<"field", rci.element>>)
       \/ /\ rci.parser \in {"input", "traverse"}
          /\ rci.traverse \notin {"group", "element"}
          /\ written = SpelledTo(c, start, fields, n)
    /\ Utters("field") \/ Utters("value") => ~Hidden(rci.element)

\* A query tells the values of a copy of the settings.
Reading(c) ==
    /\ Asked(owed, c).do = "query" /\ saved = SavedAt(owed, c)
    /\ InsideGroup /\ rci.calling # "group_start" =>
                user.copy = [f \in Fields(rci.group) |->
                                SavedAt(owed, c)[<<rci.group, rci.index, f>>]]
    /\ (Utters("field") \/ Utters("value")) /\ rci.calling = "none" =>
           rci.value = SavedAt(owed, c)[<<rci.group, rci.index, rci.element>>]

\* A set changes in the copy the fields that were taken up, but for one that
\* the callback has still to take.
Pending == rci.calling = "process" \/ Walks("element")
Changed(c, k, n) ==
    [f \in Fields(rci.group) |->
        IF \E m \in 1 .. n : Wish(owed, c, k).fields[m] = f
        THEN Wish(owed, c, k).value
        ELSE SavedTo(owed, c, k - 1)[<<rci.group, rci.index, f>>]]
Setting(c, k, n) ==
    /\ Asked(owed, c).do = "set" /\ saved = SavedTo(owed, c, k - 1)
    /\ rci.calling # "group_start" /\ ~Walks("group") =>
           user.copy = Changed(c, k, IF Pending THEN n - 1 ELSE n)
    /\ Pending => rci.value = Wish(owed, c, k).value

Amid(c, k, n, start, fields) ==
    /\ Scope(c, k, n, start, fields) /\ Spelling(c, start, fields, n)
    /\ Reading(c) \/ (rci.input = "field" /\ Setting(c, k, n))

\* The fields came; the end of the instance is to be written.
Ending(c, k, start, fields) ==
    /\ \/ /\ OfWish(c, k) /\ rci.input = "group"
          /\ HaveRead = GroupsRead(owed, c, k + 1)
          /\ rci.index = Instance(Wish(owed, c, k))
          /\ Wish(owed, c, k).fields = <<>> =>
                 /\ Asked(owed, c).do = "query"
                 /\ Wish(owed, c, k).index # 0 \/ Instances[rci.group] = 1
          /\ Walks("element_end")
             \/ (rci.traverse = "none" /\ Utters("field_end"))
          /\ start = PartsTold(owed, c, k) /\ fields = FieldsOf(Wish(owed, c, k))
       \/ /\ fields = AllFields(rci.group) /\ Asked(owed, c).do = "query"
          /\ Utters("field_end")
          /\ \/ OfAll(c, k, start) /\ rci.process = "instance"
             \/ OfEvery(c, start) /\ rci.process # "element"
    /\ written = SpelledTo(c, start, fields, Len(fields))
    /\ IF rci.calling = "none" /\ rci.parser = "output"
       THEN saved = SavedTo(owed, c, k)
       ELSE Reading(c) \/ Setting(c, k, Len(fields))

\* Between two commands, two groups, or two instances.
AtCommand(c) ==
    /\ rci.parser = "input" /\ rci.input = "command"
    /\ c \in 1 .. Len(owed.request) + 1
    /\ HaveRead = CommandsRead(owed, c)
    /\ written = ToldUpTo(owed, c) /\ saved = SavedAt(owed, c)
CommandCame(c) ==
    /\ Walks("command") \/ Utters("command")
    /\ OfCommand(c) /\ rci.group = 0
    /\ HaveRead = CommandsRead(owed, c) + 1
    /\ written = ToldUpTo(owed, c) /\ saved = SavedAt(owed, c)
AtGroup(c, k) ==
    /\ rci.input = "group" /\ rci.traverse = "none"
    /\ rci.parser \in {"input", "traverse"}
    /\ OfCommand(c) /\ k \in 1 .. Number(owed, c) + 1
    /\ rci.group = 0 <=> k = 1
    /\ HaveRead = GroupsRead(owed, c, k)
    /\ written = PartsTold(owed, c, k) /\ saved = SavedTo(owed, c, k - 1)
NextInstance(c, k, start) ==
    /\ OfAll(c, k, start) /\ rci.process = "instance"
    /\ rci.parser = "traverse" /\ Asked(owed, c).do = "query"
    /\ saved = SavedAt(owed, c)
    /\ written = InstancesTold(owed, c, rci.group, PartsTold(owed, c, k),
                               rci.index + 1)
NextGroup(c, start) ==
    /\ OfCommand(c) /\ Number(owed, c) = 0 /\ rci.traverse = "all_groups"
    /\ HaveRead = CommandsRead(owed, c + 1)
    /\ rci.process # "element" /\ rci.parser = "traverse"
    /\ Asked(owed, c).do = "query" /\ saved = SavedAt(owed, c)
    /\ IF rci.group = 0 THEN written = CommandOpened(owed, c)
       ELSE /\ OfEvery(c, start)
            /\ written = InstancesTold(owed, c, rci.group,
                               PartsTold(owed, c, rci.group), rci.index + 1)

\* All is written but the end of the command; and that too.
CommandCloses(c) ==
    /\ OfCommand(c) /\ rci.traverse \in {"none", "group_end"}
    /\ Walks("group_end") \/ Utters("group_end")
    /\ HaveRead = CommandsRead(owed, c + 1)
    /\ Append(written, End) = ToldUpTo(owed, c + 1)
    /\ saved = SavedAt(owed, c + 1)
CommandClosed(c) ==
    /\ Utters("response_done") /\ c \in 1 .. Len(owed.request) + 1
    /\ HaveRead = CommandsRead(owed, c)
    /\ written = ToldUpTo(owed, c) /\ saved = SavedAt(owed, c)

AllTold ==
    /\ written = ToldUpTo(owed, Len(owed.request) + 1)
    /\ saved = SavedAt(owed, Len(owed.request) + 1)

Stand ==
    \/ \E c \in Nat :
           AtCommand(c) \/ CommandCame(c) \/ CommandCloses(c) \/ CommandClosed(c)
    \/ \E c, k \in Nat : AtGroup(c, k)
    \/ \E c, k, n \in Nat : \E start, fields : Amid(c, k, n, start, fields)
    \/ \E c, k \in Nat : \E start, fields : Ending(c, k, start, fields)
    \/ \E c, k \in Nat : \E start :
           NextInstance(c, k, start) \/ NextGroup(c, start)
    \/ Utters("done") /\ AllTold

\* What ends in an error, or is left out of the property.
Trouble == odd # {} \/ HasError \/ CallRefused \/ rci.parser = "error"

AnswerInv ==
    /\ stage \in {"running", "sending"} =>
           owed.request \in RciRequests /\ owed.before \in [Settings -> Values]
    /\ stage = "running" /\ rci.unwind = "callback" => HasError
    /\ stage = "running" /\ ~Trouble => Stand
    /\ stage = "sending" /\ odd = {} /\ ~HasError => AllTold

-----------------------------------------------------------------------------
(* Induction over the natural numbers, as a fact about sets of them.       *)
Less == {d \in Nat \X Nat : d[1] < d[2]}

LEMMA LeastNumber ==
    ASSUME NEW T \in SUBSET Nat, T # {}
    PROVE  \E m \in T : \A k \in T : m <= k
<1>1. IsWellFoundedOn(Less, Nat)
  BY NatLessThanWellFounded DEF OpToRel, Less
<1>2. \E x \in T : \A y \in T : ~ (<<y, x>> \in Less)
  BY <1>1, WFMin
<1>3. PICK x \in T : \A y \in T : ~ (<<y, x>> \in Less)
  BY <1>2
<1>4. ASSUME NEW y \in T PROVE x <= y
  <2>1. x \in Nat /\ y \in Nat /\ ~ (<<y, x>> \in Less)
    BY <1>3
  <2>2. <<y, x>> \in Nat \X Nat /\ <<y, x>>[1] = y /\ <<y, x>>[2] = x
    BY <2>1
  <2>3. ~ (y < x)
    BY <2>1, <2>2 DEF Less
  <2> QED
    BY <2>1, <2>3
<1> QED
  BY <1>4

LEMMA SetInduction ==
    ASSUME NEW T, 0 \in T, \A n \in Nat : n \in T => n + 1 \in T
    PROVE  \A n \in Nat : n \in T
<1> SUFFICES ASSUME NEW u \in Nat, u \notin T PROVE FALSE
  OBVIOUS
<1>1. PICK m \in Nat \ T : \A k \in Nat \ T : m <= k
  BY LeastNumber
<1>2. m # 0 /\ m - 1 \in Nat
  BY <1>1
<1>3. m - 1 \in T
  BY <1>1, <1>2
<1> QED
  BY <1>1, <1>3

-----------------------------------------------------------------------------
(* Sequences of sequences, in one.                                         *)
LEMMA FlatsExist ==
    ASSUME NEW seqs, Len(seqs) \in Nat
    PROVE  Flats(seqs) =
               [n \in 0 .. Len(seqs) |->
                   IF n = 0 THEN <<>> ELSE Flats(seqs)[n - 1] \o seqs[n]]
<1> DEFINE T == {k \in Nat : \E g : g = [n \in 0 .. k |->
                   IF n = 0 THEN <<>> ELSE g[n - 1] \o seqs[n]]}
<1>1. 0 \in T
  <2> DEFINE g == [n \in 0 .. 0 |-> <<>>]
  <2>1. g = [n \in 0 .. 0 |-> IF n = 0 THEN <<>> ELSE g[n - 1] \o seqs[n]]
    OBVIOUS
  <2> HIDE DEF g
  <2> QED
    BY <2>1
<1>2. ASSUME NEW k \in Nat, k \in T PROVE k + 1 \in T
  <2>1. PICK g : g = [n \in 0 .. k |->
                   IF n = 0 THEN <<>> ELSE g[n - 1] \o seqs[n]]
    BY <1>2
  <2> DEFINE h == [n \in 0 .. k + 1 |->
                   IF n = 0 THEN <<>> ELSE g[n - 1] \o seqs[n]]
  <2>2. \A n \in 0 .. k : h[n] = g[n]
    BY <2>1
  <2>3. h = [n \in 0 .. k + 1 |->
                   IF n = 0 THEN <<>> ELSE h[n - 1] \o seqs[n]]
    <3>1. ASSUME NEW n \in 0 .. k + 1, n # 0 PROVE h[n - 1] = g[n - 1]
      <4>1. n - 1 \in 0 .. k
        BY <3>1
      <4> HIDE DEF h
      <4> QED
        BY <2>2, <4>1
    <3>2. \A n \in 0 .. k + 1 :
              (IF n = 0 THEN <<>> ELSE g[n - 1] \o seqs[n])
              = (IF n = 0 THEN <<>> ELSE h[n - 1] \o seqs[n])
      BY <3>1
    <3> QED
      BY <3>2
  <2> HIDE DEF h
  <2> QED
    BY <2>3
<1> HIDE DEF T
<1>3. Len(seqs) \in T
  BY <1>1, <1>2, SetInduction
<1>4. \E g : g = [n \in 0 .. Len(seqs) |->
                   IF n = 0 THEN <<>> ELSE g[n - 1] \o seqs[n]]
  BY <1>3 DEF T
<1> QED
  BY <1>4 DEF Flats

\* A sequence after another.
LEMMA Joining ==
    ASSUME NEW S, NEW s \in Seq(S), NEW t \in Seq(S)
    PROVE  /\ s \o t \in Seq(S) /\ Len(s) \in Nat /\ Len(t) \in Nat
           /\ Len(s \o t) = Len(s) + Len(t)
           /\ \A i \in 1 .. Len(s) : (s \o t)[i] = s[i]
           /\ \A i \in 1 .. Len(t) : (s \o t)[Len(s) + i] = t[i]
<1>1. /\ s \o t \in Seq(S) /\ Len(s \o t) = Len(s) + Len(t)
      /\ \A i \in 1 .. Len(s) + Len(t) :
             (s \o t)[i] = IF i <= Len(s) THEN s[i] ELSE t[i - Len(s)]
  BY ConcatProperties
<1>2. Len(s) \in Nat /\ Len(t) \in Nat
  OBVIOUS
<1> DEFINE w == s \o t
           n == Len(s)
           m == Len(t)
<1>3. /\ n \in Nat /\ m \in Nat
      /\ \A i \in 1 .. n + m : w[i] = IF i <= n THEN s[i] ELSE t[i - n]
  BY <1>1, <1>2
<1> HIDE DEF w, n, m
<1>4. \A i \in 1 .. n : w[i] = s[i]
  <2> SUFFICES ASSUME NEW i \in 1 .. n PROVE w[i] = s[i]
    OBVIOUS
  <2>1. i \in 1 .. n + m /\ i <= n
    BY <1>3
  <2> QED
    BY <1>3, <2>1
<1>5. \A i \in 1 .. m : w[n + i] = t[i]
  <2> SUFFICES ASSUME NEW i \in 1 .. m PROVE w[n + i] = t[i]
    OBVIOUS
  <2>1. n + i \in 1 .. n + m /\ ~ (n + i <= n) /\ (n + i) - n = i
    BY <1>3
  <2> QED
    BY <1>3, <2>1
<1> QED
  BY <1>1, <1>2, <1>4, <1>5 DEF w, n, m

LEMMA FlatsStep ==
    ASSUME NEW S, NEW seqs \in Seq(Seq(S))
    PROVE  /\ Len(seqs) \in Nat /\ Flats(seqs)[0] = <<>>
           /\ \A n \in 1 .. Len(seqs) :
                  Flats(seqs)[n] = Flats(seqs)[n - 1] \o seqs[n]
           /\ \A n \in 0 .. Len(seqs) : Flats(seqs)[n] \in Seq(S)
<1> DEFINE g == Flats(seqs)
           N == Len(seqs)
           Join(a, b) == a \o b
<1>1. N \in Nat /\ \A n \in 1 .. N : seqs[n] \in Seq(S)
  OBVIOUS
<1>2. g = [n \in 0 .. N |-> IF n = 0 THEN <<>> ELSE Join(g[n - 1], seqs[n])]
  BY <1>1, FlatsExist
<1> HIDE DEF g, N, Join
<1>3. g[0] = <<>> /\ \A n \in 1 .. N : g[n] = Join(g[n - 1], seqs[n])
  BY <1>1, <1>2
<1> DEFINE T == {n \in Nat : n <= N => g[n] \in Seq(S)}
<1>4. 0 \in T
  <2>1. g[0] \in Seq(S)
    BY <1>3
  <2> QED
    BY <2>1
<1>5. ASSUME NEW n \in Nat, n \in T PROVE n + 1 \in T
  <2> SUFFICES ASSUME n + 1 <= N PROVE g[n + 1] \in Seq(S)
    OBVIOUS
  <2>1. n + 1 \in 1 .. N /\ (n + 1) - 1 = n /\ n <= N
    BY <1>1
  <2>2. g[n] \in Seq(S) /\ seqs[n + 1] \in Seq(S)
    BY <1>1, <1>5, <2>1
  <2>3. g[n + 1] = g[n] \o seqs[n + 1]
    BY <1>3, <2>1 DEF Join
  <2> QED
    BY <2>2, <2>3, ConcatProperties
<1> HIDE DEF T
<1>6. \A n \in Nat : n \in T
  BY <1>4, <1>5, SetInduction
<1>7. \A n \in 0 .. N : g[n] \in Seq(S)
  BY <1>1, <1>6 DEF T
<1> QED
  BY <1>1, <1>3, <1>7 DEF g, N, Join

\* What FlattenSeq of the community modules computes.
LEMMA FlatIsFlats ==
    ASSUME NEW S, NEW seqs \in Seq(Seq(S))
    PROVE  Flat(seqs) = Flats(seqs)[Len(seqs)] /\ Flat(seqs) \in Seq(S)
<1>1. /\ Len(seqs) \in Nat /\ Flats(seqs)[0] = <<>>
      /\ \A n \in 1 .. Len(seqs) :
             Flats(seqs)[n] = Flats(seqs)[n - 1] \o seqs[n]
      /\ \A n \in 0 .. Len(seqs) : Flats(seqs)[n] \in Seq(S)
  BY FlatsStep
<1>2. CASE Len(seqs) = 0
  <2>1. seqs = <<>>
    BY <1>2
  <2> QED
    BY <1>1, <1>2, <2>1 DEF Flat, FlattenSeq
<1>3. CASE Len(seqs) # 0
  <2> DEFINE f == CHOOSE f : f = [i \in 1 .. Len(seqs) |->
                 IF i = 1 THEN seqs[i] ELSE f[i - 1] \o seqs[i]]
             w == [i \in 1 .. Len(seqs) |-> Flats(seqs)[i]]
  <2>1. \A i \in 1 .. Len(seqs) :
            w[i] = IF i = 1 THEN seqs[i] ELSE w[i - 1] \o seqs[i]
    <3> SUFFICES ASSUME NEW i \in 1 .. Len(seqs)
                 PROVE  w[i] = IF i = 1 THEN seqs[i] ELSE w[i - 1] \o seqs[i]
      OBVIOUS
    <3>1. w[i] = Flats(seqs)[i - 1] \o seqs[i] /\ seqs[i] \in Seq(S)
      <4>1. seqs[i] \in Seq(S)
        OBVIOUS
      <4>2. w[i] = Flats(seqs)[i]
        OBVIOUS
      <4> HIDE DEF w
      <4> QED
        BY <1>1, <4>1, <4>2
    <3>2. CASE i = 1
      <4>1. i - 1 = 0
        BY <3>2
      <4>2. <<>> \o seqs[i] = seqs[i]
        BY <3>1, ConcatEmptySeq
      <4> QED
        BY <1>1, <3>1, <3>2, <4>1, <4>2
    <3>3. CASE i # 1
      <4>1. i - 1 \in 1 .. Len(seqs)
        BY <1>1, <3>3
      <4> QED
        BY <3>1, <3>3, <4>1
    <3> QED
      BY <3>2, <3>3
  <2>2. w = [i \in 1 .. Len(seqs) |->
                 IF i = 1 THEN seqs[i] ELSE w[i - 1] \o seqs[i]]
    <3> DEFINE v == [i \in 1 .. Len(seqs) |->
                 IF i = 1 THEN seqs[i] ELSE w[i - 1] \o seqs[i]]
    <3>1. \A i \in 1 .. Len(seqs) : w[i] = v[i]
      BY <2>1
    <3>2. w = [i \in 1 .. Len(seqs) |-> w[i]]
      OBVIOUS
    <3> HIDE DEF w
    <3>3. v = [i \in 1 .. Len(seqs) |-> v[i]]
      OBVIOUS
    <3> HIDE DEF v
    <3>4. w = v
      BY <3>1, <3>2, <3>3
    <3> QED
      BY <3>4 DEF v
  <2> HIDE DEF w
  <2>3. f = [i \in 1 .. Len(seqs) |->
                 IF i = 1 THEN seqs[i] ELSE f[i - 1] \o seqs[i]]
    BY <2>2
  <2>4. Flat(seqs) = f[Len(seqs)]
    BY <1>3 DEF Flat, FlattenSeq
  <2> HIDE DEF f
  <2> DEFINE T == {n \in Nat : n + 1 <= Len(seqs) =>
                       f[n + 1] = Flats(seqs)[n + 1]}
  <2>5. 0 \in T
    <3>1. 1 \in 1 .. Len(seqs) /\ seqs[1] \in Seq(S)
      BY <1>1, <1>3
    <3>2. f[1] = seqs[1]
      BY <2>3, <3>1
    <3>3. Flats(seqs)[1] = <<>> \o seqs[1]
      <4>1. 1 - 1 = 0
        OBVIOUS
      <4>2. Flats(seqs)[1] = Flats(seqs)[1 - 1] \o seqs[1]
        BY <1>1, <3>1
      <4> QED
        BY <1>1, <4>1, <4>2
    <3>4. <<>> \o seqs[1] = seqs[1]
      BY <3>1, ConcatEmptySeq
    <3> QED
      BY <3>2, <3>3, <3>4
  <2>6. ASSUME NEW n \in Nat, n \in T PROVE n + 1 \in T
    <3> DEFINE m == n + 2
    <3> SUFFICES ASSUME m <= Len(seqs) PROVE f[m] = Flats(seqs)[m]
      OBVIOUS
    <3>1. /\ m \in 1 .. Len(seqs) /\ m # 1 /\ m - 1 = n + 1
          /\ n + 1 <= Len(seqs)
      BY <1>1
    <3>2. f[n + 1] = Flats(seqs)[n + 1]
      BY <2>6, <3>1
    <3> HIDE DEF m
    <3>3. f[m] = f[m - 1] \o seqs[m]
      BY <2>3, <3>1
    <3>4. Flats(seqs)[m] = Flats(seqs)[m - 1] \o seqs[m]
      BY <1>1, <3>1
    <3> QED
      BY <3>1, <3>2, <3>3, <3>4
  <2> HIDE DEF T
  <2>7. \A n \in Nat : n \in T
    BY <2>5, <2>6, SetInduction
  <2>8. Len(seqs) - 1 \in Nat /\ (Len(seqs) - 1) + 1 = Len(seqs)
    BY <1>1, <1>3
  <2>9. f[Len(seqs)] = Flats(seqs)[Len(seqs)]
    <3>1. Len(seqs) - 1 \in T
      BY <2>7, <2>8
    <3> QED
      BY <2>8, <3>1, <1>1 DEF T
  <2> QED
    BY <1>1, <2>4, <2>9
<1> QED
  BY <1>2, <1>3

\* A sequence of the sequence lies where the ones before it end.
LEMMA FlatsAt ==
    ASSUME NEW S, NEW seqs \in Seq(Seq(S)), NEW k \in 1 .. Len(seqs)
    PROVE  LET n == Len(Flats(seqs)[k - 1]) IN
           /\ n \in Nat /\ Len(seqs[k]) \in Nat /\ Len(Flat(seqs)) \in Nat
           /\ Len(Flats(seqs)[k]) = n + Len(seqs[k])
           /\ n + Len(seqs[k]) <= Len(Flat(seqs))
           /\ \A j \in 1 .. Len(seqs[k]) : Flat(seqs)[n + j] = seqs[k][j]
<1> DEFINE g == Flats(seqs)
           N == Len(seqs)
           n == Len(g[k - 1])
           m == Len(seqs[k])
<1>1. /\ N \in Nat /\ \A j \in 1 .. N : seqs[j] \in Seq(S)
      /\ k \in 1 .. N
  OBVIOUS
<1>2. /\ \A j \in 1 .. N : g[j] = g[j - 1] \o seqs[j]
      /\ \A j \in 0 .. N : g[j] \in Seq(S)
  BY FlatsStep
<1>3. Flat(seqs) = g[N]
  BY FlatIsFlats
<1> HIDE DEF N
<1>4. k - 1 \in 0 .. N /\ k \in 0 .. N
  BY <1>1
<1>5. g[k - 1] \in Seq(S) /\ seqs[k] \in Seq(S) /\ g[k] \in Seq(S)
  BY <1>1, <1>2, <1>4
<1>6. g[k] = g[k - 1] \o seqs[k]
  BY <1>1, <1>2
<1> HIDE DEF g
<1>7. n \in Nat /\ m \in Nat
  BY <1>5
<1>8. /\ Len(g[k]) = n + m
      /\ \A j \in 1 .. m : g[k][n + j] = seqs[k][j]
  <2> DEFINE w == g[k - 1] \o seqs[k]
  <2>1. /\ Len(w) = n + m
        /\ \A j \in 1 .. m : w[n + j] = seqs[k][j]
    <3> DEFINE P(x, y) == /\ Len(x \o y) = Len(x) + Len(y)
                          /\ \A j \in 1 .. Len(y) :
                                 (x \o y)[Len(x) + j] = y[j]
    <3>1. \A x, y \in Seq(S) : P(x, y)
      BY Joining
    <3>2. P(g[k - 1], seqs[k])
      <4> HIDE DEF P
      <4> QED
        BY <1>5, <3>1
    <3> QED
      BY <3>2
  <2>2. g[k] = w
    BY <1>6
  <2> HIDE DEF w, n, m
  <2> QED
    BY <2>1, <2>2
<1> HIDE DEF n, m
<1> DEFINE Starts(s) == /\ Len(s) \in Nat /\ n + m <= Len(s)
                        /\ \A i \in 1 .. n + m : s[i] = g[k][i]
           T == {d \in Nat : k + d <= N => Starts(g[k + d])}
<1>10. 0 \in T
  <2>1. k + 0 = k
    BY <1>1
  <2>2. Starts(g[k])
    BY <1>7, <1>8
  <2> HIDE DEF Starts
  <2> QED
    BY <2>1, <2>2
<1>11. ASSUME NEW d \in Nat, d \in T PROVE d + 1 \in T
  <2> DEFINE a == k + d
             b == k + (d + 1)
  <2> SUFFICES ASSUME b <= N PROVE Starts(g[b])
    OBVIOUS
  <2>1. a <= N /\ a \in 0 .. N /\ b \in 1 .. N /\ b - 1 = a
    BY <1>1
  <2> HIDE DEF a, b
  <2>2. g[b] = g[a] \o seqs[b] /\ g[a] \in Seq(S) /\ seqs[b] \in Seq(S)
    BY <1>1, <1>2, <2>1 DEF g
  <2>3. Starts(g[a])
    <3> HIDE DEF Starts
    <3> QED
      BY <1>11, <2>1 DEF a
  <2>4. /\ Len(g[a]) \in Nat /\ Len(seqs[b]) \in Nat
        /\ Len(g[b]) = Len(g[a]) + Len(seqs[b])
        /\ \A i \in 1 .. Len(g[a]) : g[b][i] = g[a][i]
    <3> DEFINE w == g[a] \o seqs[b]
    <3>1. /\ Len(g[a]) \in Nat /\ Len(seqs[b]) \in Nat
          /\ Len(w) = Len(g[a]) + Len(seqs[b])
          /\ \A i \in 1 .. Len(g[a]) : w[i] = g[a][i]
      <4> DEFINE P(x, y) ==
                     /\ Len(x) \in Nat /\ Len(y) \in Nat
                     /\ Len(x \o y) = Len(x) + Len(y)
                     /\ \A i \in 1 .. Len(x) : (x \o y)[i] = x[i]
      <4>1. \A x, y \in Seq(S) : P(x, y)
        BY Joining
      <4>2. P(g[a], seqs[b])
        <5> HIDE DEF P
        <5> QED
          BY <2>2, <4>1
      <4> QED
        BY <4>2
    <3>2. g[b] = w
      BY <2>2
    <3> HIDE DEF w
    <3> QED
      BY <3>1, <3>2
  <2>5. n + m <= Len(g[a]) /\ \A i \in 1 .. n + m : g[a][i] = g[k][i]
    BY <2>3
  <2> DEFINE p == Len(g[a])
             q == Len(seqs[b])
             w == Len(g[b])
  <2>6. /\ p \in Nat /\ q \in Nat /\ w = p + q /\ n + m <= p
        /\ \A i \in 1 .. p : g[b][i] = g[a][i]
    BY <2>4, <2>5
  <2> HIDE DEF p, q, w
  <2>7. \A i \in 1 .. n + m : i \in 1 .. p
    BY <1>7, <2>6
  <2>8. \A i \in 1 .. n + m : g[b][i] = g[k][i]
    BY <2>5, <2>6, <2>7
  <2>9. w \in Nat /\ n + m <= w
    BY <1>7, <2>6
  <2> QED
    BY <2>8, <2>9 DEF w
<1> HIDE DEF T
<1>12. \A d \in Nat : d \in T
  BY <1>10, <1>11, SetInduction
<1> HIDE DEF Starts
<1>13. Starts(g[N])
  <2>1. N - k \in Nat /\ k + (N - k) = N
    BY <1>1
  <2>2. N - k \in T
    BY <1>12, <2>1
  <2>3. k + (N - k) <= N => Starts(g[k + (N - k)])
    BY <2>2 DEF T
  <2> QED
    BY <1>1, <2>1, <2>3
<1>14. \A j \in 1 .. m : g[N][n + j] = seqs[k][j]
  <2> SUFFICES ASSUME NEW j \in 1 .. m PROVE g[N][n + j] = seqs[k][j]
    OBVIOUS
  <2>1. n + j \in 1 .. n + m
    BY <1>7
  <2>2. g[N][n + j] = g[k][n + j]
    BY <1>13, <2>1 DEF Starts
  <2> QED
    BY <1>8, <2>2
<1>15. Len(g[N]) \in Nat /\ n + m <= Len(g[N])
  BY <1>13 DEF Starts
<1> QED
  BY <1>3, <1>7, <1>8, <1>14, <1>15 DEF g, n, m

-----------------------------------------------------------------------------
(* The tokens of a request, and where they are.                            *)
Orders == {"query", "set", "bad"}
Commands == [do : Orders, groups : Seq(GroupWishes)]

Good(do, g) ==
    /\ g.id \in Groups /\ g.index \in 0 .. Instances[g.id]
    /\ g.fields \in Seq(Fields(g.id)) /\ Len(g.fields) \in Nat
    /\ DOMAIN g.fields = 1 .. Len(g.fields)
    /\ \A n \in 1 .. Len(g.fields) : g.fields[n] \in Fields(g.id)
    /\ g.value \in Values /\ (do = "set" => g.value # "old")

LEMMA FunSeq ==
    ASSUME NEW S, NEW n \in Nat, NEW f \in [1 .. n -> S]
    PROVE  f \in Seq(S) /\ Len(f) = n /\ DOMAIN f = 1 .. n
OBVIOUS

LEMMA WishFacts ==
    ASSUME NEW wish \in RciRequests
    PROVE  /\ Len(wish) \in Nat /\ DOMAIN wish = 1 .. Len(wish)
           /\ wish \in Seq(Commands)
           /\ \A c \in 1 .. Len(wish) :
                  /\ wish[c].do \in Orders
                  /\ wish[c].groups \in Seq(GroupWishes)
                  /\ Len(wish[c].groups) \in Nat
                  /\ DOMAIN wish[c].groups = 1 .. Len(wish[c].groups)
                  /\ \A k \in 1 .. Len(wish[c].groups) :
                         Good(wish[c].do, wish[c].groups[k])
<1>1. wish \in Seq(Commands)
  BY WishAssumption DEF Commands, Orders
<1>2. Len(wish) \in Nat /\ DOMAIN wish = 1 .. Len(wish)
  BY <1>1
<1>3. ASSUME NEW c \in 1 .. Len(wish)
      PROVE  /\ wish[c].do \in Orders
             /\ wish[c].groups \in Seq(GroupWishes)
             /\ Len(wish[c].groups) \in Nat
             /\ DOMAIN wish[c].groups = 1 .. Len(wish[c].groups)
             /\ \A k \in 1 .. Len(wish[c].groups) :
                    Good(wish[c].do, wish[c].groups[k])
  <2>1. wish[c] \in Commands
    BY <1>1
  <2>2. wish[c].do \in Orders /\ wish[c].groups \in Seq(GroupWishes)
    BY <2>1 DEF Commands
  <2> DEFINE gs == wish[c].groups
  <2>3. /\ gs \in Seq(GroupWishes) /\ DOMAIN gs = 1 .. Len(gs)
        /\ Len(gs) \in Nat
    BY <2>2
  <2>4. \A k \in 1 .. Len(gs) : MayAsk(wish[c].do, gs[k])
    <3>1. \A k \in DOMAIN wish[c].groups :
              MayAsk(wish[c].do, wish[c].groups[k])
      BY <1>2, WishAssumption
    <3> QED
      BY <2>3, <3>1
  <2> HIDE DEF gs
  <2>5. ASSUME NEW k \in 1 .. Len(gs) PROVE Good(wish[c].do, gs[k])
    <3>1. gs[k] \in GroupWishes
      BY <2>3
    <3>2. /\ gs[k].id \in Groups /\ gs[k].index \in 0 .. 9
          /\ gs[k].value \in Values
      BY <3>1 DEF GroupWishes
    <3>3. /\ gs[k].index <= Instances[gs[k].id]
          /\ gs[k].fields \in Seq(Fields(gs[k].id))
          /\ wish[c].do = "set" => gs[k].value # "old"
      BY <2>4 DEF MayAsk
    <3>4. gs[k].index \in 0 .. Instances[gs[k].id]
      <4>1. Instances[gs[k].id] \in 1 .. 9
        BY <3>2, GroupFacts
      <4> QED
        BY <3>2, <3>3, <4>1
    <3>5. /\ Len(gs[k].fields) \in Nat
          /\ DOMAIN gs[k].fields = 1 .. Len(gs[k].fields)
          /\ \A n \in 1 .. Len(gs[k].fields) :
                 gs[k].fields[n] \in Fields(gs[k].id)
      BY <3>3
    <3> QED
      BY <3>2, <3>3, <3>4, <3>5 DEF Good
  <2> QED
    BY <2>2, <2>3, <2>5 DEF gs
<1> QED
  BY <1>1, <1>2, <1>3

Joins(S, p, q, w) ==
    /\ w \in Seq(S) /\ Len(p) \in Nat /\ Len(q) \in Nat
    /\ Len(w) = Len(p) + Len(q)
    /\ \A i \in 1 .. Len(p) : w[i] = p[i]
    /\ \A i \in 1 .. Len(q) : w[Len(p) + i] = q[i]

LEMMA JoinsAll ==
    ASSUME NEW S
    PROVE  \A p, q \in Seq(S) : Joins(S, p, q, p \o q)
BY Joining DEF Joins

\* What an element before a sequence and one after it make.
LEMMA Wrapped ==
    ASSUME NEW S, NEW x \in S, NEW y \in S, NEW s \in Seq(S)
    PROVE  LET w == <<x>> \o s \o <<y>> IN
           /\ w \in Seq(S) /\ Len(s) \in Nat /\ Len(w) = Len(s) + 2
           /\ w[1] = x /\ w[Len(s) + 2] = y
           /\ \A i \in 1 .. Len(s) : w[1 + i] = s[i]
<1> DEFINE a == <<x>>
           b == <<y>>
           v == a \o s
           w == v \o b
           n == Len(s)
<1>1. /\ a \in Seq(S) /\ b \in Seq(S) /\ Len(a) = 1 /\ Len(b) = 1
      /\ a[1] = x /\ b[1] = y
  OBVIOUS
<1> HIDE DEF a, b
<1>6. /\ v \in Seq(S) /\ n \in Nat /\ Len(v) = Len(a) + n
      /\ \A i \in 1 .. Len(a) : v[i] = a[i]
      /\ \A i \in 1 .. n : v[Len(a) + i] = s[i]
  <2>1. Joins(S, a, s, v)
    BY <1>1, JoinsAll
  <2> HIDE DEF v
  <2> QED
    BY <2>1 DEF Joins
<1> HIDE DEF v
<1>7. /\ w \in Seq(S) /\ Len(w) = Len(v) + Len(b)
      /\ \A i \in 1 .. Len(v) : w[i] = v[i]
      /\ \A i \in 1 .. Len(b) : w[Len(v) + i] = b[i]
  <2>1. Joins(S, v, b, w)
    BY <1>1, <1>6, JoinsAll
  <2> HIDE DEF w
  <2> QED
    BY <2>1 DEF Joins
<1> HIDE DEF w, n
<1>2. /\ v \in Seq(S) /\ n \in Nat /\ Len(v) = 1 + n
      /\ \A i \in 1 .. 1 : v[i] = a[i]
      /\ \A i \in 1 .. n : v[1 + i] = s[i]
  BY <1>1, <1>6
<1>3. /\ w \in Seq(S) /\ Len(w) = Len(v) + 1
      /\ \A i \in 1 .. Len(v) : w[i] = v[i]
      /\ \A i \in 1 .. 1 : w[Len(v) + i] = b[i]
  BY <1>1, <1>7
<1>4. Len(w) = n + 2 /\ w[1] = x /\ w[n + 2] = y
  <2>1. 1 \in 1 .. Len(v) /\ Len(v) + 1 = n + 2 /\ 1 \in 1 .. 1
    BY <1>2
  <2>2. w[1] = v[1] /\ v[1] = a[1] /\ w[Len(v) + 1] = b[1]
    BY <1>2, <1>3, <2>1
  <2> QED
    BY <1>1, <1>3, <2>1, <2>2
<1>5. \A i \in 1 .. n : w[1 + i] = s[i]
  <2> SUFFICES ASSUME NEW i \in 1 .. n PROVE w[1 + i] = s[i]
    OBVIOUS
  <2>1. 1 + i \in 1 .. Len(v)
    BY <1>2
  <2> QED
    BY <1>2, <1>3, <2>1
<1> QED
  BY <1>2, <1>3, <1>4, <1>5 DEF a, b, v, w, n

LEMMA GroupTokensAt ==
    ASSUME NEW do \in Orders, NEW g, Good(do, g)
    PROVE  LET w == GroupTokens(do, g) IN
           /\ w \in Seq(Tokens) /\ Len(w) = Len(g.fields) + 2
           /\ w[1] = <<"group", g.id, g.index>>
           /\ w[Len(g.fields) + 2] = End
           /\ \A n \in 1 .. Len(g.fields) :
                  w[1 + n] = <<"field", g.fields[n],
                               IF do = "set" THEN g.value ELSE "none">>
<1> DEFINE n == Len(g.fields)
           v == IF do = "set" THEN g.value ELSE "none"
           s == [j \in 1 .. n |-> <<"field", g.fields[j], v>>]
           x == <<"group", g.id, g.index>>
<1>1. /\ n \in Nat /\ DOMAIN g.fields = 1 .. n
      /\ g.id \in Groups /\ g.index \in 0 .. Instances[g.id]
      /\ \A j \in 1 .. n : g.fields[j] \in Fields(g.id)
      /\ v \in Values \cup {"none"}
  BY DEF Good
<1>2. /\ g.index \in 0 .. 9 /\ \A f \in Fields(g.id) : f \in 1 .. 9
  <2> DEFINE m == Len(Kinds[g.id])
  <2>1. Instances[g.id] \in 1 .. 9 /\ m \in 1 .. 9 /\ Fields(g.id) = 1 .. m
    BY <1>1, GroupFacts
  <2> HIDE DEF m
  <2>2. g.index \in 0 .. 9
    BY <1>1, <2>1
  <2>3. \A f \in 1 .. m : f \in 1 .. 9
    BY <2>1
  <2> QED
    BY <2>1, <2>2, <2>3
<1>3. x \in Tokens /\ End \in Tokens
  BY <1>1, <1>2 DEF Tokens
<1>4. \A j \in 1 .. n : <<"field", g.fields[j], v>> \in Tokens
  BY <1>1, <1>2 DEF Tokens
<1> HIDE DEF x, v, n
<1>5. s \in [1 .. n -> Tokens]
  BY <1>4
<1>6. s \in Seq(Tokens) /\ Len(s) = n
  BY <1>1, <1>5, FunSeq
<1>7. \A j \in 1 .. n : s[j] = <<"field", g.fields[j], v>>
  OBVIOUS
<1>8. GroupTokens(do, g) = <<x>> \o s \o <<End>>
  <2>1. GroupTokens(do, g) =
            <<<<"group", g.id, g.index>>>>
            \o [j \in 1 .. n |-> <<"field", g.fields[j], v>>] \o <<End>>
    BY <1>1 DEF GroupTokens, v
  <2> QED
    BY <2>1 DEF x
<1> HIDE DEF s
<1>9. LET w == <<x>> \o s \o <<End>> IN
      /\ w \in Seq(Tokens) /\ Len(s) \in Nat /\ Len(w) = Len(s) + 2
      /\ w[1] = x /\ w[Len(s) + 2] = End
      /\ \A i \in 1 .. Len(s) : w[1 + i] = s[i]
  BY <1>3, <1>6, Wrapped
<1> QED
  BY <1>6, <1>7, <1>8, <1>9 DEF x, v, n

\* The tokens of the groups of a command, and of the command.
LEMMA WishTokensAt ==
    ASSUME NEW o, o.request \in RciRequests, NEW c \in 1 .. Len(o.request)
    PROVE  LET seqs == WishTokens(o, c) IN
           /\ seqs \in Seq(Seq(Tokens)) /\ Len(seqs) = Number(o, c)
           /\ \A k \in 1 .. Number(o, c) :
                  seqs[k] = GroupTokens(Asked(o, c).do, Wish(o, c, k))
<1> DEFINE n == Number(o, c)
           do == Asked(o, c).do
           F(k) == GroupTokens(do, Wish(o, c, k))
<1>1. /\ n \in Nat /\ DOMAIN Asked(o, c).groups = 1 .. n /\ do \in Orders
      /\ \A k \in 1 .. n : Good(do, Wish(o, c, k))
  BY WishFacts DEF Number, Asked, Wish
<1>2. \A k \in 1 .. n : F(k) \in Seq(Tokens)
  BY <1>1, GroupTokensAt
<1>3. WishTokens(o, c) = [k \in 1 .. n |-> F(k)]
  BY <1>1 DEF WishTokens, Wish
<1> HIDE DEF F, n
<1>4. [k \in 1 .. n |-> F(k)] \in [1 .. n -> Seq(Tokens)]
  BY <1>2
<1>5. WishTokens(o, c) \in Seq(Seq(Tokens)) /\ Len(WishTokens(o, c)) = n
  BY <1>1, <1>3, <1>4, FunSeq
<1>6. \A k \in 1 .. n : WishTokens(o, c)[k] = F(k)
  BY <1>3
<1> QED
  BY <1>5, <1>6 DEF F, n

LEMMA CommandTokensAt ==
    ASSUME NEW o, o.request \in RciRequests, NEW c \in 1 .. Len(o.request)
    PROVE  LET w == TokensOf(Asked(o, c))
               s == Flat(WishTokens(o, c)) IN
           /\ w \in Seq(Tokens) /\ s \in Seq(Tokens) /\ Len(s) \in Nat
           /\ Len(w) = Len(s) + 2
           /\ w[1] = <<"command", Asked(o, c).do>> /\ w[Len(s) + 2] = End
           /\ \A i \in 1 .. Len(s) : w[1 + i] = s[i]
<1> DEFINE s == Flat(WishTokens(o, c))
           x == <<"command", Asked(o, c).do>>
<1>1. s \in Seq(Tokens)
  BY WishTokensAt, FlatIsFlats
<1>2. x \in Tokens /\ End \in Tokens
  BY WishFacts DEF Asked, Orders, Tokens
<1>3. TokensOf(Asked(o, c)) = <<x>> \o s \o <<End>>
  BY DEF TokensOf, WishTokens
<1> HIDE DEF s, x
<1>4. LET w == <<x>> \o s \o <<End>> IN
      /\ w \in Seq(Tokens) /\ Len(s) \in Nat /\ Len(w) = Len(s) + 2
      /\ w[1] = x /\ w[Len(s) + 2] = End
      /\ \A i \in 1 .. Len(s) : w[1 + i] = s[i]
  BY <1>1, <1>2, Wrapped
<1> QED
  BY <1>1, <1>3, <1>4 DEF s, x

LEMMA RequestTokens ==
    ASSUME NEW o, o.request \in RciRequests
    PROVE  LET seqs == CommandTokens(o) IN
           /\ seqs \in Seq(Seq(Tokens)) /\ Len(seqs) = Len(o.request)
           /\ Len(o.request) \in Nat
           /\ AllTokens(o.request) = Flat(seqs)
           /\ \A c \in 1 .. Len(o.request) : seqs[c] = TokensOf(Asked(o, c))
<1> DEFINE n == Len(o.request)
           F(c) == TokensOf(Asked(o, c))
<1>1. n \in Nat /\ DOMAIN o.request = 1 .. n
  BY WishFacts
<1>2. \A c \in 1 .. n : F(c) \in Seq(Tokens)
  BY CommandTokensAt
<1>3. CommandTokens(o) = [c \in 1 .. n |-> F(c)]
  BY <1>1 DEF CommandTokens, Asked
<1>4. AllTokens(o.request) = Flat(CommandTokens(o))
  BY DEF AllTokens, CommandTokens
<1> HIDE DEF F, n
<1>5. [c \in 1 .. n |-> F(c)] \in [1 .. n -> Seq(Tokens)]
  BY <1>2
<1>6. CommandTokens(o) \in Seq(Seq(Tokens)) /\ Len(CommandTokens(o)) = n
  BY <1>1, <1>3, <1>5, FunSeq
<1>7. \A c \in 1 .. n : CommandTokens(o)[c] = F(c)
  BY <1>3
<1> QED
  BY <1>1, <1>4, <1>6, <1>7 DEF F, n

\* Where a command of the request is.
LEMMA CommandAt ==
    ASSUME NEW o, o.request \in RciRequests, NEW c \in 1 .. Len(o.request)
    PROVE  LET n == CommandsRead(o, c)
               s == Flat(WishTokens(o, c))
               all == AllTokens(o.request) IN
           /\ n \in Nat /\ Len(s) \in Nat /\ Len(all) \in Nat
           /\ CommandsRead(o, c + 1) = n + Len(s) + 2
           /\ CommandsRead(o, c + 1) <= Len(all)
           /\ all[n + 1] = <<"command", Asked(o, c).do>>
           /\ \A i \in 1 .. Len(s) : all[n + 1 + i] = s[i]
           /\ all[n + Len(s) + 2] = End
<1> DEFINE seqs == CommandTokens(o)
           n == Len(Flats(seqs)[c - 1])
           s == Flat(WishTokens(o, c))
           w == TokensOf(Asked(o, c))
           all == AllTokens(o.request)
           m == Len(s)
<1>1. /\ seqs \in Seq(Seq(Tokens)) /\ Len(seqs) = Len(o.request)
      /\ all = Flat(seqs) /\ seqs[c] = w
  BY RequestTokens
<1>2. /\ m \in Nat /\ Len(w) = m + 2
      /\ w[1] = <<"command", Asked(o, c).do>> /\ w[m + 2] = End
      /\ \A i \in 1 .. m : w[1 + i] = s[i]
  BY CommandTokensAt
<1> HIDE DEF seqs, s, w, all, m
<1>3. c \in 1 .. Len(seqs)
  BY <1>1
<1>4. /\ n \in Nat /\ Len(Flat(seqs)) \in Nat
      /\ Len(Flats(seqs)[c]) = n + Len(seqs[c])
      /\ n + Len(seqs[c]) <= Len(Flat(seqs))
      /\ \A j \in 1 .. Len(seqs[c]) : Flat(seqs)[n + j] = seqs[c][j]
  BY <1>1, <1>3, FlatsAt
<1> DEFINE next == Len(Flats(seqs)[c])
           top == Len(all)
<1>5. /\ n \in Nat /\ top \in Nat /\ next = n + (m + 2) /\ n + (m + 2) <= top
      /\ \A j \in 1 .. m + 2 : all[n + j] = w[j]
  BY <1>1, <1>2, <1>4
<1>6. CommandsRead(o, c) = n /\ CommandsRead(o, c + 1) = next
  <2>1. (c + 1) - 1 = c
    OBVIOUS
  <2> QED
    BY <2>1 DEF CommandsRead, seqs
<1> HIDE DEF n, next, top
<1>7. /\ all[n + 1] = <<"command", Asked(o, c).do>>
      /\ all[n + m + 2] = End
  <2>1. 1 \in 1 .. m + 2 /\ m + 2 \in 1 .. m + 2 /\ n + (m + 2) = n + m + 2
    BY <1>2, <1>5
  <2> QED
    BY <1>2, <1>5, <2>1
<1>8. \A i \in 1 .. m : all[n + 1 + i] = s[i]
  <2> SUFFICES ASSUME NEW i \in 1 .. m PROVE all[n + 1 + i] = s[i]
    OBVIOUS
  <2>1. 1 + i \in 1 .. m + 2 /\ n + (1 + i) = n + 1 + i
    BY <1>2, <1>5
  <2>2. all[n + (1 + i)] = w[1 + i]
    BY <1>5, <2>1
  <2> QED
    BY <1>2, <2>1, <2>2
<1>9. next = n + m + 2 /\ next <= top
  BY <1>2, <1>5
<1> QED
  BY <1>2, <1>5, <1>6, <1>7, <1>8, <1>9 DEF s, m, all, top

\* Where a group of a command is.
LEMMA GroupAt ==
    ASSUME NEW o, o.request \in RciRequests, NEW c \in 1 .. Len(o.request),
           NEW k \in 1 .. Number(o, c)
    PROVE  LET n == GroupsRead(o, c, k)
               g == Wish(o, c, k)
               do == Asked(o, c).do
               all == AllTokens(o.request) IN
           /\ n \in Nat /\ Good(do, g)
           /\ GroupsRead(o, c, k + 1) = n + Len(g.fields) + 2
           /\ GroupsRead(o, c, k + 1) < CommandsRead(o, c + 1)
           /\ all[n + 1] = <<"group", g.id, g.index>>
           /\ \A j \in 1 .. Len(g.fields) :
                  all[n + 1 + j] = <<"field", g.fields[j],
                                     IF do = "set" THEN g.value ELSE "none">>
           /\ all[n + Len(g.fields) + 2] = End
<1> DEFINE seqs == WishTokens(o, c)
           m == Len(Flats(seqs)[k - 1])
           g == Wish(o, c, k)
           do == Asked(o, c).do
           w == GroupTokens(do, g)
           all == AllTokens(o.request)
           s == Flat(seqs)
           p == CommandsRead(o, c)
           q == Len(g.fields)
<1>1. /\ seqs \in Seq(Seq(Tokens)) /\ Len(seqs) = Number(o, c)
      /\ seqs[k] = w
  BY WishTokensAt
<1>2. Good(do, g) /\ do \in Orders
  BY WishFacts DEF Number, Asked, Wish
<1>3. /\ Len(w) = q + 2 /\ w[1] = <<"group", g.id, g.index>>
      /\ w[q + 2] = End /\ q \in Nat
      /\ \A j \in 1 .. q : w[1 + j] = <<"field", g.fields[j],
                                 IF do = "set" THEN g.value ELSE "none">>
  BY <1>2, GroupTokensAt DEF Good
<1>4. /\ p \in Nat /\ Len(s) \in Nat
      /\ CommandsRead(o, c + 1) = p + Len(s) + 2
      /\ \A i \in 1 .. Len(s) : all[p + 1 + i] = s[i]
  BY CommandAt
<1> HIDE DEF seqs, w, all, p, q, g, do
<1>5. /\ m \in Nat /\ Len(Flats(seqs)[k]) = m + Len(seqs[k])
      /\ m + Len(seqs[k]) <= Len(s)
      /\ \A j \in 1 .. Len(seqs[k]) : s[m + j] = seqs[k][j]
  <2>1. k \in 1 .. Len(seqs)
    BY <1>1
  <2> QED
    BY <1>1, <2>1, FlatsAt
<1> HIDE DEF s
<1> DEFINE next == Len(Flats(seqs)[k])
           top == Len(s)
<1>6. /\ m \in Nat /\ next = m + (q + 2) /\ m + (q + 2) <= top /\ top \in Nat
      /\ \A j \in 1 .. q + 2 : s[m + j] = w[j]
  BY <1>1, <1>3, <1>4, <1>5
<1>7. /\ GroupsRead(o, c, k) = p + 1 + m
      /\ GroupsRead(o, c, k + 1) = p + 1 + next
  <2>1. (k + 1) - 1 = k
    OBVIOUS
  <2> QED
    BY <2>1 DEF GroupsRead, seqs, p
<1> HIDE DEF m, next, top
<1> DEFINE n == p + 1 + m
<1>8. ASSUME NEW j \in 1 .. q + 2 PROVE all[n + j] = w[j]
  <2>1. m + j \in 1 .. top /\ p + 1 + (m + j) = n + j
    BY <1>3, <1>4, <1>6
  <2>2. all[p + 1 + (m + j)] = s[m + j]
    BY <1>4, <2>1 DEF top
  <2> QED
    BY <1>6, <2>1, <2>2
<1>9. n \in Nat /\ p + 1 + next = n + q + 2 /\ p + 1 + next < p + top + 2
  BY <1>3, <1>4, <1>6
<1> HIDE DEF n
<1>10. all[n + 1] = w[1] /\ all[n + q + 2] = w[q + 2]
  <2>1. 1 \in 1 .. q + 2 /\ q + 2 \in 1 .. q + 2 /\ n + (q + 2) = n + q + 2
    BY <1>3, <1>9
  <2> QED
    BY <1>8, <2>1
<1>11. \A j \in 1 .. q : all[n + 1 + j] = w[1 + j]
  <2> SUFFICES ASSUME NEW j \in 1 .. q PROVE all[n + 1 + j] = w[1 + j]
    OBVIOUS
  <2>1. 1 + j \in 1 .. q + 2 /\ n + (1 + j) = n + 1 + j
    BY <1>3, <1>9
  <2>2. all[n + (1 + j)] = w[1 + j]
    BY <1>8, <2>1
  <2> QED
    BY <2>1, <2>2
<1>12. GroupsRead(o, c, k) = n
  BY <1>7 DEF n
<1>13. GroupsRead(o, c, k + 1) = n + q + 2
  BY <1>7, <1>9
<1>14. GroupsRead(o, c, k + 1) < CommandsRead(o, c + 1)
  BY <1>4, <1>7, <1>9 DEF top
<1> QED
  BY <1>2, <1>3, <1>9, <1>10, <1>11, <1>12, <1>13, <1>14 DEF g, do, all, q

\* And where the groups of a command and the commands begin and end.
LEMMA ReadingAt ==
    ASSUME NEW o, o.request \in RciRequests
    PROVE  LET all == AllTokens(o.request)
               last == Len(o.request) IN
           /\ last \in Nat /\ Len(all) \in Nat
           /\ CommandsRead(o, 1) = 0 /\ CommandsRead(o, last + 1) = Len(all)
           /\ \A c \in 1 .. last :
                  /\ CommandsRead(o, c) \in Nat
                  /\ CommandsRead(o, c + 1) \in Nat
                  /\ CommandsRead(o, c) < Len(all)
                  /\ CommandsRead(o, c + 1) <= Len(all)
                  /\ Number(o, c) \in Nat
                  /\ GroupsRead(o, c, 1) = CommandsRead(o, c) + 1
                  /\ all[CommandsRead(o, c + 1)] = End
                  /\ CommandsRead(o, c + 1)
                     = GroupsRead(o, c, Number(o, c) + 1) + 1
                  /\ \A k \in 1 .. Number(o, c) + 1 :
                         GroupsRead(o, c, k) \in Nat
<1> DEFINE all == AllTokens(o.request)
           last == Len(o.request)
           seqs == CommandTokens(o)
<1>1. /\ seqs \in Seq(Seq(Tokens)) /\ Len(seqs) = last /\ last \in Nat
      /\ all = Flat(seqs)
  BY RequestTokens
<1>2. CommandsRead(o, 1) = 0 /\ CommandsRead(o, last + 1) = Len(all)
      /\ Len(all) \in Nat
  <2>1. 1 - 1 = 0 /\ (last + 1) - 1 = last
    BY <1>1
  <2> HIDE DEF seqs
  <2>2. Flats(seqs)[0] = <<>> /\ Flat(seqs) = Flats(seqs)[last]
        /\ Flat(seqs) \in Seq(Tokens)
    BY <1>1, FlatsStep, FlatIsFlats
  <2>3. CommandsRead(o, 1) = Len(<<>>)
        /\ CommandsRead(o, last + 1) = Len(Flats(seqs)[last])
    BY <2>1, <2>2 DEF CommandsRead, seqs
  <2>4. Len(<<>>) = 0
    OBVIOUS
  <2>5. Len(Flat(seqs)) \in Nat
    BY <2>2
  <2> QED
    BY <1>1, <2>2, <2>3, <2>4, <2>5
<1> HIDE DEF seqs, all, last
<1>3. ASSUME NEW c \in 1 .. last
      PROVE  /\ CommandsRead(o, c) \in Nat
             /\ CommandsRead(o, c + 1) \in Nat
             /\ CommandsRead(o, c) < Len(all)
             /\ CommandsRead(o, c + 1) <= Len(all)
             /\ Number(o, c) \in Nat
             /\ GroupsRead(o, c, 1) = CommandsRead(o, c) + 1
             /\ all[CommandsRead(o, c + 1)] = End
             /\ CommandsRead(o, c + 1)
                = GroupsRead(o, c, Number(o, c) + 1) + 1
             /\ \A k \in 1 .. Number(o, c) + 1 :
                    GroupsRead(o, c, k) \in Nat
  <2> DEFINE n == CommandsRead(o, c)
             ws == WishTokens(o, c)
             m == Len(Flat(ws))
             N == Number(o, c)
  <2>1. /\ n \in Nat /\ m \in Nat /\ CommandsRead(o, c + 1) = n + m + 2
        /\ n + m + 2 <= Len(all) /\ all[n + m + 2] = End
    BY CommandAt DEF all, last
  <2>2. ws \in Seq(Seq(Tokens)) /\ Len(ws) = N
    BY WishTokensAt DEF last
  <2>3. N \in Nat
    BY WishFacts DEF Number, Asked, last
  <2> HIDE DEF ws, N, m, n
  <2>4. /\ Flats(ws)[0] = <<>> /\ Flat(ws) = Flats(ws)[N]
        /\ \A k \in 0 .. N : Flats(ws)[k] \in Seq(Tokens)
    BY <2>2, FlatsStep, FlatIsFlats
  <2>5. \A k : GroupsRead(o, c, k) = n + 1 + Len(Flats(ws)[k - 1])
    BY DEF GroupsRead, n, ws
  <2>6. GroupsRead(o, c, 1) = n + 1
    <3>1. 1 - 1 = 0 /\ Len(<<>>) = 0
      OBVIOUS
    <3>2. GroupsRead(o, c, 1) = n + 1 + 0
      BY <2>4, <2>5, <3>1
    <3> QED
      BY <2>1, <3>2
  <2>7. GroupsRead(o, c, N + 1) = n + 1 + m
    <3>1. (N + 1) - 1 = N
      BY <2>3
    <3> QED
      BY <2>4, <2>5, <3>1 DEF m
  <2>8. \A k \in 1 .. N + 1 : GroupsRead(o, c, k) \in Nat
    <3> SUFFICES ASSUME NEW k \in 1 .. N + 1
                 PROVE  GroupsRead(o, c, k) \in Nat
      OBVIOUS
    <3>1. k - 1 \in 0 .. N
      BY <2>3
    <3>2. Flats(ws)[k - 1] \in Seq(Tokens)
      BY <2>4, <3>1
    <3>3. Len(Flats(ws)[k - 1]) \in Nat
      <4>1. \A f \in Seq(Tokens) : Len(f) \in Nat
        OBVIOUS
      <4> QED
        BY <3>2, <4>1
    <3> DEFINE m1 == Len(Flats(ws)[k - 1])
    <3>4. GroupsRead(o, c, k) = n + 1 + m1 /\ m1 \in Nat
      BY <2>5, <3>3
    <3> HIDE DEF m1
    <3>5. n + 1 + m1 \in Nat
      BY <2>1, <3>4
    <3> QED
      BY <3>4, <3>5
  <2>9. n + m + 2 \in Nat /\ n < Len(all) /\ n + m + 2 = (n + 1 + m) + 1
    BY <1>2, <2>1
  <2> QED
    BY <2>1, <2>3, <2>6, <2>7, <2>8, <2>9 DEF n, N
<1> QED
  BY <1>1, <1>2, <1>3 DEF all, last

-----------------------------------------------------------------------------
(* The settings after the commands of a request.                           *)
LEMMA SettledExist ==
    ASSUME NEW request, NEW before, Len(request) \in Nat
    PROVE  Settled(request, before) =
               [n \in 0 .. Len(request) |->
                   IF n = 0 THEN before
                   ELSE Applied(request[n], Settled(request, before)[n - 1])]
<1> DEFINE Next1(n, s) == Applied(request[n], s)
           T == {k \in Nat : \E g : g = [n \in 0 .. k |->
                   IF n = 0 THEN before ELSE Next1(n, g[n - 1])]}
<1> HIDE DEF Next1
<1>1. 0 \in T
  <2> DEFINE g == [n \in 0 .. 0 |-> before]
  <2>1. g = [n \in 0 .. 0 |-> IF n = 0 THEN before ELSE Next1(n, g[n - 1])]
    OBVIOUS
  <2> HIDE DEF g
  <2> QED
    BY <2>1
<1>2. ASSUME NEW k \in Nat, k \in T PROVE k + 1 \in T
  <2>1. PICK g : g = [n \in 0 .. k |->
                   IF n = 0 THEN before ELSE Next1(n, g[n - 1])]
    BY <1>2
  <2> DEFINE h == [n \in 0 .. k + 1 |->
                   IF n = 0 THEN before ELSE Next1(n, g[n - 1])]
  <2>2. \A n \in 0 .. k : h[n] = g[n]
    BY <2>1
  <2>3. h = [n \in 0 .. k + 1 |->
                   IF n = 0 THEN before ELSE Next1(n, h[n - 1])]
    <3>1. ASSUME NEW n \in 0 .. k + 1, n # 0 PROVE h[n - 1] = g[n - 1]
      <4>1. n - 1 \in 0 .. k
        BY <3>1
      <4> HIDE DEF h
      <4> QED
        BY <2>2, <4>1
    <3>2. \A n \in 0 .. k + 1 :
              (IF n = 0 THEN before ELSE Next1(n, g[n - 1]))
              = (IF n = 0 THEN before ELSE Next1(n, h[n - 1]))
      BY <3>1
    <3> QED
      BY <3>2
  <2> HIDE DEF h
  <2> QED
    BY <2>3
<1> HIDE DEF T
<1>3. Len(request) \in T
  BY <1>1, <1>2, SetInduction
<1>4. \E g : g = [n \in 0 .. Len(request) |->
                   IF n = 0 THEN before ELSE Next1(n, g[n - 1])]
  BY <1>3 DEF T
<1> QED
  BY <1>4 DEF Settled, Next1

LEMMA AppliedTyped ==
    ASSUME NEW c, NEW before \in [Settings -> Values]
    PROVE  Applied(c, before) \in [Settings -> Values]
<1>1. "new" \in Values
  BY DEF Values
<1>2. \A s \in Settings : before[s] \in Values
  OBVIOUS
<1> QED
  BY <1>1, <1>2 DEF Applied

LEMMA BeforeEach ==
    ASSUME NEW o, o.request \in RciRequests, o.before \in [Settings -> Values]
    PROVE  LET last == Len(o.request) IN
           /\ last \in Nat /\ SavedAt(o, 1) = o.before
           /\ \A c \in 1 .. last :
                  SavedAt(o, c + 1) = Applied(Asked(o, c), SavedAt(o, c))
           /\ \A c \in 1 .. last + 1 : SavedAt(o, c) \in [Settings -> Values]
<1> DEFINE g == Settled(o.request, o.before)
           N == Len(o.request)
           Step1(n, s) == Applied(o.request[n], s)
<1>1. N \in Nat
  BY WishFacts
<1>2. g = [n \in 0 .. N |-> IF n = 0 THEN o.before ELSE Step1(n, g[n - 1])]
  BY <1>1, SettledExist
<1>3. \A n, s : s \in [Settings -> Values] => Step1(n, s) \in [Settings -> Values]
  BY AppliedTyped
<1> HIDE DEF g, N, Step1
<1>4. g[0] = o.before /\ \A n \in 1 .. N : g[n] = Step1(n, g[n - 1])
  BY <1>1, <1>2
<1> DEFINE T == {n \in Nat : n <= N => g[n] \in [Settings -> Values]}
<1>5. 0 \in T
  BY <1>4
<1>6. ASSUME NEW n \in Nat, n \in T PROVE n + 1 \in T
  <2> SUFFICES ASSUME n + 1 <= N PROVE g[n + 1] \in [Settings -> Values]
    OBVIOUS
  <2>1. n + 1 \in 1 .. N /\ (n + 1) - 1 = n /\ n <= N
    BY <1>1
  <2>2. g[n + 1] = Step1(n + 1, g[n]) /\ g[n] \in [Settings -> Values]
    BY <1>4, <1>6, <2>1
  <2> QED
    BY <1>3, <2>2
<1> HIDE DEF T
<1>7. \A n \in Nat : n \in T
  BY <1>5, <1>6, SetInduction
<1>8. \A n \in 0 .. N : g[n] \in [Settings -> Values]
  BY <1>1, <1>7 DEF T
<1>9. \A c : SavedAt(o, c) = g[c - 1]
  BY DEF SavedAt, g
<1>10. SavedAt(o, 1) = o.before
  <2>1. 1 - 1 = 0
    OBVIOUS
  <2> QED
    BY <1>4, <1>9, <2>1
<1>11. ASSUME NEW c \in 1 .. N
       PROVE  SavedAt(o, c + 1) = Applied(Asked(o, c), SavedAt(o, c))
  <2>1. (c + 1) - 1 = c
    BY <1>1
  <2>2. SavedAt(o, c + 1) = g[c] /\ SavedAt(o, c) = g[c - 1]
    BY <1>9, <2>1
  <2>3. g[c] = Step1(c, g[c - 1])
    BY <1>4
  <2> QED
    BY <2>2, <2>3 DEF Step1, Asked
<1>12. \A c \in 1 .. N + 1 : SavedAt(o, c) \in [Settings -> Values]
  <2> SUFFICES ASSUME NEW c \in 1 .. N + 1
               PROVE  SavedAt(o, c) \in [Settings -> Values]
    OBVIOUS
  <2>1. c - 1 \in 0 .. N
    BY <1>1
  <2> QED
    BY <1>8, <1>9, <2>1
<1> QED
  BY <1>1, <1>10, <1>11, <1>12 DEF N

\* The settings as the groups of a command are set.
LEMMA SavedEach ==
    ASSUME NEW o, o.request \in RciRequests, o.before \in [Settings -> Values],
           NEW c \in 1 .. Len(o.request)
    PROVE  /\ SavedTo(o, c, 0) = SavedAt(o, c)
           /\ SavedTo(o, c, Number(o, c)) = SavedAt(o, c + 1)
           /\ Asked(o, c).do = "query" =>
                  \A m : SavedTo(o, c, m) = SavedAt(o, c)
           /\ \A m : SavedTo(o, c, m) \in [Settings -> Values]
           /\ Asked(o, c).do = "bad" => SavedAt(o, c + 1) = SavedAt(o, c)
<1>1. /\ SavedAt(o, c) \in [Settings -> Values]
      /\ SavedAt(o, c + 1) = Applied(Asked(o, c), SavedAt(o, c))
  <2>1. /\ Len(o.request) \in Nat
        /\ \A d \in 1 .. Len(o.request) :
               SavedAt(o, d + 1) = Applied(Asked(o, d), SavedAt(o, d))
        /\ \A d \in 1 .. Len(o.request) + 1 :
               SavedAt(o, d) \in [Settings -> Values]
    BY BeforeEach
  <2>2. c \in 1 .. Len(o.request) + 1
    BY <2>1
  <2> QED
    BY <2>1, <2>2
<1> DEFINE b == SavedAt(o, c)
<1>2. b = [s \in Settings |-> b[s]]
  BY <1>1
<1>3. SavedTo(o, c, 0) = b
  <2>1. \A s \in Settings :
            ~ (Asked(o, c).do = "set" /\ \E k \in 1 .. 0 : Sets(Wish(o, c, k), s))
    OBVIOUS
  <2> QED
    BY <1>2, <2>1 DEF SavedTo
<1>4. SavedTo(o, c, Number(o, c)) = SavedAt(o, c + 1)
  <2>1. DOMAIN Asked(o, c).groups = 1 .. Number(o, c)
    BY WishFacts DEF Asked, Number
  <2> QED
    BY <1>1, <2>1, Zenon DEF SavedTo, Applied, Wish
<1>5. ASSUME Asked(o, c).do = "query", NEW m PROVE SavedTo(o, c, m) = b
  <2>1. \A s \in Settings :
            ~ (Asked(o, c).do = "set" /\ \E k \in 1 .. m : Sets(Wish(o, c, k), s))
    BY <1>5
  <2> QED
    BY <1>2, <2>1 DEF SavedTo
<1>6. \A m : SavedTo(o, c, m) \in [Settings -> Values]
  <2>1. "new" \in Values /\ \A s \in Settings : b[s] \in Values
    BY <1>1 DEF Values
  <2> HIDE DEF b
  <2> QED
    BY <2>1 DEF SavedTo, b
<1>7. ASSUME Asked(o, c).do = "bad" PROVE SavedAt(o, c + 1) = b
  <2>1. \A s \in Settings :
            ~ (/\ Asked(o, c).do = "set"
               /\ \E k \in DOMAIN Asked(o, c).groups :
                      Sets(Asked(o, c).groups[k], s))
    BY <1>7
  <2> QED
    BY <1>1, <1>2, <2>1 DEF Applied
<1> QED
  BY <1>3, <1>4, <1>5, <1>6, <1>7

-----------------------------------------------------------------------------
(* The answers, as they are written item by item.                          *)
Speech == Items \cup {<<"command", "bad">>}

LEMMA Speaks ==
    /\ \A a \in Orders : <<"command", a>> \in Speech
    /\ \A g \in Groups : <<"group", g>> \in Speech
    /\ \A i \in 0 .. 9 : <<"index", i>> \in Speech
    /\ \A f \in 0 .. 9 : <<"field", f>> \in Speech
    /\ \A v \in Values \cup {"none"} : <<"value", v>> \in Speech
    /\ <<"no value">> \in Speech /\ End \in Speech
BY ItemKinds DEF Speech, Orders

\* One or two items more.
LEMMA OneItem ==
    ASSUME NEW S, NEW w \in Seq(S), NEW x \in S
    PROVE  /\ w \o <<x>> = Append(w, x) /\ <<x>> \in Seq(S)
           /\ Append(w, x) \in Seq(S)
OBVIOUS

LEMMA TwoAlone ==
    ASSUME NEW S, NEW x \in S, NEW y \in S
    PROVE  <<x, y>> = <<x>> \o <<y>> /\ <<x, y>> \in Seq(S)
<1> DEFINE p == <<x>>
           q == <<y>>
           w == p \o q
<1>1. /\ p \in Seq(S) /\ Len(p) = 1 /\ p[1] = x
      /\ q \in Seq(S) /\ Len(q) = 1 /\ q[1] = y
  OBVIOUS
<1> HIDE DEF p, q
<1>2. /\ w \in Seq(S) /\ Len(w) = Len(p) + Len(q)
      /\ \A i \in 1 .. Len(p) : w[i] = p[i]
      /\ \A i \in 1 .. Len(q) : w[Len(p) + i] = q[i]
  BY <1>1, Joining
<1> HIDE DEF w
<1>3. w[1] = x /\ w[2] = y /\ Len(w) = 2
  <2>1. w[1] = p[1]
    BY <1>1, <1>2
  <2>2. w[1 + 1] = q[1]
    BY <1>1, <1>2
  <2> QED
    BY <1>1, <1>2, <2>1, <2>2
<1> DEFINE t == <<x, y>>
<1>4. t \in Seq(S) /\ Len(t) = 2 /\ t[1] = x /\ t[2] = y
  OBVIOUS
<1> HIDE DEF t
<1>5. Len(w) = Len(t) /\ \A i \in 1 .. Len(w) : w[i] = t[i]
  BY <1>3, <1>4
<1>6. w = t
  BY <1>2, <1>4, <1>5, SeqEqual
<1> QED
  BY <1>4, <1>6 DEF w, p, q, t

LEMMA TwoItems ==
    ASSUME NEW S, NEW w \in Seq(S), NEW x \in S, NEW y \in S
    PROVE  /\ w \o <<x, y>> = Append(Append(w, x), y) /\ <<x, y>> \in Seq(S)
           /\ Append(Append(w, x), y) \in Seq(S)
<1>1. <<x, y>> = <<x>> \o <<y>> /\ <<x, y>> \in Seq(S)
  BY TwoAlone
<1>2. <<x>> \in Seq(S) /\ <<y>> \in Seq(S)
  OBVIOUS
<1>3. w \o (<<x>> \o <<y>>) = (w \o <<x>>) \o <<y>>
  BY <1>2, ConcatAssociative
<1>4. w \o <<x>> = Append(w, x) /\ Append(w, x) \in Seq(S)
  BY OneItem
<1>5. Append(w, x) \o <<y>> = Append(Append(w, x), y)
      /\ Append(Append(w, x), y) \in Seq(S)
  BY <1>4, OneItem
<1>6. w \o <<x, y>> = Append(Append(w, x), y)
  BY <1>1, <1>3, <1>4, <1>5, Zenon
<1> QED
  BY <1>1, <1>5, <1>6

\* What follows a start, sequence by sequence.
LEMMA Chain ==
    ASSUME NEW S, NEW start \in Seq(S), NEW seqs \in Seq(Seq(S))
    PROVE  /\ start \o Flats(seqs)[0] = start
           /\ \A n \in 1 .. Len(seqs) :
                  start \o Flats(seqs)[n]
                  = (start \o Flats(seqs)[n - 1]) \o seqs[n]
           /\ \A n \in 0 .. Len(seqs) : start \o Flats(seqs)[n] \in Seq(S)
           /\ start \o Flats(seqs)[Len(seqs)] = start \o Flat(seqs)
<1> DEFINE g == Flats(seqs)
           N == Len(seqs)
<1>0. \A p, q, r \in Seq(S) : (p \o q) \o r = p \o (q \o r)
  BY ConcatAssociative
<1>1. /\ N \in Nat /\ g[0] = <<>>
      /\ \A n \in 1 .. N : g[n] = g[n - 1] \o seqs[n]
      /\ \A n \in 0 .. N : g[n] \in Seq(S)
      /\ Flat(seqs) = g[N]
  BY FlatsStep, FlatIsFlats
<1>2. \A n \in 1 .. N : seqs[n] \in Seq(S)
  OBVIOUS
<1> HIDE DEF g, N
<1>3. start \o g[0] = start
  BY <1>1, ConcatEmptySeq
<1>4. ASSUME NEW n \in 1 .. N
      PROVE  start \o g[n] = (start \o g[n - 1]) \o seqs[n]
  <2>1. n - 1 \in 0 .. N
    BY <1>1
  <2>2. g[n - 1] \in Seq(S) /\ seqs[n] \in Seq(S)
    BY <1>1, <1>2, <2>1
  <2>3. (start \o g[n - 1]) \o seqs[n] = start \o (g[n - 1] \o seqs[n])
    BY <1>0, <2>2, Zenon
  <2>4. g[n] = g[n - 1] \o seqs[n]
    BY <1>1
  <2> QED
    BY <2>3, <2>4, Zenon
<1>5. \A n \in 0 .. N : start \o g[n] \in Seq(S)
  BY <1>1, ConcatProperties
<1> QED
  BY <1>1, <1>3, <1>4, <1>5 DEF g, N

\* A field is not told, or told with its value.
LEMMA FieldSpoken ==
    ASSUME NEW do \in Orders, NEW g \in Groups, NEW i \in 1 .. Instances[g],
           NEW f \in Fields(g), NEW before \in [Settings -> Values],
           NEW w \in Seq(Speech)
    PROVE  LET a == FieldAnswer(do, g, i, f, before) IN
           /\ a \in Seq(Speech)
           /\ w \o a = IF do = "query" /\ Kinds[g][f] = "password" THEN w
                       ELSE Append(Append(w, <<"field", f>>),
                                   IF do = "set" THEN <<"no value">>
                                   ELSE <<"value", before[<<g, i, f>>]>>)
<1> DEFINE x == <<"field", f>>
           y == IF do = "set" THEN <<"no value">>
                ELSE <<"value", before[<<g, i, f>>]>>
<1>1. f \in 0 .. 9
  <2> DEFINE m == Len(Kinds[g])
  <2>1. Fields(g) = 1 .. m /\ m \in 1 .. 9
    BY GroupFacts
  <2> HIDE DEF m
  <2> QED
    BY <2>1
<1>2. before[<<g, i, f>>] \in Values
  <2>1. <<g, i, f>> \in Settings
    BY GroupFacts
  <2> QED
    BY <2>1
<1>3. x \in Speech /\ y \in Speech
  BY <1>1, <1>2, Speaks
<1>4. CASE do = "query" /\ Kinds[g][f] = "password"
  <2>1. FieldAnswer(do, g, i, f, before) = <<>>
    BY <1>4 DEF FieldAnswer
  <2>2. <<>> \in Seq(Speech) /\ w \o <<>> = w
    BY ConcatEmptySeq
  <2> QED
    BY <1>4, <2>1, <2>2, Zenon
<1>5. CASE ~ (do = "query" /\ Kinds[g][f] = "password")
  <2>1. FieldAnswer(do, g, i, f, before) = <<x, y>>
    BY <1>5, Zenon DEF FieldAnswer
  <2> HIDE DEF x, y
  <2>2. w \o <<x, y>> = Append(Append(w, x), y) /\ <<x, y>> \in Seq(Speech)
    BY <1>3, TwoItems
  <2>3. FieldAnswer(do, g, i, f, before) \in Seq(Speech)
        /\ w \o FieldAnswer(do, g, i, f, before) = Append(Append(w, x), y)
    BY <2>1, <2>2, Zenon
  <2> QED
    BY <1>5, <2>3, Zenon DEF x, y
<1> QED
  BY <1>4, <1>5

LEMMA HeadingSpoken ==
    ASSUME NEW g \in Groups, NEW i \in 1 .. Instances[g],
           NEW w \in Seq(Speech)
    PROVE  /\ Heading(g, i) \in Seq(Speech)
           /\ w \o Heading(g, i) =
                  IF i > 1 THEN Append(Append(w, <<"group", g>>), <<"index", i>>)
                  ELSE Append(w, <<"group", g>>)
<1> DEFINE x == <<"group", g>>
           y == <<"index", i>>
<1>1. x \in Speech /\ y \in Speech
  <2>1. Instances[g] \in 1 .. 9
    BY GroupFacts
  <2>2. i \in 0 .. 9
    BY <2>1
  <2> QED
    BY <2>2, Speaks
<1>2. Heading(g, i) = <<x>> \o (IF i > 1 THEN <<y>> ELSE <<>>)
  BY DEF Heading
<1> HIDE DEF x, y
<1>3. CASE i > 1
  <2>1. Heading(g, i) = <<x>> \o <<y>>
    BY <1>2, <1>3
  <2>2. <<x>> \o <<y>> = <<x, y>>
    BY <1>1, TwoAlone
  <2>3. w \o <<x, y>> = Append(Append(w, x), y) /\ <<x, y>> \in Seq(Speech)
    BY <1>1, TwoItems
  <2> QED
    BY <1>3, <2>1, <2>2, <2>3, Zenon DEF x, y
<1>4. CASE ~ (i > 1)
  <2>1. Heading(g, i) = <<x>> \o <<>>
    BY <1>2, <1>4
  <2>2. <<x>> \o <<>> = <<x>>
    OBVIOUS
  <2>3. w \o <<x>> = Append(w, x) /\ <<x>> \in Seq(Speech)
    BY <1>1, OneItem
  <2> QED
    BY <1>4, <2>1, <2>2, <2>3, Zenon DEF x, y
<1> QED
  BY <1>3, <1>4

\* The answers of the fields of an instance, and all of one instance.
Spoken(do, g, i, fields, before) ==
    [n \in DOMAIN fields |-> FieldAnswer(do, g, i, fields[n], before)]

LEMMA PartSpoken ==
    ASSUME NEW do \in Orders, NEW g \in Groups, NEW i \in 1 .. Instances[g],
           NEW fields \in Seq(Fields(g)), NEW before \in [Settings -> Values]
    PROVE  LET seqs == Spoken(do, g, i, fields, before)
               part == Part(do, g, i, fields, before)
           IN
           /\ seqs \in Seq(Seq(Speech)) /\ Len(seqs) = Len(fields)
           /\ Len(fields) \in Nat /\ Heading(g, i) \in Seq(Speech)
           /\ part \in Seq(Speech)
           /\ \A w \in Seq(Speech) :
                  w \o part = Append((w \o Heading(g, i)) \o Flat(seqs), End)
           /\ \A w \in Seq(Speech) : (w \o Heading(g, i)) \o Flat(seqs) \in Seq(Speech)
<1> DEFINE seqs == Spoken(do, g, i, fields, before)
           h == Heading(g, i)
           m == Len(fields)
<1>0. m \in Nat /\ DOMAIN fields = 1 .. m /\ \A n \in 1 .. m : fields[n] \in Fields(g)
  OBVIOUS
<1>1. \A n \in 1 .. m :
          FieldAnswer(do, g, i, fields[n], before) \in Seq(Speech)
  <2> SUFFICES ASSUME NEW n \in 1 .. m
               PROVE  FieldAnswer(do, g, i, fields[n], before) \in Seq(Speech)
    OBVIOUS
  <2>1. <<>> \in Seq(Speech) /\ fields[n] \in Fields(g)
    BY <1>0
  <2> QED
    BY <2>1, FieldSpoken
<1> HIDE DEF m
<1>2. seqs = [n \in 1 .. m |-> FieldAnswer(do, g, i, fields[n], before)]
  BY <1>0 DEF Spoken
<1>3. seqs \in [1 .. m -> Seq(Speech)]
  BY <1>1, <1>2
<1> HIDE DEF seqs
<1>4. seqs \in Seq(Seq(Speech)) /\ Len(seqs) = m
  BY <1>0, <1>3, FunSeq
<1> DEFINE f == Flat(seqs)
           e == <<End>>
<1>5. f \in Seq(Speech)
  BY <1>4, FlatIsFlats
<1>6. h \in Seq(Speech)
  <2>1. <<>> \in Seq(Speech)
    OBVIOUS
  <2> QED
    BY <2>1, HeadingSpoken
<1>7. End \in Speech
  BY Speaks
<1>8. e \in Seq(Speech)
  BY <1>7, OneItem, <1>5
<1>9. Part(do, g, i, fields, before) = (h \o f) \o e
  BY DEF Part, Spoken, f, h, e, seqs
<1> HIDE DEF f, e, h
<1>10. \A p, q, r \in Seq(Speech) : (p \o q) \o r = p \o (q \o r)
  BY ConcatAssociative
<1>11. \A p, q \in Seq(Speech) : p \o q \in Seq(Speech)
  BY ConcatProperties
<1>12. \A w \in Seq(Speech) : w \o e = Append(w, End)
  BY <1>7, OneItem DEF e
<1>13. h \o f \in Seq(Speech) /\ (h \o f) \o e \in Seq(Speech)
  BY <1>5, <1>6, <1>8, <1>11, Zenon
<1>14. ASSUME NEW w \in Seq(Speech)
       PROVE  /\ w \o ((h \o f) \o e) = Append((w \o h) \o f, End)
              /\ (w \o h) \o f \in Seq(Speech)
  <2>1. w \o ((h \o f) \o e) = (w \o (h \o f)) \o e
    BY <1>8, <1>10, <1>13, Zenon
  <2>2. w \o (h \o f) = (w \o h) \o f
    BY <1>5, <1>6, <1>10, Zenon
  <2>3. (w \o h) \o f \in Seq(Speech)
    BY <1>5, <1>6, <1>11, Zenon
  <2>4. ((w \o h) \o f) \o e = Append((w \o h) \o f, End)
    BY <1>12, <2>3, Zenon
  <2> QED
    BY <2>1, <2>2, <2>3, <2>4, Zenon
<1>15. \A w \in Seq(Speech) :
           w \o Part(do, g, i, fields, before) = Append((w \o h) \o f, End)
  BY <1>9, <1>14, Zenon
<1>16. Part(do, g, i, fields, before) \in Seq(Speech)
  BY <1>9, <1>13, Zenon
<1>17. \A w \in Seq(Speech) : (w \o h) \o f \in Seq(Speech)
  BY <1>14, Zenon
<1> QED
  BY <1>0, <1>4, <1>6, <1>15, <1>16, <1>17 DEF f, h, seqs, m

\* What is asked of one request.
Request1(o, c) == /\ o.request \in RciRequests
                  /\ o.before \in [Settings -> Values]
                  /\ c \in 1 .. Len(o.request)

LEMMA AskedFacts ==
    ASSUME NEW o, NEW c, Request1(o, c)
    PROVE  /\ Asked(o, c).do \in Orders /\ Number(o, c) \in Nat
           /\ SavedAt(o, c) \in [Settings -> Values]
           /\ SavedAt(o, c + 1) \in [Settings -> Values]
           /\ DOMAIN Asked(o, c).groups = 1 .. Number(o, c)
           /\ Asked(o, c).groups = <<>> <=> Number(o, c) = 0
           /\ \A k \in 1 .. Number(o, c) : Good(Asked(o, c).do, Wish(o, c, k))
           /\ Len(o.request) \in Nat /\ c \in 1 .. Len(o.request)
           /\ o.request \in RciRequests
<1>1. /\ o.request \in RciRequests /\ o.before \in [Settings -> Values]
      /\ c \in 1 .. Len(o.request)
  BY DEF Request1
<1>2. /\ Len(o.request) \in Nat
      /\ o.request[c].do \in Orders
      /\ o.request[c].groups \in Seq(GroupWishes)
      /\ Len(o.request[c].groups) \in Nat
      /\ DOMAIN o.request[c].groups = 1 .. Len(o.request[c].groups)
      /\ \A k \in 1 .. Len(o.request[c].groups) :
             Good(o.request[c].do, o.request[c].groups[k])
  BY <1>1, WishFacts
<1>3. o.request[c].groups = <<>> <=> Len(o.request[c].groups) = 0
  BY <1>2, EmptySeq
<1>4. c \in 1 .. Len(o.request) + 1 /\ c + 1 \in 1 .. Len(o.request) + 1
  BY <1>1, <1>2
<1>5. \A d \in 1 .. Len(o.request) + 1 : SavedAt(o, d) \in [Settings -> Values]
  BY <1>1, BeforeEach
<1> QED
  BY <1>1, <1>2, <1>3, <1>4, <1>5 DEF Asked, Number, Wish

\* How the answer goes on with a field.
FieldStep(o, c, g, i, fields, start, n) ==
    Spelled(o, c, g, i, fields, start, n)
    = IF Asked(o, c).do = "query" /\ Kinds[g][fields[n]] = "password"
      THEN Spelled(o, c, g, i, fields, start, n - 1)
      ELSE Append(Append(Spelled(o, c, g, i, fields, start, n - 1),
                         <<"field", fields[n]>>),
                  IF Asked(o, c).do = "set" THEN <<"no value">>
                  ELSE <<"value", SavedAt(o, c)[<<g, i, fields[n]>>]>>)

LEMMA SpelledSteps ==
    ASSUME NEW o, NEW c, Request1(o, c), NEW g \in Groups,
           NEW i \in 1 .. Instances[g], NEW fields \in Seq(Fields(g)),
           NEW start \in Seq(Speech)
    PROVE  LET do == Asked(o, c).do
               before == SavedAt(o, c)
           IN
           /\ Spelled(o, c, g, i, fields, start, 0)
              = IF i > 1
                THEN Append(Append(start, <<"group", g>>), <<"index", i>>)
                ELSE Append(start, <<"group", g>>)
           /\ \A n \in 1 .. Len(fields) :
                  FieldStep(o, c, g, i, fields, start, n)
           /\ \A n \in 0 .. Len(fields) :
                  Spelled(o, c, g, i, fields, start, n) \in Seq(Speech)
           /\ Append(Spelled(o, c, g, i, fields, start, Len(fields)), End)
              = start \o Part(do, g, i, fields, before)
<1> DEFINE do == Asked(o, c).do
           before == SavedAt(o, c)
           seqs == Spoken(do, g, i, fields, before)
           h == Heading(g, i)
           m == Len(fields)
           S(n) == Spelled(o, c, g, i, fields, start, n)
<1>1. do \in Orders /\ before \in [Settings -> Values]
  BY AskedFacts
<1>2. FieldAnswers(o, c, g, i, fields) = seqs
  BY DEF FieldAnswers, Spoken
<1>3. \A n : S(n) = (start \o h) \o Flats(seqs)[n]
  BY <1>2 DEF Spelled
<1>4. /\ m \in Nat /\ \A n \in 1 .. m : fields[n] \in Fields(g)
      /\ DOMAIN fields = 1 .. m
  OBVIOUS
<1>5. \A n \in 1 .. m : seqs[n] = FieldAnswer(do, g, i, fields[n], before)
  BY <1>4 DEF Spoken
<1> HIDE DEF do, before, m, S
<1>6. /\ seqs \in Seq(Seq(Speech)) /\ Len(seqs) = m
      /\ h \in Seq(Speech)
      /\ \A w \in Seq(Speech) :
             w \o Part(do, g, i, fields, before)
             = Append((w \o h) \o Flat(seqs), End)
  BY <1>1, PartSpoken, ZenonT(40) DEF m
<1> HIDE DEF seqs
<1>7. start \o h \in Seq(Speech)
  BY <1>6, ConcatProperties
<1>8. /\ (start \o h) \o Flats(seqs)[0] = start \o h
      /\ \A n \in 1 .. m : (start \o h) \o Flats(seqs)[n]
             = ((start \o h) \o Flats(seqs)[n - 1]) \o seqs[n]
      /\ \A n \in 0 .. m : (start \o h) \o Flats(seqs)[n] \in Seq(Speech)
      /\ (start \o h) \o Flats(seqs)[m] = (start \o h) \o Flat(seqs)
  <2> DEFINE st == start \o h
  <2>1. st \in Seq(Speech)
    BY <1>7
  <2> HIDE DEF st
  <2>2. /\ st \o Flats(seqs)[0] = st
        /\ \A n \in 1 .. m : st \o Flats(seqs)[n]
               = (st \o Flats(seqs)[n - 1]) \o seqs[n]
        /\ \A n \in 0 .. m : st \o Flats(seqs)[n] \in Seq(Speech)
        /\ st \o Flats(seqs)[m] = st \o Flat(seqs)
    <3>1. seqs \in Seq(Seq(Speech)) /\ Len(seqs) = m
      BY <1>6
    <3>2. /\ st \o Flats(seqs)[0] = st
          /\ \A n \in 1 .. Len(seqs) : st \o Flats(seqs)[n]
                 = (st \o Flats(seqs)[n - 1]) \o seqs[n]
          /\ \A n \in 0 .. Len(seqs) : st \o Flats(seqs)[n] \in Seq(Speech)
          /\ st \o Flats(seqs)[Len(seqs)] = st \o Flat(seqs)
      BY <2>1, <3>1, Chain
    <3> QED
      BY <3>1, <3>2, Zenon
  <2> QED
    BY <2>2 DEF st
<1>9. S(0) = start \o h
  BY <1>3, <1>8, Zenon
<1>10. start \o h = IF i > 1
                THEN Append(Append(start, <<"group", g>>), <<"index", i>>)
                ELSE Append(start, <<"group", g>>)
  BY HeadingSpoken
<1>11. \A n \in 0 .. m : S(n) \in Seq(Speech)
  BY <1>3, <1>8, Zenon
<1>12. ASSUME NEW n \in 1 .. m
       PROVE  S(n) = IF do = "query" /\ Kinds[g][fields[n]] = "password"
                    THEN S(n - 1)
                    ELSE Append(Append(S(n - 1), <<"field", fields[n]>>),
                                IF do = "set" THEN <<"no value">>
                                ELSE <<"value", before[<<g, i, fields[n]>>]>>)
  <2>1. S(n) = S(n - 1) \o FieldAnswer(do, g, i, fields[n], before)
    BY <1>3, <1>5, <1>8, Zenon
  <2>2. n - 1 \in 0 .. m /\ fields[n] \in Fields(g)
    BY <1>4
  <2>3. S(n - 1) \in Seq(Speech)
    BY <1>11, <2>2
  <2> DEFINE w == S(n - 1)
             f == fields[n]
  <2>4. w \in Seq(Speech) /\ f \in Fields(g)
    BY <2>2, <2>3
  <2> HIDE DEF w, f
  <2>5. w \o FieldAnswer(do, g, i, f, before)
        = IF do = "query" /\ Kinds[g][f] = "password" THEN w
          ELSE Append(Append(w, <<"field", f>>),
                      IF do = "set" THEN <<"no value">>
                      ELSE <<"value", before[<<g, i, f>>]>>)
    BY <1>1, <2>4, FieldSpoken
  <2> QED
    BY <2>1, <2>5, Zenon DEF w, f
<1>13. Append(S(m), End) = start \o Part(do, g, i, fields, before)
  BY <1>3, <1>6, <1>8, Zenon
<1>14. S(0) = IF i > 1
              THEN Append(Append(start, <<"group", g>>), <<"index", i>>)
              ELSE Append(start, <<"group", g>>)
  BY <1>9, <1>10, Zenon
<1>15. \A n \in 1 .. m : FieldStep(o, c, g, i, fields, start, n)
  BY <1>12, Zenon DEF FieldStep, S, do, before
<1> QED
  BY <1>11, <1>13, <1>14, <1>15, Zenon DEF S, m, do, before

LEMMA AllFieldsTyped ==
    ASSUME NEW g \in Groups
    PROVE  /\ AllFields(g) \in Seq(Fields(g))
           /\ Len(AllFields(g)) = Len(Kinds[g])
           /\ \A f \in 1 .. Len(Kinds[g]) : AllFields(g)[f] = f
           /\ Fields(g) = 1 .. Len(Kinds[g]) /\ Len(Kinds[g]) \in 1 .. 9
<1> DEFINE m == Len(Kinds[g])
<1>1. Fields(g) = 1 .. m /\ m \in 1 .. 9
  BY GroupFacts
<1>2. AllFields(g) = [n \in 1 .. m |-> n]
  BY <1>1 DEF AllFields
<1> HIDE DEF m
<1>3. AllFields(g) \in [1 .. m -> 1 .. m] /\ m \in Nat
  BY <1>1, <1>2
<1>4. AllFields(g) \in Seq(1 .. m) /\ Len(AllFields(g)) = m
  BY <1>3, FunSeq
<1> QED
  BY <1>1, <1>2, <1>4 DEF m

\* All the instances of a group.
LEMMA InstantsTyped ==
    ASSUME NEW do \in Orders, NEW g \in Groups,
           NEW before \in [Settings -> Values]
    PROVE  LET seqs == [i \in 1 .. Instances[g] |->
                           Part(do, g, i, AllFields(g), before)] IN
           /\ seqs \in Seq(Seq(Speech)) /\ Len(seqs) = Instances[g]
           /\ AllOf(do, g, before) = Flat(seqs)
           /\ AllOf(do, g, before) \in Seq(Speech)
<1> DEFINE seqs == [i \in 1 .. Instances[g] |->
                        Part(do, g, i, AllFields(g), before)]
<1>1. Instances[g] \in Nat
  BY GroupFacts
<1>2. \A i \in 1 .. Instances[g] :
          Part(do, g, i, AllFields(g), before) \in Seq(Speech)
  <2>1. AllFields(g) \in Seq(Fields(g))
    BY AllFieldsTyped
  <2> QED
    BY <2>1, PartSpoken
<1>3. seqs \in [1 .. Instances[g] -> Seq(Speech)]
  BY <1>2
<1>4. AllOf(do, g, before) = Flat(seqs)
  BY DEF AllOf
<1> HIDE DEF seqs
<1>5. seqs \in Seq(Seq(Speech)) /\ Len(seqs) = Instances[g]
  BY <1>1, <1>3, FunSeq
<1>6. Flat(seqs) \in Seq(Speech)
  BY <1>5, FlatIsFlats
<1>7. AllOf(do, g, before) \in Seq(Speech)
  BY <1>4, <1>6, Zenon
<1> QED
  BY <1>4, <1>5, <1>7 DEF seqs

LEMMA InstancesSpoken ==
    ASSUME NEW o, NEW c, Request1(o, c), NEW g \in Groups,
           NEW start \in Seq(Speech)
    PROVE  LET T(i) == InstancesTold(o, c, g, start, i)
               do == Asked(o, c).do
               before == SavedAt(o, c)
           IN
           /\ T(1) = start
           /\ \A i \in 1 .. Instances[g] :
                  /\ T(i + 1) = T(i) \o Part(do, g, i, AllFields(g), before)
                  /\ T(i) \in Seq(Speech)
           /\ T(Instances[g] + 1) = start \o AllOf(do, g, before)
           /\ T(Instances[g] + 1) \in Seq(Speech)
<1> DEFINE T(i) == InstancesTold(o, c, g, start, i)
           do == Asked(o, c).do
           before == SavedAt(o, c)
           seqs == Instants(o, c, g)
           N == Instances[g]
<1>1. do \in Orders /\ before \in [Settings -> Values]
  BY AskedFacts
<1>2. seqs = [i \in 1 .. Instances[g] |->
                  Part(do, g, i, AllFields(g), before)]
  BY DEF Instants
<1>3. /\ seqs \in Seq(Seq(Speech)) /\ Len(seqs) = N
      /\ AllOf(do, g, before) = Flat(seqs)
  <2> HIDE DEF do, before, seqs
  <2> QED
    BY <1>1, <1>2, InstantsTyped
<1>4. \A i \in 1 .. N : seqs[i] = Part(do, g, i, AllFields(g), before)
  BY <1>2
<1>5. N \in Nat
  BY GroupFacts
<1>6. \A i : T(i) = start \o Flats(seqs)[i - 1]
  BY DEF InstancesTold
<1> HIDE DEF do, before, seqs, T, N
<1>7. /\ start \o Flats(seqs)[0] = start
      /\ \A n \in 1 .. Len(seqs) : start \o Flats(seqs)[n]
             = (start \o Flats(seqs)[n - 1]) \o seqs[n]
      /\ \A n \in 0 .. Len(seqs) : start \o Flats(seqs)[n] \in Seq(Speech)
      /\ start \o Flats(seqs)[Len(seqs)] = start \o Flat(seqs)
  BY <1>3, Chain
<1>8. 1 - 1 = 0 /\ (N + 1) - 1 = N /\ N \in 0 .. N
  BY <1>5
<1>9. T(1) = start
  BY <1>6, <1>7, <1>8, Zenon
<1>10. T(N + 1) = start \o AllOf(do, g, before) /\ T(N + 1) \in Seq(Speech)
  BY <1>3, <1>6, <1>7, <1>8, Zenon
<1>11. ASSUME NEW i \in 1 .. N
       PROVE  /\ T(i + 1) = T(i) \o Part(do, g, i, AllFields(g), before)
              /\ T(i) \in Seq(Speech)
  <2>1. (i + 1) - 1 = i /\ i - 1 \in 0 .. N
    BY <1>5
  <2>2. i \in 1 .. Len(seqs) /\ i - 1 \in 0 .. Len(seqs)
    BY <1>3, <2>1
  <2>3. T(i + 1) = start \o Flats(seqs)[i]
    BY <1>6, <2>1, Zenon
  <2> QED
    BY <1>4, <1>6, <1>7, <2>2, <2>3, Zenon
<1> QED
  BY <1>9, <1>10, <1>11 DEF T, do, before, N

\* The parts of the answer to a command.
LEMMA GroupAnswerTyped ==
    ASSUME NEW do \in Orders, NEW g, Good(do, g),
           NEW before \in [Settings -> Values]
    PROVE  /\ GroupAnswer(do, g, before) \in Seq(Speech)
           /\ Instance(g) \in 1 .. Instances[g.id] /\ g.id \in Groups
           /\ FieldsOf(g) \in Seq(Fields(g.id))
<1>1. /\ g.id \in Groups /\ g.index \in 0 .. Instances[g.id]
      /\ g.fields \in Seq(Fields(g.id))
  BY DEF Good
<1>2. Instances[g.id] \in 1 .. 9
  BY <1>1, GroupFacts
<1>3. Instance(g) \in 1 .. Instances[g.id]
  BY <1>1, <1>2 DEF Instance
<1>4. FieldsOf(g) \in Seq(Fields(g.id))
  BY <1>1, AllFieldsTyped DEF FieldsOf
<1> DEFINE id == g.id
           i == Instance(g)
           fields == FieldsOf(g)
<1>5. id \in Groups /\ i \in 1 .. Instances[id] /\ fields \in Seq(Fields(id))
  BY <1>1, <1>3, <1>4
<1>6. GroupAnswer(do, g, before)
      \in {AllOf(do, id, before), Part(do, id, i, fields, before)}
  BY DEF GroupAnswer
<1> HIDE DEF id, i, fields
<1>7. /\ Part(do, id, i, fields, before) \in Seq(Speech)
      /\ AllOf(do, id, before) \in Seq(Speech)
  BY <1>5, PartSpoken, InstantsTyped
<1>8. GroupAnswer(do, g, before) \in Seq(Speech)
  BY <1>6, <1>7, Zenon
<1> QED
  BY <1>1, <1>3, <1>4, <1>8

PartsOf(o, c) ==
    IF Number(o, c) = 0 THEN Len(Instances) ELSE Number(o, c)

LEMMA PartsTyped ==
    ASSUME NEW o, NEW c, Request1(o, c)
    PROVE  /\ AnswerParts(o, c) \in Seq(Seq(Speech))
           /\ Len(AnswerParts(o, c)) = PartsOf(o, c)
           /\ Number(o, c) = 0 => \A g \in Groups :
                  AnswerParts(o, c)[g] = AllOf(Asked(o, c).do, g, SavedAt(o, c))
           /\ Number(o, c) # 0 => \A k \in 1 .. Number(o, c) :
                  AnswerParts(o, c)[k]
                  = GroupAnswer(Asked(o, c).do, Wish(o, c, k), SavedAt(o, c))
<1> DEFINE do == Asked(o, c).do
           before == SavedAt(o, c)
           seqs == AnswerParts(o, c)
           N == Number(o, c)
           L == Len(Instances)
           G(k) == Wish(o, c, k)
<1>1. do \in Orders /\ before \in [Settings -> Values] /\ N \in Nat
      /\ DOMAIN Asked(o, c).groups = 1 .. N
      /\ (Asked(o, c).groups = <<>> <=> N = 0)
      /\ \A k \in 1 .. N : Good(do, G(k))
  BY AskedFacts
<1>2. Groups = 1 .. L /\ L \in Nat
  BY GroupFacts
<1>3. seqs = IF N = 0 THEN [g \in 1 .. L |-> AllOf(do, g, before)]
             ELSE [k \in 1 .. N |-> GroupAnswer(do, G(k), before)]
  <2>1. seqs = IF Asked(o, c).groups = <<>>
               THEN [g \in Groups |-> AllOf(do, g, before)]
               ELSE [k \in DOMAIN Asked(o, c).groups |->
                        GroupAnswer(do, G(k), before)]
    BY DEF AnswerParts, Wish
  <2> HIDE DEF do, before, seqs, N, G
  <2> QED
    BY <1>1, <1>2, <2>1
<1> HIDE DEF do, before, seqs, N, G, L
<1>4. \A g \in 1 .. L : AllOf(do, g, before) \in Seq(Speech)
  BY <1>1, <1>2, InstantsTyped
<1>5. \A k \in 1 .. N : GroupAnswer(do, G(k), before) \in Seq(Speech)
  <2> SUFFICES ASSUME NEW k \in 1 .. N
               PROVE  GroupAnswer(do, G(k), before) \in Seq(Speech)
    OBVIOUS
  <2>1. Good(do, G(k))
    BY <1>1
  <2> QED
    BY <1>1, <2>1, GroupAnswerTyped
<1>6. CASE N = 0
  <2>1. seqs = [g \in 1 .. L |-> AllOf(do, g, before)]
    BY <1>3, <1>6
  <2>2. seqs \in [1 .. L -> Seq(Speech)]
    BY <1>4, <2>1
  <2>3. seqs \in Seq(Seq(Speech)) /\ Len(seqs) = L
    BY <1>2, <2>2, FunSeq
  <2>4. PartsOf(o, c) = L
    BY <1>6 DEF PartsOf, N, L
  <2>5. \A g \in Groups : seqs[g] = AllOf(do, g, before)
    BY <1>2, <2>1
  <2> QED
    BY <1>6, <2>3, <2>4, <2>5 DEF seqs, do, before, N
<1>7. CASE N # 0
  <2>1. seqs = [k \in 1 .. N |-> GroupAnswer(do, G(k), before)]
    BY <1>3, <1>7
  <2>2. seqs \in [1 .. N -> Seq(Speech)]
    BY <1>5, <2>1
  <2>3. seqs \in Seq(Seq(Speech)) /\ Len(seqs) = N
    BY <1>1, <2>2, FunSeq
  <2>4. PartsOf(o, c) = N
    BY <1>7 DEF PartsOf, N
  <2>5. \A k \in 1 .. N : seqs[k] = GroupAnswer(do, G(k), before)
    BY <2>1
  <2> QED
    BY <1>7, <2>3, <2>4, <2>5 DEF seqs, do, before, N, G
<1> QED
  BY <1>6, <1>7

\* The answers to the commands.
LEMMA AnswerIs ==
    ASSUME NEW o, NEW c, Request1(o, c)
    PROVE  /\ AnswerTo(Asked(o, c), SavedAt(o, c)) \in Seq(Speech)
           /\ \A w \in Seq(Speech) :
                  w \o AnswerTo(Asked(o, c), SavedAt(o, c))
                  = Append(Append(w, <<"command", Asked(o, c).do>>)
                           \o Flat(AnswerParts(o, c)), End)
<1> DEFINE seqs == AnswerParts(o, c)
           x == <<"command", Asked(o, c).do>>
           f == Flat(seqs)
           e == <<End>>
           a == AnswerTo(Asked(o, c), SavedAt(o, c))
<1>1. a = (<<x>> \o f) \o e
  BY DEF AnswerTo, AnswerParts
<1>2. seqs \in Seq(Seq(Speech))
  BY PartsTyped
<1>3. x \in Speech /\ End \in Speech
  BY AskedFacts, Speaks
<1> HIDE DEF seqs, x, a
<1>4. f \in Seq(Speech)
  BY <1>2, FlatIsFlats
<1> HIDE DEF f
<1>5. e \in Seq(Speech) /\ <<x>> \in Seq(Speech)
  BY <1>3
<1>6. \A w \in Seq(Speech) : w \o <<x>> = Append(w, x) /\ w \o e = Append(w, End)
  BY <1>3, OneItem
<1> HIDE DEF e
<1>7. \A p, q, r \in Seq(Speech) : (p \o q) \o r = p \o (q \o r)
  BY ConcatAssociative
<1>8. \A p, q \in Seq(Speech) : p \o q \in Seq(Speech)
  BY ConcatProperties
<1> DEFINE b == <<x>>
<1>9. b \in Seq(Speech)
  BY <1>5
<1>10. \A w \in Seq(Speech) : w \o b = Append(w, x)
  BY <1>6
<1>11. a = (b \o f) \o e
  BY <1>1
<1> HIDE DEF b
<1>12. b \o f \in Seq(Speech) /\ a \in Seq(Speech)
  BY <1>4, <1>5, <1>8, <1>9, <1>11, Zenon
<1>13. ASSUME NEW w \in Seq(Speech)
       PROVE  w \o a = Append(Append(w, x) \o f, End)
  <2>1. w \o a = (w \o (b \o f)) \o e
    BY <1>5, <1>7, <1>11, <1>12, ZenonT(40)
  <2>2. w \o (b \o f) = (w \o b) \o f
    BY <1>4, <1>7, <1>9, Zenon
  <2>3. (w \o b) \o f \in Seq(Speech)
    BY <1>4, <1>8, <1>9, Zenon
  <2> QED
    BY <1>6, <1>10, <2>1, <2>2, <2>3, Zenon
<1> QED
  BY <1>12, <1>13 DEF a, x, f, seqs

LEMMA ToldSteps ==
    ASSUME NEW o, o.request \in RciRequests, o.before \in [Settings -> Values]
    PROVE  LET last == Len(o.request) IN
           /\ last \in Nat /\ ToldUpTo(o, 1) = <<>>
           /\ \A c \in 1 .. last :
                  /\ ToldUpTo(o, c + 1) =
                             ToldUpTo(o, c) \o AnswerTo(Asked(o, c), SavedAt(o, c))
                  /\ ToldUpTo(o, c) \in Seq(Speech)
           /\ ToldUpTo(o, last + 1) = Flat(AnswersOf(o))
           /\ ToldUpTo(o, last + 1) \in Seq(Speech)
<1> DEFINE last == Len(o.request)
           seqs == AnswersOf(o)
           T(c) == ToldUpTo(o, c)
           A(c) == AnswerTo(Asked(o, c), SavedAt(o, c))
<1>1. last \in Nat /\ DOMAIN o.request = 1 .. last
  BY WishFacts
<1>2. seqs = [c \in 1 .. last |-> A(c)]
  BY <1>1 DEF AnswersOf, Asked
<1>3. \A c \in 1 .. last : A(c) \in Seq(Speech)
  <2> SUFFICES ASSUME NEW c \in 1 .. last PROVE A(c) \in Seq(Speech)
    OBVIOUS
  <2>1. Request1(o, c)
    BY DEF Request1
  <2> QED
    BY <2>1, AnswerIs
<1> HIDE DEF last, A
<1>4. seqs \in [1 .. last -> Seq(Speech)]
  BY <1>2, <1>3
<1>5. \A c : T(c) = Flats(seqs)[c - 1]
  BY DEF ToldUpTo
<1>6. \A c \in 1 .. last : seqs[c] = A(c)
  BY <1>2
<1> HIDE DEF seqs, T
<1>7. seqs \in Seq(Seq(Speech)) /\ Len(seqs) = last
  BY <1>1, <1>4, FunSeq
<1>8. /\ Flats(seqs)[0] = <<>>
      /\ \A n \in 1 .. last : Flats(seqs)[n] = Flats(seqs)[n - 1] \o seqs[n]
      /\ \A n \in 0 .. last : Flats(seqs)[n] \in Seq(Speech)
      /\ Flat(seqs) = Flats(seqs)[last]
  BY <1>7, FlatsStep, FlatIsFlats
<1>9. 1 - 1 = 0 /\ (last + 1) - 1 = last /\ last \in 0 .. last
  BY <1>1
<1>10. T(1) = <<>>
  BY <1>5, <1>8, <1>9, Zenon
<1>11. T(last + 1) = Flat(seqs) /\ T(last + 1) \in Seq(Speech)
  BY <1>5, <1>8, <1>9, Zenon
<1>12. ASSUME NEW c \in 1 .. last
       PROVE  T(c + 1) = T(c) \o A(c) /\ T(c) \in Seq(Speech)
  <2>1. (c + 1) - 1 = c /\ c - 1 \in 0 .. last
    BY <1>1
  <2> QED
    BY <1>5, <1>6, <1>8, <2>1, Zenon
<1> QED
  BY <1>1, <1>10, <1>11, <1>12 DEF T, A, last, seqs

LEMMA PartsSpoken ==
    ASSUME NEW o, NEW c, Request1(o, c)
    PROVE  LET T(k) == PartsTold(o, c, k)
               N == PartsOf(o, c)
           IN
           /\ CommandOpened(o, c) = Append(ToldUpTo(o, c), <<"command", Asked(o, c).do>>)
           /\ CommandOpened(o, c) \in Seq(Speech) /\ N \in Nat
           /\ T(1) = CommandOpened(o, c)
           /\ \A k \in 1 .. N : /\ T(k + 1) = T(k) \o AnswerParts(o, c)[k]
                                /\ T(k) \in Seq(Speech)
           /\ T(N + 1) \in Seq(Speech)
           /\ Append(T(N + 1), End) = ToldUpTo(o, c + 1)
<1> DEFINE T(k) == PartsTold(o, c, k)
           N == PartsOf(o, c)
           seqs == AnswerParts(o, c)
           st == CommandOpened(o, c)
           w == ToldUpTo(o, c)
           x == <<"command", Asked(o, c).do>>
<1>1. seqs \in Seq(Seq(Speech)) /\ Len(seqs) = N
  BY PartsTyped
<1>2. /\ ToldUpTo(o, c + 1) = w \o AnswerTo(Asked(o, c), SavedAt(o, c))
      /\ w \in Seq(Speech)
  BY ToldSteps DEF Request1
<1>3. x \in Speech
  BY AskedFacts, Speaks
<1>4. st = Append(w, x)
  BY DEF CommandOpened
<1>5. \A k : T(k) = st \o Flats(seqs)[k - 1]
  BY DEF PartsTold
<1>6. \A v \in Seq(Speech) :
          v \o AnswerTo(Asked(o, c), SavedAt(o, c))
          = Append(Append(v, x) \o Flat(seqs), End)
  BY AnswerIs
<1> HIDE DEF seqs, st, w, x, T, N
<1>7. st \in Seq(Speech)
  BY <1>2, <1>3, <1>4, OneItem
<1>8. N \in Nat
  BY <1>1
<1>9. /\ st \o Flats(seqs)[0] = st
      /\ \A n \in 1 .. Len(seqs) : st \o Flats(seqs)[n]
             = (st \o Flats(seqs)[n - 1]) \o seqs[n]
      /\ \A n \in 0 .. Len(seqs) : st \o Flats(seqs)[n] \in Seq(Speech)
      /\ st \o Flats(seqs)[Len(seqs)] = st \o Flat(seqs)
  BY <1>1, <1>7, Chain
<1>10. 1 - 1 = 0 /\ (N + 1) - 1 = N /\ N \in 0 .. N
  BY <1>8
<1>11. T(1) = st
  BY <1>5, <1>9, <1>10, Zenon
<1>12. T(N + 1) = st \o Flat(seqs) /\ T(N + 1) \in Seq(Speech)
  BY <1>1, <1>5, <1>9, <1>10, Zenon
<1>13. Append(T(N + 1), End) = ToldUpTo(o, c + 1)
  BY <1>2, <1>4, <1>6, <1>12, Zenon
<1>14. ASSUME NEW k \in 1 .. N
       PROVE  T(k + 1) = T(k) \o seqs[k] /\ T(k) \in Seq(Speech)
  <2>1. (k + 1) - 1 = k /\ k - 1 \in 0 .. N
    BY <1>8
  <2> QED
    BY <1>1, <1>5, <1>9, <2>1, Zenon
<1>15. st = Append(w, x) /\ st \in Seq(Speech)
  BY <1>4, <1>7
<1> QED
  BY <1>8, <1>11, <1>12, <1>13, <1>14, <1>15 DEF T, N, seqs, st, w, x

-----------------------------------------------------------------------------
(* Where the parser stands, and how the steps that write nothing go on.    *)

SomeGroup == \E c, k \in Nat : AtGroup(c, k)
SomeField ==
    \E c, k, n \in Nat : \E start, fields : Amid(c, k, n, start, fields)
SomeEnd == \E c, k \in Nat : \E start, fields : Ending(c, k, start, fields)

SameWork == UNCHANGED <<written, saved, user, owed>> /\ HaveRead' = HaveRead

LEMMA StandInput ==
    ASSUME Stand, rci.parser = "input"
    PROVE  \/ rci.input = "command" /\ \E c \in Nat : AtCommand(c)
           \/ rci.input = "group" /\ SomeGroup
           \/ SomeField
<1>1. \A c \in Nat : ~CommandCame(c) /\ ~CommandCloses(c) /\ ~CommandClosed(c)
  BY DEF CommandCame, CommandCloses, CommandClosed, Walks, Utters
<1>2. \A c, k \in Nat : \A start, fields :
          ~Ending(c, k, start, fields)
  BY DEF Ending, Walks, Utters
<1>3. \A c, k \in Nat : \A start :
          ~NextInstance(c, k, start) /\ ~NextGroup(c, start)
  BY DEF NextInstance, NextGroup
<1>4. ~Utters("done")
  BY DEF Utters
<1>5. \A c \in Nat : AtCommand(c) => rci.input = "command"
  BY DEF AtCommand
<1>6. \A c, k \in Nat : AtGroup(c, k) => rci.input = "group"
  BY DEF AtGroup
<1> QED
  BY <1>1, <1>2, <1>3, <1>4, <1>5, <1>6, Zenon DEF Stand, SomeGroup, SomeField

LEMMA StandTraverse ==
    ASSUME Stand, rci.parser = "traverse"
    PROVE  \/ rci.traverse = "command" /\ \E c \in Nat : CommandCame(c)
           \/ rci.traverse = "group_end" /\ \E c \in Nat : CommandCloses(c)
           \/ rci.traverse = "none" /\ SomeGroup
           \/ /\ rci.traverse \in {"none", "group", "element", "all_elements",
                                   "all_instances", "all_groups"}
              /\ SomeField
           \/ rci.traverse = "element_end" /\ SomeEnd
           \/ /\ rci.traverse = "all_instances"
              /\ \E c, k \in Nat : \E start : NextInstance(c, k, start)
           \/ /\ rci.traverse = "all_groups"
              /\ \E c \in Nat : \E start : NextGroup(c, start)
<1>1. \A c \in Nat : /\ ~AtCommand(c) /\ ~CommandClosed(c)
                     /\ CommandCame(c) => rci.traverse = "command"
                     /\ CommandCloses(c) => rci.traverse = "group_end"
  BY DEF AtCommand, CommandCame, CommandCloses, CommandClosed, Walks, Utters
<1>2. \A c, k \in Nat : AtGroup(c, k) => rci.traverse = "none"
  BY DEF AtGroup
<1>3. \A c, k, n \in Nat : \A start, fields : Amid(c, k, n, start, fields) =>
          rci.traverse \in {"none", "group", "element", "all_elements",
                            "all_instances", "all_groups"}
  <2> SUFFICES ASSUME NEW c, NEW k, NEW n, NEW start, NEW fields,
                      Scope(c, k, n, start, fields)
               PROVE  rci.traverse \in {"none", "group", "element",
                          "all_elements", "all_instances", "all_groups"}
    BY DEF Amid
  <2>1. /\ Named(c, k, n, start, fields)
               => rci.traverse \in {"none", "group", "element"}
        /\ OfAll(c, k, start) => rci.traverse = "all_instances"
        /\ OfEvery(c, start) => rci.traverse = "all_groups"
    BY DEF Named, OfAll, OfEvery
  <2> QED
    BY <2>1 DEF Scope
<1>4. \A c, k \in Nat : \A start, fields :
          Ending(c, k, start, fields) => rci.traverse = "element_end"
  BY DEF Ending, Walks, Utters
<1>5. \A c, k \in Nat : \A start :
          NextInstance(c, k, start) => rci.traverse = "all_instances"
  BY DEF NextInstance, OfAll
<1>6. \A c \in Nat : \A start :
          NextGroup(c, start) => rci.traverse = "all_groups"
  BY DEF NextGroup
<1>7. ~Utters("done")
  BY DEF Utters
<1>8. CASE \E c \in Nat :
               AtCommand(c) \/ CommandCame(c) \/ CommandCloses(c) \/ CommandClosed(c)
  BY <1>1, <1>8, Zenon
<1>9. CASE SomeGroup
  BY <1>2, <1>9, Zenon DEF SomeGroup
<1>10. CASE SomeField
  BY <1>3, <1>10, Zenon DEF SomeField
<1>11. CASE SomeEnd
  BY <1>4, <1>11, Zenon DEF SomeEnd
<1>12. CASE \E c, k \in Nat : \E start :
                NextInstance(c, k, start) \/ NextGroup(c, start)
  BY <1>5, <1>6, <1>12, Zenon
<1> QED
  BY <1>7, <1>8, <1>9, <1>10, <1>11, <1>12, Zenon
     DEF Stand, SomeGroup, SomeField, SomeEnd

LEMMA StandOutput ==
    ASSUME Stand, rci.parser = "output"
    PROVE  \/ rci.output = "command" /\ \E c \in Nat : CommandCame(c)
           \/ rci.output = "group_end" /\ \E c \in Nat : CommandCloses(c)
           \/ rci.output = "response_done" /\ \E c \in Nat : CommandClosed(c)
           \/ /\ rci.output \in {"group", "attribute", "field", "value"}
              /\ SomeField
           \/ rci.output = "field_end" /\ SomeEnd
           \/ rci.output = "done" /\ AllTold
<1>1. \A c \in Nat : /\ ~AtCommand(c)
                     /\ CommandClosed(c) => rci.output = "response_done"
                     /\ CommandCame(c) => rci.output = "command"
                     /\ CommandCloses(c) => rci.output = "group_end"
  BY DEF AtCommand, CommandCame, CommandCloses, CommandClosed, Walks, Utters
<1>2. \A c, k \in Nat : ~AtGroup(c, k)
  BY DEF AtGroup
<1>3. \A c, k, n \in Nat : \A start, fields : Amid(c, k, n, start, fields) =>
          rci.output \in {"group", "attribute", "field", "value"}
  <2> SUFFICES ASSUME NEW c, NEW n, NEW start, NEW fields,
                      Spelling(c, start, fields, n)
               PROVE  rci.output \in {"group", "attribute", "field", "value"}
    BY DEF Amid
  <2> QED
    BY DEF Spelling, Walks, Utters
<1>4. \A c, k \in Nat : \A start, fields :
          Ending(c, k, start, fields) => rci.output = "field_end"
  BY DEF Ending, Walks, Utters
<1>5. \A c, k \in Nat : \A start :
          ~NextInstance(c, k, start) /\ ~NextGroup(c, start)
  BY DEF NextInstance, NextGroup
<1>6. Utters("done") => rci.output = "done"
  BY DEF Utters
<1>7. CASE \E c \in Nat :
               AtCommand(c) \/ CommandCame(c) \/ CommandCloses(c) \/ CommandClosed(c)
  BY <1>1, <1>7, Zenon
<1>8. CASE SomeField
  BY <1>3, <1>8, Zenon DEF SomeField
<1>9. CASE SomeEnd
  BY <1>4, <1>9, Zenon DEF SomeEnd
<1> QED
  BY <1>2, <1>5, <1>6, <1>7, <1>8, <1>9, Zenon DEF Stand, SomeField, SomeEnd

\* The same again, as stands.
LEMMA StandsAgain ==
    /\ \A c \in Nat : AtCommand(c) => Stand
    /\ \A c \in Nat : CommandCame(c) => Stand
    /\ \A c \in Nat : CommandCloses(c) => Stand
    /\ \A c \in Nat : CommandClosed(c) => Stand
    /\ \A c, k \in Nat : AtGroup(c, k) => Stand
    /\ \A c, k, n \in Nat : \A start, fields :
           Amid(c, k, n, start, fields) => Stand
    /\ \A c, k \in Nat : \A start, fields :
           Ending(c, k, start, fields) => Stand
    /\ \A c, k \in Nat : \A start : NextInstance(c, k, start) => Stand
    /\ \A c, k \in Nat : \A start : NextGroup(c, start) => Stand
    /\ Utters("done") /\ AllTold => Stand
BY Zenon DEF Stand

\* What is owed is well typed, and so is the scope of a field.
LEMMA ScopeTyped ==
    ASSUME owed.request \in RciRequests, owed.before \in [Settings -> Values],
           NEW c, NEW k, NEW n, NEW start, NEW fields, InGroup,
           Scope(c, k, n, start, fields), rci.group \in Groups \cup {0}
    PROVE  /\ Request1(owed, c) /\ rci.action = Asked(owed, c).do
           /\ rci.group \in Groups /\ rci.index \in 1 .. Instances[rci.group]
           /\ start \in Seq(Speech) /\ fields \in Seq(Fields(rci.group))
           /\ Len(fields) \in Nat
<1>1. OfCommand(c)
  <2>1. /\ Named(c, k, n, start, fields) => OfCommand(c)
        /\ OfOne(c, k, start) => OfCommand(c)
        /\ OfAll(c, k, start) => OfCommand(c)
        /\ OfEvery(c, start) => OfCommand(c)
    BY DEF Named, OfOne, OfAll, OfEvery, OfWish
  <2> QED
    BY <2>1 DEF Scope
<1>2. Request1(owed, c) /\ rci.action = Asked(owed, c).do
  BY <1>1 DEF Request1, OfCommand
<1>3. rci.group \in Groups /\ rci.index \in 1 .. Instances[rci.group]
  BY DEF InGroup
<1>4. \A j \in 1 .. Number(owed, c) :
          PartsTold(owed, c, j) \in Seq(Speech)
  <2>1. PartsOf(owed, c) \in Nat
        /\ \A j \in 1 .. PartsOf(owed, c) : PartsTold(owed, c, j) \in Seq(Speech)
    BY <1>2, PartsSpoken
  <2>2. Number(owed, c) \in Nat
    BY <1>2, AskedFacts
  <2> QED
    BY <2>1, <2>2 DEF PartsOf
<1>5. \A st \in Seq(Speech), i \in 1 .. Instances[rci.group] :
          InstancesTold(owed, c, rci.group, st, i) \in Seq(Speech)
  BY <1>2, <1>3, InstancesSpoken
<1>6. AllFields(rci.group) \in Seq(Fields(rci.group))
  BY <1>3, AllFieldsTyped
<1>7. CASE Named(c, k, n, start, fields)
  <2>1. /\ k \in 1 .. Number(owed, c) /\ rci.group = Wish(owed, c, k).id
        /\ start = PartsTold(owed, c, k) /\ fields = Wish(owed, c, k).fields
    BY <1>7 DEF Named, OfWish
  <2>2. Good(Asked(owed, c).do, Wish(owed, c, k))
    BY <1>2, <2>1, AskedFacts
  <2>3. fields \in Seq(Fields(rci.group)) /\ Len(fields) \in Nat
    BY <2>1, <2>2 DEF Good
  <2> QED
    BY <1>2, <1>3, <1>4, <2>1, <2>3
<1>8. CASE OfOne(c, k, start) /\ fields = AllFields(rci.group)
  <2>1. k \in 1 .. Number(owed, c) /\ start = PartsTold(owed, c, k)
    BY <1>8 DEF OfOne, OfWish
  <2> QED
    BY <1>2, <1>3, <1>4, <1>6, <1>8, <2>1
<1>9. CASE OfAll(c, k, start) /\ fields = AllFields(rci.group)
  <2>1. /\ k \in 1 .. Number(owed, c)
        /\ start = InstancesTold(owed, c, rci.group, PartsTold(owed, c, k),
                                 rci.index)
    BY <1>9 DEF OfAll, OfWish
  <2>2. start \in Seq(Speech)
    BY <1>3, <1>4, <1>5, <2>1
  <2> QED
    BY <1>2, <1>3, <1>6, <1>9, <2>2
<1>10. CASE OfEvery(c, start) /\ fields = AllFields(rci.group)
  <2>1. /\ Number(owed, c) = 0
        /\ start = InstancesTold(owed, c, rci.group,
                                 PartsTold(owed, c, rci.group), rci.index)
    BY <1>10 DEF OfEvery
  <2>2. rci.group \in 1 .. PartsOf(owed, c)
    BY <1>3, <2>1, GroupFacts DEF PartsOf
  <2>3. PartsTold(owed, c, rci.group) \in Seq(Speech)
    BY <1>2, <2>2, PartsSpoken
  <2>4. start \in Seq(Speech)
    BY <1>3, <1>5, <2>1, <2>3
  <2> QED
    BY <1>2, <1>3, <1>6, <1>10, <2>4
<1> QED
  BY <1>7, <1>8, <1>9, <1>10 DEF Scope

\* A step that does not matter leaves the parser where it stands.
LEMMA AlikeStand ==
    ASSUME Stand, Alike, SameWork
    PROVE  Stand'
<1>0. /\ rci'.parser = rci.parser /\ rci'.input = rci.input
      /\ rci'.output = rci.output /\ rci'.traverse = rci.traverse
      /\ rci'.process = rci.process /\ rci'.failed = rci.failed
      /\ rci'.calling = rci.calling /\ rci'.last = rci.last
      /\ rci'.group = rci.group /\ rci'.index = rci.index
      /\ rci'.element = rci.element /\ rci'.action = rci.action
      /\ rci'.value = rci.value /\ rci'.all = rci.all
      /\ written' = written /\ saved' = saved /\ user' = user /\ owed' = owed
      /\ HaveRead' = HaveRead
  BY DEF Alike, SameWork
<1>1. \A c : /\ OfCommand(c)' <=> OfCommand(c)
             /\ \A k : OfWish(c, k)' <=> OfWish(c, k)
  BY <1>0 DEF OfCommand, OfWish
<1>2. \A s : (Walks(s)' <=> Walks(s)) /\ (Utters(s)' <=> Utters(s))
  BY <1>0 DEF Walks, Utters
<1>3. \A c : /\ AtCommand(c) => AtCommand(c)'
             /\ CommandCame(c) => CommandCame(c)'
             /\ CommandCloses(c) => CommandCloses(c)'
             /\ CommandClosed(c) => CommandClosed(c)'
  BY <1>0, <1>1, <1>2 DEF AtCommand, CommandCame, CommandCloses, CommandClosed
<1>4. \A c, k : AtGroup(c, k) => AtGroup(c, k)'
  BY <1>0, <1>1 DEF AtGroup
<1>5. \A c, k, start : /\ OfOne(c, k, start)' <=> OfOne(c, k, start)
                       /\ OfAll(c, k, start)' <=> OfAll(c, k, start)
                       /\ OfEvery(c, start)' <=> OfEvery(c, start)
  <2> TAKE c, k, start
  <2>1. OfOne(c, k, start)' <=> OfOne(c, k, start)
    BY <1>0, <1>1 DEF OfOne
  <2>2. OfAll(c, k, start)' <=> OfAll(c, k, start)
    BY <1>0, <1>1 DEF OfAll
  <2>3. OfEvery(c, start)' <=> OfEvery(c, start)
    BY <1>0, <1>1 DEF OfEvery
  <2> QED
    BY <2>1, <2>2, <2>3
<1>6. \A c, k, n, start, fields :
          Named(c, k, n, start, fields)' <=> Named(c, k, n, start, fields)
  BY <1>0, <1>1 DEF Named
<1>7. \A c, k, n, start, fields :
          Scope(c, k, n, start, fields) => Scope(c, k, n, start, fields)'
  BY <1>0, <1>5, <1>6 DEF Scope
<1>8. \A c, start, fields, n :
          SpelledTo(c, start, fields, n)' = SpelledTo(c, start, fields, n)
  BY <1>0 DEF SpelledTo
<1>9. \A c, start, fields, n :
          Spelling(c, start, fields, n) => Spelling(c, start, fields, n)'
  BY <1>0, <1>2, <1>8 DEF Spelling, Hidden
<1>10. \A c : Reading(c) => Reading(c)'
  BY <1>0, <1>2 DEF Reading, InsideGroup
<1>11. \A c, k, n : Setting(c, k, n) => Setting(c, k, n)'
  <2>1. Pending' <=> Pending
    BY <1>0, <1>2 DEF Pending
  <2>2. \A c, k, n : Changed(c, k, n)' = Changed(c, k, n)
    BY <1>0 DEF Changed
  <2> QED
    BY <1>0, <1>2, <2>1, <2>2 DEF Setting
<1>12. \A c, k, n, start, fields :
           Amid(c, k, n, start, fields) => Amid(c, k, n, start, fields)'
  BY <1>0, <1>7, <1>9, <1>10, <1>11 DEF Amid
<1>13. \A c, k, start, fields :
           Ending(c, k, start, fields) => Ending(c, k, start, fields)'
  <2> TAKE c, k, start, fields
  <2> HAVE Ending(c, k, start, fields)
  <2>1. CASE /\ fields = AllFields(rci.group) /\ Asked(owed, c).do = "query"
             /\ Utters("field_end")
             /\ \/ OfAll(c, k, start) /\ rci.process = "instance"
                \/ OfEvery(c, start) /\ rci.process # "element"
    <3>1. /\ fields = AllFields(rci'.group) /\ Asked(owed', c).do = "query"
          /\ Utters("field_end")'
          /\ \/ OfAll(c, k, start)' /\ rci'.process = "instance"
             \/ OfEvery(c, start)' /\ rci'.process # "element"
      BY <1>0, <1>2, <1>5, <2>1
    <3> QED
      BY <1>0, <1>8, <1>10, <1>11, <3>1 DEF Ending
  <2>2. CASE ~ /\ fields = AllFields(rci.group) /\ Asked(owed, c).do = "query"
               /\ Utters("field_end")
               /\ \/ OfAll(c, k, start) /\ rci.process = "instance"
                  \/ OfEvery(c, start) /\ rci.process # "element"
    BY <1>0, <1>1, <1>2, <1>8, <1>10, <1>11, <2>2 DEF Ending
  <2> QED
    BY <2>1, <2>2
<1>14. \A c, k, start : NextInstance(c, k, start) => NextInstance(c, k, start)'
  BY <1>0, <1>5 DEF NextInstance
<1>15. \A c, start : NextGroup(c, start) => NextGroup(c, start)'
  BY <1>0, <1>1, <1>5 DEF NextGroup
<1>16. AllTold => AllTold'
  BY <1>0 DEF AllTold
<1>17. CASE \E c \in Nat :
                AtCommand(c) \/ CommandCame(c) \/ CommandCloses(c) \/ CommandClosed(c)
  BY <1>3, <1>17, Zenon DEF Stand
<1>18. CASE SomeGroup
  BY <1>4, <1>18, Zenon DEF Stand, SomeGroup
<1>19. CASE SomeField
  <2>1. PICK c, k, n \in Nat : \E st, fs : Amid(c, k, n, st, fs)
    BY <1>19 DEF SomeField
  <2>2. PICK start, fields : Amid(c, k, n, start, fields)
    BY <2>1
  <2>3. Amid(c, k, n, start, fields)'
    BY <1>12, <2>2, Zenon
  <2> QED
    BY <2>3, Zenon DEF Stand
<1>20. CASE SomeEnd
  <2>1. SomeEnd'
    BY <1>13, <1>20, Zenon DEF SomeEnd
  <2> QED
    BY <2>1, Zenon DEF Stand, SomeEnd
<1>21. CASE \E c, k \in Nat : \E start :
                NextInstance(c, k, start) \/ NextGroup(c, start)
  BY <1>14, <1>15, <1>21, Zenon DEF Stand
<1>22. CASE Utters("done") /\ AllTold
  BY <1>2, <1>16, <1>22, Zenon DEF Stand
<1> QED
  BY <1>17, <1>18, <1>19, <1>20, <1>21, <1>22, Zenon
     DEF Stand, SomeGroup, SomeField, SomeEnd

-----------------------------------------------------------------------------
(* The traversal.                                                          *)

Walking ==
    /\ Stand /\ stage = "running" /\ rci \in ParserTypes /\ rci' \in ParserTypes
    /\ rci.parser = "traverse" /\ rci.calling = "none" /\ ~rci.failed
    /\ AtTraverse /\ Kept /\ WalksOn /\ SameWork
    /\ owed.request \in RciRequests /\ owed.before \in [Settings -> Values]

LEMMA MovesSo ==
    ASSUME Walking
    PROVE  /\ rci.traverse = "none" => Resumes
           /\ rci.traverse \in {"command", "group", "element", "element_end",
                                "group_end"} => OfACommand
           /\ rci.traverse = "all_elements" => OfElements
           /\ rci.traverse = "all_instances" => OfInstances
           /\ rci.traverse = "all_groups" => OfGroups
BY DEF Walking, WalksOn, Resumes, OfACommand, OfElements, OfInstances, OfGroups

\* Nothing to be done: the parser goes back to the input.
LEMMA WalkNone ==
    ASSUME Walking, rci.traverse = "none"
    PROVE  Stand'
<1>1. /\ rci'.traverse = "none" /\ rci'.process = rci.process
      /\ rci'.group = rci.group /\ rci'.index = rci.index
      /\ rci'.element = rci.element /\ rci'.value = rci.value
      /\ rci'.calling = "none" /\ rci'.last = rci.last
      /\ rci'.parser = IF rci.input = "done" THEN "output" ELSE "input"
      /\ rci'.input = rci.input /\ rci'.action = rci.action
      /\ rci'.all = rci.all /\ rci.parser = "traverse" /\ rci.calling = "none"
      /\ written' = written /\ saved' = saved /\ user' = user /\ owed' = owed
      /\ HaveRead' = HaveRead
  BY MovesSo DEF Walking, Resumes, SameElement, SameGroup, GoesOn, Kept, SameWork
<1>2. \A c : /\ OfCommand(c)' <=> OfCommand(c)
             /\ \A k : OfWish(c, k)' <=> OfWish(c, k)
  BY <1>1 DEF OfCommand, OfWish
<1>3. CASE SomeGroup
  <2>1. PICK c, k \in Nat : AtGroup(c, k)
    BY <1>3 DEF SomeGroup
  <2>2. AtGroup(c, k)'
    BY <1>1, <1>2, <2>1 DEF AtGroup
  <2> QED
    BY <2>2 DEF Stand
<1>4. CASE SomeField
  <2>1. PICK c, k, n \in Nat : \E st, fs : Amid(c, k, n, st, fs)
    BY <1>4 DEF SomeField
  <2>2. PICK start, fields : Amid(c, k, n, start, fields)
    BY <2>1
  <2>3. Named(c, k, n, start, fields) /\ rci.input = "field"
    BY <2>2 DEF Amid, Scope, Named, OfOne, OfAll, OfEvery, Walking
  <2>4. Named(c, k, n, start, fields)' /\ rci'.parser = "input"
    BY <1>1, <1>2, <2>3 DEF Named
  <2>5. Spelling(c, start, fields, n)'
    <3>1. SpelledTo(c, start, fields, n)' = SpelledTo(c, start, fields, n)
      BY <1>1 DEF SpelledTo
    <3>2. /\ n \in 0 .. Len(fields)
          /\ rci.element = IF n = 0 THEN 0 ELSE fields[n]
          /\ written = SpelledTo(c, start, fields, n)
      BY <1>1, <2>2 DEF Amid, Spelling, Walks, Utters, Walking
    <3> QED
      BY <1>1, <2>4, <3>1, <3>2 DEF Spelling, Utters
  <2>6. Reading(c) => Reading(c)'
    BY <1>1, <2>4 DEF Reading, InsideGroup, Utters
  <2>7. Setting(c, k, n) => Setting(c, k, n)'
    <3>1. ~Pending /\ ~Pending' /\ ~Walks("group") /\ ~Walks("group")'
      BY <1>1 DEF Pending, Walks, Walking
    <3>2. Changed(c, k, n)' = Changed(c, k, n)
      BY <1>1 DEF Changed
    <3> QED
      BY <1>1, <3>1, <3>2 DEF Setting
  <2>8. Amid(c, k, n, start, fields)'
    BY <1>1, <2>2, <2>3, <2>4, <2>5, <2>6, <2>7 DEF Amid, Scope
  <2> QED
    BY <2>8, Zenon DEF Stand
<1> QED
  BY <1>3, <1>4, StandTraverse DEF Walking

\* A command, or its end, is announced to the gateway.
LEMMA WalkCommand ==
    ASSUME Walking, rci.traverse \in {"command", "group_end"}
    PROVE  Stand'
<1>1. /\ rci'.traverse = "none" /\ rci'.process = "group"
      /\ rci'.group = rci.group /\ rci'.parser = "output"
      /\ rci.traverse = "command" => rci'.output = "command"
      /\ rci.traverse = "group_end" => rci'.output = "group_end"
      /\ rci'.action = rci.action
      /\ written' = written /\ saved' = saved /\ owed' = owed
      /\ HaveRead' = HaveRead
  BY MovesSo DEF Walking, OfACommand, Finished, SameElement, SameGroup, Called,
     AField, Stays, Kept, SameWork
<1>2. \A c : OfCommand(c)' <=> OfCommand(c)
  BY <1>1 DEF OfCommand
<1>3. CASE rci.traverse = "command"
  <2>1. PICK c \in Nat : CommandCame(c)
    BY <1>3, StandTraverse DEF Walking
  <2>2. CommandCame(c)'
    BY <1>1, <1>2, <1>3, <2>1 DEF CommandCame, Utters
  <2> QED
    BY <2>2, Zenon DEF Stand
<1>4. CASE rci.traverse = "group_end"
  <2>1. PICK c \in Nat : CommandCloses(c)
    BY <1>4, StandTraverse DEF Walking
  <2>2. CommandCloses(c)'
    BY <1>1, <1>2, <1>4, <2>1 DEF CommandCloses, Utters
  <2> QED
    BY <2>2, Zenon DEF Stand
<1> QED
  BY <1>3, <1>4

\* A group is announced.
LEMMA WalkGroup ==
    ASSUME Walking, rci.traverse = "group"
    PROVE  Stand'
<1>1. /\ rci'.traverse = "none" /\ rci'.process = "group"
      /\ rci'.group = rci.group /\ rci'.index = rci.index
      /\ rci'.element = rci.element
      /\ rci'.parser = "output" /\ rci'.output = "group"
      /\ rci'.calling = "group_start" /\ rci'.last = "group_start"
      /\ rci'.input = rci.input /\ rci'.action = rci.action
      /\ rci'.all = rci.all
      /\ written' = written /\ saved' = saved /\ owed' = owed
      /\ HaveRead' = HaveRead /\ user' = user
  BY MovesSo DEF Walking, OfACommand, Finished, SameElement, SameGroup, Called,
     AField, Stays, Kept, SameWork
<1>2. \A c : /\ OfCommand(c)' <=> OfCommand(c)
             /\ \A k : OfWish(c, k)' <=> OfWish(c, k)
  BY <1>1 DEF OfCommand, OfWish
<1>3. SomeField
  BY StandTraverse DEF Walking
<1>4. PICK c, k, n \in Nat : \E st, fs : Amid(c, k, n, st, fs)
  BY <1>3 DEF SomeField
<1>5. PICK start, fields : Amid(c, k, n, start, fields)
  BY <1>4
<1>6. Named(c, k, n, start, fields)
  BY <1>5 DEF Amid, Scope, OfOne, OfAll, OfEvery
<1>7. Named(c, k, n, start, fields)'
  BY <1>1, <1>2, <1>6 DEF Named
<1>8. n = 0 /\ n \in 0 .. Len(fields) /\ rci.element = 0 /\ written = start
  BY <1>5 DEF Amid, Spelling, Walks, Utters, Walking
<1>9. Spelling(c, start, fields, n)'
  BY <1>1, <1>8 DEF Spelling, Walks, Utters
<1>10. Reading(c) => Reading(c)'
  BY <1>1 DEF Reading, Utters
<1>11. Setting(c, k, n) => Setting(c, k, n)'
  BY <1>1 DEF Setting, Pending, Walks
<1>12. Amid(c, k, n, start, fields)'
  BY <1>1, <1>5, <1>6, <1>7, <1>9, <1>10, <1>11 DEF Amid, Scope, Named
<1> QED
  BY <1>12, Zenon DEF Stand

\* The end of a group is announced.
LEMMA WalkElementEnd ==
    ASSUME Walking, rci.traverse = "element_end"
    PROVE  Stand'
<1>1. /\ rci'.traverse = "none" /\ rci'.process = "group"
      /\ rci'.group = rci.group /\ rci'.index = rci.index
      /\ rci'.parser = "output" /\ rci'.output = "field_end"
      /\ rci'.calling = "group_end" /\ rci'.last = "group_end"
      /\ rci'.input = rci.input /\ rci'.action = rci.action
      /\ written' = written /\ saved' = saved /\ owed' = owed
      /\ HaveRead' = HaveRead /\ user' = user
      /\ rci.parser = "traverse" /\ rci.calling = "none"
  BY MovesSo DEF Walking, OfACommand, Finished, SameElement, SameGroup, Called,
     AField, Stays, Kept, SameWork
<1>2. \A c : /\ OfCommand(c)' <=> OfCommand(c)
             /\ \A k : OfWish(c, k)' <=> OfWish(c, k)
  BY <1>1 DEF OfCommand, OfWish
<1>3. SomeEnd
  BY StandTraverse DEF Walking
<1>4. PICK c, k \in Nat : \E st, fs : Ending(c, k, st, fs)
  BY <1>3 DEF SomeEnd
<1>5. PICK start, fields : Ending(c, k, start, fields)
  BY <1>4
<1>6. /\ OfWish(c, k) /\ rci.input = "group"
      /\ HaveRead = GroupsRead(owed, c, k + 1)
      /\ rci.index = Instance(Wish(owed, c, k))
      /\ Wish(owed, c, k).fields = <<>> =>
             /\ Asked(owed, c).do = "query"
             /\ Wish(owed, c, k).index # 0 \/ Instances[rci.group] = 1
      /\ start = PartsTold(owed, c, k) /\ fields = FieldsOf(Wish(owed, c, k))
      /\ written = SpelledTo(c, start, fields, Len(fields))
      /\ Reading(c) \/ Setting(c, k, Len(fields))
  BY <1>1, <1>5 DEF Ending, Utters
<1>7. SpelledTo(c, start, fields, Len(fields))'
      = SpelledTo(c, start, fields, Len(fields))
  BY <1>1 DEF SpelledTo
<1>8. Reading(c) => Reading(c)'
  BY <1>1 DEF Reading, Utters, InsideGroup
<1>9. Setting(c, k, Len(fields)) => Setting(c, k, Len(fields))'
  <2>1. ~Pending /\ ~Pending' /\ ~Walks("group")
    BY <1>1 DEF Pending, Walks, Walking
  <2>2. Changed(c, k, Len(fields))' = Changed(c, k, Len(fields))
    BY <1>1 DEF Changed
  <2> QED
    BY <1>1, <2>1, <2>2 DEF Setting
<1>10. OfWish(c, k)' /\ Utters("field_end")'
  BY <1>1, <1>2, <1>6 DEF Utters
<1>11. Ending(c, k, start, fields)'
  BY <1>1, <1>6, <1>7, <1>8, <1>9, <1>10 DEF Ending
<1> QED
  BY <1>11, Zenon DEF Stand

\* A field that the cloud named is announced, but for a password it asks for.
LEMMA WalkElement ==
    ASSUME Walking, rci.traverse = "element"
    PROVE  Stand'
<1>1. /\ rci'.traverse = "none" /\ rci'.process = "group"
      /\ rci'.group = rci.group /\ rci'.index = rci.index
      /\ rci'.element = rci.element /\ rci'.value = rci.value
      /\ rci'.input = rci.input /\ rci'.action = rci.action
      /\ rci'.all = rci.all
      /\ written' = written /\ saved' = saved /\ owed' = owed
      /\ HaveRead' = HaveRead /\ user' = user
      /\ rci.parser = "traverse" /\ rci.calling = "none"
      /\ rci.group \in Groups \cup {0}
  BY MovesSo, ParserFields DEF Walking, OfACommand, Finished, SameElement, SameGroup, Kept,
     SameWork, Called
<1>2. \/ /\ Untold(rci') /\ rci'.parser = "traverse"
         /\ rci'.calling = "none" /\ rci'.last = rci.last
      \/ /\ ~Untold(rci') /\ rci'.parser = "output" /\ rci'.output = "field"
         /\ rci'.calling = "process" /\ rci'.last = "process"
  BY MovesSo DEF Walking, OfACommand, AField, Stays, Called
<1>3. InsideGroup /\ InGroup /\ rci.element # 0
  BY DEF Walking, AtTraverse, OfGroup, GoesOnInside, GoesOnBetween
<1>4. \A c : /\ OfCommand(c)' <=> OfCommand(c)
             /\ \A k : OfWish(c, k)' <=> OfWish(c, k)
  BY <1>1 DEF OfCommand, OfWish
<1>5. SomeField
  BY StandTraverse DEF Walking
<1>6. PICK c, k, n \in Nat : \E st, fs : Amid(c, k, n, st, fs)
  BY <1>5 DEF SomeField
<1>7. PICK start, fields : Amid(c, k, n, start, fields)
  BY <1>6
<1>8. Named(c, k, n, start, fields) /\ rci.input = "field"
  BY <1>7 DEF Amid, Scope, OfOne, OfAll, OfEvery, Named
<1>9. Named(c, k, n, start, fields)' /\ Scope(c, k, n, start, fields)'
  BY <1>1, <1>4, <1>8 DEF Named, Scope
<1>10. /\ n \in 0 .. Len(fields) /\ n # 0 /\ rci.element = fields[n]
       /\ written = SpelledTo(c, start, fields, n - 1)
  BY <1>3, <1>7 DEF Amid, Spelling, Walks, Utters, Walking
<1>11. \A m : SpelledTo(c, start, fields, m)' = SpelledTo(c, start, fields, m)
  BY <1>1 DEF SpelledTo
<1>12. /\ Request1(owed, c) /\ rci.action = Asked(owed, c).do
       /\ rci.group \in Groups /\ rci.index \in 1 .. Instances[rci.group]
       /\ start \in Seq(Speech) /\ fields \in Seq(Fields(rci.group))
       /\ Len(fields) \in Nat
  <2>1. Scope(c, k, n, start, fields)
    BY <1>7 DEF Amid
  <2> QED
    BY <1>1, <1>3, <2>1, ScopeTyped DEF Walking
<1>13. n \in 1 .. Len(fields)
  BY <1>10, <1>12
<1>14. CASE Untold(rci')
  <2>1. rci'.parser = "traverse" /\ rci'.calling = "none" /\ rci'.last = rci.last
    BY <1>2, <1>14
  <2>2. Asked(owed, c).do = "query" /\ Kinds[rci.group][fields[n]] = "password"
    BY <1>1, <1>10, <1>12, <1>14 DEF Untold
  <2>3. SpelledTo(c, start, fields, n) = SpelledTo(c, start, fields, n - 1)
    <3>1. FieldStep(owed, c, rci.group, rci.index, fields, start, n)
      BY <1>12, <1>13, SpelledSteps
    <3>2. Spelled(owed, c, rci.group, rci.index, fields, start, n)
          = Spelled(owed, c, rci.group, rci.index, fields, start, n - 1)
      BY <2>2, <3>1, Zenon DEF FieldStep
    <3> QED
      BY <1>13, <3>2 DEF SpelledTo
  <2>4. Spelling(c, start, fields, n)'
    BY <1>1, <1>10, <1>11, <2>1, <2>3 DEF Spelling, Utters
  <2>5. Reading(c)
    BY <1>7, <2>2 DEF Amid, Setting
  <2>6. Reading(c)'
    BY <1>1, <2>1, <2>5 DEF Reading, Utters, InsideGroup
  <2>7. Amid(c, k, n, start, fields)'
    BY <1>9, <2>4, <2>6 DEF Amid
  <2> QED
    BY <2>7, Zenon DEF Stand
<1>15. CASE ~Untold(rci')
  <2>1. /\ rci'.parser = "output" /\ rci'.output = "field"
        /\ rci'.calling = "process" /\ rci'.last = "process"
    BY <1>2, <1>15
  <2>2. ~Hidden(rci.element)'
    BY <1>1, <1>15 DEF Untold, Hidden
  <2>3. Spelling(c, start, fields, n)'
    BY <1>1, <1>10, <1>11, <2>1, <2>2 DEF Spelling, Utters
  <2>4. Reading(c) => Reading(c)'
    BY <1>1, <1>3, <2>1 DEF Reading, Utters, InsideGroup
  <2>5. Setting(c, k, n) => Setting(c, k, n)'
    <3>1. Pending /\ Pending' /\ ~Walks("group")
      BY <1>1, <2>1 DEF Pending, Walks
    <3>2. Changed(c, k, n - 1)' = Changed(c, k, n - 1)
      BY <1>1 DEF Changed
    <3> QED
      BY <1>1, <3>1, <3>2 DEF Setting
  <2>6. rci'.input = "field"
    BY <1>1, <1>8
  <2>7. Amid(c, k, n, start, fields)'
    BY <1>7, <1>9, <2>3, <2>4, <2>5, <2>6 DEF Amid
  <2> QED
    BY <2>7, Zenon DEF Stand
<1> QED
  BY <1>14, <1>15

\* Of all the fields of a group one is announced.
LEMMA WalkField ==
    ASSUME Walking, InsideGroup, InGroup, AnotherField, GoesOn,
           rci.traverse \in {"all_elements", "all_instances", "all_groups"},
           SomeField
    PROVE  Stand'
<1>1. /\ rci'.traverse = rci.traverse /\ rci'.process = rci.process
      /\ rci'.group = rci.group /\ rci'.index = rci.index
      /\ rci'.element = rci.element + 1
      /\ rci'.element \in 1 .. Len(Kinds[rci.group])
      /\ rci'.input = rci.input /\ rci'.action = rci.action
      /\ written' = written /\ saved' = saved /\ owed' = owed
      /\ HaveRead' = HaveRead /\ user' = user
      /\ rci.parser = "traverse" /\ rci.calling = "none"
      /\ rci.group \in Groups \cup {0}
  BY ParserFields DEF Walking, AnotherField, GoesOn, SameGroup, Kept, SameWork
<1>2. \/ /\ Untold(rci') /\ rci'.parser = "traverse"
         /\ rci'.calling = "none" /\ rci'.last = rci.last
      \/ /\ ~Untold(rci') /\ rci'.parser = "output" /\ rci'.output = "field"
         /\ rci'.calling = "process" /\ rci'.last = "process"
  BY DEF AnotherField, AField, Stays, Called
<1>4. \A c : /\ OfCommand(c)' <=> OfCommand(c)
             /\ \A k : OfWish(c, k)' <=> OfWish(c, k)
  BY <1>1 DEF OfCommand, OfWish
<1>6. PICK c, k, n \in Nat : \E st, fs : Amid(c, k, n, st, fs)
  BY DEF SomeField
<1>7. PICK start, fields : Amid(c, k, n, start, fields)
  BY <1>6
<1>8. /\ fields = AllFields(rci.group) /\ Asked(owed, c).do = "query"
      /\ \/ OfOne(c, k, start) /\ rci.traverse = "all_elements"
         \/ OfAll(c, k, start) /\ rci.process # "instance"
         \/ OfEvery(c, start) /\ rci.process = "element"
  BY <1>7 DEF Amid, Scope, Named
<1>9. Scope(c, k, n + 1, start, fields)'
  <2>1. OfOne(c, k, start) => OfOne(c, k, start)'
    BY <1>1, <1>4 DEF OfOne
  <2>2. OfAll(c, k, start) => OfAll(c, k, start)'
    BY <1>1, <1>4 DEF OfAll
  <2>3. OfEvery(c, start) => OfEvery(c, start)'
    BY <1>1, <1>4 DEF OfEvery
  <2> QED
    BY <1>1, <1>8, <2>1, <2>2, <2>3 DEF Scope
<1>10. /\ n \in 0 .. Len(fields)
       /\ rci.element = IF n = 0 THEN 0 ELSE fields[n]
       /\ written = SpelledTo(c, start, fields, n)
  BY <1>1, <1>7 DEF Amid, Spelling, Walks, Utters
<1>11. \A m : SpelledTo(c, start, fields, m)' = SpelledTo(c, start, fields, m)
  BY <1>1 DEF SpelledTo
<1>12. /\ Request1(owed, c) /\ rci.action = Asked(owed, c).do
       /\ rci.group \in Groups /\ rci.index \in 1 .. Instances[rci.group]
       /\ start \in Seq(Speech) /\ fields \in Seq(Fields(rci.group))
       /\ Len(fields) \in Nat
  <2>1. Scope(c, k, n, start, fields)
    BY <1>7 DEF Amid
  <2> QED
    BY <1>1, <2>1, ScopeTyped DEF Walking
<1>13. /\ n + 1 \in 1 .. Len(fields) /\ rci'.element = fields[n + 1]
       /\ (n + 1) - 1 = n
  <2> DEFINE m == Len(Kinds[rci.group])
  <2>1. /\ Len(fields) = m /\ \A f \in 1 .. m : fields[f] = f
        /\ m \in 1 .. 9
    BY <1>8, <1>12, AllFieldsTyped
  <2>2. rci'.element \in 1 .. m
    BY <1>1
  <2> HIDE DEF m
  <2>3. rci.element = n
    BY <1>10, <2>1
  <2> QED
    BY <1>1, <2>1, <2>2, <2>3
<1>14. Reading(c)
  BY <1>7, <1>8 DEF Amid, Setting
<1>15. CASE Untold(rci')
  <2>1. rci'.parser = "traverse" /\ rci'.calling = "none" /\ rci'.last = rci.last
    BY <1>2, <1>15
  <2>2. Asked(owed, c).do = "query" /\ Kinds[rci.group][fields[n + 1]] = "password"
    BY <1>1, <1>8, <1>13, <1>15 DEF Untold
  <2>3. SpelledTo(c, start, fields, n + 1) = SpelledTo(c, start, fields, n)
    <3>1. FieldStep(owed, c, rci.group, rci.index, fields, start, n + 1)
      BY <1>12, <1>13, SpelledSteps
    <3>2. Spelled(owed, c, rci.group, rci.index, fields, start, n + 1)
          = Spelled(owed, c, rci.group, rci.index, fields, start, (n + 1) - 1)
      BY <2>2, <3>1, Zenon DEF FieldStep
    <3> QED
      BY <1>13, <3>2 DEF SpelledTo
  <2>4. Spelling(c, start, fields, n + 1)'
    BY <1>1, <1>10, <1>11, <1>13, <2>1, <2>3 DEF Spelling, Utters
  <2>5. Reading(c)'
    BY <1>1, <1>14, <2>1 DEF Reading, Utters, InsideGroup
  <2>6. Amid(c, k, n + 1, start, fields)'
    BY <1>9, <2>4, <2>5 DEF Amid
  <2> QED
    BY <2>6 DEF Stand
<1>16. CASE ~Untold(rci')
  <2>1. /\ rci'.parser = "output" /\ rci'.output = "field"
        /\ rci'.calling = "process" /\ rci'.last = "process"
    BY <1>2, <1>16
  <2>2. ~Hidden(rci.element)'
    BY <1>1, <1>16 DEF Untold, Hidden
  <2>3. Spelling(c, start, fields, n + 1)'
    BY <1>1, <1>10, <1>11, <1>13, <2>1, <2>2 DEF Spelling, Utters
  <2>4. Reading(c)'
    BY <1>1, <1>14, <2>1 DEF Reading, Utters, InsideGroup
  <2>5. Amid(c, k, n + 1, start, fields)'
    BY <1>9, <2>3, <2>4 DEF Amid
  <2> QED
    BY <2>5 DEF Stand
<1> QED
  BY <1>15, <1>16

\* All fields of an instance were announced: now its end.
LEMMA WalkEnd ==
    ASSUME Walking, InsideGroup, InGroup, SameElement, AllElementsDone(rci),
           Called("group_end", "field_end"), SomeField,
           \/ rci.traverse = "all_elements" /\ Finished
           \/ /\ rci.traverse = "all_instances" /\ rci'.process = "instance"
              /\ rci'.traverse = "all_instances"
           \/ /\ rci.traverse = "all_groups" /\ rci'.process = "group"
              /\ rci'.traverse = "all_groups"
    PROVE  Stand'
<1>1. /\ rci'.group = rci.group /\ rci'.index = rci.index
      /\ rci'.element = rci.element
      /\ rci'.input = rci.input /\ rci'.action = rci.action
      /\ written' = written /\ saved' = saved /\ owed' = owed
      /\ HaveRead' = HaveRead /\ user' = user
      /\ rci.parser = "traverse" /\ rci.calling = "none"
      /\ rci.group \in Groups \cup {0}
      /\ rci'.parser = "output" /\ rci'.output = "field_end"
      /\ rci'.calling = "group_end" /\ rci'.last = "group_end"
  BY ParserFields DEF Walking, SameElement, SameGroup, Kept, SameWork, Called
<1>4. \A c : /\ OfCommand(c)' <=> OfCommand(c)
             /\ \A k : OfWish(c, k)' <=> OfWish(c, k)
  BY <1>1 DEF OfCommand, OfWish
<1>6. PICK c, k, n \in Nat : \E st, fs : Amid(c, k, n, st, fs)
  BY DEF SomeField
<1>7. PICK start, fields : Amid(c, k, n, start, fields)
  BY <1>6
<1>8. /\ fields = AllFields(rci.group) /\ Asked(owed, c).do = "query"
      /\ \/ OfOne(c, k, start) /\ rci.traverse = "all_elements"
         \/ OfAll(c, k, start) /\ rci.process # "instance"
         \/ OfEvery(c, start) /\ rci.process = "element"
  BY <1>7 DEF Amid, Scope, Named
<1>10. /\ n \in 0 .. Len(fields)
       /\ rci.element = IF n = 0 THEN 0 ELSE fields[n]
       /\ written = SpelledTo(c, start, fields, n)
  BY <1>1, <1>7 DEF Amid, Spelling, Walks, Utters
<1>11. \A m : SpelledTo(c, start, fields, m)' = SpelledTo(c, start, fields, m)
  BY <1>1 DEF SpelledTo
<1>12. rci.group \in Groups
  BY <1>1 DEF InGroup
<1>13. n = Len(fields)
  <2> DEFINE m == Len(Kinds[rci.group])
  <2>1. /\ Len(fields) = m /\ \A f \in 1 .. m : fields[f] = f
        /\ m \in 1 .. 9
    BY <1>8, <1>12, AllFieldsTyped
  <2>2. rci.element = m
    BY DEF AllElementsDone
  <2> HIDE DEF m
  <2> QED
    BY <1>10, <2>1, <2>2
<1>14. Reading(c)'
  <2>1. Reading(c)
    BY <1>7, <1>8 DEF Amid, Setting
  <2> QED
    BY <1>1, <2>1 DEF Reading, Utters, InsideGroup
<1>15. /\ written' = SpelledTo(c, start, fields, Len(fields))'
       /\ Utters("field_end")' /\ rci'.calling # "none"
  BY <1>1, <1>10, <1>11, <1>13 DEF Utters
<1>16. CASE OfOne(c, k, start) /\ rci.traverse = "all_elements"
  <2>1. rci'.traverse = "none"
    BY <1>16 DEF Finished
  <2>2. /\ OfWish(c, k)' /\ rci'.input = "group"
        /\ HaveRead' = GroupsRead(owed', c, k + 1)
        /\ rci'.index = Instance(Wish(owed', c, k))
        /\ Asked(owed', c).do = "query"
        /\ Wish(owed', c, k).index # 0 \/ Instances[rci'.group] = 1
        /\ start = PartsTold(owed', c, k)
    BY <1>1, <1>4, <1>8, <1>16 DEF OfOne
  <2>3. fields = FieldsOf(Wish(owed', c, k))
    BY <1>1, <1>8, <1>16 DEF OfOne, OfWish, FieldsOf
  <2>4. Ending(c, k, start, fields)'
    BY <1>14, <1>15, <2>1, <2>2, <2>3 DEF Ending
  <2> QED
    BY <2>4, Zenon DEF Stand
<1>17. CASE \/ OfAll(c, k, start) /\ rci.process # "instance"
            \/ OfEvery(c, start) /\ rci.process = "element"
  <2>1. \/ OfAll(c, k, start)' /\ rci'.process = "instance"
        \/ OfEvery(c, start)' /\ rci'.process # "element"
    <3>1. CASE OfAll(c, k, start)
      <4>1. rci.traverse = "all_instances"
        BY <3>1 DEF OfAll
      <4> QED
        BY <1>1, <1>4, <3>1, <4>1 DEF OfAll
    <3>2. CASE OfEvery(c, start)
      <4>1. rci.traverse = "all_groups"
        BY <3>2 DEF OfEvery
      <4> QED
        BY <1>1, <1>4, <3>2, <4>1 DEF OfEvery
    <3> QED
      BY <1>17, <3>1, <3>2
  <2>2. fields = AllFields(rci'.group) /\ Asked(owed', c).do = "query"
    BY <1>1, <1>8
  <2>3. Ending(c, k, start, fields)'
    BY <1>14, <1>15, <2>1, <2>2 DEF Ending
  <2> QED
    BY <2>3, Zenon DEF Stand
<1> QED
  BY <1>8, <1>16, <1>17

\* All fields of an instance.
LEMMA WalkElements ==
    ASSUME Walking, rci.traverse = "all_elements"
    PROVE  Stand'
<1>1. InsideGroup /\ InGroup
  BY DEF Walking, AtTraverse, GoesOnInside, GoesOnBetween
<1>2. SomeField
  BY StandTraverse DEF Walking
<1>3. OfElements
  BY MovesSo
<1>4. CASE AnotherField /\ GoesOn
  BY <1>1, <1>2, <1>4, WalkField
<1>5. CASE /\ AllElementsDone(rci) /\ Finished /\ SameElement
           /\ Called("group_end", "field_end")
  BY <1>1, <1>2, <1>5, WalkEnd
<1> QED
  BY <1>3, <1>4, <1>5 DEF OfElements

\* All instances of a group: the next one begins.
LEMMA WalkNextInstance ==
    ASSUME Walking, AnotherGroup, NextOfGroup, NoElement,
           rci.traverse = "all_instances",
           NEW c \in Nat, NEW k \in Nat, NEW start, NextInstance(c, k, start)
    PROVE  Stand'
<1>0. PICK st, fs :
          /\ st = InstancesTold(owed, c, rci.group, PartsTold(owed, c, k),
                                rci.index + 1)
          /\ fs = AllFields(rci.group)
  OBVIOUS
<1>1. /\ rci'.traverse = "all_instances" /\ rci'.process = "element"
      /\ rci'.group = rci.group /\ rci'.index = rci.index + 1
      /\ rci'.index \in 1 .. Instances[rci.group]
      /\ rci'.element = 0
      /\ rci'.input = rci.input /\ rci'.action = rci.action
      /\ written' = written /\ saved' = saved /\ owed' = owed
      /\ HaveRead' = HaveRead /\ user' = user
      /\ rci'.parser = "output" /\ rci'.output = "group"
      /\ rci'.calling = "group_start" /\ rci'.last = "group_start"
  BY DEF Walking, AnotherGroup, NextOfGroup, NoElement, Kept, SameWork, Called
<1>2. /\ OfCommand(c)' <=> OfCommand(c)
      /\ OfWish(c, k)' <=> OfWish(c, k)
  BY <1>1 DEF OfCommand, OfWish
<1>3. OfAll(c, k, start) /\ Asked(owed, c).do = "query"
      /\ saved = SavedAt(owed, c) /\ written = st
  BY <1>0 DEF NextInstance
<1>4. OfAll(c, k, st)'
  BY <1>0, <1>1, <1>2, <1>3 DEF OfAll
<1>5. Scope(c, k, 0, st, fs)'
  BY <1>0, <1>1, <1>3, <1>4 DEF Scope
<1>6. Spelling(c, st, fs, 0)'
  <2>1. Len(fs) \in Nat
    <3>1. rci.group \in Groups
      BY <1>3, ParserFields, AskedFacts DEF OfAll, OfWish, OfCommand, Walking,
         Request1, Good
    <3>2. Len(fs) = Len(Kinds[rci.group]) /\ Len(Kinds[rci.group]) \in 1 .. 9
      BY <1>0, <3>1, AllFieldsTyped
    <3> QED
      BY <3>2
  <2>2. 0 \in 0 .. Len(fs)
    BY <2>1
  <2> QED
    BY <1>1, <1>3, <2>2 DEF Spelling, Utters
<1>7. Reading(c)'
  BY <1>1, <1>3 DEF Reading, Utters
<1>8. Amid(c, k, 0, st, fs)'
  BY <1>5, <1>6, <1>7 DEF Amid
<1> QED
  BY <1>8 DEF Stand

\* Or there is none.
LEMMA WalkLastInstance ==
    ASSUME Walking, SameElement, Finished, Stays,
           ~(rci.index < Instances[rci.group]),
           NEW c \in Nat, NEW k \in Nat, NEW start, NextInstance(c, k, start)
    PROVE  Stand'
<1>1. /\ rci'.traverse = "none"
      /\ rci'.group = rci.group
      /\ rci'.input = rci.input /\ rci'.action = rci.action
      /\ written' = written /\ saved' = saved /\ owed' = owed
      /\ HaveRead' = HaveRead
      /\ rci'.parser = "traverse"
  BY DEF Walking, SameElement, SameGroup, Finished, Stays, Kept, SameWork
<1>2. /\ OfCommand(c)' <=> OfCommand(c)
  BY <1>1 DEF OfCommand
<1>3. /\ OfAll(c, k, start) /\ Asked(owed, c).do = "query"
      /\ saved = SavedAt(owed, c)
      /\ written = InstancesTold(owed, c, rci.group, PartsTold(owed, c, k),
                                 rci.index + 1)
  BY DEF NextInstance
<1>4. /\ OfCommand(c) /\ k \in 1 .. Number(owed, c)
      /\ rci.group = Wish(owed, c, k).id
      /\ Wish(owed, c, k).fields = <<>> /\ Wish(owed, c, k).index = 0
      /\ rci.input = "group" /\ HaveRead = GroupsRead(owed, c, k + 1)
      /\ rci.index \in 1 .. Instances[rci.group]
  BY <1>3 DEF OfAll, OfWish
<1>5. Request1(owed, c)
  BY <1>4 DEF Request1, OfCommand, Walking
<1>6. Number(owed, c) \in Nat /\ Good(Asked(owed, c).do, Wish(owed, c, k))
  BY <1>4, <1>5, AskedFacts
<1>7. rci.group \in Groups /\ Instances[rci.group] \in 1 .. 9
  BY <1>4, <1>6, GroupFacts DEF Good
<1>8. rci.index = Instances[rci.group]
  BY <1>4, <1>7
<1>9. k \in 1 .. PartsOf(owed, c) /\ Number(owed, c) # 0
  BY <1>4, <1>6 DEF PartsOf
<1>10. PartsTold(owed, c, k + 1) = PartsTold(owed, c, k) \o AnswerParts(owed, c)[k]
       /\ PartsTold(owed, c, k) \in Seq(Speech)
  BY <1>5, <1>9, PartsSpoken
<1>11. AnswerParts(owed, c)[k] = AllOf(Asked(owed, c).do, rci.group, SavedAt(owed, c))
  <2>1. AnswerParts(owed, c)[k]
        = GroupAnswer(Asked(owed, c).do, Wish(owed, c, k), SavedAt(owed, c))
    BY <1>4, <1>5, <1>9, PartsTyped
  <2> QED
    BY <1>4, <2>1, Zenon DEF GroupAnswer
<1>12. InstancesTold(owed, c, rci.group, PartsTold(owed, c, k),
                     Instances[rci.group] + 1)
       = PartsTold(owed, c, k)
         \o AllOf(Asked(owed, c).do, rci.group, SavedAt(owed, c))
  BY <1>5, <1>7, <1>10, InstancesSpoken
<1>13. written = PartsTold(owed, c, k + 1)
  BY <1>3, <1>8, <1>10, <1>11, <1>12, Zenon
<1>14. saved = SavedTo(owed, c, k)
  BY <1>3, <1>5, SavedEach DEF Request1
<1>15. /\ k + 1 \in 1 .. Number(owed, c) + 1 /\ k + 1 # 1 /\ rci.group # 0
       /\ (k + 1) - 1 = k
  <2>1. rci.group # 0
    BY <1>7, GroupFacts
  <2> QED
    BY <1>4, <1>6, <2>1
<1>16. AtGroup(c, k + 1)'
  BY <1>1, <1>2, <1>4, <1>13, <1>14, <1>15 DEF AtGroup
<1> QED
  BY <1>16 DEF Stand

LEMMA WalkInstances ==
    ASSUME Walking, rci.traverse = "all_instances"
    PROVE  Stand'
<1>1. OfInstances
  BY MovesSo
<1>2. CASE rci.process # "instance"
  <2>1. InsideGroup /\ InGroup
    BY <1>2 DEF Walking, AtTraverse, GoesOnInside, GoesOnBetween
  <2>2. \A c, k \in Nat : \A start : ~NextInstance(c, k, start)
    BY <1>2 DEF NextInstance
  <2>3. SomeField
    BY <2>2, StandTraverse DEF Walking
  <2>4. CASE AnotherField /\ GoesOn
    BY <2>1, <2>3, <2>4, WalkField
  <2>5. CASE /\ AllElementsDone(rci) /\ SameElement
             /\ rci'.traverse = rci.traverse /\ rci'.process = "instance"
             /\ Called("group_end", "field_end")
    BY <2>1, <2>3, <2>5, WalkEnd
  <2> QED
    BY <1>1, <1>2, <2>4, <2>5 DEF OfInstances
<1>3. CASE rci.process = "instance"
  <2>1. NoElement
    BY <1>3 DEF Walking, AtTraverse, GoesOnInside, GoesOnBetween
  <2>2. ~SomeField
    BY <1>3 DEF SomeField, Amid, Scope, Named, OfOne, OfAll, OfEvery
  <2>3. PICK c, k \in Nat : \E st : NextInstance(c, k, st)
    BY <2>2, StandTraverse DEF Walking
  <2>4. PICK start : NextInstance(c, k, start)
    BY <2>3
  <2>5. CASE AnotherGroup /\ NextOfGroup
    BY <2>1, <2>4, <2>5, WalkNextInstance
  <2>6. CASE SameElement /\ Finished /\ Stays
             /\ ~(rci.index < Instances[rci.group])
    BY <2>4, <2>6, WalkLastInstance
  <2> QED
    BY <1>1, <1>3, <2>5, <2>6 DEF OfInstances
<1> QED
  BY <1>2, <1>3

\* All groups: an instance begins, of this group or of the next one.
LEMMA WalkNextGroup ==
    ASSUME Walking, AnotherGroup, NoElement, rci.traverse = "all_groups",
           IF rci.group # 0 /\ rci.index < Instances[rci.group]
           THEN NextOfGroup
           ELSE rci'.group = rci.group + 1 /\ rci'.index = 1,
           NEW c \in Nat, NEW start, NextGroup(c, start)
    PROVE  Stand'
<1>0. PICK st, fs :
          /\ st = InstancesTold(owed, c, rci'.group,
                                PartsTold(owed, c, rci'.group), rci'.index)
          /\ fs = AllFields(rci'.group)
  OBVIOUS
<1>1. /\ rci'.traverse = "all_groups" /\ rci'.process = "element"
      /\ rci'.group \in Groups
      /\ rci'.index \in 1 .. Instances[rci'.group]
      /\ rci'.element = 0 /\ rci'.action = rci.action
      /\ written' = written /\ saved' = saved /\ owed' = owed
      /\ HaveRead' = HaveRead /\ user' = user
      /\ rci'.parser = "output" /\ rci'.output = "group"
      /\ rci'.calling = "group_start" /\ rci'.last = "group_start"
      /\ rci.group \in Groups \cup {0}
  BY ParserFields
     DEF Walking, AnotherGroup, NoElement, Kept, SameWork, Called
<1>2. OfCommand(c)' <=> OfCommand(c)
  BY <1>1 DEF OfCommand
<1>3. /\ OfCommand(c) /\ Number(owed, c) = 0
      /\ HaveRead = CommandsRead(owed, c + 1)
      /\ Asked(owed, c).do = "query" /\ saved = SavedAt(owed, c)
      /\ rci.group = 0 => written = CommandOpened(owed, c)
      /\ rci.group # 0 =>
             /\ OfEvery(c, start)
             /\ written = InstancesTold(owed, c, rci.group,
                              PartsTold(owed, c, rci.group), rci.index + 1)
  BY DEF NextGroup
<1>4. Request1(owed, c)
  BY <1>3 DEF Request1, OfCommand, Walking
<1>5. written = st
  <2>1. /\ Groups = 1 .. Len(Instances) /\ Len(Instances) \in Nat \ {0}
        /\ \A g \in Groups : Instances[g] \in 1 .. 9
    BY GroupFacts
  <2>2. PartsOf(owed, c) = Len(Instances)
    BY <1>3 DEF PartsOf
  <2>3. \A g \in Groups : PartsTold(owed, c, g) \in Seq(Speech)
    BY <1>4, <2>1, <2>2, PartsSpoken
  <2>4. \A g \in Groups :
            InstancesTold(owed, c, g, PartsTold(owed, c, g), 1)
            = PartsTold(owed, c, g)
    BY <1>4, <2>3, InstancesSpoken
  <2>5. CASE rci.group = 0
    <3>1. rci'.group = 1 /\ rci'.index = 1
      BY <2>5
    <3>2. st = PartsTold(owed, c, 1)
      BY <1>0, <1>1, <2>4, <3>1
    <3>3. PartsTold(owed, c, 1) = CommandOpened(owed, c)
      BY <1>4, PartsSpoken
    <3> QED
      BY <1>3, <2>5, <3>2, <3>3
  <2>6. CASE rci.group # 0 /\ rci.index < Instances[rci.group]
    <3>1. rci'.group = rci.group /\ rci'.index = rci.index + 1
      BY <2>6 DEF NextOfGroup
    <3> QED
      BY <1>0, <1>3, <2>6, <3>1
  <2>7. CASE rci.group # 0 /\ ~(rci.index < Instances[rci.group])
    <3>1. rci'.group = rci.group + 1 /\ rci'.index = 1
      BY <2>7
    <3>2. rci.group \in Groups /\ rci.index \in 1 .. Instances[rci.group]
      BY <1>1, <1>3, <2>7 DEF OfEvery
    <3>0. Instances[rci.group] \in 1 .. 9
      BY <2>1, <3>2
    <3>3. rci.index = Instances[rci.group]
      BY <2>7, <3>0, <3>2
    <3>4. InstancesTold(owed, c, rci.group, PartsTold(owed, c, rci.group),
                        Instances[rci.group] + 1)
          = PartsTold(owed, c, rci.group)
            \o AllOf(Asked(owed, c).do, rci.group, SavedAt(owed, c))
      BY <1>4, <2>3, <3>2, InstancesSpoken
    <3>5. AnswerParts(owed, c)[rci.group]
          = AllOf(Asked(owed, c).do, rci.group, SavedAt(owed, c))
      BY <1>3, <1>4, <3>2, PartsTyped
    <3>6. PartsTold(owed, c, rci.group + 1)
          = PartsTold(owed, c, rci.group) \o AnswerParts(owed, c)[rci.group]
      <4>1. rci.group \in 1 .. PartsOf(owed, c)
        BY <2>1, <2>2, <3>2
      <4> QED
        BY <1>4, <4>1, PartsSpoken, Zenon
    <3>7. st = PartsTold(owed, c, rci.group + 1)
      BY <1>0, <1>1, <2>4, <3>1
    <3> QED
      BY <1>3, <2>7, <3>3, <3>4, <3>5, <3>6, <3>7, Zenon
  <2> QED
    BY <2>5, <2>6, <2>7
<1>6. OfEvery(c, st)'
  BY <1>0, <1>1, <1>2, <1>3 DEF OfEvery
<1>7. Scope(c, c, 0, st, fs)'
  BY <1>0, <1>1, <1>3, <1>6 DEF Scope
<1>8. Spelling(c, st, fs, 0)'
  <2>1. Len(fs) = Len(Kinds[rci'.group]) /\ Len(Kinds[rci'.group]) \in 1 .. 9
    BY <1>0, <1>1, AllFieldsTyped
  <2>2. 0 \in 0 .. Len(fs)
    BY <2>1
  <2> QED
    BY <1>1, <1>5, <2>2 DEF Spelling, Utters
<1>9. Reading(c)'
  BY <1>1, <1>3 DEF Reading, Utters
<1>10. Amid(c, c, 0, st, fs)'
  BY <1>7, <1>8, <1>9 DEF Amid
<1> QED
  BY <1>10 DEF Stand

\* Or all were told, and the last one has one instance.
LEMMA WalkLastGroup ==
    ASSUME Walking, SameElement, Finished, rci.group = Len(Instances),
           Called("action_end", "group_end"),
           NEW c \in Nat, NEW start, NextGroup(c, start)
    PROVE  Stand'
<1>1. /\ rci'.traverse = "none" /\ rci'.action = rci.action
      /\ written' = written /\ saved' = saved /\ owed' = owed
      /\ HaveRead' = HaveRead
      /\ rci'.parser = "output" /\ rci'.output = "group_end"
  BY DEF Walking, SameElement, SameGroup, Finished, Called, Kept, SameWork
<1>2. OfCommand(c)' <=> OfCommand(c)
  BY <1>1 DEF OfCommand
<1>3. /\ Groups = 1 .. Len(Instances) /\ Len(Instances) \in Nat \ {0}
      /\ Instances[Len(Instances)] = 1
  BY GroupFacts, RciAssumption
<1>4. /\ OfCommand(c) /\ Number(owed, c) = 0
      /\ HaveRead = CommandsRead(owed, c + 1)
      /\ Asked(owed, c).do = "query" /\ saved = SavedAt(owed, c)
      /\ OfEvery(c, start)
      /\ written = InstancesTold(owed, c, rci.group,
                       PartsTold(owed, c, rci.group), rci.index + 1)
  BY <1>3 DEF NextGroup
<1>5. Request1(owed, c)
  BY <1>4 DEF Request1, OfCommand, Walking
<1>6. rci.group \in Groups /\ rci.index = Instances[rci.group]
  BY <1>3, <1>4 DEF OfEvery
<1>7. PartsOf(owed, c) = rci.group /\ rci.group \in 1 .. PartsOf(owed, c)
  BY <1>3, <1>4 DEF PartsOf
<1>8. /\ PartsTold(owed, c, rci.group) \in Seq(Speech)
      /\ PartsTold(owed, c, rci.group + 1)
         = PartsTold(owed, c, rci.group) \o AnswerParts(owed, c)[rci.group]
      /\ Append(PartsTold(owed, c, PartsOf(owed, c) + 1), End)
         = ToldUpTo(owed, c + 1)
  BY <1>5, <1>7, PartsSpoken
<1>9. InstancesTold(owed, c, rci.group, PartsTold(owed, c, rci.group),
                    Instances[rci.group] + 1)
      = PartsTold(owed, c, rci.group)
        \o AllOf(Asked(owed, c).do, rci.group, SavedAt(owed, c))
  BY <1>5, <1>6, <1>8, InstancesSpoken
<1>10. AnswerParts(owed, c)[rci.group]
       = AllOf(Asked(owed, c).do, rci.group, SavedAt(owed, c))
  BY <1>4, <1>5, <1>6, PartsTyped
<1>11. Append(written, End) = ToldUpTo(owed, c + 1)
  BY <1>4, <1>6, <1>7, <1>8, <1>9, <1>10, Zenon
<1>12. saved = SavedAt(owed, c + 1)
  BY <1>4, <1>5, SavedEach DEF Request1
<1>13. CommandCloses(c)'
  BY <1>1, <1>2, <1>4, <1>11, <1>12 DEF CommandCloses, Utters
<1> QED
  BY <1>13, Zenon DEF Stand

LEMMA WalkGroups ==
    ASSUME Walking, rci.traverse = "all_groups"
    PROVE  Stand'
<1>1. OfGroups
  BY MovesSo
<1>2. CASE rci.process = "element"
  <2>1. InsideGroup /\ InGroup
    BY <1>2 DEF Walking, AtTraverse, GoesOnInside, GoesOnBetween
  <2>2. \A c \in Nat : \A start : ~NextGroup(c, start)
    BY <1>2 DEF NextGroup
  <2>3. SomeField
    BY <2>2, StandTraverse DEF Walking
  <2>4. CASE AnotherField /\ GoesOn
    BY <2>1, <2>3, <2>4, WalkField
  <2>5. CASE /\ AllElementsDone(rci) /\ SameElement
             /\ rci'.traverse = rci.traverse /\ rci'.process = "group"
             /\ Called("group_end", "field_end")
    BY <2>1, <2>3, <2>5, WalkEnd
  <2> QED
    BY <1>1, <1>2, <2>4, <2>5 DEF OfGroups
<1>3. CASE rci.process # "element"
  <2>1. NoElement
    BY <1>3 DEF Walking, AtTraverse, GoesOnInside, GoesOnBetween
  <2>2. ~SomeField
    BY <1>3 DEF SomeField, Amid, Scope, Named, OfOne, OfAll, OfEvery
  <2>3. PICK c \in Nat : \E st : NextGroup(c, st)
    BY <2>2, StandTraverse DEF Walking
  <2>4. PICK start : NextGroup(c, start)
    BY <2>3
  <2>5. CASE /\ AnotherGroup
             /\ IF rci.group # 0 /\ rci.index < Instances[rci.group]
                THEN NextOfGroup
                ELSE rci'.group = rci.group + 1 /\ rci'.index = 1
    BY <2>1, <2>4, <2>5, WalkNextGroup
  <2>6. CASE /\ SameElement /\ Finished /\ rci.group = Len(Instances)
             /\ Called("action_end", "group_end")
    BY <2>4, <2>6, WalkLastGroup
  <2> QED
    BY <1>1, <1>3, <2>5, <2>6 DEF OfGroups
<1> QED
  BY <1>2, <1>3

LEMMA Walked ==
    ASSUME Walking
    PROVE  Stand'
<1>1. rci.traverse \in Traversals
  BY ParserFields DEF Walking, Traversals
<1> QED
  BY <1>1, WalkNone, WalkCommand, WalkGroup, WalkElement, WalkElementEnd,
     WalkElements, WalkInstances, WalkGroups DEF Traversals

-----------------------------------------------------------------------------
(* The output.                                                             *)

WritesNow ==
    /\ Stand /\ AtItem /\ ~rci.failed /\ OutputItem /\ room # 0
    /\ UNCHANGED <<saved, user, owed>> /\ HaveRead' = HaveRead
    /\ owed.request \in RciRequests /\ owed.before \in [Settings -> Values]

\* What the scope of a field depends on.
SameScope ==
    /\ rci'.input = rci.input /\ rci'.traverse = rci.traverse
    /\ rci'.process = rci.process /\ rci'.group = rci.group
    /\ rci'.index = rci.index /\ rci'.action = rci.action
    /\ rci'.all = rci.all /\ owed' = owed /\ HaveRead' = HaveRead

LEMMA ScopeStays ==
    ASSUME SameScope
    PROVE  /\ \A c : /\ OfCommand(c)' <=> OfCommand(c)
                     /\ \A k : OfWish(c, k)' <=> OfWish(c, k)
           /\ \A c, k, start : /\ OfOne(c, k, start)' <=> OfOne(c, k, start)
                               /\ OfAll(c, k, start)' <=> OfAll(c, k, start)
                               /\ OfEvery(c, start)' <=> OfEvery(c, start)
           /\ \A c, k, n, start, fields :
                  Scope(c, k, n, start, fields)' <=> Scope(c, k, n, start, fields)
           /\ \A c, start, fields, n :
                  SpelledTo(c, start, fields, n)' = SpelledTo(c, start, fields, n)
<1>1. \A c : /\ OfCommand(c)' <=> OfCommand(c)
             /\ \A k : OfWish(c, k)' <=> OfWish(c, k)
  BY DEF OfCommand, OfWish, SameScope
<1>2. \A c, k, start : /\ OfOne(c, k, start)' <=> OfOne(c, k, start)
                       /\ OfAll(c, k, start)' <=> OfAll(c, k, start)
                       /\ OfEvery(c, start)' <=> OfEvery(c, start)
  <2> TAKE c, k, start
  <2>1. OfOne(c, k, start)' <=> OfOne(c, k, start)
    BY <1>1 DEF OfOne, SameScope
  <2>2. OfAll(c, k, start)' <=> OfAll(c, k, start)
    BY <1>1 DEF OfAll, SameScope
  <2>3. OfEvery(c, start)' <=> OfEvery(c, start)
    BY <1>1 DEF OfEvery, SameScope
  <2> QED
    BY <2>1, <2>2, <2>3
<1>3. \A c, k, n, start, fields :
          Named(c, k, n, start, fields)' <=> Named(c, k, n, start, fields)
  BY <1>1 DEF Named, SameScope
<1>4. \A c, k, n, start, fields :
          Scope(c, k, n, start, fields)' <=> Scope(c, k, n, start, fields)
  BY <1>2, <1>3 DEF Scope, SameScope
<1>5. \A c, start, fields, n :
          SpelledTo(c, start, fields, n)' = SpelledTo(c, start, fields, n)
  BY DEF SpelledTo, SameScope
<1> QED
  BY <1>1, <1>2, <1>4, <1>5

\* An item that does not fit leaves the parser where it stands.
LEMMA ItemOrStand ==
    ASSUME WritesNow, NEW item, NEW bytes \in Nat, NEW next,
           Write(item, bytes, next)
    PROVE  /\ UNCHANGED <<stage, odd>>
           /\ Stand' \/ (rci' = next /\ written' = Append(written, item))
<1>1. /\ rci \in ParserTypes /\ room \in 0 .. PacketRoom /\ Stand
      /\ UNCHANGED <<saved, user, owed>> /\ HaveRead' = HaveRead
  BY DEF WritesNow, AtItem
<1>2. /\ UNCHANGED <<stage, odd>>
      /\ \/ Alike /\ written' = written
         \/ rci' = next /\ written' = Append(written, item)
  BY <1>1, WriteShape
<1>3. CASE Alike /\ written' = written
  <2>1. SameWork
    BY <1>1, <1>3 DEF SameWork
  <2> QED
    BY <1>1, <1>2, <1>3, <2>1, AlikeStand
<1> QED
  BY <1>2, <1>3

\* Where a field is, and how the answer goes on.
LEMMA FieldScope ==
    ASSUME owed.request \in RciRequests, owed.before \in [Settings -> Values],
           NEW c, NEW k, NEW n, NEW start, NEW fields, InGroup,
           Scope(c, k, n, start, fields), rci.group \in Groups \cup {0}
    PROVE  /\ Request1(owed, c) /\ rci.action = Asked(owed, c).do
           /\ rci.group \in Groups /\ rci.index \in 1 .. Instances[rci.group]
           /\ start \in Seq(Speech) /\ fields \in Seq(Fields(rci.group))
           /\ Len(fields) \in Nat
           /\ SpelledTo(c, start, fields, 0)
              = IF rci.index > 1
                THEN Append(Append(start, <<"group", rci.group>>),
                            <<"index", rci.index>>)
                ELSE Append(start, <<"group", rci.group>>)
           /\ \A m \in 1 .. Len(fields) :
                  FieldStep(owed, c, rci.group, rci.index, fields, start, m)
<1>1. /\ Request1(owed, c) /\ rci.action = Asked(owed, c).do
      /\ rci.group \in Groups /\ rci.index \in 1 .. Instances[rci.group]
      /\ start \in Seq(Speech) /\ fields \in Seq(Fields(rci.group))
      /\ Len(fields) \in Nat
  BY ScopeTyped
<1> QED
  BY <1>1, SpelledSteps DEF SpelledTo

\* The command is written.
LEMMA TellCommand ==
    ASSUME WritesNow, rci.output = "command"
    PROVE  Stand' /\ UNCHANGED <<stage, odd>>
<1>1. PICK c \in Nat : CommandCame(c)
  BY StandOutput DEF WritesNow, AtItem
<1>2. /\ rci.traverse = "none" /\ rci.input = "group" /\ rci \in ParserTypes
      /\ ~rci.failed /\ owed' = owed /\ saved' = saved /\ HaveRead' = HaveRead
  BY DEF WritesNow, AtItem, AtOutput
<1>3. Write(<<"command", rci.action>>, 1, To(rci))
  BY DEF WritesNow, OutputItem
<1>4. /\ UNCHANGED <<stage, odd>>
      /\ \/ Stand'
         \/ /\ rci' = To(rci)
            /\ written' = Append(written, <<"command", rci.action>>)
  BY <1>3, ItemOrStand
<1>5. CASE /\ rci' = To(rci)
           /\ written' = Append(written, <<"command", rci.action>>)
  <2>1. TurnsTo("traverse")
    BY <1>2, <1>5, ParserGoesTo
  <2>2. /\ rci'.parser = "traverse" /\ rci'.traverse = "none"
        /\ rci'.input = "group" /\ rci'.group = rci.group
        /\ rci'.action = rci.action
    BY <1>2, <2>1 DEF TurnsTo, Rest, SameElement, SameGroup
  <2>3. /\ OfCommand(c) /\ rci.group = 0
        /\ HaveRead = CommandsRead(owed, c) + 1
        /\ written = ToldUpTo(owed, c) /\ saved = SavedAt(owed, c)
    BY <1>1 DEF CommandCame
  <2>4. Request1(owed, c) /\ rci.action = Asked(owed, c).do
    BY <2>3 DEF Request1, OfCommand, WritesNow
  <2>5. Number(owed, c) \in Nat
    BY <2>4, AskedFacts
  <2>6. GroupsRead(owed, c, 1) = CommandsRead(owed, c) + 1
    BY <2>4, ReadingAt DEF Request1
  <2>7. written' = PartsTold(owed, c, 1)
    BY <1>5, <2>3, <2>4, PartsSpoken
  <2>8. saved = SavedTo(owed, c, 0)
    BY <2>3, <2>4, SavedEach DEF Request1
  <2>9. OfCommand(c)'
    BY <1>2, <2>2, <2>3 DEF OfCommand
  <2>10. 1 \in 1 .. Number(owed, c) + 1 /\ 1 - 1 = 0
    BY <2>5
  <2>11. AtGroup(c, 1)'
    BY <1>2, <2>2, <2>3, <2>6, <2>7, <2>8, <2>9, <2>10 DEF AtGroup
  <2> QED
    BY <1>4, <2>11 DEF Stand
<1> QED
  BY <1>4, <1>5

\* The group is written, and then its index.
LEMMA TellGroup ==
    ASSUME WritesNow, rci.output = "group"
    PROVE  Stand' /\ UNCHANGED <<stage, odd>>
<1>1. SomeField
  BY StandOutput DEF WritesNow, AtItem
<1>2. PICK c, k, n \in Nat : \E st, fs : Amid(c, k, n, st, fs)
  BY <1>1 DEF SomeField
<1>3. PICK start, fields : Amid(c, k, n, start, fields)
  BY <1>2
<1>4. /\ rci.last = "group_start" /\ InGroup /\ NoElement /\ GoesOnInside
      /\ rci \in ParserTypes /\ ~rci.failed /\ rci.group # 0
      /\ rci.parser = "output" /\ rci.calling = "none"
      /\ owed' = owed /\ saved' = saved /\ user' = user
      /\ HaveRead' = HaveRead
  BY DEF WritesNow, AtItem, AtOutput, CallRefused, InGroup
<1> DEFINE next == [rci EXCEPT !.output = "attribute"]
           item == <<"group", rci.group>>
<1>5. Write(item, 1, next)
  BY <1>4 DEF WritesNow, OutputItem
<1>6. /\ UNCHANGED <<stage, odd>>
      /\ Stand' \/ (rci' = next /\ written' = Append(written, item))
  BY <1>5, ItemOrStand
<1>7. CASE rci' = next /\ written' = Append(written, item)
  <2>1. Outputs("attribute")
    BY <1>4, <1>7, ParserOutputs DEF OutputStates
  <2>2. SameScope /\ rci'.parser = "output" /\ rci'.output = "attribute"
        /\ rci'.element = rci.element /\ rci'.calling = "none"
        /\ rci'.last = rci.last /\ rci'.value = rci.value
    BY <1>4, <2>1 DEF Outputs, Rest, SameElement, SameGroup, SameScope
  <2>3. /\ Scope(c, k, n, start, fields)'
        /\ rci'.input = "field" <=> rci.input = "field"
    BY <1>3, <2>2, ScopeStays DEF Amid, SameScope
  <2>4. n = 0 /\ n \in 0 .. Len(fields) /\ rci.element = 0 /\ written = start
    BY <1>3, <1>4 DEF Amid, Spelling, Walks, Utters, WritesNow
  <2>5. Spelling(c, start, fields, n)'
    BY <1>7, <2>2, <2>4 DEF Spelling, Utters, SameScope
  <2>6. Reading(c) => Reading(c)'
    BY <1>4, <2>2 DEF Reading, Utters, InsideGroup, SameScope
  <2>7. Setting(c, k, n) => Setting(c, k, n)'
    <3>1. ~Pending /\ ~Pending' /\ ~Walks("group") /\ ~Walks("group")'
      BY <1>4, <2>2 DEF Pending, Walks
    <3>2. Changed(c, k, n)' = Changed(c, k, n)
      BY <2>2 DEF Changed, SameScope
    <3> QED
      BY <1>4, <2>2, <3>1, <3>2 DEF Setting
  <2>8. Amid(c, k, n, start, fields)'
    BY <1>3, <2>3, <2>5, <2>6, <2>7 DEF Amid
  <2> QED
    BY <1>6, <2>8, Zenon DEF Stand
<1> QED
  BY <1>6, <1>7

\* The fields follow.
LEMMA TellAttribute ==
    ASSUME WritesNow, rci.output = "attribute"
    PROVE  Stand' /\ UNCHANGED <<stage, odd>>
<1>1. SomeField
  BY StandOutput DEF WritesNow, AtItem
<1>2. PICK c, k, n \in Nat : \E st, fs : Amid(c, k, n, st, fs)
  BY <1>1 DEF SomeField
<1>3. PICK start, fields : Amid(c, k, n, start, fields)
  BY <1>2
<1>4. /\ InGroup /\ NoElement /\ GoesOnInside
      /\ rci \in ParserTypes /\ rci.group \in Groups \cup {0}
      /\ rci.parser = "output" /\ rci.calling = "none"
      /\ owed' = owed /\ saved' = saved /\ user' = user
      /\ HaveRead' = HaveRead
  BY ParserFields DEF WritesNow, AtItem, AtOutput
<1> DEFINE next == [rci EXCEPT !.parser = "traverse"]
           item == <<"index", rci.index>>
<1>5. IF rci.index > 1 THEN Write(item, 1, next) ELSE Onward(next)
  BY DEF WritesNow, OutputItem
<1>6. /\ UNCHANGED <<stage, odd>>
      /\ \/ Stand'
         \/ /\ rci' = next
            /\ written' = IF rci.index > 1 THEN Append(written, item)
                          ELSE written
  <2>1. CASE rci.index > 1
    BY <1>5, <2>1, ItemOrStand
  <2>2. CASE ~(rci.index > 1)
    BY <1>5, <2>2 DEF Onward
  <2> QED
    BY <2>1, <2>2
<1>7. CASE /\ rci' = next
           /\ written' = IF rci.index > 1 THEN Append(written, item)
                         ELSE written
  <2>1. TurnsTo("traverse")
    BY <1>4, <1>7, ParserTurns DEF Parsers
  <2>2. SameScope /\ rci'.parser = "traverse"
        /\ rci'.element = rci.element /\ rci'.calling = "none"
        /\ rci'.last = rci.last /\ rci'.value = rci.value
        /\ rci'.traverse \notin {"group", "element"}
    BY <1>4, <2>1 DEF TurnsTo, Rest, SameElement, SameGroup, SameScope,
       GoesOnInside
  <2>3. /\ Scope(c, k, n, start, fields)'
        /\ rci'.input = "field" <=> rci.input = "field"
        /\ SpelledTo(c, start, fields, 0)' = SpelledTo(c, start, fields, 0)
    BY <1>3, <2>2, ScopeStays DEF Amid, SameScope
  <2>4. /\ n = 0 /\ n \in 0 .. Len(fields) /\ rci.element = 0
        /\ written = Append(start, <<"group", rci.group>>)
    BY <1>3, <1>4 DEF Amid, Spelling, Walks, Utters, WritesNow
  <2>5. Scope(c, k, n, start, fields)
    BY <1>3 DEF Amid
  <2>6. SpelledTo(c, start, fields, 0)
        = IF rci.index > 1
          THEN Append(Append(start, <<"group", rci.group>>),
                      <<"index", rci.index>>)
          ELSE Append(start, <<"group", rci.group>>)
    BY <1>4, <2>5, FieldScope DEF WritesNow
  <2>7. written' = SpelledTo(c, start, fields, 0)'
    BY <1>7, <2>3, <2>4, <2>6, Zenon
  <2>8. Spelling(c, start, fields, n)'
    BY <2>2, <2>4, <2>7 DEF Spelling, Utters
  <2>9. Reading(c) => Reading(c)'
    BY <1>4, <2>2 DEF Reading, Utters, InsideGroup, SameScope
  <2>10. Setting(c, k, n) => Setting(c, k, n)'
    <3>1. ~Pending /\ ~Pending' /\ ~Walks("group") /\ ~Walks("group")'
      BY <1>4, <2>2 DEF Pending, Walks
    <3>2. Changed(c, k, n)' = Changed(c, k, n)
      BY <2>2 DEF Changed, SameScope
    <3> QED
      BY <1>4, <2>2, <3>1, <3>2 DEF Setting
  <2>11. Amid(c, k, n, start, fields)'
    BY <1>3, <2>3, <2>8, <2>9, <2>10 DEF Amid
  <2> QED
    BY <1>6, <2>11, Zenon DEF Stand
<1> QED
  BY <1>6, <1>7

\* The field is written, and then its value.
LEMMA TellField ==
    ASSUME WritesNow, rci.output = "field"
    PROVE  Stand' /\ UNCHANGED <<stage, odd>>
<1>1. SomeField
  BY StandOutput DEF WritesNow, AtItem
<1>2. PICK c, k, n \in Nat : \E st, fs : Amid(c, k, n, st, fs)
  BY <1>1 DEF SomeField
<1>3. PICK start, fields : Amid(c, k, n, start, fields)
  BY <1>2
<1>4. /\ rci.last = "process" /\ rci.element # 0
      /\ rci \in ParserTypes /\ ~rci.failed
      /\ rci.parser = "output" /\ rci.calling = "none"
      /\ owed' = owed /\ saved' = saved /\ user' = user
      /\ HaveRead' = HaveRead
  BY DEF WritesNow, AtItem, AtOutput, CallRefused, OfGroup
<1> DEFINE next == [rci EXCEPT !.output = "value"]
           item == <<"field", rci.element>>
<1>5. Write(item, 1, next)
  BY <1>4 DEF WritesNow, OutputItem
<1>6. /\ UNCHANGED <<stage, odd>>
      /\ Stand' \/ (rci' = next /\ written' = Append(written, item))
  BY <1>5, ItemOrStand
<1>7. CASE rci' = next /\ written' = Append(written, item)
  <2>1. Outputs("value")
    BY <1>4, <1>7, ParserOutputs DEF OutputStates
  <2>2. SameScope /\ rci'.parser = "output" /\ rci'.output = "value"
        /\ rci'.element = rci.element /\ rci'.calling = "none"
        /\ rci'.last = rci.last /\ rci'.value = rci.value
    BY <1>4, <2>1 DEF Outputs, Rest, SameElement, SameGroup, SameScope
  <2>3. /\ Scope(c, k, n, start, fields)'
        /\ rci'.input = "field" <=> rci.input = "field"
        /\ \A m : SpelledTo(c, start, fields, m)'
                  = SpelledTo(c, start, fields, m)
    BY <1>3, <2>2, ScopeStays DEF Amid, SameScope
  <2>4. /\ n # 0 /\ n \in 0 .. Len(fields) /\ rci.element = fields[n]
        /\ written = SpelledTo(c, start, fields, n - 1)
        /\ ~Hidden(rci.element)
    BY <1>3, <1>4 DEF Amid, Spelling, Walks, Utters, WritesNow
  <2>5. Spelling(c, start, fields, n)'
    <3>1. ~Hidden(rci.element)'
      BY <2>2, <2>4 DEF Hidden, SameScope
    <3> QED
      BY <1>7, <2>2, <2>3, <2>4, <3>1 DEF Spelling, Utters, SameScope
  <2>6. Reading(c) => Reading(c)'
    BY <1>4, <2>2 DEF Reading, Utters, InsideGroup, SameScope
  <2>7. Setting(c, k, n) => Setting(c, k, n)'
    <3>1. ~Pending /\ ~Pending' /\ ~Walks("group") /\ ~Walks("group")'
      BY <1>4, <2>2 DEF Pending, Walks
    <3>2. Changed(c, k, n)' = Changed(c, k, n)
      BY <2>2 DEF Changed, SameScope
    <3> QED
      BY <1>4, <2>2, <3>1, <3>2 DEF Setting
  <2>8. Amid(c, k, n, start, fields)'
    BY <1>3, <2>3, <2>5, <2>6, <2>7 DEF Amid
  <2> QED
    BY <1>6, <2>8, Zenon DEF Stand
<1> QED
  BY <1>6, <1>7

\* What is written of a value that comes out whole.
LEMMA ValueTold ==
    ASSUME WritesNow, rci.output = "value", odd = {}, odd' = {},
           stage' # "dead"
    PROVE  /\ stage' = stage
           /\ \/ Stand'
              \/ /\ TurnsTo("traverse")
                 /\ written' = Append(written,
                                   IF rci.action = "set" THEN <<"no value">>
                                   ELSE <<"value", rci.value>>)
<1> DEFINE item == <<"value", rci.value>>
           no == <<"no value">>
           next == [rci EXCEPT !.parser = "traverse"]
           whole == [next EXCEPT !.half = "none"]
<1>1. /\ rci \in ParserTypes /\ room \in 0 .. PacketRoom /\ Stand
      /\ UNCHANGED <<saved, user, owed>> /\ HaveRead' = HaveRead
      /\ rci.action \in {"query", "set"}
  BY ParserFields DEF WritesNow, AtItem
<1>2. /\ rci.action = "set" => Write(no, 1, next)
      /\ rci.action = "query" =>
             \/ WriteAddress(item, next) \/ WriteText(item, next)
             \/ Write(item, 2, next)
  BY <1>1 DEF WritesNow, OutputItem, OutputValue
<1>3. rci' = next => TurnsTo("traverse")
  BY <1>1, ParserTurns DEF Parsers
<1>4. rci' = whole => TurnsTo("traverse")
  <2>1. ASSUME rci' = whole PROVE rci' \in ParserTypes
    BY <1>1, <2>1 DEF ParserTypes, Parsers
  <2> QED
    BY <1>1, <2>1 DEF TurnsTo, Rest, SameElement, SameGroup, ParserTypes
<1>5. Alike /\ written' = written => Stand'
  BY <1>1, AlikeStand DEF SameWork
<1>6. ASSUME NEW it, NEW b \in Nat, NEW nx, Write(it, b, nx)
      PROVE  stage' = stage
             /\ (Stand' \/ (rci' = nx /\ written' = Append(written, it)))
  BY <1>6, ItemOrStand
<1> HIDE DEF item, no, next, whole
<1>7. CASE rci.action = "set"
  <2>1. stage' = stage
        /\ (Stand' \/ (rci' = next /\ written' = Append(written, no)))
    BY <1>2, <1>6, <1>7
  <2> QED
    BY <1>3, <1>7, <2>1 DEF no
<1>8. CASE rci.action = "query"
  <2>1. CASE Write(item, 2, next)
    <3>1. stage' = stage
          /\ (Stand' \/ (rci' = next /\ written' = Append(written, item)))
      BY <1>6, <2>1
    <3> QED
      BY <1>3, <1>8, <3>1 DEF item
  <2>2. CASE WriteAddress(item, next)
    <3>1. Write(item, 5, next)
      BY <2>2 DEF WriteAddress
    <3>2. stage' = stage
          /\ (Stand' \/ (rci' = next /\ written' = Append(written, item)))
      BY <1>6, <3>1
    <3> QED
      BY <1>3, <1>8, <3>2 DEF item
  <2>3. CASE WriteText(item, next)
    <3>1. rci.half # "earlier"
      BY <2>3 DEF WriteText
    <3>2. CASE rci.half = "this"
      <4>1. Write(item, 1, whole)
        BY <2>3, <3>2 DEF WriteText, whole
      <4>2. stage' = stage
            /\ (Stand' \/ (rci' = whole /\ written' = Append(written, item)))
        BY <1>6, <4>1
      <4> QED
        BY <1>4, <1>8, <4>2 DEF item
    <3>3. CASE rci.half \notin {"this", "earlier"} /\ room = 1
      <4>1. /\ rci' = [rci EXCEPT !.half = "this", !.status = "flush"]
            /\ UNCHANGED <<written, stage, odd>>
        BY <2>3, <3>3 DEF WriteText
      <4>2. rci' \in ParserTypes
        BY <1>1, <4>1 DEF ParserTypes, Statuses
      <4>3. Alike
        BY <1>1, <4>1, <4>2 DEF Alike, ParserTypes
      <4> QED
        BY <1>5, <4>1, <4>3
    <3>4. CASE rci.half \notin {"this", "earlier"} /\ room # 1
      <4>1. Write(item, 2, next)
        BY <2>3, <3>4 DEF WriteText
      <4>2. stage' = stage
            /\ (Stand' \/ (rci' = next /\ written' = Append(written, item)))
        BY <1>6, <4>1
      <4> QED
        BY <1>3, <1>8, <4>2 DEF item
    <3> QED
      BY <3>1, <3>2, <3>3, <3>4
  <2> QED
    BY <1>2, <1>8, <2>1, <2>2, <2>3
<1> QED
  BY <1>1, <1>7, <1>8

LEMMA TellValue ==
    ASSUME WritesNow, rci.output = "value", odd = {}, odd' = {},
           stage' # "dead"
    PROVE  Stand' /\ stage' = stage
<1>1. SomeField
  BY StandOutput DEF WritesNow, AtItem
<1>2. PICK c, k, n \in Nat : \E st, fs : Amid(c, k, n, st, fs)
  BY <1>1 DEF SomeField
<1>3. PICK start, fields : Amid(c, k, n, start, fields)
  BY <1>2
<1>4. /\ OfGroup /\ GoesOnInside /\ rci.last = "process"
      /\ rci \in ParserTypes /\ rci.group \in Groups \cup {0}
      /\ rci.parser = "output" /\ rci.calling = "none"
      /\ rci.action \in {"query", "set"}
      /\ owed' = owed /\ saved' = saved /\ user' = user
      /\ HaveRead' = HaveRead
  BY ParserFields DEF WritesNow, AtItem, AtOutput
<1> DEFINE item == IF rci.action = "set" THEN <<"no value">>
                   ELSE <<"value", rci.value>>
<1>5. stage' = stage
      /\ (Stand' \/ (TurnsTo("traverse") /\ written' = Append(written, item)))
  BY ValueTold
<1> HIDE DEF item
<1>6. CASE TurnsTo("traverse") /\ written' = Append(written, item)
  <2>1. SameScope /\ rci'.parser = "traverse"
        /\ rci'.element = rci.element /\ rci'.calling = "none"
        /\ rci'.last = rci.last /\ rci'.value = rci.value
        /\ rci'.traverse \notin {"group", "element"}
    BY <1>4, <1>6 DEF TurnsTo, Rest, SameElement, SameGroup, SameScope,
       GoesOnInside
  <2>2. /\ Scope(c, k, n, start, fields) /\ Scope(c, k, n, start, fields)'
        /\ rci'.input = "field" <=> rci.input = "field"
        /\ SpelledTo(c, start, fields, n)' = SpelledTo(c, start, fields, n)
    BY <1>3, <2>1, ScopeStays DEF Amid, SameScope
  <2>3. /\ n # 0 /\ n \in 0 .. Len(fields) /\ rci.element = fields[n]
        /\ written = Append(SpelledTo(c, start, fields, n - 1),
                            <<"field", rci.element>>)
        /\ ~Hidden(rci.element)
    BY <1>3, <1>4 DEF Amid, Spelling, Walks, Utters, WritesNow
  <2>4. /\ rci.action = Asked(owed, c).do /\ Len(fields) \in Nat
        /\ \A m \in 1 .. Len(fields) :
               FieldStep(owed, c, rci.group, rci.index, fields, start, m)
    BY <1>4, <2>2, FieldScope DEF WritesNow, OfGroup
  <2>5. n \in 1 .. Len(fields)
    BY <2>3, <2>4
  <2>6. FieldStep(owed, c, rci.group, rci.index, fields, start, n)
    BY <2>4, <2>5
  <2>7. item = IF Asked(owed, c).do = "set" THEN <<"no value">>
               ELSE <<"value",
                      SavedAt(owed, c)[<<rci.group, rci.index, fields[n]>>]>>
    <3>1. CASE rci.action = "set"
      BY <2>4, <3>1 DEF item
    <3>2. CASE rci.action = "query"
      <4>1. Reading(c)
        BY <1>3, <2>4, <3>2 DEF Amid, Setting
      <4>2. rci.value = SavedAt(owed, c)[<<rci.group, rci.index, fields[n]>>]
        BY <1>4, <2>3, <4>1 DEF Reading, Utters, WritesNow
      <4> QED
        BY <2>4, <3>2, <4>2 DEF item
    <3> QED
      BY <1>4, <3>1, <3>2
  <2>8. ~(Asked(owed, c).do = "query" /\ Kinds[rci.group][fields[n]] = "password")
    BY <2>3, <2>4 DEF Hidden
  <2>9. Spelled(owed, c, rci.group, rci.index, fields, start, n)
        = Append(Append(Spelled(owed, c, rci.group, rci.index, fields, start,
                                n - 1),
                        <<"field", fields[n]>>),
                 IF Asked(owed, c).do = "set" THEN <<"no value">>
                 ELSE <<"value",
                        SavedAt(owed, c)[<<rci.group, rci.index, fields[n]>>]>>)
    BY <2>6, <2>8, Zenon DEF FieldStep
  <2>10. written' = SpelledTo(c, start, fields, n)'
    <3>1. SpelledTo(c, start, fields, n)
          = Append(Append(SpelledTo(c, start, fields, n - 1),
                          <<"field", fields[n]>>), item)
      BY <2>7, <2>9, Zenon DEF SpelledTo
    <3> QED
      BY <1>6, <2>2, <2>3, <3>1, Zenon
  <2>11. Spelling(c, start, fields, n)'
    BY <2>1, <2>3, <2>10 DEF Spelling, Utters
  <2>12. Reading(c) => Reading(c)'
    BY <1>4, <2>1 DEF Reading, Utters, InsideGroup, SameScope
  <2>13. Setting(c, k, n) => Setting(c, k, n)'
    <3>1. ~Pending /\ ~Pending' /\ ~Walks("group") /\ ~Walks("group")'
      BY <1>4, <2>1 DEF Pending, Walks
    <3>2. Changed(c, k, n)' = Changed(c, k, n)
      BY <2>1 DEF Changed, SameScope
    <3> QED
      BY <1>4, <2>1, <3>1, <3>2 DEF Setting
  <2>14. Amid(c, k, n, start, fields)'
    BY <1>3, <2>2, <2>11, <2>12, <2>13 DEF Amid
  <2> QED
    BY <1>5, <2>14, Zenon DEF Stand
<1> QED
  BY <1>5, <1>6

\* The end of an instance, after which the parser goes on.
PartTold(c, start, fields) ==
    start \o Part(Asked(owed, c).do, rci.group, rci.index, fields,
                  SavedAt(owed, c))

LEMMA PartEnds ==
    ASSUME NEW c, NEW start \in Seq(Speech), Request1(owed, c),
           rci.group \in Groups, rci.index \in 1 .. Instances[rci.group],
           NEW fields \in Seq(Fields(rci.group)),
           written = SpelledTo(c, start, fields, Len(fields))
    PROVE  Append(written, End) = PartTold(c, start, fields)
<1>1. Append(Spelled(owed, c, rci.group, rci.index, fields, start, Len(fields)),
             End)
      = start \o Part(Asked(owed, c).do, rci.group, rci.index, fields,
                      SavedAt(owed, c))
  BY SpelledSteps
<1> QED
  BY <1>1, Zenon DEF SpelledTo, PartTold

\* Of a group with one instance that instance is all.
LEMMA OneInstance ==
    ASSUME NEW o, NEW c, Request1(o, c), NEW g \in Groups,
           NEW start \in Seq(Speech)
    PROVE  Instances[g] = 1 =>
           start \o AllOf(Asked(o, c).do, g, SavedAt(o, c))
           = start \o Part(Asked(o, c).do, g, 1, AllFields(g), SavedAt(o, c))
<1>1. /\ InstancesTold(o, c, g, start, 1) = start
      /\ InstancesTold(o, c, g, start, Instances[g] + 1)
         = start \o AllOf(Asked(o, c).do, g, SavedAt(o, c))
  BY InstancesSpoken
<1>2. \A i \in 1 .. Instances[g] :
          InstancesTold(o, c, g, start, i + 1)
          = InstancesTold(o, c, g, start, i)
            \o Part(Asked(o, c).do, g, i, AllFields(g), SavedAt(o, c))
  BY InstancesSpoken, Zenon
<1>5. SUFFICES ASSUME Instances[g] = 1
               PROVE  start \o AllOf(Asked(o, c).do, g, SavedAt(o, c))
                      = start \o Part(Asked(o, c).do, g, 1, AllFields(g),
                                      SavedAt(o, c))
  OBVIOUS
<1>3. 1 \in 1 .. Instances[g]
  BY <1>5
<1>4. InstancesTold(o, c, g, start, 1 + 1)
      = InstancesTold(o, c, g, start, 1)
        \o Part(Asked(o, c).do, g, 1, AllFields(g), SavedAt(o, c))
  BY <1>2, <1>3, Zenon
<1> QED
  BY <1>1, <1>4, <1>5, Zenon

\* The groups that were asked for one by one.
LEMMA TellGroupEnded ==
    ASSUME WritesNow, rci.output = "field_end", InGroup,
           NEW c \in Nat, NEW k \in Nat, NEW start, NEW fields,
           OfWish(c, k), rci.input = "group", rci.traverse = "none",
           HaveRead = GroupsRead(owed, c, k + 1),
           rci.index = Instance(Wish(owed, c, k)),
           Wish(owed, c, k).fields = <<>> =>
               /\ Asked(owed, c).do = "query"
               /\ Wish(owed, c, k).index # 0 \/ Instances[rci.group] = 1,
           start = PartsTold(owed, c, k), fields = FieldsOf(Wish(owed, c, k)),
           written = SpelledTo(c, start, fields, Len(fields)),
           saved = SavedTo(owed, c, k), written' = Append(written, End),
           SameScope, rci'.parser = "traverse"
    PROVE  Stand'
<1>1. /\ OfCommand(c) /\ k \in 1 .. Number(owed, c)
      /\ rci.group = Wish(owed, c, k).id
  BY DEF OfWish
<1>2. Request1(owed, c) /\ rci.action = Asked(owed, c).do
  BY <1>1 DEF OfCommand, Request1, WritesNow
<1>3. Good(Asked(owed, c).do, Wish(owed, c, k)) /\ Number(owed, c) \in Nat
      /\ Asked(owed, c).do \in Orders /\ SavedAt(owed, c) \in [Settings -> Values]
  BY <1>1, <1>2, AskedFacts
<1>4. /\ rci.group \in Groups /\ rci.index \in 1 .. Instances[rci.group]
      /\ fields \in Seq(Fields(rci.group))
  BY <1>1, <1>3, GroupAnswerTyped
<1>5. /\ k \in 1 .. PartsOf(owed, c) /\ Number(owed, c) # 0
  BY <1>1, <1>3 DEF PartsOf
<1>6. /\ PartsTold(owed, c, k + 1) = start \o AnswerParts(owed, c)[k]
      /\ start \in Seq(Speech)
  BY <1>2, <1>5, PartsSpoken
<1>7. AnswerParts(owed, c)[k]
      = GroupAnswer(Asked(owed, c).do, Wish(owed, c, k), SavedAt(owed, c))
  BY <1>1, <1>2, <1>5, PartsTyped
<1>8. Append(written, End) = PartTold(c, start, fields)
  BY <1>2, <1>4, <1>6, PartEnds
<1>9. Append(written, End) = PartsTold(owed, c, k + 1)
  <2>1. CASE ~(Wish(owed, c, k).fields = <<>> /\ Wish(owed, c, k).index = 0)
    <3>1. GroupAnswer(Asked(owed, c).do, Wish(owed, c, k), SavedAt(owed, c))
          = Part(Asked(owed, c).do, rci.group, rci.index, fields,
                 SavedAt(owed, c))
      BY <1>1, <2>1, Zenon DEF GroupAnswer
    <3> QED
      BY <1>6, <1>7, <1>8, <3>1, Zenon DEF PartTold
  <2>2. CASE Wish(owed, c, k).fields = <<>> /\ Wish(owed, c, k).index = 0
    <3>1. Instances[rci.group] = 1 /\ rci.index = 1
      BY <2>2 DEF Instance
    <3>2. fields = AllFields(rci.group)
      BY <1>1, <2>2 DEF FieldsOf
    <3>3. GroupAnswer(Asked(owed, c).do, Wish(owed, c, k), SavedAt(owed, c))
          = AllOf(Asked(owed, c).do, rci.group, SavedAt(owed, c))
      BY <1>1, <2>2, Zenon DEF GroupAnswer
    <3>4. start \o AllOf(Asked(owed, c).do, rci.group, SavedAt(owed, c))
          = start \o Part(Asked(owed, c).do, rci.group, 1,
                          AllFields(rci.group), SavedAt(owed, c))
      BY <1>2, <1>4, <1>6, <3>1, OneInstance
    <3> QED
      BY <1>6, <1>7, <1>8, <3>1, <3>2, <3>3, <3>4, Zenon DEF PartTold
  <2> QED
    BY <2>1, <2>2
<1>10. k + 1 \in 1 .. Number(owed, c) + 1 /\ k + 1 # 1 /\ rci.group # 0
       /\ (k + 1) - 1 = k
  BY <1>1, <1>3 DEF InGroup
<1>11. OfCommand(c)' /\ owed' = owed /\ saved' = saved /\ rci'.input = "group"
       /\ rci'.traverse = "none" /\ rci'.group = rci.group
       /\ HaveRead' = HaveRead
  BY <1>1, ScopeStays DEF SameScope, WritesNow
<1>12. AtGroup(c, k + 1)'
  BY <1>9, <1>10, <1>11 DEF AtGroup
<1> QED
  BY <1>12 DEF Stand

\* The instances of a group, or of all.
LEMMA TellInstanceEnded ==
    ASSUME WritesNow, rci.output = "field_end", InGroup,
           NEW c \in Nat, NEW k \in Nat, NEW start, NEW fields,
           fields = AllFields(rci.group), Asked(owed, c).do = "query",
           \/ OfAll(c, k, start) /\ rci.process = "instance"
           \/ OfEvery(c, start) /\ rci.process # "element",
           written = SpelledTo(c, start, fields, Len(fields)),
           saved = SavedTo(owed, c, k), written' = Append(written, End),
           SameScope, rci'.parser = "traverse", rci \in ParserTypes
    PROVE  Stand'
<1>0. /\ rci.group \in Groups \cup {0} /\ rci.group # 0
      /\ owed' = owed /\ saved' = saved
      /\ rci'.process = rci.process /\ rci'.traverse = rci.traverse
      /\ rci'.group = rci.group /\ rci'.index = rci.index
      /\ HaveRead' = HaveRead
  BY ParserFields DEF InGroup, SameScope, WritesNow
<1>1. OfCommand(c)
  BY DEF OfAll, OfEvery, OfWish
<1>2. Request1(owed, c)
  BY <1>1 DEF OfCommand, Request1, WritesNow
<1>3. /\ rci.group \in Groups /\ rci.index \in 1 .. Instances[rci.group]
  BY <1>0 DEF InGroup
<1>4. fields \in Seq(Fields(rci.group))
  BY <1>3, AllFieldsTyped
<1>5. saved = SavedAt(owed, c)
  BY <1>2, SavedEach DEF Request1
<1>6. ASSUME NEW st \in Seq(Speech),
             start = InstancesTold(owed, c, rci.group, st, rci.index)
      PROVE  Append(written, End)
             = InstancesTold(owed, c, rci.group, st, rci.index + 1)
  <2>1. /\ InstancesTold(owed, c, rci.group, st, rci.index + 1)
           = start \o Part(Asked(owed, c).do, rci.group, rci.index,
                           AllFields(rci.group), SavedAt(owed, c))
        /\ start \in Seq(Speech)
    <3>1. \A i \in 1 .. Instances[rci.group] :
              /\ InstancesTold(owed, c, rci.group, st, i + 1)
                 = InstancesTold(owed, c, rci.group, st, i)
                   \o Part(Asked(owed, c).do, rci.group, i,
                           AllFields(rci.group), SavedAt(owed, c))
              /\ InstancesTold(owed, c, rci.group, st, i) \in Seq(Speech)
      BY <1>2, <1>3, <1>6, InstancesSpoken, Zenon
    <3> QED
      BY <1>3, <1>6, <3>1, Zenon
  <2>2. Append(written, End) = PartTold(c, start, fields)
    BY <1>2, <1>3, <1>4, <2>1, PartEnds
  <2> QED
    BY <2>1, <2>2, Zenon DEF PartTold
<1>7. CASE OfAll(c, k, start) /\ rci.process = "instance"
  <2>1. k \in 1 .. Number(owed, c)
        /\ start = InstancesTold(owed, c, rci.group, PartsTold(owed, c, k),
                                 rci.index)
    BY <1>7 DEF OfAll, OfWish
  <2>2. k \in 1 .. PartsOf(owed, c)
    <3>1. Number(owed, c) \in Nat
      BY <1>2, AskedFacts
    <3> QED
      BY <2>1, <3>1 DEF PartsOf
  <2>3. PartsTold(owed, c, k) \in Seq(Speech)
    BY <1>2, <2>2, PartsSpoken
  <2>4. written' = InstancesTold(owed, c, rci.group, PartsTold(owed, c, k),
                                 rci.index + 1)
    BY <1>6, <2>1, <2>3
  <2>5. OfAll(c, k, start)'
    BY <1>7, ScopeStays
  <2>6. NextInstance(c, k, start)'
    BY <1>0, <1>5, <1>7, <2>4, <2>5 DEF NextInstance
  <2> QED
    BY <2>6, Zenon DEF Stand
<1>8. CASE OfEvery(c, start) /\ rci.process # "element"
  <2>1. /\ Number(owed, c) = 0 /\ rci.traverse = "all_groups"
        /\ HaveRead = CommandsRead(owed, c + 1)
        /\ start = InstancesTold(owed, c, rci.group,
                                 PartsTold(owed, c, rci.group), rci.index)
    BY <1>8 DEF OfEvery
  <2>2. rci.group \in 1 .. PartsOf(owed, c)
    BY <1>3, <2>1, GroupFacts DEF PartsOf
  <2>3. PartsTold(owed, c, rci.group) \in Seq(Speech)
    BY <1>2, <2>2, PartsSpoken
  <2>4. written' = InstancesTold(owed, c, rci.group,
                                 PartsTold(owed, c, rci.group), rci.index + 1)
    BY <1>6, <2>1, <2>3
  <2>5. OfEvery(c, start)' /\ OfCommand(c)'
    BY <1>1, <1>8, ScopeStays
  <2>6. NextGroup(c, start)'
    BY <1>0, <1>5, <1>8, <2>1, <2>4, <2>5 DEF NextGroup
  <2> QED
    BY <2>6, Zenon DEF Stand
<1> QED
  BY <1>7, <1>8

LEMMA TellFieldEnd ==
    ASSUME WritesNow, rci.output = "field_end"
    PROVE  Stand' /\ UNCHANGED <<stage, odd>>
<1>1. SomeEnd
  BY StandOutput DEF WritesNow, AtItem
<1>2. PICK c, k \in Nat : \E st, fs : Ending(c, k, st, fs)
  BY <1>1 DEF SomeEnd
<1>3. PICK start, fields : Ending(c, k, start, fields)
  BY <1>2
<1>4. /\ InGroup /\ rci \in ParserTypes /\ ~rci.failed
      /\ rci.parser = "output" /\ rci.calling = "none"
      /\ owed' = owed /\ saved' = saved /\ HaveRead' = HaveRead
  BY DEF WritesNow, AtItem, AtOutput
<1> DEFINE q == [rci EXCEPT !.element = 0]
<1>5. Write(End, 1, To(q))
  BY DEF WritesNow, OutputItem
<1>6. /\ UNCHANGED <<stage, odd>>
      /\ Stand' \/ (rci' = To(q) /\ written' = Append(written, End))
  BY <1>5, ItemOrStand
<1>7. CASE rci' = To(q) /\ written' = Append(written, End)
  <2>1. rci' = [q EXCEPT !.parser = "traverse"]
    BY <1>4, <1>7 DEF To, ParserTypes
  <2>2. SameScope /\ rci'.parser = "traverse"
    BY <1>4, <2>1 DEF SameScope, ParserTypes
  <2>3. /\ saved = SavedTo(owed, c, k)
        /\ written = SpelledTo(c, start, fields, Len(fields))
    BY <1>3, <1>4 DEF Ending
  <2>4. CASE /\ OfWish(c, k) /\ rci.input = "group"
             /\ HaveRead = GroupsRead(owed, c, k + 1)
             /\ rci.index = Instance(Wish(owed, c, k))
             /\ Wish(owed, c, k).fields = <<>> =>
                    /\ Asked(owed, c).do = "query"
                    /\ Wish(owed, c, k).index # 0 \/ Instances[rci.group] = 1
             /\ rci.traverse = "none"
             /\ start = PartsTold(owed, c, k)
             /\ fields = FieldsOf(Wish(owed, c, k))
    BY <1>4, <1>6, <1>7, <2>2, <2>3, <2>4, TellGroupEnded
  <2>5. CASE /\ fields = AllFields(rci.group) /\ Asked(owed, c).do = "query"
             /\ \/ OfAll(c, k, start) /\ rci.process = "instance"
                \/ OfEvery(c, start) /\ rci.process # "element"
    BY <1>4, <1>6, <1>7, <2>2, <2>3, <2>5, TellInstanceEnded
  <2> QED
    BY <1>3, <1>4, <2>4, <2>5 DEF Ending, Walks
<1> QED
  BY <1>6, <1>7

\* The end of a command, and what follows it.
LEMMA TellGroupEnd ==
    ASSUME WritesNow, rci.output = "group_end"
    PROVE  Stand' /\ UNCHANGED <<stage, odd>>
<1>1. PICK c \in Nat : CommandCloses(c)
  BY StandOutput DEF WritesNow, AtItem
<1>2. /\ rci \in ParserTypes /\ ~rci.failed /\ rci.parser = "output"
      /\ owed' = owed /\ saved' = saved /\ HaveRead' = HaveRead
  BY DEF WritesNow, AtItem
<1> DEFINE next == [rci EXCEPT !.group = 0]
<1>3. Write(End, 1, [next EXCEPT !.output = "response_done"])
  BY <1>2 DEF WritesNow, OutputItem
<1>4. /\ UNCHANGED <<stage, odd>>
      /\ \/ Stand'
         \/ /\ rci' = [next EXCEPT !.output = "response_done"]
            /\ written' = Append(written, End)
  BY <1>3, ItemOrStand
<1>5. CASE /\ rci' = [next EXCEPT !.output = "response_done"]
           /\ written' = Append(written, End)
  <2>1. Utters("response_done")'
    BY <1>2, <1>5 DEF Utters, ParserTypes
  <2>2. /\ OfCommand(c) /\ HaveRead = CommandsRead(owed, c + 1)
        /\ Append(written, End) = ToldUpTo(owed, c + 1)
        /\ saved = SavedAt(owed, c + 1)
    BY <1>1 DEF CommandCloses
  <2>3. Request1(owed, c)
    BY <2>2 DEF OfCommand, Request1, WritesNow
  <2>4. c + 1 \in 1 .. Len(owed.request) + 1 /\ c + 1 \in Nat
    <3>1. c \in 1 .. Len(owed.request) /\ Len(owed.request) \in Nat
      BY <2>3, AskedFacts
    <3> QED
      BY <3>1
  <2>5. CommandClosed(c + 1)'
    BY <1>2, <1>5, <2>1, <2>2, <2>4 DEF CommandClosed
  <2> QED
    BY <1>4, <2>4, <2>5 DEF Stand
<1> QED
  BY <1>4, <1>5

LEMMA TellResponseDone ==
    ASSUME WritesNow, rci.output = "response_done",
           rci.input = "done" => HaveRead = Len(AllTokens(owed.request))
    PROVE  Stand' /\ UNCHANGED <<stage, odd>>
<1>1. PICK c \in Nat : CommandClosed(c)
  BY StandOutput DEF WritesNow, AtItem
<1>2. /\ rci \in ParserTypes /\ rci.parser = "output"
      /\ owed' = owed /\ saved' = saved /\ HaveRead' = HaveRead
      /\ owed.request \in RciRequests
  BY DEF WritesNow, AtItem
<1>3. /\ UNCHANGED <<stage, odd, written>>
      /\ rci' = IF rci.input = "done" THEN ThenCall(rci, "session_end", "done")
                ELSE [rci EXCEPT !.parser = "input", !.input = "command"]
  BY DEF WritesNow, OutputItem, Onward
<1>4. /\ c \in 1 .. Len(owed.request) + 1 /\ HaveRead = CommandsRead(owed, c)
      /\ written = ToldUpTo(owed, c) /\ saved = SavedAt(owed, c)
  BY <1>1 DEF CommandClosed
<1>5. CASE rci.input = "done"
  <2>1. rci' = ThenCall(rci, "session_end", "done")
    BY <1>3, <1>5
  <2>2. Utters("done")'
    BY <1>2, <2>1 DEF Utters, ThenCall, Trigger, ParserTypes
  <2>3. c = Len(owed.request) + 1
    <3> DEFINE last == Len(owed.request)
               all == AllTokens(owed.request)
    <3>1. /\ last \in Nat /\ Len(all) \in Nat
          /\ \A d \in 1 .. last : CommandsRead(owed, d) \in Nat
                                  /\ CommandsRead(owed, d) < Len(all)
      BY <1>2, ReadingAt
    <3>2. CommandsRead(owed, c) = Len(all) /\ c \in 1 .. last + 1
      BY <1>4, <1>5
    <3> HIDE DEF last, all
    <3>3. c \notin 1 .. last
      BY <3>1, <3>2
    <3>4. c = last + 1
      BY <3>1, <3>2, <3>3
    <3> QED
      BY <3>4 DEF last
  <2>4. AllTold'
    BY <1>2, <1>3, <1>4, <2>3 DEF AllTold
  <2> QED
    BY <1>3, <2>2, <2>4, Zenon DEF Stand
<1>6. CASE rci.input # "done"
  <2>1. rci' = [rci EXCEPT !.parser = "input", !.input = "command"]
    BY <1>3, <1>6
  <2>2. rci'.parser = "input" /\ rci'.input = "command"
    BY <1>2, <2>1 DEF ParserTypes
  <2>3. AtCommand(c)'
    BY <1>2, <1>3, <1>4, <2>2 DEF AtCommand
  <2> QED
    BY <1>3, <2>3, Zenon DEF Stand
<1> QED
  BY <1>5, <1>6

LEMMA TellDone ==
    ASSUME WritesNow, rci.output = "done"
    PROVE  AllTold' /\ stage' = "sending"
<1>1. AllTold
  BY StandOutput DEF WritesNow, AtItem
<1>2. stage' = "sending" /\ written' = written /\ saved' = saved
      /\ owed' = owed
  BY DEF WritesNow, OutputItem
<1> QED
  BY <1>1, <1>2 DEF AllTold

-----------------------------------------------------------------------------
(* The input.                                                              *)

Receiving ==
    /\ Stand /\ ParseInput /\ ConfigInv /\ owed.before \in [Settings -> Values]
    /\ ~Trouble /\ ~Trouble'

\* The token that comes is the next one of the request.
LEMMA NextRead ==
    ASSUME Receiving, NEW t, t = Head(tokens)
    PROVE  /\ TokenRead /\ AtInput /\ rci \in ParserTypes /\ ~rci.failed
           /\ rci.parser = "input" /\ owed.request \in RciRequests
           /\ HaveRead \in Nat /\ Len(AllTokens(owed.request)) \in Nat
           /\ HaveRead + 1 <= Len(AllTokens(owed.request))
           /\ t = AllTokens(owed.request)[HaveRead + 1]
           /\ HaveRead' = HaveRead + 1 /\ ~rci'.failed
           /\ rci.input \in {"command", "group", "field"}
<1>1. PICK r : r = CASE rci.input = "command" -> CommandToken(rci, t)
                 [] rci.input = "group"   -> GroupToken(rci, t)
                 [] rci.input = "field"   -> FieldToken(rci, t)
  OBVIOUS
<1>2. ConfigTypes /\ ControlInv /\ LiveInv /\ SyncInv /\ ParseInput
      /\ ~CallRefused /\ ~CallRefused' /\ rci' \in ParserTypes /\ ControlInv'
  BY InputStep DEF Receiving, ConfigInv, ConfigTypes, Trouble
<1>3. /\ TokenRead /\ rci \in ParserTypes /\ AtInput
      /\ rci.input \in {"command", "group", "field"}
  BY <1>1, <1>2, ReadsToken
<1>4. /\ rci.parser = "input" /\ tokens # <<>> /\ tokens' = Tail(tokens)
  BY <1>2 DEF ParseInput, ParserStep
<1>5. ~rci.failed
  BY <1>2, <1>3 DEF CallRefused, TokenRead
<1>6. /\ owed.request \in RciRequests /\ HaveRead >= 0
      /\ \A i \in 1 .. Len(tokens) : tokens[i] = OwedTokens[HaveRead + i]
  BY <1>2, <1>3 DEF SyncInv, TokenRead
<1>7. OwedTokens \in Seq(Tokens)
  BY <1>6, RequestAssumption DEF OwedTokens
<1>8. /\ Len(tokens) \in Nat /\ Len(tokens) >= 1 /\ Len(more) \in Nat
      /\ Len(OwedTokens) \in Nat /\ t = tokens[1] /\ Len(tokens') = Len(tokens) - 1
  BY <1>2, <1>4, <1>7 DEF ConfigTypes
<1>9. HaveRead = Len(OwedTokens) - Len(tokens) - Len(more)
      /\ HaveRead' = Len(OwedTokens) - Len(tokens') - Len(more)
  BY <1>3 DEF HaveRead, OwedTokens, TokenRead
<1>10. 1 \in 1 .. Len(tokens)
  BY <1>8
<1>11. t = OwedTokens[HaveRead + 1]
  BY <1>6, <1>8, <1>10
<1>12. HaveRead \in Nat /\ HaveRead + 1 <= Len(OwedTokens)
       /\ HaveRead' = HaveRead + 1
  <2> HIDE DEF HaveRead, OwedTokens
  <2> QED
    BY <1>6, <1>8, <1>9
<1>13. ~rci'.failed
  <2>1. rci'.calling = "none"
    <3>1. rci.input = "command" => t[2] \in {"query", "set", "bad"}
      BY <1>2, <1>3, <1>4, TokenComes DEF TokenRead
    <3>2. /\ rci.input = "group" /\ t # End =>
                 t[2] \in Groups /\ t[3] \in 0 .. Instances[t[2]]
          /\ rci.input = "field" /\ t # End =>
                 t[2] \in 1 .. 9 /\ t[3] \in Values \cup {"none"}
      BY <1>2, <1>3, <1>4, TokenComes DEF TokenRead
    <3>3. r \in ParserTypes /\ r.calling = rci.calling
      <4>1. CASE rci.input = "command"
        BY <1>1, <1>3, <3>1, <4>1, CommandFields
      <4>2. CASE rci.input = "group"
        BY <1>1, <1>3, <3>2, <4>2, GroupFields
      <4>3. CASE rci.input = "field"
        BY <1>1, <1>3, <3>2, <4>3, FieldFields
      <4> QED
        BY <1>3, <4>1, <4>2, <4>3
    <3>4. \/ rci' = r \/ rci' = [r EXCEPT !.status = "more"]
          \/ rci' = [r EXCEPT !.input = "done", !.parser = "traverse"]
      BY <1>1, <1>2, ReadsToken
    <3> QED
      BY <1>3, <3>3, <3>4 DEF TokenRead, ParserTypes
  <2> QED
    BY <1>2, <2>1 DEF CallRefused
<1> QED
  BY <1>3, <1>4, <1>5, <1>6, <1>8, <1>11, <1>12, <1>13 DEF OwedTokens

\* The place between two commands.
LEMMA CommandPlace ==
    ASSUME Stand, AtInput, rci.parser = "input", rci.input = "command"
    PROVE  \E c \in Nat : AtCommand(c)
<1>1. ASSUME SomeField
      PROVE  FALSE
  <2>1. rci.group = 0 /\ 0 \notin Groups
    <3>1. 0 \notin Groups
      BY GroupFacts
    <3> QED
      BY <3>1 DEF AtInput
  <2>2. PICK c, k, n \in Nat : \E start, fields : Amid(c, k, n, start, fields)
    BY <1>1 DEF SomeField
  <2>3. PICK start, fields : Amid(c, k, n, start, fields)
    BY <2>2
  <2>4. Scope(c, k, n, start, fields)
    BY <2>3 DEF Amid
  <2>5. /\ ~Named(c, k, n, start, fields) /\ ~OfOne(c, k, start)
        /\ ~OfAll(c, k, start) /\ ~OfEvery(c, start)
    BY <2>1 DEF Named, OfOne, OfAll, OfEvery
  <2> QED
    BY <2>4, <2>5 DEF Scope
<1> QED
  BY <1>1, StandInput

\* A command begins.
LEMMA HearCommand ==
    ASSUME Receiving, rci.input = "command"
    PROVE  Stand'
<1>1. PICK t : t = Head(tokens)
  OBVIOUS
<1>2. PICK r : r = CommandToken(rci, t)
  OBVIOUS
<1>3. PICK all, last : all = AllTokens(owed.request)
                       /\ last = Len(owed.request)
  OBVIOUS
<1>4. /\ TokenRead /\ AtInput /\ rci \in ParserTypes /\ ~rci.failed
      /\ rci.parser = "input" /\ owed.request \in RciRequests
      /\ HaveRead \in Nat /\ Len(all) \in Nat /\ HaveRead + 1 <= Len(all)
      /\ t = all[HaveRead + 1] /\ HaveRead' = HaveRead + 1 /\ ~rci'.failed
  BY <1>1, <1>3, NextRead
<1>5. /\ t[2] \in {"query", "set", "bad"}
      /\ rci' = r \/ rci' = [r EXCEPT !.status = "more"]
  <2>1. ConfigTypes /\ ControlInv /\ LiveInv /\ SyncInv /\ ParseInput
    BY DEF Receiving, ConfigInv
  <2>2. tokens # <<>>
    BY <2>1 DEF ParseInput
  <2>3. t[2] \in {"query", "set", "bad"}
    BY <1>1, <1>4, <2>1, <2>2, TokenComes DEF TokenRead
  <2>4. rci' = r \/ rci' = [r EXCEPT !.status = "more"]
    BY <1>1, <1>2, <2>1, ReadsToken
  <2> QED
    BY <2>3, <2>4
<1>6. /\ r \in ParserTypes /\ r.group = rci.group
      /\ r.failed \/ /\ r.parser = "traverse" /\ r.traverse = "command"
                     /\ r.input = "group" /\ r.action = t[2]
  BY <1>2, <1>4, <1>5, CommandFields
<1>7. /\ rci'.group = rci.group /\ rci'.parser = "traverse"
      /\ rci'.traverse = "command" /\ rci'.action = t[2]
  BY <1>4, <1>5, <1>6, TokenTaken
<1>8. PICK c \in Nat : AtCommand(c)
  <2>1. Stand
    BY DEF Receiving
  <2> QED
    BY <1>4, <2>1, CommandPlace
<1>9. /\ c \in 1 .. last + 1 /\ HaveRead = CommandsRead(owed, c)
      /\ written = ToldUpTo(owed, c) /\ saved = SavedAt(owed, c)
  BY <1>3, <1>8 DEF AtCommand
<1>10. c \in 1 .. last
  <2>1. last \in Nat /\ CommandsRead(owed, last + 1) = Len(all)
    BY <1>3, <1>4, ReadingAt
  <2>2. c # last + 1
    BY <1>4, <1>9, <2>1
  <2> QED
    BY <1>9, <2>1, <2>2
<1>11. t = <<"command", Asked(owed, c).do>>
  BY <1>3, <1>4, <1>9, <1>10, CommandAt
<1>12. OfCommand(c)' /\ rci'.group = 0 /\ Walks("command")'
  <2>1. rci.group = 0
    BY <1>4 DEF AtInput
  <2> QED
    BY <1>3, <1>4, <1>7, <1>10, <1>11, <2>1 DEF OfCommand, Walks, TokenRead
<1>13. CommandCame(c)'
  BY <1>4, <1>9, <1>12 DEF CommandCame, TokenRead
<1> QED
  BY <1>13, Zenon DEF Stand

\* A group begins, or its command ends.
LEMMA HearGroup ==
    ASSUME Receiving, rci.input = "group"
    PROVE  Stand'
<1>1. PICK t : t = Head(tokens)
  OBVIOUS
<1>2. PICK r : r = GroupToken(rci, t)
  OBVIOUS
<1>3. PICK all : all = AllTokens(owed.request)
  OBVIOUS
<1>4. /\ TokenRead /\ AtInput /\ rci \in ParserTypes /\ ~rci.failed
      /\ rci.parser = "input" /\ owed.request \in RciRequests
      /\ HaveRead \in Nat /\ Len(all) \in Nat /\ HaveRead + 1 <= Len(all)
      /\ t = all[HaveRead + 1] /\ HaveRead' = HaveRead + 1 /\ ~rci'.failed
  BY <1>1, <1>3, NextRead
<1>5. /\ t # End => t[2] \in Groups /\ t[3] \in 0 .. Instances[t[2]]
      /\ \/ rci' = r \/ rci' = [r EXCEPT !.status = "more"]
         \/ /\ rci' = [r EXCEPT !.input = "done", !.parser = "traverse"]
            /\ t = End
  <2>1. ConfigTypes /\ ControlInv /\ LiveInv /\ SyncInv /\ ParseInput
    BY DEF Receiving, ConfigInv
  <2>2. tokens # <<>>
    BY <2>1 DEF ParseInput
  <2>3. t # End => t[2] \in Groups /\ t[3] \in 0 .. Instances[t[2]]
    BY <1>1, <1>4, <2>1, <2>2, TokenComes DEF TokenRead
  <2>4. \/ rci' = r \/ rci' = [r EXCEPT !.status = "more"]
        \/ /\ rci' = [r EXCEPT !.input = "done", !.parser = "traverse"]
           /\ t = End
    BY <1>1, <1>2, <2>1, ReadsToken
  <2> QED
    BY <2>3, <2>4
<1>6. /\ r \in ParserTypes /\ r.calling = rci.calling
      /\ r.last = rci.last /\ r.element = rci.element
      /\ r.process = rci.process /\ r.action = rci.action
      /\ \/ /\ t # End /\ r.parser = "traverse" /\ r.traverse = "group"
            /\ r.input = "field" /\ r.group = t[2]
            /\ r.index = IF t[3] = 0 THEN 1 ELSE t[3]
            /\ r.all = (rci.all \/ (t[3] = 0 /\ Instances[t[2]] > 1))
         \/ /\ t = End /\ r.parser = "traverse"
            /\ r.traverse = "group_end" /\ rci.group # 0
         \/ /\ t = End /\ r.parser = "traverse"
            /\ r.traverse = "all_groups" /\ r.group = 0 /\ r.action = "query"
            /\ rci.group = 0
         \/ r.failed
  BY <1>2, <1>4, <1>5, GroupFields
<1>7. /\ rci'.calling = rci.calling /\ rci'.last = rci.last
      /\ rci'.element = rci.element /\ rci'.process = rci.process
      /\ rci'.action = rci.action
      /\ \/ /\ t # End /\ rci'.parser = "traverse" /\ rci'.traverse = "group"
            /\ rci'.input = "field" /\ rci'.group = t[2]
            /\ rci'.index = IF t[3] = 0 THEN 1 ELSE t[3]
            /\ rci'.all = (rci.all \/ (t[3] = 0 /\ Instances[t[2]] > 1))
         \/ /\ t = End /\ rci'.parser = "traverse"
            /\ rci'.traverse = "group_end" /\ rci.group # 0
         \/ /\ t = End /\ rci'.parser = "traverse"
            /\ rci'.traverse = "all_groups" /\ rci'.group = 0
            /\ rci'.action = "query" /\ rci.group = 0
  <2>1. CASE rci' = r \/ rci' = [r EXCEPT !.status = "more"]
    BY <1>4, <1>6, <2>1, TokenTaken
  <2>2. CASE /\ rci' = [r EXCEPT !.input = "done", !.parser = "traverse"]
             /\ t = End
    <3>1. /\ rci'.calling = r.calling /\ rci'.last = r.last
          /\ rci'.element = r.element /\ rci'.process = r.process
          /\ rci'.action = r.action /\ rci'.parser = "traverse"
          /\ rci'.traverse = r.traverse /\ rci'.group = r.group
          /\ rci'.failed = r.failed
      BY <1>6, <2>2 DEF ParserTypes
    <3> QED
      BY <1>4, <1>6, <2>2, <3>1
  <2> QED
    BY <1>5, <2>1, <2>2
<1>8. PICK c, k \in Nat : AtGroup(c, k)
  <2>1. ~SomeField
    BY <1>4 DEF SomeField, Amid, Scope, Named, OfOne, OfAll, OfEvery, AtInput
  <2> QED
    BY <1>4, <2>1, StandInput DEF Receiving, SomeGroup
<1>9. /\ OfCommand(c) /\ k \in 1 .. Number(owed, c) + 1
      /\ rci.group = 0 <=> k = 1
      /\ HaveRead = GroupsRead(owed, c, k)
      /\ written = PartsTold(owed, c, k) /\ saved = SavedTo(owed, c, k - 1)
  BY <1>8 DEF AtGroup
<1>10. /\ Request1(owed, c) /\ rci.action = Asked(owed, c).do
       /\ c \in 1 .. Len(owed.request)
  BY <1>4, <1>9 DEF OfCommand, Request1, Receiving
<1>11. /\ Number(owed, c) \in Nat
       /\ GroupsRead(owed, c, Number(owed, c) + 1) + 1 = CommandsRead(owed, c + 1)
       /\ all[CommandsRead(owed, c + 1)] = End
  <2>1. Number(owed, c) \in Nat
    BY <1>10, AskedFacts
  <2> QED
    BY <1>3, <1>4, <1>10, <2>1, ReadingAt
<1>12. OfCommand(c)'
  BY <1>4, <1>7, <1>9 DEF OfCommand, TokenRead
<1>13. /\ rci.element = 0 /\ Between /\ Steady /\ rci.calling = "none"
       /\ owed' = owed /\ saved' = saved /\ user' = user /\ written' = written
  BY <1>4 DEF AtInput, NoElement, GoesOnBetween, TokenRead
<1>14. CASE /\ t # End /\ rci'.parser = "traverse" /\ rci'.traverse = "group"
            /\ rci'.input = "field" /\ rci'.group = t[2]
            /\ rci'.index = IF t[3] = 0 THEN 1 ELSE t[3]
            /\ rci'.all = (rci.all \/ (t[3] = 0 /\ Instances[t[2]] > 1))
  <2>1. k \in 1 .. Number(owed, c)
    <3>1. k # Number(owed, c) + 1
      BY <1>4, <1>9, <1>11, <1>14
    <3> QED
      BY <1>9, <1>11, <3>1
  <2>2. PICK g, fields, start :
            /\ g = Wish(owed, c, k) /\ fields = g.fields
            /\ start = PartsTold(owed, c, k)
    OBVIOUS
  <2>3. t = <<"group", g.id, g.index>> /\ Good(Asked(owed, c).do, g)
    BY <1>3, <1>4, <1>9, <1>10, <2>1, <2>2, GroupAt
  <2>4. t[2] = g.id /\ t[3] = g.index
    BY <2>3
  <2>5. OfWish(c, k)'
    BY <1>12, <1>13, <1>14, <2>1, <2>2, <2>4 DEF OfWish
  <2>6. rci'.index = Instance(Wish(owed', c, k))
    BY <1>13, <1>14, <2>2, <2>4 DEF Instance
  <2>7. rci'.all => g.index = 0
    <3>1. ASSUME rci.all, t[3] # 0
          PROVE  FALSE
      <4>1. "sticky" \in odd'
        BY <1>1, <1>14, <3>1 DEF Receiving, ParseInput
      <4> QED
        BY <4>1 DEF Receiving, Trouble
    <3> QED
      BY <1>14, <2>4, <3>1
  <2>8. rci'.all \/ g.index # 0 \/ Instances[rci'.group] = 1
    <3>1. PICK m : m = Instances[t[2]]
      OBVIOUS
    <3>2. m \in 1 .. 9
      <4>1. g.id \in Groups
        BY <2>3 DEF Good
      <4>2. Instances[g.id] \in 1 .. 9
        BY <4>1, GroupFacts
      <4> QED
        BY <2>4, <3>1, <4>2
    <3>3. m > 1 \/ m = 1
      BY <3>2
    <3> QED
      BY <1>14, <2>4, <3>1, <3>3
  <2>9. HaveRead' = GroupsRead(owed', c, k) + 1 + 0
    BY <1>4, <1>9, <1>13
  <2>10. Scope(c, k, 0, start, fields)'
    BY <1>13, <1>14, <2>2, <2>5, <2>6, <2>7, <2>8, <2>9 DEF Scope, Named
  <2>11. Spelling(c, start, fields, 0)'
    <3>1. Len(fields) \in Nat
      BY <2>2, <2>3 DEF Good
    <3>2. 0 \in 0 .. Len(fields)
      BY <3>1
    <3> QED
      BY <1>7, <1>9, <1>13, <1>14, <2>2, <3>2 DEF Spelling, Walks, Utters
  <2>12. ~InsideGroup' /\ rci'.calling = "none"
    BY <1>7, <1>13 DEF InsideGroup, Between
  <2>13. CASE rci.action = "query"
    <3>1. saved = SavedAt(owed, c)
      BY <1>9, <1>10, <2>13, SavedEach DEF Request1
    <3>2. Reading(c)'
      BY <1>10, <1>13, <1>14, <2>12, <2>13, <3>1 DEF Reading, Utters
    <3>3. Amid(c, k, 0, start, fields)'
      BY <2>10, <2>11, <3>2 DEF Amid
    <3> QED
      BY <3>3 DEF Stand
  <2>14. CASE rci.action = "set"
    <3>1. Setting(c, k, 0)'
      BY <1>9, <1>10, <1>13, <1>14, <2>12, <2>14 DEF Setting, Walks, Pending
    <3>2. Amid(c, k, 0, start, fields)'
      BY <1>14, <2>10, <2>11, <3>1 DEF Amid
    <3> QED
      BY <3>2 DEF Stand
  <2> QED
    BY <1>4, <2>13, <2>14, ParserFields
<1>15. ASSUME t = End
       PROVE  k = Number(owed, c) + 1 /\ HaveRead' = CommandsRead(owed, c + 1)
  <2>1. ASSUME k \in 1 .. Number(owed, c)
        PROVE  FALSE
    <3>1. t = <<"group", Wish(owed, c, k).id, Wish(owed, c, k).index>>
      BY <1>3, <1>4, <1>9, <1>10, <2>1, GroupAt
    <3> QED
      BY <1>15, <3>1 DEF End
  <2>2. k = Number(owed, c) + 1
    BY <1>9, <1>11, <2>1
  <2> QED
    BY <1>4, <1>9, <1>11, <2>2
<1>16. CASE /\ t = End /\ rci'.parser = "traverse"
            /\ rci'.traverse = "group_end" /\ rci.group # 0
  <2>1. k = Number(owed, c) + 1 /\ HaveRead' = CommandsRead(owed, c + 1)
    BY <1>15, <1>16
  <2>2. Number(owed, c) # 0
    <3>1. k # 1
      BY <1>9, <1>16
    <3> QED
      BY <2>1, <3>1
  <2>3. PartsOf(owed, c) = Number(owed, c)
    BY <2>2 DEF PartsOf
  <2>4. Append(written, End) = ToldUpTo(owed, c + 1)
    BY <1>9, <1>10, <2>1, <2>3, PartsSpoken
  <2>5. saved = SavedAt(owed, c + 1)
    <3>1. k - 1 = Number(owed, c)
      BY <1>11, <2>1
    <3> QED
      BY <1>9, <1>10, <3>1, SavedEach DEF Request1
  <2>6. CommandCloses(c)'
    BY <1>12, <1>13, <1>16, <2>1, <2>4, <2>5 DEF CommandCloses, Walks
  <2> QED
    BY <2>6, Zenon DEF Stand
<1>17. CASE /\ t = End /\ rci'.parser = "traverse"
            /\ rci'.traverse = "all_groups" /\ rci'.group = 0
            /\ rci'.action = "query" /\ rci.group = 0
  <2>1. /\ k = Number(owed, c) + 1 /\ HaveRead' = CommandsRead(owed, c + 1)
        /\ k = 1
    BY <1>9, <1>15, <1>17
  <2>2. Number(owed, c) = 0
    BY <1>11, <2>1
  <2>3. written = CommandOpened(owed, c)
    BY <1>9, <1>10, <2>1, PartsSpoken
  <2>4. Asked(owed, c).do = "query" /\ saved = SavedAt(owed, c)
    <3>1. Asked(owed, c).do = "query"
      BY <1>7, <1>10, <1>17
    <3> QED
      BY <1>9, <1>10, <3>1, SavedEach DEF Request1
  <2>5. NextGroup(c, written)'
    BY <1>7, <1>12, <1>13, <1>17, <2>1, <2>2, <2>3, <2>4 DEF NextGroup, Steady
  <2> QED
    BY <2>5, Zenon DEF Stand
<1> QED
  BY <1>7, <1>14, <1>16, <1>17

\* The place in a group when a field is to come.
LEMMA FieldPlace ==
    ASSUME Receiving, rci.input = "field"
    PROVE  \E c, k, n \in Nat : \E start, fields :
               /\ Named(c, k, n, start, fields) /\ n \in 0 .. Len(fields)
               /\ rci.element = IF n = 0 THEN 0 ELSE fields[n]
               /\ written = SpelledTo(c, start, fields, n)
               /\ Reading(c) \/ Setting(c, k, n)
<1>1. /\ TokenRead /\ AtInput /\ rci.parser = "input"
  BY NextRead
<1>2. rci.traverse = "none"
  BY <1>1 DEF AtInput
<1>3. SomeField
  BY <1>1, StandInput DEF Receiving
<1>4. PICK c, k, n \in Nat : \E start, fields : Amid(c, k, n, start, fields)
  BY <1>3 DEF SomeField
<1>5. PICK start, fields : Amid(c, k, n, start, fields)
  BY <1>4
<1>6. /\ Scope(c, k, n, start, fields) /\ Spelling(c, start, fields, n)
      /\ Reading(c) \/ Setting(c, k, n)
  BY <1>5 DEF Amid
<1>7. Named(c, k, n, start, fields)
  <2>1. ~OfOne(c, k, start) /\ ~OfAll(c, k, start) /\ ~OfEvery(c, start)
    BY <1>2 DEF OfOne, OfAll, OfEvery
  <2> QED
    BY <1>6, <2>1 DEF Scope
<1>8. /\ n \in 0 .. Len(fields)
      /\ rci.element = IF n = 0 THEN 0 ELSE fields[n]
      /\ written = SpelledTo(c, start, fields, n)
  BY <1>1, <1>2, <1>6 DEF Spelling, Walks, Utters
<1> QED
  BY <1>6, <1>7, <1>8

\* What a step of the input leaves as it was, in a group.
Stayed ==
    /\ rci'.calling = rci.calling /\ rci'.last = rci.last
    /\ rci'.action = rci.action /\ rci'.process = rci.process
    /\ rci'.group = rci.group /\ rci'.index = rci.index
    /\ rci'.all = rci.all /\ rci.calling = "none"
    /\ UNCHANGED <<owed, saved, user, written>>

\* The next field of a group is taken up.
LEMMA HearNextField ==
    ASSUME Stayed, NEW c \in Nat, NEW k \in Nat, NEW n \in Nat, NEW start,
           NEW fields, Named(c, k, n, start, fields), NEW m, m = n + 1,
           m \in 1 .. Len(fields), rci.parser = "input",
           written = SpelledTo(c, start, fields, n),
           Reading(c) \/ Setting(c, k, n), rci'.parser = "traverse",
           rci'.traverse = "element", rci'.input = "field",
           rci'.element = fields[m], HaveRead \in Nat,
           HaveRead' = HaveRead + 1, GroupsRead(owed, c, k) \in Nat,
           Asked(owed, c).do = "set" => rci'.value = Wish(owed, c, k).value
    PROVE  Stand'
<1>1. m \in Nat /\ m # 0 /\ m - 1 = n /\ m \in 0 .. Len(fields)
      /\ Len(fields) \in Nat
  BY DEF Named
<1>2. owed' = owed /\ saved' = saved /\ user' = user /\ written' = written
  BY DEF Stayed
<1>3. OfWish(c, k)'
  BY <1>2 DEF Named, OfWish, OfCommand, Stayed
<1>4. HaveRead' = GroupsRead(owed', c, k) + 1 + m
  <2>1. HaveRead = GroupsRead(owed, c, k) + 1 + n
    BY DEF Named
  <2> HIDE DEF HaveRead
  <2> QED
    BY <1>2, <2>1
<1>5. Named(c, k, m, start, fields)'
  BY <1>2, <1>3, <1>4 DEF Named, Stayed
<1>6. Spelling(c, start, fields, m)'
  <2>1. SpelledTo(c, start, fields, m - 1)' = SpelledTo(c, start, fields, n)
    BY <1>1, <1>2 DEF SpelledTo, Stayed
  <2>2. Walks("element")' /\ ~Utters("field")' /\ ~Utters("value")'
    BY DEF Walks, Utters
  <2> QED
    BY <1>1, <1>2, <2>1, <2>2 DEF Spelling
<1>7. CASE Reading(c)
  <2>1. Reading(c)'
    BY <1>2, <1>7 DEF Reading, InsideGroup, Utters, Stayed
  <2>2. Amid(c, k, m, start, fields)'
    BY <1>5, <1>6, <2>1 DEF Amid, Scope
  <2> QED
    BY <1>1, <2>2 DEF Stand
<1>8. CASE Setting(c, k, n)
  <2>1. Pending' /\ ~Pending /\ ~Walks("group")
    BY DEF Pending, Walks, Stayed
  <2>2. user.copy = Changed(c, k, n)
    BY <1>8, <2>1 DEF Setting, Stayed
  <2>3. Changed(c, k, n)' = Changed(c, k, n)
    BY <1>2 DEF Changed, Stayed
  <2>4. Setting(c, k, m)'
    BY <1>1, <1>2, <1>8, <2>1, <2>2, <2>3 DEF Setting
  <2>5. Amid(c, k, m, start, fields)'
    BY <1>5, <1>6, <2>4 DEF Amid, Scope
  <2> QED
    BY <1>1, <2>5 DEF Stand
<1> QED
  BY <1>7, <1>8

\* The fields that were named have come.
LEMMA HearLastField ==
    ASSUME Stayed, NEW c \in Nat, NEW k \in Nat, NEW n \in Nat, NEW start,
           NEW fields, Named(c, k, n, start, fields), n = Len(fields),
           n # 0, rci.parser = "input",
           written = SpelledTo(c, start, fields, n),
           Reading(c) \/ Setting(c, k, n), rci'.parser = "traverse",
           rci'.traverse = "element_end", rci'.input = "group",
           HaveRead' = GroupsRead(owed, c, k + 1)
    PROVE  Stand'
<1>1. owed' = owed /\ saved' = saved /\ user' = user /\ written' = written
  BY DEF Stayed
<1>2. OfWish(c, k)'
  BY <1>1 DEF Named, OfWish, OfCommand, Stayed
<1>3. fields # <<>> /\ fields = Wish(owed, c, k).fields
      /\ FieldsOf(Wish(owed, c, k)) = fields
  BY DEF Named, FieldsOf
<1>4. SpelledTo(c, start, fields, Len(fields))' = SpelledTo(c, start, fields, n)
  BY <1>1 DEF SpelledTo, Stayed
<1>5. Reading(c)' \/ Setting(c, k, Len(fields))'
  <2>1. CASE Reading(c)
    BY <1>1, <2>1 DEF Reading, InsideGroup, Utters, Stayed
  <2>2. CASE Setting(c, k, n)
    <3>1. ~Pending' /\ ~Pending /\ ~Walks("group")
      BY DEF Pending, Walks, Stayed
    <3>2. user.copy = Changed(c, k, n)
      BY <2>2, <3>1 DEF Setting, Stayed
    <3>3. Changed(c, k, n)' = Changed(c, k, n)
      BY <1>1 DEF Changed, Stayed
    <3> QED
      BY <1>1, <2>2, <3>1, <3>2, <3>3 DEF Setting
  <2> QED
    BY <2>1, <2>2
<1>6. Ending(c, k, start, fields)'
  BY <1>1, <1>2, <1>3, <1>4, <1>5 DEF Ending, Walks, Named, Stayed
<1> QED
  BY <1>6, Zenon DEF Stand

\* None was named: all of them are taken up.
LEMMA HearNoField ==
    ASSUME Stayed, NEW c \in Nat, NEW k \in Nat, NEW start, NEW fields,
           Named(c, k, 0, start, fields), fields = <<>>,
           rci \in ParserTypes, owed.request \in RciRequests,
           owed.before \in [Settings -> Values], Steady, InGroup,
           rci.parser = "input", written = SpelledTo(c, start, fields, 0),
           Reading(c) \/ Setting(c, k, 0), rci'.action = "query",
           rci'.parser = "traverse", rci'.input = "group",
           rci'.traverse = IF rci.all THEN "all_instances" ELSE "all_elements",
           rci'.element = 0, HaveRead' = GroupsRead(owed, c, k + 1)
    PROVE  Stand'
<1>1. owed' = owed /\ saved' = saved /\ user' = user /\ written' = written
  BY DEF Stayed
<1>2. OfWish(c, k)'
  BY <1>1 DEF Named, OfWish, OfCommand, Stayed
<1>3. Scope(c, k, 0, start, fields)
  BY DEF Scope
<1>4. /\ Request1(owed, c) /\ rci.action = Asked(owed, c).do
      /\ rci.group \in Groups /\ rci.index \in 1 .. Instances[rci.group]
      /\ start \in Seq(Speech)
      /\ SpelledTo(c, start, fields, 0)
         = IF rci.index > 1
           THEN Append(Append(start, <<"group", rci.group>>),
                       <<"index", rci.index>>)
           ELSE Append(start, <<"group", rci.group>>)
  BY <1>3, FieldScope, ParserFields, ZenonT(40)
<1>5. PICK every : every = AllFields(rci.group)
  OBVIOUS
<1>6. every \in Seq(Fields(rci.group))
  BY <1>4, <1>5, AllFieldsTyped
<1>7. SpelledTo(c, start, every, 0) = SpelledTo(c, start, fields, 0)
  BY <1>4, <1>6, SpelledSteps, ZenonT(40) DEF SpelledTo
<1>8. Asked(owed, c).do = "query" /\ Reading(c)
  BY <1>4 DEF Stayed, Setting
<1>9. Reading(c)'
  BY <1>1, <1>8 DEF Reading, InsideGroup, Utters, Stayed
<1>10. Spelling(c, start, every, 0)'
  <2>1. 0 \in 0 .. Len(every)
    BY <1>6
  <2>2. SpelledTo(c, start, every, 0)' = SpelledTo(c, start, every, 0)
    BY <1>1 DEF SpelledTo, Stayed
  <2> QED
    BY <1>1, <1>7, <2>1, <2>2 DEF Spelling, Utters
<1>11. every = AllFields(rci'.group) /\ Asked(owed', c).do = "query"
  BY <1>1, <1>5, <1>8 DEF Stayed
<1>12. Scope(c, k, 0, start, every)'
  <2>1. CASE rci.all
    <3>1. /\ Wish(owed, c, k).index = 0 /\ rci.index = 1
          /\ start = PartsTold(owed, c, k)
      BY <2>1 DEF Named, Instance
    <3>2. InstancesTold(owed, c, rci.group, start, 1) = start
      BY <1>4, InstancesSpoken
    <3>3. OfAll(c, k, start)' /\ rci'.process # "instance"
      BY <1>1, <1>2, <1>4, <2>1, <3>1, <3>2 DEF OfAll, Named, Stayed, Steady
    <3> QED
      BY <1>11, <3>3 DEF Scope
  <2>2. CASE ~rci.all
    <3>1. OfOne(c, k, start)'
      BY <1>1, <1>2, <2>2 DEF OfOne, Named, Stayed
    <3> QED
      BY <1>11, <2>2, <3>1 DEF Scope
  <2> QED
    BY <2>1, <2>2
<1>13. Amid(c, k, 0, start, every)'
  BY <1>9, <1>10, <1>12 DEF Amid
<1> QED
  BY <1>13 DEF Stand

\* A field comes, or the end of its group.
LEMMA HearField ==
    ASSUME Receiving, rci.input = "field"
    PROVE  Stand'
<1>1. PICK t : t = Head(tokens)
  OBVIOUS
<1>2. PICK r : r = FieldToken(rci, t)
  OBVIOUS
<1>3. PICK all : all = AllTokens(owed.request)
  OBVIOUS
<1>4. /\ TokenRead /\ AtInput /\ rci \in ParserTypes /\ ~rci.failed
      /\ rci.parser = "input" /\ owed.request \in RciRequests
      /\ HaveRead \in Nat /\ Len(all) \in Nat /\ HaveRead + 1 <= Len(all)
      /\ t = all[HaveRead + 1] /\ HaveRead' = HaveRead + 1 /\ ~rci'.failed
  BY <1>1, <1>3, NextRead
<1>5. /\ t # End => /\ t[2] \in 1 .. 9 /\ t[3] \in Values \cup {"none"}
      /\ rci' = r \/ rci' = [r EXCEPT !.status = "more"]
  <2>1. ConfigTypes /\ ControlInv /\ LiveInv /\ SyncInv /\ ParseInput
    BY DEF Receiving, ConfigInv
  <2>2. tokens # <<>>
    BY <2>1 DEF ParseInput
  <2>3. t # End => t[2] \in 1 .. 9 /\ t[3] \in Values \cup {"none"}
    BY <1>1, <1>4, <2>1, <2>2, TokenComes DEF TokenRead
  <2>4. rci' = r \/ rci' = [r EXCEPT !.status = "more"]
    BY <1>1, <1>2, <2>1, ReadsToken
  <2> QED
    BY <2>3, <2>4
<1>6. /\ r \in ParserTypes /\ r.calling = rci.calling
      /\ r.last = rci.last /\ r.action = rci.action
      /\ r.process = rci.process /\ r.group = rci.group
      /\ r.index = rci.index /\ r.all = rci.all
      /\ \/ /\ t # End /\ r.parser = "traverse"
            /\ r.traverse = "element" /\ r.element = t[2]
            /\ r.value = t[3] /\ r.input = rci.input
         \/ /\ t = End /\ r.parser = "traverse"
            /\ r.traverse = "element_end" /\ r.element = 0
            /\ rci.element # 0 /\ r.input = "group"
         \/ /\ t = End /\ r.parser = "traverse" /\ r.action = "query"
            /\ r.traverse = IF rci.all THEN "all_instances"
                                       ELSE "all_elements"
            /\ r.element = 0 /\ rci.element = 0 /\ r.input = "group"
         \/ r.failed
  BY <1>2, <1>4, <1>5, FieldFields
<1>7. /\ rci'.parser = r.parser /\ rci'.input = r.input
      /\ rci'.traverse = r.traverse /\ rci'.process = r.process
      /\ rci'.failed = r.failed /\ rci'.calling = r.calling
      /\ rci'.last = r.last /\ rci'.group = r.group
      /\ rci'.index = r.index /\ rci'.element = r.element
      /\ rci'.action = r.action /\ rci'.value = r.value /\ rci'.all = r.all
  BY <1>5, <1>6, TokenTaken
<1>8. Stayed
  BY <1>4, <1>6, <1>7 DEF Stayed, TokenRead
<1>9. PICK c, k, n \in Nat : \E start, fields :
               /\ Named(c, k, n, start, fields) /\ n \in 0 .. Len(fields)
               /\ rci.element = IF n = 0 THEN 0 ELSE fields[n]
               /\ written = SpelledTo(c, start, fields, n)
               /\ Reading(c) \/ Setting(c, k, n)
  BY FieldPlace
<1>10. PICK start, fields :
               /\ Named(c, k, n, start, fields) /\ n \in 0 .. Len(fields)
               /\ rci.element = IF n = 0 THEN 0 ELSE fields[n]
               /\ written = SpelledTo(c, start, fields, n)
               /\ Reading(c) \/ Setting(c, k, n)
  BY <1>9
<1>11. /\ fields = Wish(owed, c, k).fields /\ c \in 1 .. Len(owed.request)
       /\ k \in 1 .. Number(owed, c)
       /\ HaveRead = GroupsRead(owed, c, k) + 1 + n
  BY <1>10 DEF Named, OfWish, OfCommand
<1>12. PICK size : size = Len(fields)
  OBVIOUS
<1>13. /\ GroupsRead(owed, c, k) \in Nat
       /\ Good(Asked(owed, c).do, Wish(owed, c, k))
       /\ GroupsRead(owed, c, k + 1) = GroupsRead(owed, c, k) + size + 2
       /\ \A j \in 1 .. size :
              all[GroupsRead(owed, c, k) + 1 + j]
              = <<"field", fields[j], IF Asked(owed, c).do = "set"
                                      THEN Wish(owed, c, k).value ELSE "none">>
       /\ all[GroupsRead(owed, c, k) + size + 2] = End
  BY <1>3, <1>4, <1>11, <1>12, GroupAt
<1>14. fields \in Seq(1 .. 9) /\ size \in Nat /\ n \in 0 .. size
  <2>1. fields \in Seq(Fields(rci.group)) /\ rci.group \in Groups
    <3>1. rci.group = Wish(owed, c, k).id
      BY <1>10 DEF Named, OfWish
    <3>2. /\ Wish(owed, c, k).id \in Groups
          /\ Wish(owed, c, k).fields \in Seq(Fields(Wish(owed, c, k).id))
      BY <1>13 DEF Good
    <3> QED
      BY <1>11, <3>1, <3>2
  <2>2. Fields(rci.group) \subseteq 1 .. 9
    <3>1. PICK last : last = Len(Kinds[rci.group])
      OBVIOUS
    <3>2. Fields(rci.group) = 1 .. last /\ last \in 1 .. 9
      BY <2>1, <3>1, GroupFacts
    <3> QED
      BY <3>2
  <2> QED
    BY <1>10, <1>12, <2>1, <2>2
<1>15. n # 0 => rci.element # 0
  BY <1>10, <1>12, <1>14
<1>16. PICK m : m = n + 1
  OBVIOUS
<1>17. CASE t # End
  <2>1. m \in 1 .. size
    <3>1. n # size
      <4>1. HaveRead + 1 = GroupsRead(owed, c, k) + n + 2
        BY <1>11, <1>13
      <4> QED
        BY <1>4, <1>13, <1>17, <4>1
    <3> QED
      BY <1>14, <1>16, <3>1
  <2>2. t = <<"field", fields[m], IF Asked(owed, c).do = "set"
                                  THEN Wish(owed, c, k).value ELSE "none">>
    <3>1. HaveRead + 1 = GroupsRead(owed, c, k) + 1 + m
      BY <1>11, <1>13, <1>16
    <3> QED
      BY <1>4, <1>13, <2>1, <3>1
  <2>3. /\ rci'.parser = "traverse" /\ rci'.traverse = "element"
        /\ rci'.element = t[2] /\ rci'.value = t[3] /\ rci'.input = "field"
    BY <1>4, <1>6, <1>7, <1>17
  <2>4. rci'.element = fields[m]
    BY <2>2, <2>3
  <2>5. Asked(owed, c).do = "set" => rci'.value = Wish(owed, c, k).value
    BY <2>2, <2>3
  <2> QED
    BY <1>4, <1>8, <1>10, <1>12, <1>13, <1>16, <2>1, <2>3, <2>4, <2>5,
       HearNextField
<1>18. CASE t = End
  <2>1. n = size
    <3>1. ASSUME n # size
          PROVE  FALSE
      <4>1. m \in 1 .. size
        BY <1>14, <1>16, <3>1
      <4>2. HaveRead + 1 = GroupsRead(owed, c, k) + 1 + m
        BY <1>11, <1>13, <1>16
      <4>3. t[1] = "field"
        BY <1>4, <1>13, <4>1, <4>2
      <4> QED
        BY <1>18, <4>3 DEF End
    <3> QED
      BY <3>1
  <2>2. HaveRead' = GroupsRead(owed, c, k + 1)
    <3>1. HaveRead' = GroupsRead(owed, c, k) + 1 + n + 1
      BY <1>4, <1>11
    <3> QED
      BY <1>13, <1>14, <2>1, <3>1
  <2>3. CASE rci.element # 0
    <3>1. n # 0
      BY <1>10, <2>3
    <3>2. /\ rci'.parser = "traverse" /\ rci'.traverse = "element_end"
          /\ rci'.input = "group"
      BY <1>4, <1>6, <1>7, <1>18, <2>3
    <3> QED
      BY <1>4, <1>8, <1>10, <1>12, <2>1, <2>2, <3>1, <3>2, HearLastField
  <2>4. CASE rci.element = 0
    <3>1. n = 0
      BY <1>15, <2>4
    <3>2. fields = <<>>
      <4>1. fields \in Seq(1 .. 9) /\ Len(fields) = 0
        BY <1>12, <1>14, <2>1, <3>1
      <4> QED
        BY <4>1
    <3>3. /\ rci'.parser = "traverse" /\ rci'.action = "query"
          /\ rci'.traverse = IF rci.all THEN "all_instances"
                                        ELSE "all_elements"
          /\ rci'.element = 0 /\ rci'.input = "group"
      BY <1>4, <1>6, <1>7, <1>18, <2>4
    <3>4. Steady /\ InGroup
      BY <1>4 DEF AtInput, GoesOnInside
    <3>5. owed.before \in [Settings -> Values]
      BY DEF Receiving
    <3> QED
      BY <1>4, <1>8, <1>10, <2>2, <3>1, <3>2, <3>3, <3>4, <3>5, HearNoField
  <2> QED
    BY <2>3, <2>4
<1> QED
  BY <1>17, <1>18

\* A token that comes is taken to where it belongs.
LEMMA Heard ==
    ASSUME Receiving
    PROVE  Stand'
<1>1. PICK t : t = Head(tokens)
  OBVIOUS
<1>2. rci.input \in {"command", "group", "field"}
  BY <1>1, NextRead
<1> QED
  BY <1>2, HearCommand, HearGroup, HearField

-----------------------------------------------------------------------------
(* The steps of the parser.                                                *)

\* An error that was written stays in the response.
LEMMA ErrorsStay ==
    ASSUME ItemsInv, HasError,
           written' = written \/ \E x : written' = Append(written, x)
    PROVE  HasError'
<1>1. PICK k \in DOMAIN written : written[k] = <<"error">>
  BY DEF HasError
<1>2. k \in DOMAIN written' /\ written'[k] = written[k]
  BY <1>1 DEF ItemsInv
<1> QED
  BY <1>1, <1>2 DEF HasError

LEMMA ErrorComes ==
    ASSUME ItemsInv, written' = Append(written, <<"error">>)
    PROVE  HasError'
<1>1. /\ Len(written) + 1 \in DOMAIN written'
      /\ written'[Len(written) + 1] = <<"error">>
  BY DEF ItemsInv
<1> QED
  BY <1>1 DEF HasError

\* What the parser has of the request.
LEMMA ReadSo ==
    ASSUME ConfigInv, stage = "running"
    PROVE  /\ owed.request \in RciRequests
           /\ Len(OwedTokens) \in Nat /\ Len(tokens) \in Nat /\ Len(more) \in Nat
           /\ HaveRead = Len(OwedTokens) - Len(tokens) - Len(more)
           /\ UNCHANGED <<tokens, more, owed>> => HaveRead' = HaveRead
<1>1. owed.request \in RciRequests
  BY DEF ConfigInv, SyncInv
<1>2. OwedTokens \in Seq(Tokens)
  BY <1>1, RequestAssumption DEF OwedTokens
<1>3. tokens \in Seq(Tokens) /\ more \in Seq(Tokens)
  BY DEF ConfigInv, ConfigTypes
<1>4. UNCHANGED <<tokens, more, owed>> => HaveRead' = HaveRead
  BY DEF HaveRead, OwedTokens
<1>5. HaveRead = Len(OwedTokens) - Len(tokens) - Len(more)
  BY DEF HaveRead
<1> QED
  BY <1>1, <1>2, <1>3, <1>4, <1>5

LEMMA TraverseAnswers ==
    ASSUME ConfigInv, AnswerInv, TraverseData
    PROVE  AnswerInv'
<1>1. /\ rci \in ParserTypes /\ rci.parser = "traverse"
      /\ stage = "running" /\ AtTraverse
      /\ rci' \in ParserTypes /\ Kept /\ WalksOn
      /\ UNCHANGED <<user, saved, owed, tokens, more, written, stage, odd>>
  BY TraverseShape DEF ConfigInv
<1>2. HasError' = HasError
  BY <1>1 DEF HasError
<1>3. rci.calling = "none"
  BY <1>1 DEF AtTraverse
<1>4. rci.unwind = "callback" => HasError
  BY <1>1 DEF AnswerInv
<1>5. ASSUME ~Trouble'
      PROVE  Stand'
  <2>1. ASSUME rci.failed
        PROVE  FALSE
    <3>1. rci.traverse = "none"
      BY <1>1, <2>1 DEF AtTraverse
    <3>2. Resumes
      BY <1>1, <3>1 DEF WalksOn, Resumes, OfACommand, OfElements, OfInstances,
         OfGroups
    <3>3. CallRefused'
      BY <1>1, <2>1, <3>2 DEF CallRefused, Resumes, Kept
    <3> QED
      BY <1>5, <3>3 DEF Trouble
  <2>2. ~Trouble
    BY <1>1, <1>2, <1>5, <2>1 DEF Trouble, CallRefused
  <2>3. Stand /\ owed.before \in [Settings -> Values]
    BY <1>1, <2>2 DEF AnswerInv
  <2>4. SameWork /\ owed.request \in RciRequests
    BY <1>1, ReadSo DEF SameWork
  <2>5. Walking
    BY <1>1, <1>3, <2>1, <2>3, <2>4 DEF Walking
  <2> QED
    BY <2>5, Walked
<1> QED
  BY <1>1, <1>2, <1>4, <1>5 DEF AnswerInv, Kept

\* A callback that failed is not forgotten in the output.
LEMMA RefusedStays ==
    ASSUME AtItem, GenerateOutput, CallRefused
    PROVE  CallRefused' /\ stage' = stage
<1>1. /\ rci \in ParserTypes /\ room \in 0 .. PacketRoom /\ rci.failed
      /\ rci.calling = "none"
      /\ rci.output \in {"group", "field", "field_end"}
  BY ParserFields DEF AtItem, AtOutput, CallRefused, OutputStates
<1>2. \A next : TurnsTo(next) \/ Alike => CallRefused'
  BY <1>1 DEF TurnsTo, Rest, Alike, CallRefused
<1>3. CASE ~(room > 0)
  <2>1. /\ rci' = [rci EXCEPT !.status = "flush"] /\ "flush" \in Statuses
        /\ stage' = stage
    BY <1>3 DEF GenerateOutput, Onward, Statuses
  <2> QED
    BY <1>1, <1>2, <2>1, StatusAlike
<1>4. ASSUME NEW item, Write(item, 1, To(rci))
      PROVE  CallRefused' /\ stage' = stage
  <2>1. stage' = stage /\ (Alike \/ rci' = To(rci))
    BY <1>1, <1>4, WriteShape
  <2> QED
    BY <1>1, <1>2, <2>1, ParserGoesTo
<1>5. ASSUME Onward([rci EXCEPT !.parser = "error"])
      PROVE  CallRefused' /\ stage' = stage
  <2>1. rci' = [rci EXCEPT !.parser = "error"] /\ stage' = stage
        /\ "error" \in Parsers
    BY <1>5 DEF Onward, Parsers
  <2> QED
    BY <1>1, <1>2, <2>1, ParserTurns
<1>6. CASE room > 0 /\ rci.output = "group"
  <2>1. OutputItem
    BY <1>6 DEF GenerateOutput
  <2>2. \/ Onward([rci EXCEPT !.parser = "error"])
        \/ Write(<<"group", rci.group>>, 1, To(rci))
    BY <1>1, <1>6, <2>1 DEF OutputItem
  <2> QED
    BY <1>4, <1>5, <2>2
<1>7. CASE room > 0 /\ rci.output = "field"
  <2>1. OutputItem
    BY <1>7 DEF GenerateOutput
  <2>2. \/ Onward([rci EXCEPT !.parser = "error"])
        \/ Write(<<"field", rci.element>>, 1, To(rci))
    BY <1>1, <1>7, <2>1 DEF OutputItem
  <2> QED
    BY <1>4, <1>5, <2>2
<1>8. CASE room > 0 /\ rci.output = "field_end"
  <2>1. OutputItem
    BY <1>8 DEF GenerateOutput
  <2>2. PICK next : next = To([rci EXCEPT !.element = 0])
    OBVIOUS
  <2>3. Write(End, 1, next)
    BY <1>8, <2>1, <2>2 DEF OutputItem
  <2>4. next.failed = rci.failed /\ next.calling = rci.calling
    BY <1>1, <2>2 DEF To, ParserTypes
  <2>5. stage' = stage /\ (Alike \/ rci' = next)
    BY <1>1, <2>3, WriteShape
  <2> QED
    BY <1>1, <1>2, <2>4, <2>5 DEF CallRefused
<1> QED
  BY <1>1, <1>3, <1>6, <1>7, <1>8

\* What is written is what is owed.
LEMMA Spoke ==
    ASSUME ConfigInv, AtItem, GenerateOutput, Stand, ~CallRefused, odd = {},
           odd' = {}, stage' # "dead", owed.before \in [Settings -> Values]
    PROVE  \/ Stand' /\ stage' = "running"
           \/ AllTold' /\ stage' = "sending"
<1>1. /\ stage = "running" /\ rci.calling = "none" /\ rci \in ParserTypes
      /\ UNCHANGED <<user, saved, owed, tokens, more>>
  BY DEF GenerateOutput, ParserStep, AtItem
<1>2. HaveRead' = HaveRead /\ owed.request \in RciRequests
  BY <1>1, ReadSo
<1>3. CASE ~(room > 0)
  <2>1. /\ rci' = [rci EXCEPT !.status = "flush"] /\ "flush" \in Statuses
        /\ written' = written /\ stage' = stage
    BY <1>3 DEF GenerateOutput, Onward, Statuses
  <2>2. Alike /\ SameWork
    BY <1>1, <1>2, <2>1, StatusAlike DEF SameWork
  <2> QED
    BY <1>1, <2>1, <2>2, AlikeStand
<1>4. CASE room > 0
  <2>1. OutputItem /\ room # 0 /\ ~rci.failed
    BY <1>1, <1>4 DEF GenerateOutput, CallRefused, AtItem
  <2>2. WritesNow
    BY <1>1, <1>2, <2>1 DEF WritesNow
  <2>3. CASE rci.output = "value"
    BY <1>1, <2>2, <2>3, TellValue
  <2>4. CASE rci.output = "done"
    BY <2>2, <2>4, TellDone
  <2>5. CASE rci.output = "response_done"
    <3>1. ASSUME rci.input = "done"
          PROVE  HaveRead = Len(AllTokens(owed.request))
      <4>1. tokens = <<>> /\ more = <<>>
        BY <1>1, <3>1 DEF ConfigInv, SyncInv
      <4> QED
        BY <1>1, <4>1, ReadSo DEF OwedTokens
    <3> QED
      BY <1>1, <2>2, <2>5, <3>1, TellResponseDone
  <2>6. CASE rci.output \in {"command", "group", "attribute", "field",
                             "field_end", "group_end"}
    BY <1>1, <2>2, <2>6, TellCommand, TellGroup, TellAttribute, TellField,
       TellFieldEnd, TellGroupEnd
  <2> QED
    BY <1>1, <2>3, <2>4, <2>5, <2>6, ParserFields DEF OutputStates
<1> QED
  BY <1>3, <1>4

LEMMA OutputAnswers ==
    ASSUME ConfigInv, AnswerInv, GenerateOutput
    PROVE  AnswerInv'
<1>1. /\ Outcome /\ stage = "running"
      /\ UNCHANGED <<user, saved, owed, tokens, more>>
  BY OutputWell DEF ConfigInv
<1>2. AtItem
  BY <1>1 DEF GenerateOutput, ParserStep, AtItem, ConfigInv, ConfigTypes,
     ControlInv, UnwindInv
<1>3. owed'.before \in [Settings -> Values] /\ owed'.request \in RciRequests
  BY <1>1 DEF AnswerInv
<1>4. stage' = "running" => rci'.unwind # "callback"
  BY <1>1 DEF Outcome
<1>5. ASSUME odd' = {}, ~HasError', ~CallRefused, stage' # "dead"
      PROVE  \/ Stand' /\ stage' = "running"
             \/ AllTold' /\ stage' = "sending"
  <2>1. odd = {}
    BY <1>1, <1>5 DEF Outcome
  <2>2. written' = written \/ \E x : written' = Append(written, x)
    BY <1>1, <1>5 DEF Outcome, Writes
  <2>3. ~HasError
    BY <1>5, <2>2, ErrorsStay DEF ConfigInv
  <2>4. ~Trouble
    BY <1>2, <1>5, <2>1, <2>3 DEF Trouble, AtItem
  <2>5. Stand /\ owed.before \in [Settings -> Values]
    BY <1>1, <2>4 DEF AnswerInv
  <2> QED
    BY <1>2, <1>5, <2>1, <2>5, Spoke
<1>6. CallRefused => CallRefused' /\ stage' = "running"
  BY <1>1, <1>2, RefusedStays
<1>7. stage' = "running" /\ ~Trouble' => Stand'
  BY <1>5, <1>6 DEF Trouble
<1>8. stage' = "sending" /\ odd' = {} /\ ~HasError' => AllTold'
  BY <1>5, <1>6
<1> QED
  BY <1>3, <1>4, <1>7, <1>8 DEF AnswerInv

LEMMA ErrorAnswers ==
    ASSUME ConfigInv, AnswerInv, GenerateError
    PROVE  AnswerInv'
<1>1. /\ ErrorOutcome /\ stage = "running" /\ rci.parser = "error"
      /\ owed' = owed /\ ItemsInv /\ room \in Nat /\ rci \in ParserTypes
  <2>1. ConfigTypes /\ ControlInv /\ LiveInv /\ ItemsInv
    BY DEF ConfigInv
  <2>2. room \in Nat
    <3>1. room \in 0 .. PacketRoom /\ PacketRoom \in Nat
      BY <2>1, RciAssumption DEF ConfigTypes
    <3> QED
      BY <3>1
  <2>3. rci \in ParserTypes
    BY <2>1 DEF ConfigTypes
  <2> QED
    BY <2>1, <2>2, <2>3, ErrorWell
<1>2. stage' = "running" => Trouble'
  BY <1>1 DEF ErrorOutcome, Trouble
<1>3. rci.unwind = "callback" => HasError
  BY <1>1 DEF AnswerInv
<1>4. written' = written \/ \E x : written' = Append(written, x)
  BY <1>1 DEF ErrorOutcome, Writes
<1>5. HasError => HasError'
  BY <1>1, <1>4, ErrorsStay
<1>6. HasError' \/ (stage' = "running" /\ rci'.unwind # "callback")
  <2>1. CASE rci.unwind = "callback"
    BY <1>3, <1>5, <2>1
  <2>2. CASE rci.unwind = "error" /\ room = 0
    BY <1>1, <2>2 DEF GenerateError
  <2>3. CASE rci.unwind = "error" /\ room > 0
    <3>1. CASE room < 3
      <4>1. rci' = [rci EXCEPT !.status = "flush"] /\ stage' = stage
        BY <2>3, <3>1 DEF GenerateError
      <4> QED
        BY <1>1, <2>3, <4>1 DEF ParserTypes
    <3>2. CASE ~(room < 3)
      <4>1. written' = Append(written, <<"error">>)
        BY <2>3, <3>2 DEF GenerateError
      <4> QED
        BY <1>1, <4>1, ErrorComes
    <3> QED
      BY <3>1, <3>2
  <2>4. rci.unwind \in {"error", "callback"} /\ (room = 0 \/ room > 0)
    BY <1>1, ParserFields
  <2> QED
    BY <2>1, <2>2, <2>3, <2>4
<1>7. owed'.before \in [Settings -> Values] /\ owed'.request \in RciRequests
  BY <1>1 DEF AnswerInv
<1> QED
  BY <1>2, <1>6, <1>7 DEF AnswerInv

LEMMA AlikeAnswers ==
    ASSUME AnswerInv, Alike, SameWork, stage = "running",
           UNCHANGED <<stage, odd>>
    PROVE  AnswerInv'
<1>1. Trouble' = Trouble /\ HasError' = HasError
  BY DEF Trouble, HasError, CallRefused, Alike, SameWork
<1>2. Stand => Stand'
  BY AlikeStand
<1> QED
  BY <1>1, <1>2 DEF AnswerInv, Alike, SameWork

LEMMA PacketAnswers ==
    ASSUME ConfigInv, AnswerInv, MoreInput \/ FlushOutput
    PROVE  AnswerInv'
<1>1. CASE MoreInput
  <2>1. /\ Alike /\ stage = "running" /\ rci.status = "more"
        /\ tokens' = more /\ more' = <<>>
        /\ UNCHANGED <<written, saved, user, owed, stage, odd>>
    BY <1>1, MoreWell DEF ConfigInv, MoreInput
  <2>2. tokens = <<>>
    BY <2>1 DEF ConfigInv, MoreInv
  <2>3. HaveRead' = HaveRead
    <3>1. HaveRead' = Len(OwedTokens) - Len(more) - 0
      BY <2>1 DEF HaveRead, OwedTokens
    <3>2. HaveRead = Len(OwedTokens) - 0 - Len(more)
      BY <2>2 DEF HaveRead, OwedTokens
    <3>3. Len(OwedTokens) \in Nat /\ Len(more) \in Nat
      BY <2>1, ReadSo
    <3> QED
      BY <3>1, <3>2, <3>3
  <2> QED
    BY <2>1, <2>3, AlikeAnswers DEF SameWork
<1>2. CASE FlushOutput
  <2>1. /\ Alike /\ stage = "running"
        /\ UNCHANGED <<written, saved, user, owed, stage, odd, tokens, more>>
    BY <1>2, FlushWell DEF ConfigInv, FlushOutput
  <2> QED
    BY <2>1, ReadSo, AlikeAnswers DEF SameWork
<1> QED
  BY <1>1, <1>2

LEMMA InputAnswers ==
    ASSUME ConfigInv, AnswerInv, ParseInput
    PROVE  AnswerInv'
<1>1. /\ stage = "running" /\ stage' = "running" /\ written' = written
      /\ odd \subseteq odd' /\ owed' = owed /\ rci.parser = "input"
  BY InputWell DEF ConfigInv, ParseInput, ParserStep
<1>2. PICK t : t = Head(tokens)
  OBVIOUS
<1>3. PICK r : r = CASE rci.input = "command" -> CommandToken(rci, t)
                 [] rci.input = "group"   -> GroupToken(rci, t)
                 [] rci.input = "field"   -> FieldToken(rci, t)
  OBVIOUS
<1>4. /\ TokenRead /\ rci \in ParserTypes /\ AtInput
      /\ rci.input \in {"command", "group", "field"}
      /\ rci.failed => rci.last = "session_start"
      /\ \/ rci' = r \/ rci' = [r EXCEPT !.status = "more"]
         \/ /\ rci' = [r EXCEPT !.input = "done", !.parser = "traverse"]
            /\ rci.input = "group"
  BY <1>2, <1>3, ReadsToken DEF ConfigInv
<1>5. rci'.unwind = "error"
  <2>1. Moved
    BY <1>4, CommandMoved, GroupMoved, FieldMoved DEF ConfigInv
  <2>2. rci.unwind = "error"
    BY <1>1 DEF ConfigInv, UnwindInv
  <2> QED
    BY <2>1, <2>2 DEF Moved
<1>6. ASSUME ~Trouble', CallRefused
      PROVE  FALSE
  <2>1. rci.input = "command"
    BY <1>4, <1>6 DEF AtInput, CallRefused, Between, InsideGroup
  <2>2. tokens # <<>>
    BY DEF ParseInput
  <2>3. t[2] \in {"query", "set", "bad"}
    BY <1>1, <1>2, <1>4, <2>1, <2>2, TokenComes DEF ConfigInv, TokenRead
  <2>4. r \in ParserTypes /\ r.calling = rci.calling /\ r.failed
    BY <1>3, <1>4, <1>6, <2>1, <2>3, CommandFields DEF CallRefused
  <2>5. rci'.failed /\ rci'.calling = "none"
    BY <1>4, <1>6, <2>1, <2>4, TokenTaken DEF CallRefused
  <2> QED
    BY <1>6, <2>5 DEF Trouble, CallRefused
<1>7. ASSUME ~Trouble'
      PROVE  Stand'
  <2>1. HasError' = HasError
    BY <1>1 DEF HasError
  <2>2. ~Trouble
    BY <1>1, <1>6, <1>7, <2>1 DEF Trouble
  <2>3. Receiving
    BY <1>1, <1>7, <2>2 DEF Receiving, AnswerInv
  <2> QED
    BY <2>3, Heard
<1> QED
  BY <1>1, <1>5, <1>7 DEF AnswerInv

-----------------------------------------------------------------------------
(* The callbacks.                                                          *)

\* Where the parser is when a callback is to be made.
LEMMA CallPlace ==
    ASSUME ConfigInv, stage = "running", rci.calling # "none",
           rci.parser # "error"
    PROVE  /\ rci \in ParserTypes /\ rci.last = rci.calling /\ ~CallRefused
           /\ rci.calling = "session_start" =>
                  rci.parser = "input" /\ rci.input = "command" /\ AtInput
           /\ rci.calling # "session_start" => rci.parser = "output"
           /\ rci.calling = "session_end" => rci.output = "done"
           /\ rci.calling = "action_start" => rci.output = "command"
           /\ rci.calling = "action_end" => rci.output = "group_end"
           /\ rci.calling = "group_start" => rci.output = "group" /\ InGroup
           /\ rci.calling = "process" => rci.output = "field" /\ InGroup
           /\ rci.calling = "group_end" => rci.output = "field_end" /\ InGroup
<1>1. /\ rci \in ParserTypes /\ rci.calling = rci.last /\ ~CallRefused
      /\ rci.parser = "input" => AtInput
      /\ rci.parser = "traverse" => AtTraverse
      /\ rci.parser = "output" => AtOutput
      /\ rci.calling \in {"group_start", "process"} => InGroup
  BY DEF ConfigInv, ConfigTypes, ControlInv, CallRefused
<1>2. /\ rci.output \in OutputStates /\ rci.calling \in Calls
      /\ rci.parser \in {"input", "output", "traverse", "error"}
  BY <1>1, ParserFields
<1>3. rci.parser \in {"input", "output"}
  BY <1>1, <1>2 DEF AtTraverse
<1>4. CASE rci.parser = "input"
  BY <1>1, <1>4 DEF AtInput, Between, InsideGroup
<1>5. CASE rci.parser = "output"
  BY <1>1, <1>2, <1>5 DEF AtOutput, OutputStates, Calls, CallRefused
<1> QED
  BY <1>1, <1>3, <1>4, <1>5

\* A callback answers, and changes nothing but what is said of it.
Answering ==
    /\ ConfigInv /\ Stand /\ stage = "running" /\ rci.calling # "none"
    /\ rci.parser # "error" /\ UserReplied(FALSE)
    /\ owed' = owed /\ written' = written /\ HaveRead' = HaveRead
    /\ owed.request \in RciRequests /\ owed.before \in [Settings -> Values]

LEMMA CallKeeps ==
    ASSUME Answering, saved' = saved,
           rci.calling \in {"session_start", "session_end", "action_start",
                            "action_end"}
    PROVE  Stand'
<1>1. /\ Stand /\ owed' = owed /\ written' = written /\ HaveRead' = HaveRead
      /\ rci'.parser = rci.parser /\ rci'.input = rci.input
      /\ rci'.output = rci.output /\ rci'.traverse = rci.traverse
      /\ rci'.action = rci.action /\ rci'.group = rci.group
  BY DEF Answering, UserReplied
<1>2. /\ rci.calling = "session_start" =>
             rci.parser = "input" /\ rci.input = "command" /\ AtInput
      /\ rci.calling # "session_start" => rci.parser = "output"
      /\ rci.calling = "session_end" => rci.output = "done"
      /\ rci.calling = "action_start" => rci.output = "command"
      /\ rci.calling = "action_end" => rci.output = "group_end"
  BY CallPlace DEF Answering
<1>3. CASE rci.calling = "session_start"
  <2>1. PICK c \in Nat : AtCommand(c)
    BY <1>1, <1>2, <1>3, CommandPlace
  <2>2. AtCommand(c)'
    BY <1>1, <2>1 DEF AtCommand
  <2> QED
    BY <2>2 DEF Stand
<1>4. CASE rci.calling = "session_end"
  <2>1. Utters("done") /\ AllTold
    BY <1>1, <1>2, <1>4, StandOutput DEF Utters
  <2>2. (Utters("done") /\ AllTold)'
    BY <1>1, <2>1 DEF Utters, AllTold
  <2> QED
    BY <2>2 DEF Stand
<1>5. CASE rci.calling = "action_start"
  <2>1. PICK c \in Nat : CommandCame(c)
    BY <1>1, <1>2, <1>5, StandOutput
  <2>2. CommandCame(c)'
    BY <1>1, <2>1 DEF CommandCame, Walks, Utters, OfCommand
  <2> QED
    BY <2>2 DEF Stand
<1>6. CASE rci.calling = "action_end"
  <2>1. PICK c \in Nat : CommandCloses(c)
    BY <1>1, <1>2, <1>6, StandOutput
  <2>2. CommandCloses(c)'
    BY <1>1, <2>1 DEF CommandCloses, Walks, Utters, OfCommand
  <2> QED
    BY <2>2 DEF Stand
<1> QED
  BY <1>3, <1>4, <1>5, <1>6

\* The field at hand when one is to be asked for, or its group begun.
LEMMA CalledPlace ==
    ASSUME Answering, rci.calling \in {"group_start", "process"}
    PROVE  \E c, k, n \in Nat : \E start, fields :
               /\ Scope(c, k, n, start, fields) /\ Spelling(c, start, fields, n)
               /\ Reading(c) \/ (rci.input = "field" /\ Setting(c, k, n))
               /\ Request1(owed, c) /\ rci.action = Asked(owed, c).do
               /\ rci.group \in Groups
               /\ rci.index \in 1 .. Instances[rci.group]
               /\ fields \in Seq(Fields(rci.group)) /\ Len(fields) \in Nat
<1>1. /\ rci \in ParserTypes /\ rci.parser = "output" /\ InGroup
      /\ rci.output \in {"group", "field"}
  BY CallPlace DEF Answering
<1>2. SomeField
  BY <1>1, StandOutput DEF Answering
<1>3. PICK c, k, n \in Nat : \E start, fields : Amid(c, k, n, start, fields)
  BY <1>2 DEF SomeField
<1>4. PICK start, fields : Amid(c, k, n, start, fields)
  BY <1>3
<1>5. /\ Scope(c, k, n, start, fields) /\ Spelling(c, start, fields, n)
      /\ Reading(c) \/ (rci.input = "field" /\ Setting(c, k, n))
  BY <1>4 DEF Amid
<1>6. /\ Request1(owed, c) /\ rci.action = Asked(owed, c).do
      /\ rci.group \in Groups /\ rci.index \in 1 .. Instances[rci.group]
      /\ fields \in Seq(Fields(rci.group)) /\ Len(fields) \in Nat
  BY <1>1, <1>5, ParserFields, ScopeTyped DEF Answering
<1> QED
  BY <1>5, <1>6

\* The scope and what is spelled are as before.
LEMMA CalledSame ==
    ASSUME Answering, NEW c, NEW k, NEW n, NEW start, NEW fields,
           Scope(c, k, n, start, fields), Spelling(c, start, fields, n)
    PROVE  Scope(c, k, n, start, fields)' /\ Spelling(c, start, fields, n)'
<1>1. /\ rci'.parser = rci.parser /\ rci'.output = rci.output
      /\ rci'.element = rci.element /\ rci'.traverse = rci.traverse
      /\ rci'.group = rci.group /\ rci'.action = rci.action
      /\ written' = written /\ SameScope
  BY DEF Answering, UserReplied, SameScope
<1>2. Scope(c, k, n, start, fields)'
  BY <1>1, ScopeStays
<1>3. \A m : SpelledTo(c, start, fields, m)' = SpelledTo(c, start, fields, m)
  BY <1>1, ScopeStays
<1>4. Hidden(rci.element)' <=> Hidden(rci.element)
  BY <1>1 DEF Hidden
<1>5. \A s : (Walks(s)' <=> Walks(s)) /\ (Utters(s)' <=> Utters(s))
  BY <1>1 DEF Walks, Utters
<1>6. Spelling(c, start, fields, n)'
  BY <1>1, <1>3, <1>4, <1>5 DEF Spelling
<1> QED
  BY <1>2, <1>6

\* The group has a copy of the settings.
LEMMA CallOpens ==
    ASSUME Answering, saved' = saved, rci.calling = "group_start",
           user'.copy = [f \in Fields(rci.group) |->
                            saved[<<rci.group, rci.index, f>>]]
    PROVE  Stand'
<1>1. PICK c, k, n \in Nat : \E start, fields :
               /\ Scope(c, k, n, start, fields) /\ Spelling(c, start, fields, n)
               /\ Reading(c) \/ (rci.input = "field" /\ Setting(c, k, n))
  BY CalledPlace
<1>2. PICK start, fields :
               /\ Scope(c, k, n, start, fields) /\ Spelling(c, start, fields, n)
               /\ Reading(c) \/ (rci.input = "field" /\ Setting(c, k, n))
  BY <1>1
<1>3. /\ owed' = owed /\ rci'.parser = rci.parser /\ rci'.output = rci.output
      /\ rci'.calling = "none" /\ rci'.group = rci.group
      /\ rci'.index = rci.index /\ rci'.input = rci.input
  BY DEF Answering, UserReplied
<1>4. rci.parser = "output" /\ rci.output = "group"
  BY CallPlace DEF Answering
<1>5. n = 0
  BY <1>2, <1>4 DEF Spelling, Walks, Utters
<1>6. Scope(c, k, n, start, fields)' /\ Spelling(c, start, fields, n)'
  BY <1>2, CalledSame
<1>7. CASE Reading(c)
  <2>1. Reading(c)'
    BY <1>3, <1>4, <1>7 DEF Reading, Utters
  <2>2. Amid(c, k, n, start, fields)'
    BY <1>6, <2>1 DEF Amid
  <2> QED
    BY <2>2 DEF Stand
<1>8. CASE rci.input = "field" /\ Setting(c, k, n)
  <2>1. ~Pending'
    BY <1>3, <1>4 DEF Pending, Walks
  <2>2. user'.copy = Changed(c, k, 0)'
    <3>1. saved = SavedTo(owed, c, k - 1)
      BY <1>8 DEF Setting
    <3>2. \A f : ~\E m \in 1 .. 0 : Wish(owed, c, k).fields[m] = f
      OBVIOUS
    <3> QED
      BY <1>3, <3>1, <3>2 DEF Changed
  <2>3. Setting(c, k, n)'
    BY <1>3, <1>5, <1>8, <2>1, <2>2 DEF Setting
  <2>4. Amid(c, k, n, start, fields)'
    BY <1>3, <1>6, <1>8, <2>3 DEF Amid
  <2> QED
    BY <2>4 DEF Stand
<1> QED
  BY <1>2, <1>7, <1>8

\* A field is read from the copy, or written to it.
LEMMA CallProcesses ==
    ASSUME Answering, saved' = saved, rci.calling = "process",
           user.copy \in [Fields(rci.group) -> Values],
           \/ /\ rci.action = "query" /\ user' = user
              /\ rci'.value = user.copy[rci.element]
           \/ /\ rci.action = "set" /\ rci'.value = rci.value
              /\ user'.copy = [user.copy EXCEPT ![rci.element] = rci.value]
    PROVE  Stand'
<1>1. PICK c, k, n \in Nat : \E start, fields :
               /\ Scope(c, k, n, start, fields) /\ Spelling(c, start, fields, n)
               /\ Reading(c) \/ (rci.input = "field" /\ Setting(c, k, n))
               /\ Request1(owed, c) /\ rci.action = Asked(owed, c).do
               /\ rci.group \in Groups
               /\ rci.index \in 1 .. Instances[rci.group]
               /\ fields \in Seq(Fields(rci.group)) /\ Len(fields) \in Nat
  BY CalledPlace
<1>2. PICK start, fields :
               /\ Scope(c, k, n, start, fields) /\ Spelling(c, start, fields, n)
               /\ Reading(c) \/ (rci.input = "field" /\ Setting(c, k, n))
               /\ Request1(owed, c) /\ rci.action = Asked(owed, c).do
               /\ rci.group \in Groups
               /\ rci.index \in 1 .. Instances[rci.group]
               /\ fields \in Seq(Fields(rci.group)) /\ Len(fields) \in Nat
  BY <1>1
<1>3. /\ owed' = owed /\ rci'.parser = rci.parser /\ rci'.output = rci.output
      /\ rci'.calling = "none" /\ rci'.group = rci.group
      /\ rci'.index = rci.index /\ rci'.input = rci.input
      /\ rci'.element = rci.element /\ rci'.last = rci.last
  BY DEF Answering, UserReplied
<1>4. /\ rci.parser = "output" /\ rci.output = "field" /\ InsideGroup
      /\ rci.last = "process"
  BY CallPlace DEF Answering, InsideGroup
<1>5. n \in 1 .. Len(fields) /\ rci.element = fields[n]
  <2>1. n \in 0 .. Len(fields) /\ n # 0 /\ rci.element = fields[n]
    BY <1>2, <1>4 DEF Spelling, Walks, Utters
  <2> QED
    BY <1>2, <2>1
<1>6. rci.element \in Fields(rci.group)
  BY <1>2, <1>5
<1>7. Scope(c, k, n, start, fields)' /\ Spelling(c, start, fields, n)'
  BY <1>2, CalledSame
<1>8. CASE Reading(c)
  <2>1. /\ rci.action = "query" /\ user' = user
        /\ rci'.value = user.copy[rci.element]
    BY <1>2, <1>8 DEF Reading
  <2>2. user.copy = [f \in Fields(rci.group) |->
                        SavedAt(owed, c)[<<rci.group, rci.index, f>>]]
    BY <1>4, <1>8 DEF Reading
  <2>3. rci'.value = SavedAt(owed, c)[<<rci.group, rci.index, rci.element>>]
    BY <1>6, <2>1, <2>2
  <2>4. InsideGroup'
    BY <1>3, <1>4 DEF InsideGroup
  <2>5. Reading(c)'
    BY <1>3, <1>8, <2>1, <2>2, <2>3, <2>4 DEF Reading
  <2>6. Amid(c, k, n, start, fields)'
    BY <1>7, <2>5 DEF Amid
  <2> QED
    BY <2>6 DEF Stand
<1>9. CASE rci.input = "field" /\ Setting(c, k, n)
  <2>1. /\ rci.action = "set" /\ rci'.value = rci.value
        /\ user'.copy = [user.copy EXCEPT ![rci.element] = rci.value]
    BY <1>2, <1>9 DEF Setting
  <2>2. ~Pending' /\ Pending /\ ~Walks("group") /\ ~Walks("group")'
    BY <1>3, <1>4 DEF Pending, Walks
  <2>3. /\ user.copy = Changed(c, k, n - 1)
        /\ rci.value = Wish(owed, c, k).value
        /\ saved = SavedTo(owed, c, k - 1) /\ Asked(owed, c).do = "set"
    BY <1>9, <2>2 DEF Setting
  <2>4. fields = Wish(owed, c, k).fields
    <3>1. ~OfOne(c, k, start) /\ ~OfAll(c, k, start)
          /\ Asked(owed, c).do # "query"
      BY <1>9, <2>3 DEF OfOne, OfAll
    <3> QED
      BY <1>2, <3>1 DEF Scope, Named
  <2>5. PICK v, e, wish, old :
            /\ v = rci.value /\ e = rci.element /\ wish = Wish(owed, c, k)
            /\ old = SavedTo(owed, c, k - 1)
    OBVIOUS
  <2>6. user'.copy = [f \in Fields(rci.group) |->
                         IF \E m \in 1 .. n : wish.fields[m] = f THEN v
                         ELSE old[<<rci.group, rci.index, f>>]]
    <3>1. user.copy = [f \in Fields(rci.group) |->
                          IF \E m \in 1 .. n - 1 : wish.fields[m] = f THEN v
                          ELSE old[<<rci.group, rci.index, f>>]]
      BY <2>3, <2>5 DEF Changed
    <3>2. \A f : (\E m \in 1 .. n : wish.fields[m] = f)
                 <=> f = e \/ \E m \in 1 .. n - 1 : wish.fields[m] = f
      <4>1. wish.fields[n] = e /\ n \in Nat /\ n >= 1
        BY <1>5, <2>4, <2>5
      <4>2. \A m : m \in 1 .. n <=> m = n \/ m \in 1 .. n - 1
        BY <4>1
      <4> QED
        BY <4>1, <4>2, Zenon
    <3>3. user'.copy = [user.copy EXCEPT ![e] = v]
      BY <2>1, <2>5
    <3> QED
      BY <3>1, <3>2, <3>3
  <2>7. Changed(c, k, n)' = [f \in Fields(rci.group) |->
                         IF \E m \in 1 .. n : wish.fields[m] = f THEN v
                         ELSE old[<<rci.group, rci.index, f>>]]
    BY <1>3, <2>3, <2>5 DEF Changed
  <2>8. user'.copy = Changed(c, k, n)'
    BY <2>6, <2>7
  <2>9. Setting(c, k, n)'
    BY <1>3, <2>1, <2>2, <2>3, <2>8 DEF Setting
  <2>10. Amid(c, k, n, start, fields)'
    BY <1>3, <1>7, <1>9, <2>9 DEF Amid
  <2> QED
    BY <2>10 DEF Stand
<1> QED
  BY <1>2, <1>8, <1>9

\* The copy of a group that was set as the cloud asked, and the settings when
\* the copy is saved.
CopyOf(o, c, k) ==
    [f \in Fields(Wish(o, c, k).id) |->
        IF \E m \in 1 .. Len(Wish(o, c, k).fields) : Wish(o, c, k).fields[m] = f
        THEN Wish(o, c, k).value
        ELSE SavedTo(o, c, k - 1)[<<Wish(o, c, k).id,
                                    Instance(Wish(o, c, k)), f>>]]
SavedFrom(o, c, k, copy) ==
    [s \in Settings |->
        IF s[1] = Wish(o, c, k).id /\ s[2] = Instance(Wish(o, c, k))
        THEN copy[s[3]] ELSE SavedTo(o, c, k - 1)[s]]

\* What is saved of a group that is set is what the cloud asked of it.
LEMMA SavedSo ==
    ASSUME NEW o, NEW c, Request1(o, c), Asked(o, c).do = "set",
           NEW k \in 1 .. Number(o, c), NEW copy, copy = CopyOf(o, c, k),
           \A f \in Fields(Wish(o, c, k).id) : copy[f] # "bad"
    PROVE  SavedTo(o, c, k) = SavedFrom(o, c, k, copy)
<1>0. PICK wish : wish = Wish(o, c, k)
  OBVIOUS
<1>1. Good("set", wish) /\ k \in Nat /\ k >= 1
  BY <1>0, AskedFacts
<1>2. /\ wish.id \in Groups /\ DOMAIN wish.fields = 1 .. Len(wish.fields)
      /\ wish.value \in Values /\ wish.value # "old"
      /\ \A n \in 1 .. Len(wish.fields) : wish.fields[n] \in Fields(wish.id)
  BY <1>1 DEF Good
<1>3. ASSUME NEW s \in Settings
      PROVE  SavedTo(o, c, k)[s]
             = IF s[1] = wish.id /\ s[2] = Instance(wish) THEN copy[s[3]]
               ELSE SavedTo(o, c, k - 1)[s]
  <2>1. s[3] \in Fields(s[1]) /\ s = <<s[1], s[2], s[3]>>
    BY DEF Settings
  <2>2. PICK old : old = SavedTo(o, c, k - 1)[s]
    OBVIOUS
  <2>3. /\ SavedTo(o, c, k)[s] =
               IF \E j \in 1 .. k : Sets(Wish(o, c, j), s)
               THEN "new" ELSE SavedAt(o, c)[s]
        /\ old = IF \E j \in 1 .. k - 1 : Sets(Wish(o, c, j), s)
                 THEN "new" ELSE SavedAt(o, c)[s]
    BY <2>2 DEF SavedTo
  <2>4. (\E j \in 1 .. k : Sets(Wish(o, c, j), s))
        <=> Sets(wish, s) \/ \E j \in 1 .. k - 1 : Sets(Wish(o, c, j), s)
    <3>1. \A j : j \in 1 .. k <=> j = k \/ j \in 1 .. k - 1
      BY <1>1
    <3> QED
      BY <1>0, <3>1, Zenon
  <2>5. SavedTo(o, c, k)[s] = IF Sets(wish, s) THEN "new" ELSE old
    BY <2>3, <2>4
  <2>6. CASE s[1] = wish.id /\ s[2] = Instance(wish)
    <3>1. s[3] \in Fields(wish.id) /\ s = <<wish.id, Instance(wish), s[3]>>
      BY <2>1, <2>6
    <3>2. copy[s[3]] = IF \E m \in 1 .. Len(wish.fields) : wish.fields[m] = s[3]
                       THEN wish.value ELSE old
      BY <1>0, <2>2, <3>1 DEF CopyOf
    <3>3. Sets(wish, s)
          <=> \E m \in 1 .. Len(wish.fields) : wish.fields[m] = s[3]
      BY <1>2, <2>6 DEF Sets
    <3>4. Sets(wish, s) => wish.value = "new"
      <4>1. ASSUME Sets(wish, s)
            PROVE  wish.value # "bad"
        BY <1>0, <3>1, <3>2, <3>3, <4>1
      <4> QED
        BY <1>2, <4>1 DEF Values
    <3> QED
      BY <2>5, <2>6, <3>2, <3>3, <3>4
  <2>7. CASE ~(s[1] = wish.id /\ s[2] = Instance(wish))
    <3>1. ~Sets(wish, s)
      BY <2>7 DEF Sets
    <3> QED
      BY <2>2, <2>5, <2>7, <3>1
  <2> QED
    BY <2>6, <2>7
<1>4. SavedTo(o, c, k) = [s \in Settings |-> SavedTo(o, c, k)[s]]
  BY DEF SavedTo
<1> QED
  BY <1>0, <1>3, <1>4 DEF SavedFrom

\* A group is saved at its end.
LEMMA CallCloses ==
    ASSUME Answering, rci.calling = "group_end",
           user.copy \in [Fields(rci.group) -> Values],
           rci.action = "query" => saved' = saved,
           rci.action = "set" =>
               /\ \A f \in Fields(rci.group) : user.copy[f] # "bad"
               /\ saved' = [s \in Settings |->
                               IF s[1] = rci.group /\ s[2] = rci.index
                               THEN user.copy[s[3]] ELSE saved[s]]
    PROVE  Stand'
<1>1. /\ rci.parser = "output" /\ rci.output = "field_end" /\ InGroup
      /\ rci \in ParserTypes
  BY CallPlace DEF Answering
<1>2. SomeEnd
  BY <1>1, StandOutput DEF Answering
<1>3. PICK c, k \in Nat : \E start, fields : Ending(c, k, start, fields)
  BY <1>2 DEF SomeEnd
<1>4. PICK start, fields : Ending(c, k, start, fields)
  BY <1>3
<1>5. /\ owed' = owed /\ rci'.parser = rci.parser /\ rci'.output = rci.output
      /\ rci'.calling = "none" /\ rci'.group = rci.group
      /\ rci'.index = rci.index /\ rci'.input = rci.input
      /\ rci'.traverse = rci.traverse /\ rci'.process = rci.process
      /\ written' = written /\ HaveRead' = HaveRead /\ SameScope
  BY DEF Answering, UserReplied, SameScope
<1>6. /\ OfCommand(c)
      /\ written = SpelledTo(c, start, fields, Len(fields))
      /\ Reading(c) \/ Setting(c, k, Len(fields))
  <2>1. OfCommand(c)
    BY <1>4 DEF Ending, OfWish, OfAll, OfEvery
  <2> QED
    BY <1>4, <2>1 DEF Ending, Answering
<1>7. Request1(owed, c) /\ rci.action = Asked(owed, c).do
  BY <1>6 DEF Request1, OfCommand, Answering
<1>8. saved' = SavedTo(owed, c, k)
  <2>1. CASE Reading(c)
    <3>1. Asked(owed, c).do = "query" /\ saved = SavedAt(owed, c)
      BY <2>1 DEF Reading
    <3> QED
      BY <1>7, <3>1, SavedEach DEF Request1
  <2>2. CASE Setting(c, k, Len(fields))
    <3>1. ~Pending /\ ~Walks("group") /\ Asked(owed, c).do = "set"
      BY <1>1, <2>2 DEF Pending, Walks, Answering, Setting
    <3>2. PICK wish : wish = Wish(owed, c, k)
      OBVIOUS
    <3>3. /\ OfWish(c, k) /\ fields = FieldsOf(wish) /\ wish.fields # <<>>
          /\ rci.index = Instance(wish)
      BY <1>4, <3>1, <3>2 DEF Ending
    <3>4. /\ k \in 1 .. Number(owed, c) /\ rci.group = wish.id
          /\ fields = wish.fields
      BY <3>2, <3>3 DEF OfWish, FieldsOf
    <3>5. /\ user.copy = Changed(c, k, Len(fields))
          /\ saved = SavedTo(owed, c, k - 1)
      BY <2>2, <3>1 DEF Setting, Answering
    <3>6. PICK copy : copy = user.copy
      OBVIOUS
    <3>7. copy = CopyOf(owed, c, k)
      BY <3>2, <3>3, <3>4, <3>5, <3>6 DEF Changed, CopyOf
    <3>8. /\ \A f \in Fields(Wish(owed, c, k).id) : copy[f] # "bad"
          /\ saved' = SavedFrom(owed, c, k, copy)
      BY <1>7, <3>1, <3>2, <3>3, <3>4, <3>5, <3>6 DEF SavedFrom
    <3>9. SavedTo(owed, c, k) = SavedFrom(owed, c, k, copy)
      BY <1>7, <3>1, <3>4, <3>7, <3>8, SavedSo
    <3> QED
      BY <3>8, <3>9
  <2> QED
    BY <1>6, <2>1, <2>2
<1>9. /\ OfWish(c, k)' <=> OfWish(c, k)
      /\ OfAll(c, k, start)' <=> OfAll(c, k, start)
      /\ OfEvery(c, start)' <=> OfEvery(c, start)
      /\ SpelledTo(c, start, fields, Len(fields))'
         = SpelledTo(c, start, fields, Len(fields))
  <2>1. SameScope
    BY <1>5
  <2>2. OfWish(c, k)' <=> OfWish(c, k)
    BY <2>1, ScopeStays
  <2>3. OfAll(c, k, start)' <=> OfAll(c, k, start)
    BY <2>1, ScopeStays
  <2>4. OfEvery(c, start)' <=> OfEvery(c, start)
    BY <2>1, ScopeStays
  <2>5. \A m : SpelledTo(c, start, fields, m)' = SpelledTo(c, start, fields, m)
    BY <2>1, ScopeStays
  <2> QED
    BY <2>2, <2>3, <2>4, <2>5, Zenon
<1>10. (Utters("field_end") /\ Utters("field_end")')
       /\ (Walks("element_end")' <=> Walks("element_end"))
  BY <1>1, <1>5 DEF Utters, Walks
<1>11. Ending(c, k, start, fields)'
  BY <1>1, <1>4, <1>5, <1>6, <1>8, <1>9, <1>10 DEF Ending
<1> QED
  BY <1>11, Zenon DEF Stand

LEMMA CallbackAnswers ==
    ASSUME ConfigInv, AnswerInv, RciCallback
    PROVE  AnswerInv'
<1>1. /\ stage = "running" /\ UNCHANGED <<tokens, more, written, owed>>
      /\ rci'.unwind = rci.unwind /\ rci'.parser = rci.parser
      /\ odd \subseteq odd' /\ stage' \in {"running", "dead"}
      /\ rci.calling # "none" /\ ConfigTypes /\ LiveInv
  BY CallbackPlace DEF ConfigInv, RciCallback
<1>2. HasError' = HasError /\ HaveRead' = HaveRead
  BY <1>1, ReadSo DEF HasError
<1>3. ASSUME ~Trouble', stage' = "running"
      PROVE  Stand'
  <2>1. odd' = {} /\ ~HasError' /\ ~CallRefused' /\ rci.parser # "error"
    BY <1>1, <1>3 DEF Trouble
  <2>2. ~Trouble
    BY <1>1, <1>2, <2>1 DEF Trouble, CallRefused
  <2>3. Stand /\ owed.before \in [Settings -> Values]
    BY <1>1, <2>2 DEF AnswerInv
  <2>4. owed.request \in RciRequests /\ rci \in ParserTypes
    BY <1>1, ReadSo DEF ConfigTypes
  <2>5. UserReplied(FALSE) => Answering
    BY <1>1, <1>2, <2>1, <2>3, <2>4 DEF Answering
  <2>6. Returns(FALSE) => Answering
    BY <2>4, <2>5, ReturnsReplies
  <2>7. ASSUME Returns(TRUE)
        PROVE  FALSE
    <3>1. UserReplied(TRUE)
      BY <2>4, <2>7, ReturnsReplies
    <3> QED
      BY <2>1, <3>1 DEF UserReplied, CallRefused
  <2>8. CASE AppSessionStart
    BY <2>6, <2>7, <2>8, CallKeeps DEF AppSessionStart, Quiet
  <2>9. CASE AppSessionEnd
    BY <2>6, <2>9, CallKeeps DEF AppSessionEnd, Quiet
  <2>10. CASE AppAction
    BY <2>6, <2>10, CallKeeps DEF AppAction, Quiet
  <2>11. CASE AppGroupStart
    <3>1. /\ Returns(FALSE) /\ saved' = saved /\ rci.calling = "group_start"
          /\ user' = [user EXCEPT !.group = "live",
                 !.copy = [f \in Fields(rci.group) |->
                               saved[<<rci.group, rci.index, f>>]]]
      BY <2>7, <2>11 DEF AppGroupStart, Quiet
    <3>2. user'.copy = [f \in Fields(rci.group) |->
                               saved[<<rci.group, rci.index, f>>]]
      BY <1>1, <3>1, UserFields
    <3> QED
      BY <2>6, <3>1, <3>2, CallOpens
  <2>12. CASE AppAsserts
    BY <1>3, <2>12 DEF AppAsserts
  <2>13. CASE AppProcess
    <3>1. /\ rci.calling = "process" /\ user.group = "live" /\ saved' = saved
      BY <2>13 DEF AppProcess, Quiet
    <3>2. PICK e \in BOOLEAN : UserReplied(e)
      BY <1>1, <2>13, ProcessReplies DEF ConfigInv
    <3>3. Answering
      <4>1. e = FALSE
        BY <2>1, <3>2 DEF UserReplied, CallRefused
      <4> QED
        BY <2>5, <3>2, <4>1
    <3>4. user.copy \in [Fields(rci.group) -> Values]
      BY <1>1, <3>1 DEF LiveInv
    <3>5. rci.action \in {"query", "set"}
      BY <2>4, ParserFields
    <3>6. CASE rci.action = "set"
      <4>1. /\ Returns(rci.value = "bad" /\ Kinds[rci.group][rci.element] = "number")
            /\ user' = IF rci.value = "bad"
                          /\ Kinds[rci.group][rci.element] = "number"
                       THEN user
                       ELSE [user EXCEPT !.copy[rci.element] = rci.value]
        BY <2>13, <3>6 DEF AppProcess
      <4>2. ~(rci.value = "bad" /\ Kinds[rci.group][rci.element] = "number")
        BY <2>7, <4>1
      <4>3. /\ rci' = [rci EXCEPT !.calling = "none", !.failed = FALSE]
            /\ user' = [user EXCEPT !.copy[rci.element] = rci.value]
        BY <4>1, <4>2 DEF Returns
      <4>4. rci'.value = rci.value
        BY <2>4, <4>3 DEF ParserTypes
      <4>5. user'.copy = [user.copy EXCEPT ![rci.element] = rci.value]
        BY <1>1, <4>3, UserCopy
      <4> QED
        BY <3>1, <3>3, <3>4, <3>6, <4>4, <4>5, CallProcesses
    <3>7. CASE rci.action = "query"
      <4>1. /\ rci' = [rci EXCEPT !.calling = "none", !.failed = FALSE,
                                  !.value = user.copy[rci.element]]
            /\ user' = user
        BY <2>13, <3>7 DEF AppProcess
      <4>2. rci'.value = user.copy[rci.element]
        BY <2>4, <4>1 DEF ParserTypes
      <4> QED
        BY <3>1, <3>3, <3>4, <3>7, <4>1, <4>2, CallProcesses
    <3> QED
      BY <3>5, <3>6, <3>7
  <2>14. CASE AppGroupEnd
    <3>1. PICK bad : bad = {f \in Fields(rci.group) : user.copy[f] = "bad"}
      OBVIOUS
    <3>2. /\ rci.calling = "group_end" /\ user.group = "live"
          /\ Returns(rci.action = "set" /\ bad # {})
          /\ saved' = IF rci.action = "query" THEN saved
                ELSE [s \in Settings |->
                         IF /\ s[1] = rci.group /\ s[2] = rci.index
                            /\ \A f \in bad : s[3] < f
                         THEN user.copy[s[3]] ELSE saved[s]]
      BY <2>14, <3>1 DEF AppGroupEnd
    <3>3. user.copy \in [Fields(rci.group) -> Values]
      BY <1>1, <3>2 DEF LiveInv
    <3>4. ~(rci.action = "set" /\ bad # {})
      BY <2>7, <3>2
    <3>5. Answering
      BY <2>6, <3>2, <3>4
    <3>6. rci.action = "set" =>
               /\ \A f \in Fields(rci.group) : user.copy[f] # "bad"
               /\ saved' = [s \in Settings |->
                               IF s[1] = rci.group /\ s[2] = rci.index
                               THEN user.copy[s[3]] ELSE saved[s]]
      <4>1. ASSUME rci.action = "set"
            PROVE  bad = {} /\ (rci.action = "query") = FALSE
        BY <3>4, <4>1
      <4>2. ASSUME bad = {}
            PROVE  \A f \in Fields(rci.group) : user.copy[f] # "bad"
        BY <3>1, <4>2
      <4> QED
        BY <3>2, <4>1, <4>2
    <3> QED
      BY <3>2, <3>3, <3>5, <3>6, CallCloses
  <2> QED
    BY <2>8, <2>9, <2>10, <2>11, <2>12, <2>13, <2>14 DEF RciCallback
<1> QED
  BY <1>1, <1>2, <1>3 DEF AnswerInv

-----------------------------------------------------------------------------
(* The session, and the whole.                                             *)

LEMMA BeginAnswers ==
    ASSUME ConfigInv, NEW wish \in RciRequests, NEW split \in BOOLEAN,
           NEW spare \in Rooms, BeginSession(wish, split, spare)
    PROVE  AnswerInv'
<1>1. PICK all, cut : all = AllTokens(wish)
                      /\ cut = IF split THEN 1 ELSE Len(all)
  OBVIOUS
<1>2. /\ tokens' = SubSeq(all, 1, cut) /\ more' = SubSeq(all, cut + 1, Len(all))
      /\ written' = <<>> /\ stage' = "running" /\ saved' = saved
      /\ owed' = [request |-> wish, before |-> saved]
      /\ rci' = [Trigger(rci, "session_start")
                  EXCEPT !.status = "busy", !.parser = "input",
                         !.input = "command", !.unwind = "error",
                         !.group = 0, !.index = 0, !.element = 0,
                         !.all = FALSE,
                         !.half = IF @ = "none" THEN @ ELSE "earlier"]
  BY <1>1 DEF BeginSession
<1>3. saved \in [Settings -> Values] /\ rci \in ParserTypes
  BY DEF ConfigInv, ConfigTypes
<1>4. /\ rci'.parser = "input" /\ rci'.input = "command"
      /\ rci'.unwind = "error"
  BY <1>2, <1>3 DEF ParserTypes, Trigger
<1>5. owed'.request = wish /\ owed'.before = saved
  BY <1>2
<1>6. HaveRead' = 0
  <2>1. all \in Seq(Tokens) /\ all # <<>>
    BY <1>1, RequestAssumption
  <2>2. PICK n \in Nat : n = Len(all) /\ n >= 1
    BY <2>1
  <2>3. cut \in 1 .. n
    BY <1>1, <2>2
  <2>4. Len(tokens') = cut /\ Len(more') = n - cut
    BY <1>2, <2>1, <2>2, <2>3
  <2>5. HaveRead' = n - Len(tokens') - Len(more')
    BY <1>1, <1>5, <2>2 DEF HaveRead, OwedTokens
  <2> QED
    BY <2>2, <2>3, <2>4, <2>5
<1>7. PICK o : o = owed'
  OBVIOUS
<1>8. /\ Len(o.request) \in Nat /\ CommandsRead(o, 1) = 0
      /\ ToldUpTo(o, 1) = <<>> /\ SavedAt(o, 1) = o.before
  BY <1>3, <1>5, <1>7, ReadingAt, ToldSteps, BeforeEach
<1>9. AtCommand(1)'
  BY <1>2, <1>4, <1>5, <1>6, <1>7, <1>8 DEF AtCommand
<1>10. Stand'
  BY <1>9 DEF Stand
<1> QED
  BY <1>2, <1>3, <1>4, <1>5, <1>10 DEF AnswerInv

LEMMA AnswerSteps ==
    ASSUME ConfigInv, AnswerInv, [RciNext]_rciVars
    PROVE  AnswerInv'
<1>1. CASE \E wish \in RciRequests, split \in BOOLEAN, spare \in Rooms :
               BeginSession(wish, split, spare)
  BY <1>1, BeginAnswers
<1>2. CASE RciCallback
  BY <1>2, CallbackAnswers
<1>3. CASE ParseInput
  BY <1>3, InputAnswers
<1>4. CASE MoreInput \/ FlushOutput
  BY <1>4, PacketAnswers
<1>5. CASE TraverseData
  BY <1>5, TraverseAnswers
<1>6. CASE GenerateOutput
  BY <1>6, OutputAnswers
<1>7. CASE GenerateError
  BY <1>7, ErrorAnswers
<1>8. CASE ResponseSent \/ RciLost
  <2>1. stage' \notin {"running", "sending"}
    BY <1>8 DEF ResponseSent, RciLost
  <2> QED
    BY <2>1 DEF AnswerInv
<1>9. CASE UNCHANGED rciVars
  <2>1. UNCHANGED <<rci, tokens, more, written, saved, user, owed, stage, odd>>
    BY <1>9 DEF rciVars
  <2>2. HasError' = HasError /\ HaveRead' = HaveRead /\ AllTold' = AllTold
    BY <2>1 DEF HasError, HaveRead, OwedTokens, AllTold
  <2>3. CASE stage = "running"
    <3>1. Alike /\ SameWork
      BY <2>1, <2>2 DEF Alike, SameWork, ConfigInv, ConfigTypes
    <3> QED
      BY <2>1, <2>3, <3>1, AlikeAnswers
  <2>4. CASE stage # "running"
    BY <2>1, <2>2, <2>4 DEF AnswerInv
  <2> QED
    BY <2>3, <2>4
<1> QED
  BY <1>1, <1>2, <1>3, <1>4, <1>5, <1>6, <1>7, <1>8, <1>9 DEF RciNext, RciWork

\* What is owed for a request is what the answers to its commands make.
LEMMA OwedIs ==
    ASSUME owed.request \in RciRequests, owed.before \in [Settings -> Values],
           AllTold
    PROVE  LET after == Settled(owed.request, owed.before) IN
           /\ written = Flat([k \in DOMAIN owed.request |->
                                 AnswerTo(owed.request[k], after[k - 1])])
           /\ saved = after[Len(owed.request)]
<1>1. PICK last : last = Len(owed.request)
  OBVIOUS
<1>2. last \in Nat /\ ToldUpTo(owed, last + 1) = Flat(AnswersOf(owed))
  BY <1>1, ToldSteps
<1>3. written = Flat(AnswersOf(owed)) /\ saved = SavedAt(owed, last + 1)
  BY <1>1, <1>2 DEF AllTold
<1>4. SavedAt(owed, last + 1) = Settled(owed.request, owed.before)[last]
  <2>1. PICK next : next = last + 1
    OBVIOUS
  <2>2. next - 1 = last
    BY <1>2, <2>1
  <2>3. SavedAt(owed, next) = Settled(owed.request, owed.before)[next - 1]
    BY Zenon DEF SavedAt
  <2> QED
    BY <2>1, <2>2, <2>3, Zenon
<1>5. AnswersOf(owed)
      = [k \in DOMAIN owed.request |->
            AnswerTo(owed.request[k],
                     Settled(owed.request, owed.before)[k - 1])]
  BY DEF AnswersOf, SavedAt
<1> QED
  BY <1>1, <1>3, <1>4, <1>5

LEMMA AnswersStart == RciInit => AnswerInv
BY DEF RciInit, AnswerInv

LEMMA AnswersAreTold == AnswerInv => Answered
<1>1. ASSUME AnswerInv, stage = "sending", odd = {}, ~HasError
      PROVE  LET after == Settled(owed.request, owed.before) IN
             /\ written = Flat([k \in DOMAIN owed.request |->
                                   AnswerTo(owed.request[k], after[k - 1])])
             /\ saved = after[Len(owed.request)]
  <2>1. /\ AllTold /\ owed.request \in RciRequests
        /\ owed.before \in [Settings -> Values]
    BY <1>1 DEF AnswerInv
  <2> QED
    BY <2>1, OwedIs
<1> QED
  BY <1>1 DEF Answered

\* The cloud has an answer to every command of its request, as the commands
\* before it have left the settings, and the settings are what it asked for
\* (rci_parse_input, rci_traverse_data, rci_generate_output, and the callbacks
\* of remote_config_cb.c), in any number of packets.
THEOREM ConfigIsAnswered == RciSpec => []Answered
BY AnswersStart, AnswerSteps, AnswersAreTold, ConfigHolds, PTL DEF RciSpec
=============================================================================
