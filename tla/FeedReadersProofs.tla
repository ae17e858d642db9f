-------------------------- MODULE FeedReadersProofs --------------------------
(***************************************************************************)
(* Proofs about FeedReaders, for every set of messages and command lines    *)
(* that say what they mean, every budget of attempts and every bound.       *)
(***************************************************************************)
EXTENDS FeedReaders, DataLemmas

Refused == Console!ArgumentsRefused

\* The values the variables may take, and where in its code a program is.
TypeInv ==
    /\ cli \in CommandLine
    /\ line \in Nat /\ ending \in {"open", "closed", "bad", "reset"}
    /\ pending \in Seq(Message) /\ handed \in Seq(Message)
    /\ at \in 0..Len(cli.input) /\ refused \in Nat
    /\ printed \in Seq({StatsEventToValue(m.meant) : m \in Texts})

\* A console program that is refused its arguments goes nowhere else.
PlaceInv ==
    /\ IsPython => pc = "starting"
    /\ pc \notin {"starting", "failed"} => ~Refused
    /\ Refused => line = 0 /\ refused = 0
    /\ cli.program = "stdin" => pc \in {"starting", "stdin", "failed", "done"} /\ line = 0
    /\ pc = "stdin" => cli.program = "stdin"
    /\ pc = "sending" => cli.program = "rl_command"
    /\ pc \in {"starting", "connecting"} /\ ~IsPython => line = 0
    /\ cli.program = "rl_command" /\ ~Refused =>
          pc \in {"starting", "connecting"} \/ line > 0 \/ refused > 0

\* What is not handed over when a program reconnects: nothing, after an end of
\* the connection; something only behind an error.
LossInv ==
    /\ line = 0 => pending = <<>>
    /\ pc = "reconnecting" => answer = "error" \/ (pending = <<>> /\ ending # "open")

\* An object that reads has understood its event types.
ReadInv == IsPython /\ call = "read" => ~BadTokens(cli.tokens)

\* A program that goes on has not reached --max-events.
LimitInv ==
    /\ ~IsPython => emitted = Len(printed)
    /\ Limited /\ pc \notin {"done", "failed"} => emitted = 0 \/ emitted < cli.max
    /\ Limited => emitted <= Max({1, cli.max})
    /\ cli.program = "rl_events" /\ pc = "done" => emitted = Max({1, cli.max})

ShownIsWanted ==
    IF cli.program = "player_board" THEN IsPartOf(Shown, WantedSoFar)
                                    ELSE Shown = WantedSoFar

\* What was sent is what the library makes of a command it accepts.
SentInv ==
    \A i \in DOMAIN sent :
        /\ IsJsonCommand(sent[i].asked) /\ Accepted(sent[i].asked)
        /\ sent[i] = Sent(sent[i].asked)

-----------------------------------------------------------------------------
(***************************************************************************)
(* The programs' modules read the same JSON as this one.                    *)
(***************************************************************************)
LEMMA ConsoleReadsTheSame ==
    /\ \A json : Console!ParseStatsEvent(json) = ParseStatsEvent(json)
    /\ \A event : Console!StatsEventToValue(event) = StatsEventToValue(event)
    /\ Console!NotAnEvent = NotAnEvent /\ Console!OddMessage = {m \in Message : ParseStatsEvent(m.json) = NotAnEvent}
<1>1. Console!NotAnEvent = NotAnEvent
  BY Zenon DEF Console!NotAnEvent, NotAnEvent, Console!NoBody, NoBody, Console!Body, Body
<1>2. ASSUME NEW name PROVE Console!KindOfName(name) = KindOfName(name)
  BY Zenon DEF Console!KindOfName, KindOfName, Console!KnownKinds, KnownKinds, Console!OldName, OldName
<1>3. ASSUME NEW data, NEW kind
      PROVE  /\ Console!FitsKind(data, kind) = FitsKind(data, kind)
             /\ Console!IsNotJson(data) = IsNotJson(data)
             /\ Console!NormalizeEventData(data) = NormalizeEventData(data)
  BY Zenon DEF Console!FitsKind, FitsKind, Console!NeedsLocation, NeedsLocation, Console!IsNotJson, IsNotJson,
               Console!NormalizeEventData, NormalizeEventData
<1>4. \A json : Console!ParseStatsEvent(json) = ParseStatsEvent(json)
  BY <1>1, <1>2, <1>3, Zenon DEF Console!ParseStatsEvent, ParseStatsEvent
<1>5. \A event : Console!StatsEventToValue(event) = StatsEventToValue(event)
  BY Zenon DEF Console!StatsEventToValue, StatsEventToValue
<1> QED
  BY <1>1, <1>4, <1>5, Zenon DEF Console!OddMessage

LEMMA PythonReadsTheSame ==
    /\ \A json : Python!ParseStatsEvent(json) = ParseStatsEvent(json)
    /\ \A event : Python!StatsEventToValue(event) = StatsEventToValue(event)
    /\ Python!NotAnEvent = NotAnEvent /\ Python!OddMessage = {m \in Message : ParseStatsEvent(m.json) = NotAnEvent}
<1>1. Python!NotAnEvent = NotAnEvent
  BY Zenon DEF Python!NotAnEvent, NotAnEvent, Python!NoBody, NoBody, Python!Body, Body
<1>2. ASSUME NEW name PROVE Python!KindOfName(name) = KindOfName(name)
  BY Zenon DEF Python!KindOfName, KindOfName, Python!KnownKinds, KnownKinds, Python!OldName, OldName
<1>3. ASSUME NEW data, NEW kind
      PROVE  /\ Python!FitsKind(data, kind) = FitsKind(data, kind)
             /\ Python!IsNotJson(data) = IsNotJson(data)
             /\ Python!NormalizeEventData(data) = NormalizeEventData(data)
  BY Zenon DEF Python!FitsKind, FitsKind, Python!NeedsLocation, NeedsLocation, Python!IsNotJson, IsNotJson,
               Python!NormalizeEventData, NormalizeEventData
<1>4. \A json : Python!ParseStatsEvent(json) = ParseStatsEvent(json)
  BY <1>1, <1>2, <1>3, Zenon DEF Python!ParseStatsEvent, ParseStatsEvent
<1>5. \A event : Python!StatsEventToValue(event) = StatsEventToValue(event)
  BY Zenon DEF Python!StatsEventToValue, StatsEventToValue
<1> QED
  BY <1>1, <1>4, <1>5, Zenon DEF Python!OddMessage

LEMMA ConsoleAsksTheSame ==
    /\ Console!BadTokens(cli.tokens) <=> BadTokens(cli.tokens)
    /\ Console!Kinds = ParseEventFilterValue(cli.tokens)
    /\ \A kinds, event : Console!Wants(kinds, event) <=> Wants(kinds, event)
<1>1. Console!KindOfToken = KindOfToken
  BY Zenon DEF Console!KindOfToken, KindOfToken
<1>2. Console!BadTokens(cli.tokens) <=> BadTokens(cli.tokens)
  BY <1>1, Zenon DEF Console!BadTokens, BadTokens
<1>3. Console!Kinds = ParseEventFilterValue(cli.tokens)
  BY <1>1, Zenon DEF Console!Kinds, Console!ParseEventFilterValue, ParseEventFilterValue,
                     Console!Max, Max
<1>4. \A kinds, event : Console!Wants(kinds, event) <=> Wants(kinds, event)
  BY Zenon DEF Console!Wants, Wants
<1> QED
  BY <1>2, <1>3, <1>4

LEMMA PythonAsksTheSame ==
    /\ Python!BadTokens(cli.tokens) <=> BadTokens(cli.tokens)
    /\ Python!BuildFilter(cli.tokens) = BuildFilter(cli.tokens)
    /\ \A kinds, event : Python!Wants(kinds, event) <=> Wants(kinds, event)
<1>1. Python!KindOfToken = KindOfToken
  BY Zenon DEF Python!KindOfToken, KindOfToken
<1>2. Python!BadTokens(cli.tokens) <=> BadTokens(cli.tokens)
  BY <1>1, Zenon DEF Python!BadTokens, BadTokens
<1>3. Python!BuildFilter(cli.tokens) = BuildFilter(cli.tokens)
  BY <1>1, Zenon DEF Python!BuildFilter, BuildFilter
<1>4. \A kinds, event : Python!Wants(kinds, event) <=> Wants(kinds, event)
  BY Zenon DEF Python!Wants, Wants
<1> QED
  BY <1>2, <1>3, <1>4

LEMMA ConsoleSendsTheSame ==
    \A json : (Console!Accepted(json) <=> Accepted(json)) /\ Console!Sent(json) = Sent(json)
<1> USE DEF Console!Word, Word, Console!Digits, Digits, Console!NoText, NoText, Console!Val, Val, Console!Str, Str,
            Console!Real, Real, Console!Invalid, Invalid, Console!Fields, Fields
<1>1. ASSUME NEW digits PROVE Console!Number(digits) = Number(digits)
  BY Zenon DEF Console!Number, Number, Console!NumberOfFirst, NumberOfFirst
<1>2. ASSUME NEW n PROVE Console!Decimal(n) = Decimal(n)
  BY Zenon DEF Console!Decimal, Decimal, Console!DecimalUpTo, DecimalUpTo
<1>3. ASSUME NEW v PROVE Console!FocusFromWire(v) = FocusFromWire(v) /\ Console!FocusToWire(v) = FocusToWire(v)
  BY <1>1, <1>2, Zenon DEF Console!FocusFromWire, FocusFromWire, Console!FocusToWire, FocusToWire
<1>4. ASSUME NEW key, NEW v PROVE Console!ReadField(key, v) = ReadField(key, v)
  BY <1>3, Zenon DEF Console!ReadField, ReadField, Console!Perspectives, Perspectives
<1>5. ASSUME NEW c PROVE Console!Validate(c) <=> Validate(c)
  BY Zenon DEF Console!Validate, Validate
<1>6. ASSUME NEW json PROVE Console!Parsed(json) = Parsed(json)
  BY <1>4, Zenon DEF Console!Parsed, Parsed
<1>7. ASSUME NEW json PROVE Console!Accepted(json) <=> Accepted(json)
  BY <1>5, <1>6, Zenon DEF Console!Accepted, Accepted
<1>8. ASSUME NEW c PROVE Console!ToValue(c) = ToValue(c)
  BY <1>3, Zenon DEF Console!ToValue, ToValue, Console!WritesField, WritesField
<1>9. ASSUME NEW json PROVE Console!Sent(json) = Sent(json)
  BY <1>6, <1>8, Zenon DEF Console!Sent, Sent
<1> QED
  BY <1>7, <1>9, Zenon

LEMMA PythonSendsTheSame ==
    \A json : (Python!Accepted(json) <=> Accepted(json)) /\ Python!Sent(json) = Sent(json)
<1> USE DEF Python!Word, Word, Python!Digits, Digits, Python!NoText, NoText, Python!Val, Val, Python!Str, Str,
            Python!Real, Real, Python!Invalid, Invalid, Python!Fields, Fields
<1>1. ASSUME NEW digits PROVE Python!Number(digits) = Number(digits)
  BY Zenon DEF Python!Number, Number, Python!NumberOfFirst, NumberOfFirst
<1>2. ASSUME NEW n PROVE Python!Decimal(n) = Decimal(n)
  BY Zenon DEF Python!Decimal, Decimal, Python!DecimalUpTo, DecimalUpTo
<1>3. ASSUME NEW v PROVE Python!FocusFromWire(v) = FocusFromWire(v) /\ Python!FocusToWire(v) = FocusToWire(v)
  BY <1>1, <1>2, Zenon DEF Python!FocusFromWire, FocusFromWire, Python!FocusToWire, FocusToWire
<1>4. ASSUME NEW key, NEW v PROVE Python!ReadField(key, v) = ReadField(key, v)
  BY <1>3, Zenon DEF Python!ReadField, ReadField, Python!Perspectives, Perspectives
<1>5. ASSUME NEW c PROVE Python!Validate(c) <=> Validate(c)
  BY Zenon DEF Python!Validate, Validate
<1>6. ASSUME NEW json PROVE Python!Parsed(json) = Parsed(json)
  BY <1>4, Zenon DEF Python!Parsed, Parsed
<1>7. ASSUME NEW json PROVE Python!Accepted(json) <=> Accepted(json)
  BY <1>5, <1>6, Zenon DEF Python!Accepted, Accepted
<1>8. ASSUME NEW c PROVE Python!ToValue(c) = ToValue(c)
  BY <1>3, Zenon DEF Python!ToValue, ToValue, Python!WritesField, WritesField
<1>9. ASSUME NEW json PROVE Python!Sent(json) = Sent(json)
  BY <1>6, <1>8, Zenon DEF Python!Sent, Sent
<1> QED
  BY <1>7, <1>9, Zenon

-----------------------------------------------------------------------------
(***************************************************************************)
(* Events and their JSON.                                                   *)
(***************************************************************************)
LEMMA Names ==
    /\ DOMAIN OldName \cap KnownKinds = {} /\ NeedsLocation \cap DOMAIN OldName = {}
    /\ \A old \in DOMAIN OldName : OldName[old] \in KnownKinds /\ OldName[old] \notin NeedsLocation
    /\ "Unknown" \notin KnownKinds /\ "none" \notin KnownKinds /\ "none" # "Unknown"
    /\ NeedsLocation \subseteq KnownKinds
<1>1. DOMAIN OldName = {"ReplayEnd", "ReplayStart", "ReplayWillEnd"}
  BY DEF OldName
<1>2. /\ OldName["ReplayEnd"] = "GoalReplayEnd" /\ OldName["ReplayStart"] = "GoalReplayStart"
      /\ OldName["ReplayWillEnd"] = "GoalReplayWillEnd"
  BY DEF OldName
<1> QED
  BY <1>1, <1>2 DEF KnownKinds, NeedsLocation

LEMMA KindOfNames ==
    ASSUME NEW name
    PROVE  /\ name \in DOMAIN OldName => KindOfName(name) = OldName[name]
           /\ name \in KnownKinds => KindOfName(name) = name
           /\ name \notin KnownKinds \cup DOMAIN OldName => KindOfName(name) = "Unknown"
  BY Names DEF KindOfName

\* Taking one string off the data leaves the body.
LEMMA Normalized ==
    ASSUME NEW data, NEW w, NEW body, data = [wraps |-> w, body |-> body], w \in Nat
    PROVE  NormalizeEventData(data) = [wraps |-> IF w = 0 THEN 0 ELSE w - 1, body |-> body]
  BY DEF NormalizeEventData

LEMMA MessageData ==
    ASSUME NEW json, IsMessage(json)
    PROVE  \E w, body : w \in Nat /\ json.data = [wraps |-> w, body |-> body]
<1>1. PICK k, n, w, body : json = [keys |-> k, name |-> n, data |-> [wraps |-> w, body |-> body]]
  BY Zenon DEF IsMessage
<1>2. json.data = [wraps |-> w, body |-> body] /\ w = json.data.wraps
  BY <1>1
<1>3. w \in Nat
  BY <1>2 DEF IsMessage
<1> QED
  BY <1>2, <1>3

\* What the parser makes of JSON that means an event.
LEMMA WritingIsRead ==
    ASSUME NEW json, IsMessage(json), NEW event, IsWriting(json, event), ~IsNoEvent(json)
    PROVE  ParseStatsEvent(json) = event
<1>1. PICK w, body : w \in Nat /\ json.data = [wraps |-> w, body |-> body]
  BY MessageData
<1>2. json.data.wraps = w /\ json.data.body = body /\ w \in 0..1
  BY <1>1 DEF IsWriting
<1>3. NormalizeEventData(json.data) = [wraps |-> 0, body |-> body]
  <2>1. NormalizeEventData(json.data) = [wraps |-> IF w = 0 THEN 0 ELSE w - 1, body |-> body]
    BY <1>1, Normalized
  <2>2. (IF w = 0 THEN 0 ELSE w - 1) = 0
    BY <1>2
  <2> QED
    BY <2>1, <2>2
<1>4. PICK kind, name : event = [kind |-> kind, name |-> name, data |-> [wraps |-> 0, body |-> body]]
  BY <1>2 DEF IsWriting
<1>5. json.keys # "none" /\ ~IsNotJson(json.data)
  BY DEF IsNoEvent, IsNotJson
<1>6. event.kind = kind /\ event.name = name
  BY <1>4
<1>7. CASE kind \in KnownKinds
  <2>1. /\ name = kind /\ body.type = "object" /\ (kind \in NeedsLocation => body.whole)
        /\ json.name = kind \/ (json.name \in DOMAIN OldName /\ OldName[json.name] = kind)
    BY <1>2, <1>6, <1>7, Names DEF IsWriting
  <2>2. KindOfName(json.name) = kind /\ kind # "Unknown"
    BY <1>7, <2>1, KindOfNames, Names
  <2>3. FitsKind([wraps |-> 0, body |-> body], kind)
    BY <2>1 DEF FitsKind
  <2> QED
    BY <1>3, <1>4, <1>5, <2>1, <2>2, <2>3 DEF ParseStatsEvent
<1>8. CASE kind \notin KnownKinds
  <2>1. kind = "Unknown" /\ name = json.name /\ json.name \notin KnownKinds \cup DOMAIN OldName
    BY <1>6, <1>8 DEF IsWriting
  <2>2. KindOfName(json.name) = "Unknown"
    BY <2>1, KindOfNames
  <2> QED
    BY <1>3, <1>4, <1>5, <2>1, <2>2 DEF ParseStatsEvent
<1> QED
  BY <1>7, <1>8

LEMMA NoEventIsRead ==
    ASSUME NEW json, IsMessage(json), IsNoEvent(json)
    PROVE  ParseStatsEvent(json) = NotAnEvent
<1>1. PICK w, body : w \in Nat /\ json.data = [wraps |-> w, body |-> body]
  BY MessageData
<1>2. json.data.wraps = w /\ json.data.body = body
  BY <1>1
<1>3. CASE json.keys = "none" \/ (w = 1 /\ body.type = "text")
  BY <1>2, <1>3 DEF ParseStatsEvent, IsNotJson
<1>4. CASE /\ json.name \in KnownKinds \cup DOMAIN OldName
           /\ w > 1 \/ body.type # "object" \/ (json.name \in NeedsLocation /\ ~body.whole)
  <2>1. /\ KindOfName(json.name) # "Unknown"
        /\ json.name \in NeedsLocation => KindOfName(json.name) \in NeedsLocation
    BY <1>4, KindOfNames, Names
  <2>2. PICK v : v = IF w = 0 THEN 0 ELSE w - 1
    OBVIOUS
  <2>3. NormalizeEventData(json.data) = [wraps |-> v, body |-> body]
    BY <1>1, <2>2, Normalized
  <2>4. w > 1 => v # 0
    BY <2>2
  <2>5. ~FitsKind([wraps |-> v, body |-> body], KindOfName(json.name))
    BY <1>4, <2>1, <2>4 DEF FitsKind
  <2> QED
    BY <2>1, <2>3, <2>5 DEF ParseStatsEvent
<1> QED
  BY <1>2, <1>3, <1>4 DEF IsNoEvent

\* A text is read as what its writer meant.
LEMMA ParsedAsMeant ==
    ASSUME NEW m, IsMeant(m), m.form = "json"
    PROVE  ParseStatsEvent(m.json) = m.meant
<1>1. CASE IsNoEvent(m.json)
  BY <1>1, NoEventIsRead DEF IsMeant
<1>2. CASE ~IsNoEvent(m.json)
  BY <1>2, WritingIsRead DEF IsMeant
<1> QED
  BY <1>1, <1>2

\* The JSON the library writes of an event is one of the game's ways to write it.
LEMMA ParsedAgain ==
    ASSUME NEW m, IsMeant(m), m.meant # NotAnEvent
    PROVE  ParseStatsEvent(StatsEventToValue(m.meant)) = m.meant
<1>1. IsWriting(m.json, m.meant) /\ IsMessage(m.json)
  BY DEF IsMeant
<1>2. PICK w, body : w \in Nat /\ m.json.data = [wraps |-> w, body |-> body]
  BY <1>1, MessageData
<1>3. PICK kind, name :
          m.meant = [kind |-> kind, name |-> name, data |-> [wraps |-> 0, body |-> body]]
  <2>1. m.json.data.body = body
    BY <1>2
  <2> QED
    BY <1>1, <2>1 DEF IsWriting
<1>4. PICK json : json = [keys |-> "event", name |-> name, data |-> [wraps |-> 0, body |-> body]]
  OBVIOUS
<1>5. StatsEventToValue(m.meant) = json
  BY <1>3, <1>4 DEF StatsEventToValue
<1>6. /\ m.meant.kind = kind /\ m.meant.name = name /\ m.json.data.body = body
      /\ json.keys = "event" /\ json.name = name /\ json.data.wraps = 0 /\ json.data.body = body
  BY <1>2, <1>3, <1>4
<1>8. IsMessage(json)
  BY <1>4, <1>6 DEF IsMessage
<1>9. IsWriting(json, m.meant)
  <2>1. json.keys # "none" /\ json.data.wraps \in 0..1
    BY <1>6
  <2>2. m.meant = [kind |-> m.meant.kind, name |-> m.meant.name,
                   data |-> [wraps |-> 0, body |-> json.data.body]]
    BY <1>3, <1>6
  <2>3. CASE kind \in KnownKinds
    BY <1>1, <1>6, <2>1, <2>2, <2>3, Names DEF IsWriting
  <2>4. CASE kind \notin KnownKinds
    BY <1>1, <1>6, <2>1, <2>2, <2>4 DEF IsWriting
  <2> QED
    BY <2>3, <2>4
<1>10. ~IsNoEvent(json)
  <2>1. CASE kind \in KnownKinds
    BY <1>1, <1>6, <2>1, Names DEF IsWriting, IsNoEvent
  <2>2. CASE kind \notin KnownKinds
    BY <1>1, <1>6, <2>2 DEF IsWriting, IsNoEvent
  <2> QED
    BY <2>1, <2>2
<1> QED
  BY <1>5, <1>8, <1>9, <1>10, WritingIsRead

-----------------------------------------------------------------------------
(***************************************************************************)
(* What a user asks for.                                                    *)
(***************************************************************************)
\* parse_event_filter_value starts over at each "all", so that what is left is
\* what was named after the last one.
LEMMA ParsedAsAsked ==
    ASSUME NEW tokens, Len(tokens) \in Nat, DOMAIN tokens = 1..Len(tokens)
    PROVE  ParseEventFilterValue(tokens) = AskedOnCommandLine(tokens)
<1> DEFINE Alls == {i \in DOMAIN tokens : tokens[i] = "all"}
           Behind == {i \in DOMAIN tokens : \A j \in DOMAIN tokens : tokens[j] = "all" => j < i}
<1>1. PICK n : n = Len(tokens)
  OBVIOUS
<1>2. n \in Nat /\ DOMAIN tokens = 1..n /\ Alls \in SUBSET (1..n)
  BY <1>1
<1>3. \E c \in {0} \cup Alls : \A j \in {0} \cup Alls : j <= c
  <2>1. CASE Alls = {}
    BY <2>1
  <2>2. CASE Alls # {}
    <3>1. Max(Alls) \in Alls /\ \A i \in Alls : i <= Max(Alls)
      BY <1>2, <2>2, MaxOfIndices
    <3>2. 0 <= Max(Alls)
      BY <1>2, <3>1
    <3> QED
      BY <3>1, <3>2
  <2> QED
    BY <2>1, <2>2
<1>4. PICK c \in {0} \cup Alls : \A j \in {0} \cup Alls : j <= c
  BY <1>3
<1>5. Max({0} \cup Alls) = c /\ c \in Nat
  <2>1. {0} \cup Alls \in SUBSET Nat
    BY <1>2
  <2> QED
    BY <1>4, <2>1, MaxIs
<1>6. c + 1..n = Behind
  <2>1. ASSUME NEW i \in c + 1..n PROVE i \in Behind
    <3>1. i \in 1..n /\ i > c
      BY <1>2, <1>5
    <3>2. ASSUME NEW j \in DOMAIN tokens, tokens[j] = "all" PROVE j < i
      <4>1. j \in 1..n /\ j <= c
        BY <1>2, <1>4, <3>2
      <4> QED
        BY <1>5, <3>1, <4>1
    <3> QED
      BY <1>2, <3>1, <3>2
  <2>2. ASSUME NEW i \in Behind PROVE i \in c + 1..n
    <3>1. i \in 1..n
      BY <1>2
    <3>2. c < i
      <4>1. c # 0 => c \in Alls
        BY <1>4
      <4> QED
        BY <3>1, <4>1, <2>2
    <3> QED
      BY <1>2, <1>5, <3>1, <3>2
  <2> QED
    BY <2>1, <2>2
<1> QED
  BY <1>1, <1>5, <1>6 DEF ParseEventFilterValue, AskedOnCommandLine

LEMMA BuiltAsAsked ==
    ASSUME NEW tokens
    PROVE  BuildFilter(tokens) = AskedInPython(tokens)
  BY DEF BuildFilter, AskedInPython

-----------------------------------------------------------------------------
(***************************************************************************)
(* Numbers and the digits that write them.                                  *)
(***************************************************************************)
LEMMA NumberExists ==
    ASSUME NEW s, Len(s) \in Nat
    PROVE  \E f : f = [i \in 0..Len(s) |-> IF i = 0 THEN 0 ELSE 10 * f[i - 1] + s[i]]
<1> DEFINE EntryOf(f, n) == IF n = 0 THEN 0 ELSE 10 * f[n - 1] + s[n]
           Lacks == {m \in Nat : ~\E f : f = [n \in 0..m |-> EntryOf(f, n)]}
<1>1. Lacks = {}
  <2> SUFFICES ASSUME Lacks # {} PROVE FALSE
    OBVIOUS
  <2>1. PICK m \in Lacks : \A k \in Lacks : m <= k
    BY LeastNat
  <2>2. m # 0
    <3>1. \E f : f = [n \in 0..0 |-> EntryOf(f, n)]
      <4> DEFINE g == [n \in 0..0 |-> 0]
      <4>1. g = [n \in 0..0 |-> EntryOf(g, n)]
        OBVIOUS
      <4> QED
        BY <4>1
    <3> QED
      BY <2>1, <3>1
  <2>3. m - 1 \in Nat /\ m \in Nat
    BY <2>1, <2>2
  <2>4. m - 1 \notin Lacks
    <3> HIDE DEF Lacks
    <3> QED
      BY <2>1, <2>3
  <2>5. PICK f : f = [n \in 0..(m - 1) |-> EntryOf(f, n)]
    BY <2>3, <2>4
  <2> DEFINE g == [n \in 0..m |-> IF n = m THEN EntryOf(f, m) ELSE f[n]]
  <2>6. \A n \in 0..m : g[n] = EntryOf(g, n)
    <3>1. ASSUME NEW n \in 0..m PROVE g[n] = EntryOf(g, n)
      <4>1. n = 0 \/ (n - 1 \in 0..(m - 1) /\ n - 1 # m /\ n - 1 \in 0..m)
        BY <2>3
      <4>2. n # 0 => g[n - 1] = f[n - 1]
        BY <4>1
      <4>3. EntryOf(g, n) = EntryOf(f, n)
        BY <4>2
      <4>4. n # m => g[n] = f[n] /\ f[n] = EntryOf(f, n)
        <5>1. n # m => n \in 0..(m - 1)
          BY <2>3
        <5> QED
          BY <2>5, <5>1
      <4> QED
        BY <4>3, <4>4
    <3> QED
      BY <3>1
  <2>7. g = [n \in 0..m |-> EntryOf(g, n)]
    <3> HIDE DEF EntryOf
    <3> QED
      BY <2>6
  <2> HIDE DEF g, EntryOf
  <2> QED
    BY <2>1, <2>7
<1>2. Len(s) \notin Lacks
  BY <1>1
<1> QED
  BY <1>2

LEMMA NumberUnfolds ==
    ASSUME NEW s, Len(s) \in Nat, NEW i \in 0..Len(s)
    PROVE  NumberOfFirst(s)[i] = IF i = 0 THEN 0 ELSE 10 * NumberOfFirst(s)[i - 1] + s[i]
<1> DEFINE k == NumberOfFirst(s)
           Unfolded(f) == [m \in 0..Len(s) |-> IF m = 0 THEN 0 ELSE 10 * f[m - 1] + s[m]]
<1>1. k = CHOOSE f : f = Unfolded(f)
  BY Zenon DEF NumberOfFirst
<1>2. \E f : f = Unfolded(f)
  BY NumberExists, Zenon
<1>3. k = Unfolded(k)
  <2> HIDE DEF k, Unfolded
  <2> QED
    BY <1>1, <1>2, Zenon
<1>4. k = [m \in 0..Len(s) |-> IF m = 0 THEN 0 ELSE 10 * k[m - 1] + s[m]]
  <2> HIDE DEF k
  <2> QED
    BY <1>3, Zenon
<1> HIDE DEF k
<1>5. k[i] = IF i = 0 THEN 0 ELSE 10 * k[i - 1] + s[i]
  BY <1>4
<1> QED
  BY <1>5 DEF k

LEMMA NumberOfNothing == Number(<<>>) = 0
<1>1. Len(<<>>) = 0 /\ Len(<<>>) \in Nat /\ 0 \in 0..Len(<<>>)
  OBVIOUS
<1>2. NumberOfFirst(<<>>)[0] = 0
  BY <1>1, NumberUnfolds
<1> QED
  BY <1>1, <1>2 DEF Number

\* One digit more is ten times the number and the digit.
LEMMA NumberOfMore ==
    ASSUME NEW s \in Seq(0..9), NEW d \in 0..9
    PROVE  Number(Append(s, d)) = 10 * Number(s) + d
<1>1. PICK t : t = Append(s, d)
  OBVIOUS
<1>2. PICK l : l = Len(s)
  OBVIOUS
<1>3. /\ l \in Nat /\ Len(t) = l + 1 /\ t[l + 1] = d
      /\ \A i \in 1..l : t[i] = s[i]
  BY <1>1, <1>2
<1> DEFINE Good == {i \in Nat : NumberOfFirst(t)[i] = NumberOfFirst(s)[i]}
<1>4. 0 \in Good
  <2>1. 0 \in 0..Len(s) /\ 0 \in 0..Len(t) /\ Len(s) \in Nat /\ Len(t) \in Nat
    BY <1>2, <1>3
  <2>2. NumberOfFirst(t)[0] = 0 /\ NumberOfFirst(s)[0] = 0
    BY <2>1, NumberUnfolds
  <2> QED
    BY <2>2
<1>5. ASSUME NEW i \in Nat, i < l, i \in Good PROVE i + 1 \in Good
  <2>1. /\ i + 1 \in 0..Len(s) /\ i + 1 \in 0..Len(t) /\ Len(s) \in Nat /\ Len(t) \in Nat
        /\ i + 1 # 0 /\ (i + 1) - 1 = i /\ t[i + 1] = s[i + 1]
    BY <1>2, <1>3, <1>5
  <2>2. NumberOfFirst(t)[i + 1] = 10 * NumberOfFirst(t)[i] + t[i + 1]
    BY <2>1, NumberUnfolds
  <2>3. NumberOfFirst(s)[i + 1] = 10 * NumberOfFirst(s)[i] + s[i + 1]
    BY <2>1, NumberUnfolds
  <2> QED
    BY <1>5, <2>1, <2>2, <2>3
<1>6. l \in Good
  <2>1. \A i \in 0..l : i \in Good
    <3> HIDE DEF Good
    <3> QED
      BY <1>3, <1>4, <1>5, Reaches
  <2> QED
    BY <1>3, <2>1
<1>7. /\ l + 1 \in 0..Len(t) /\ Len(t) \in Nat /\ l + 1 # 0 /\ (l + 1) - 1 = l
  BY <1>3
<1>8. NumberOfFirst(t)[l + 1] = 10 * NumberOfFirst(t)[l] + t[l + 1]
  BY <1>7, NumberUnfolds
<1> QED
  BY <1>1, <1>2, <1>3, <1>6, <1>8 DEF Number

LEMMA NumberType ==
    ASSUME NEW s \in Seq(0..9)
    PROVE  Number(s) \in Nat
<1>1. PICK l : l = Len(s)
  OBVIOUS
<1>2. l \in Nat /\ \A i \in 1..l : s[i] \in 0..9
  BY <1>1
<1> DEFINE Good == {i \in Nat : NumberOfFirst(s)[i] \in Nat}
<1>3. 0 \in Good
  <2>1. 0 \in 0..Len(s) /\ Len(s) \in Nat
    BY <1>1, <1>2
  <2>2. NumberOfFirst(s)[0] = 0
    BY <2>1, NumberUnfolds
  <2> QED
    BY <2>2
<1>4. ASSUME NEW i \in Nat, i < l, i \in Good PROVE i + 1 \in Good
  <2>1. i + 1 \in 0..Len(s) /\ Len(s) \in Nat /\ i + 1 # 0 /\ (i + 1) - 1 = i /\ s[i + 1] \in 0..9
    BY <1>1, <1>2, <1>4
  <2>2. NumberOfFirst(s)[i + 1] = 10 * NumberOfFirst(s)[i] + s[i + 1]
    BY <2>1, NumberUnfolds
  <2>3. PICK a \in Nat : a = NumberOfFirst(s)[i]
    BY <1>4
  <2>4. PICK b \in 0..9 : b = s[i + 1]
    BY <2>1
  <2>5. 10 * a + b \in Nat
    OBVIOUS
  <2> QED
    BY <2>2, <2>3, <2>4, <2>5
<1>5. \A i \in 0..l : i \in Good
  <2> HIDE DEF Good
  <2> QED
    BY <1>2, <1>3, <1>4, Reaches
<1> QED
  BY <1>1, <1>2, <1>5 DEF Number

LEMMA DecimalExists ==
    ASSUME NEW top \in Nat
    PROVE  \E f : f = [k \in 0..top |-> IF k < 10 THEN <<k>> ELSE Append(f[k \div 10], k % 10)]
<1> DEFINE EntryOf(f, k) == IF k < 10 THEN <<k>> ELSE Append(f[k \div 10], k % 10)
           Lacks == {m \in Nat : ~\E f : f = [k \in 0..m |-> EntryOf(f, k)]}
<1>1. Lacks = {}
  <2> SUFFICES ASSUME Lacks # {} PROVE FALSE
    OBVIOUS
  <2>1. PICK m \in Lacks : \A k \in Lacks : m <= k
    BY LeastNat
  <2>2. m # 0
    <3>1. \E f : f = [k \in 0..0 |-> EntryOf(f, k)]
      <4> DEFINE g == [k \in 0..0 |-> <<k>>]
      <4>1. \A k \in 0..0 : EntryOf(g, k) = <<k>>
        OBVIOUS
      <4>2. g = [k \in 0..0 |-> EntryOf(g, k)]
        <5> HIDE DEF EntryOf
        <5> QED
          BY <4>1
      <4> HIDE DEF g, EntryOf
      <4> QED
        BY <4>2
    <3> QED
      BY <2>1, <3>1
  <2>3. m - 1 \in Nat /\ m \in Nat
    BY <2>1, <2>2
  <2>4. m - 1 \notin Lacks
    <3> HIDE DEF Lacks
    <3> QED
      BY <2>1, <2>3
  <2>5. PICK f : f = [k \in 0..(m - 1) |-> EntryOf(f, k)]
    BY <2>3, <2>4
  <2> DEFINE g == [k \in 0..m |-> IF k = m THEN EntryOf(f, m) ELSE f[k]]
  <2>6. \A k \in 0..m : g[k] = EntryOf(g, k)
    <3>1. ASSUME NEW k \in 0..m PROVE g[k] = EntryOf(g, k)
      <4>1. k >= 10 => k \div 10 \in 0..m /\ k \div 10 # m
        BY <2>3
      <4>2. k >= 10 => g[k \div 10] = f[k \div 10]
        BY <4>1
      <4>3. EntryOf(g, k) = EntryOf(f, k)
        BY <2>3, <4>2
      <4>4. k # m => g[k] = f[k] /\ f[k] = EntryOf(f, k)
        <5>1. k # m => k \in 0..(m - 1)
          BY <2>3
        <5> QED
          BY <2>5, <5>1
      <4> QED
        BY <4>3, <4>4
    <3> QED
      BY <3>1
  <2>7. g = [k \in 0..m |-> EntryOf(g, k)]
    <3> HIDE DEF EntryOf
    <3> QED
      BY <2>6
  <2> HIDE DEF g, EntryOf
  <2> QED
    BY <2>1, <2>7
<1>2. top \notin Lacks
  BY <1>1
<1> QED
  BY <1>2

LEMMA DecimalUnfolds ==
    ASSUME NEW top \in Nat, NEW k \in 0..top
    PROVE  DecimalUpTo(top)[k] =
              IF k < 10 THEN <<k>> ELSE Append(DecimalUpTo(top)[k \div 10], k % 10)
<1> DEFINE d == DecimalUpTo(top)
           Unfolded(f) == [i \in 0..top |-> IF i < 10 THEN <<i>> ELSE Append(f[i \div 10], i % 10)]
<1>1. d = CHOOSE f : f = Unfolded(f)
  BY Zenon DEF DecimalUpTo
<1>2. \E f : f = Unfolded(f)
  BY DecimalExists, Zenon
<1>3. d = Unfolded(d)
  <2> HIDE DEF d, Unfolded
  <2> QED
    BY <1>1, <1>2, Zenon
<1>4. d = [i \in 0..top |-> IF i < 10 THEN <<i>> ELSE Append(d[i \div 10], i % 10)]
  <2> HIDE DEF d
  <2> QED
    BY <1>3, Zenon
<1> HIDE DEF d
<1>5. d[k] = IF k < 10 THEN <<k>> ELSE Append(d[k \div 10], k % 10)
  BY <1>4
<1> QED
  BY <1>5 DEF d

\* PovFocus::to_wire writes digits that from_wire reads as the same number.
LEMMA DecimalIsRead ==
    ASSUME NEW top \in Nat
    PROVE  Decimal(top) \in Seq(0..9) /\ Decimal(top) # <<>> /\ Number(Decimal(top)) = top
<1>d. PICK d : d = DecimalUpTo(top)
  OBVIOUS
<1>u. \A k \in 0..top : d[k] = IF k < 10 THEN <<k>> ELSE Append(d[k \div 10], k % 10)
  BY <1>d, DecimalUnfolds
<1> DEFINE Lacks == {k \in 0..top : ~(d[k] \in Seq(0..9) /\ d[k] # <<>> /\ Number(d[k]) = k)}
<1>1. Lacks = {}
  <2> SUFFICES ASSUME Lacks # {} PROVE FALSE
    OBVIOUS
  <2>1. Lacks \in SUBSET Nat
    <3>1. Lacks \subseteq 0..top
      OBVIOUS
    <3> QED
      BY <3>1
  <2>2. PICK k \in Lacks : \A i \in Lacks : k <= i
    <3> HIDE DEF Lacks
    <3> QED
      BY <2>1, LeastNat
  <2>3. k \in 0..top /\ k \in Nat /\ ~(d[k] \in Seq(0..9) /\ d[k] # <<>> /\ Number(d[k]) = k)
    BY <2>2
  <2> HIDE DEF Lacks
  <2>4. CASE k < 10
    <3>1. d[k] = <<k>> /\ k \in 0..9
      <4>1. d[k] = IF k < 10 THEN <<k>> ELSE Append(d[k \div 10], k % 10)
        BY <1>u, <2>3, Zenon
      <4>2. k \in 0..9
        BY <2>3, <2>4
      <4> QED
        BY <2>4, <4>1, <4>2, Zenon
    <3>2. <<k>> = Append(<<>>, k) /\ <<>> \in Seq(0..9) /\ <<k>> \in Seq(0..9) /\ <<k>> # <<>>
      BY <3>1
    <3>3. Number(<<k>>) = 10 * 0 + k
      BY <3>1, <3>2, NumberOfMore, NumberOfNothing
    <3> QED
      BY <2>3, <3>1, <3>2, <3>3
  <2>5. CASE ~(k < 10)
    <3>1. PICK q \in Nat, r \in 0..9 : q = k \div 10 /\ r = k % 10 /\ k = 10 * q + r /\ q < k
      BY <2>3, <2>5
    <3>2. q \in 0..top /\ ~(k <= q)
      BY <2>3, <3>1
    <3>3. q \notin Lacks
      BY <2>2, <3>2
    <3>4. d[q] \in Seq(0..9) /\ Number(d[q]) = q
      BY <3>2, <3>3 DEF Lacks
    <3>5. d[k] = Append(d[q], r)
      BY <1>u, <2>3, <2>5, <3>1
    <3>6. Number(d[k]) = 10 * q + r
      BY <3>1, <3>4, <3>5, NumberOfMore
    <3>7. d[k] \in Seq(0..9) /\ d[k] # <<>>
      <4>1. PICK s \in Seq(0..9) : s = d[q]
        BY <3>4
      <4>2. Append(s, r) \in Seq(0..9) /\ Len(Append(s, r)) = Len(s) + 1 /\ Len(s) \in Nat
        BY <3>1
      <4>3. Append(s, r) # <<>>
        BY <4>2
      <4> QED
        BY <3>5, <4>1, <4>2, <4>3
    <3> QED
      BY <2>3, <3>1, <3>6, <3>7
  <2> QED
    BY <2>4, <2>5
<1>2. top \in 0..top
  OBVIOUS
<1> QED
  BY <1>1, <1>2, <1>d DEF Decimal

-----------------------------------------------------------------------------
(***************************************************************************)
(* The fields of commands.                                                  *)
(***************************************************************************)
AllFields == {"Focus", "Perspective", "FileName", "Path", "Frame", "TimeSeconds", "Speed",
              "bVisible", "bPaused"}

\* What is written of a field that holds v.
Written(key, v) ==
    IF key = "Focus" THEN FocusToWire(ReadField(key, v)) ELSE ReadField(key, v)

\* Validate looks at two numbers again; every other field is checked where it is
\* read.
IsRead(key, v) ==
    ReadField(key, v) # Invalid /\ (key \in {"TimeSeconds", "Speed"} => ReadField(key, v).num >= 0)

LEMMA ValueParts ==
    ASSUME NEW type, NEW text, NEW num
    PROVE  /\ Val(type, text, num).type = type /\ Val(type, text, num).text = text
           /\ Val(type, text, num).num = num
           /\ type # "invalid" => Val(type, text, num) # Invalid
<1>1. /\ Val(type, text, num).type = type /\ Val(type, text, num).text = text
      /\ Val(type, text, num).num = num /\ Invalid.type = "invalid"
  BY DEF Val, Invalid
<1> QED
  BY <1>1

LEMMA TextParts ==
    /\ \A w : Word(w).word = w /\ Word(w).digits = <<>>
    /\ \A ds : Digits(ds).word = "" /\ Digits(ds).digits = ds
    /\ NoText.word = "" /\ NoText.digits = <<>>
    /\ \A ds : ds # <<>> => Digits(ds) # NoText
    /\ Word("Ball") # NoText
<1>1. /\ \A w : Word(w).word = w /\ Word(w).digits = <<>>
      /\ \A ds : Digits(ds).word = "" /\ Digits(ds).digits = ds
  BY DEF Word, Digits
<1>2. NoText.word = "" /\ NoText.digits = <<>>
  BY <1>1 DEF NoText
<1>3. ASSUME NEW ds, ds # <<>> PROVE Digits(ds) # NoText
  <2>1. Digits(ds).digits # NoText.digits
    BY <1>1, <1>2, <1>3
  <2> QED
    BY <2>1
<1>4. Word("Ball") # NoText
  <2>1. Word("Ball").word = "Ball"
    BY <1>1, Zenon
  <2>2. "Ball" # ""
    OBVIOUS
  <2> QED
    BY <1>2, <2>1, <2>2
<1> QED
  BY <1>1, <1>2, <1>3, <1>4

LEMMA StringParts ==
    ASSUME NEW text
    PROVE  Str(text).type = "string" /\ Str(text).text = text /\ Str(text).num = 0
  BY ValueParts DEF Str

\* A JSON value by its parts.
LEMMA JsonParts ==
    ASSUME NEW v, IsJsonValue(v)
    PROVE  /\ v = Val(v.type, v.text, v.num) /\ v.type # "invalid"
           /\ v.num \in Int /\ Number(v.text.digits) \in Nat
           /\ v.type = "string" => v.num = 0
           /\ v.type # "string" => v.text = NoText
           /\ v.text.digits # <<>> => v.text.word = ""
           /\ v.text = [word |-> v.text.word, digits |-> v.text.digits]
<1>1. PICK word, ds, type, num : v = Val(type, [word |-> word, digits |-> ds], num)
  BY Zenon DEF IsJsonValue
<1>2. v.text = [word |-> word, digits |-> ds]
  BY <1>1, ValueParts
<1>3. v.text = [word |-> v.text.word, digits |-> v.text.digits]
  BY <1>2
<1>4. v = Val(v.type, v.text, v.num)
  BY <1>3, Zenon DEF IsJsonValue
<1>5. Number(v.text.digits) \in Nat
  BY NumberType DEF IsJsonValue
<1> QED
  BY <1>3, <1>4, <1>5 DEF IsJsonValue

LEMMA FocusField ==
    ASSUME NEW v, IsJsonValue(v)
    PROVE  /\ IsRead("Focus", v) <=> Takes("Focus", v)
           /\ IsRead("Focus", v) =>
                 /\ ReadField("Focus", Written("Focus", v)) = ReadField("Focus", v)
                 /\ Said(Written("Focus", v)) = Said(v)
                 /\ ~IsBlank(Written("Focus", v)) /\ ~IsBlank(v)
<1>1. \A u : ReadField("Focus", u) = FocusFromWire(u)
  BY DEF ReadField
<1>2. IsRead("Focus", v) <=> FocusFromWire(v) # Invalid
  BY <1>1 DEF IsRead
<1>3. Takes("Focus", v) <=>
        /\ v.type = "string"
        /\ v.text.word = "Ball" \/ (v.text.digits # <<>> /\ Number(v.text.digits) <= MaxShortcut)
  BY DEF Takes
<1>4. CASE v = Str(Word("Ball"))
  <2>1. v.type = "string" /\ v.text = Word("Ball") /\ v.num = 0
    BY <1>4, StringParts
  <2>2. FocusFromWire(v) = Val("ball", NoText, 0) /\ FocusFromWire(v) # Invalid
    BY <1>4, ValueParts DEF FocusFromWire
  <2>3. FocusToWire(FocusFromWire(v)) = v
    BY <1>4, <2>2, ValueParts DEF FocusToWire
  <2>4. Written("Focus", v) = v
    BY <1>1, <2>3 DEF Written
  <2>5. ~IsBlank(v) /\ v.text.word = "Ball"
    BY <2>1, TextParts DEF IsBlank
  <2> QED
    BY <1>2, <1>3, <2>1, <2>2, <2>4, <2>5
<1>5. CASE /\ v # Str(Word("Ball")) /\ v.type = "string" /\ v.text.digits # <<>>
           /\ Number(v.text.digits) <= MaxShortcut
  <2>1. PICK n \in Nat : n = Number(v.text.digits)
    BY JsonParts
  <2>2. FocusFromWire(v) = Val("player", NoText, n) /\ FocusFromWire(v) # Invalid
    BY <1>5, <2>1, ValueParts DEF FocusFromWire
  <2>3. PICK w : w = Str(Digits(Decimal(n)))
    OBVIOUS
  <2>4. Written("Focus", v) = w
    BY <1>1, <2>2, <2>3, ValueParts DEF Written, FocusToWire
  <2>5. Decimal(n) # <<>> /\ Number(Decimal(n)) = n
    BY DecimalIsRead
  <2>6. /\ w.type = "string" /\ w.num = 0 /\ w.text.digits = Decimal(n) /\ w.text.word = ""
        /\ w.text # NoText
    <3>1. w.type = "string" /\ w.num = 0 /\ w.text = Digits(Decimal(n))
      BY <2>3, StringParts
    <3>2. Digits(Decimal(n)).word = "" /\ Digits(Decimal(n)).digits = Decimal(n)
      BY TextParts, Zenon
    <3>3. Digits(Decimal(n)) # NoText
      BY <2>5, TextParts, Zenon
    <3> QED
      BY <3>1, <3>2, <3>3
  <2>7. w # Str(Word("Ball"))
    <3>1. Str(Word("Ball")).text.digits = <<>>
      <4>1. Str(Word("Ball")).text = Word("Ball")
        BY StringParts
      <4>2. Word("Ball").digits = <<>>
        BY TextParts, Zenon
      <4> QED
        BY <4>1, <4>2
    <3> QED
      BY <2>5, <2>6, <3>1
  <2>8. FocusFromWire(w) = Val("player", NoText, n)
    BY <1>5, <2>1, <2>5, <2>6, <2>7 DEF FocusFromWire
  <2>9. v.text.word = "" /\ v.num = 0 /\ v.text # NoText
    BY <1>5, JsonParts, TextParts
  <2>10. Said(w) = Said(v)
    BY <2>1, <2>5, <2>6, <2>9 DEF Said
  <2> QED
    BY <1>1, <1>2, <1>3, <1>5, <2>2, <2>4, <2>6, <2>8, <2>9, <2>10 DEF IsBlank
<1>6. CASE /\ v # Str(Word("Ball"))
           /\ ~(v.type = "string" /\ v.text.digits # <<>> /\ Number(v.text.digits) <= MaxShortcut)
  <2>1. FocusFromWire(v) = Invalid
    BY <1>6, Zenon DEF FocusFromWire
  <2>2. ASSUME v.type = "string", v.text.word = "Ball" PROVE FALSE
    <3>1. v.text.digits = <<>> /\ v.num = 0
      BY <2>2, JsonParts
    <3>2. v.text = [word |-> "Ball", digits |-> <<>>]
      BY <2>2, <3>1, JsonParts
    <3>3. v = Str(Word("Ball"))
      BY <2>2, <3>1, <3>2, JsonParts DEF Str, Word
    <3> QED
      BY <1>6, <3>3
  <2> QED
    BY <1>2, <1>3, <1>6, <2>1, <2>2
<1> QED
  BY <1>4, <1>5, <1>6

LEMMA OtherField ==
    ASSUME NEW v, IsJsonValue(v), NEW key \in AllFields \ {"Focus"}
    PROVE  /\ key \notin {"FileName", "Path"} => (IsRead(key, v) <=> Takes(key, v))
           /\ key \in {"FileName", "Path"} => (IsRead(key, v) <=> v.type = "string")
           /\ IsRead(key, v) =>
                 /\ ReadField(key, Written(key, v)) = ReadField(key, v)
                 /\ Said(Written(key, v)) = Said(v)
                 /\ IsBlank(Written(key, v)) <=> IsBlank(v)
                 /\ IsBlank(v) => key \in {"FileName", "Path"}
<1>1. v # Invalid /\ v.type # "invalid"
  <2>1. v.type # "invalid" /\ Invalid.type = "invalid"
    BY JsonParts, ValueParts DEF Invalid
  <2> QED
    BY <2>1
<1>2. \A u : Written(key, u) = ReadField(key, u)
  BY DEF Written
<1>3. CASE key \in {"Perspective", "FileName", "Path", "bVisible", "bPaused", "Frame"}
  <2>1. ReadField(key, v) \in {v, Invalid}
    BY <1>3 DEF ReadField
  <2>2. IsRead(key, v) <=> ReadField(key, v) = v
    BY <1>1, <1>3, <2>1 DEF IsRead
  <2>3. CASE key = "Perspective"
    <3>1. ReadField(key, v) = v <=> v.type = "string" /\ v.text.word \in Perspectives
      BY <1>1, <2>3 DEF ReadField
    <3>2. v.text.word \in Perspectives => ~IsBlank(v)
      <4>1. "" \notin Perspectives
        BY DEF Perspectives
      <4> QED
        BY <4>1, TextParts DEF IsBlank
    <3> QED
      BY <1>2, <2>2, <2>3, <3>1, <3>2 DEF Takes
  <2>4. CASE key \in {"FileName", "Path"}
    <3>1. ReadField(key, v) = v <=> v.type = "string"
      BY <1>1, <2>4 DEF ReadField
    <3> QED
      BY <1>2, <2>2, <2>4, <3>1
  <2>5. CASE key \in {"bVisible", "bPaused"}
    <3>1. ReadField(key, v) = v <=> v.type = "bool"
      BY <1>1, <2>5 DEF ReadField
    <3> QED
      BY <1>2, <2>2, <2>5, <3>1 DEF Takes, IsBlank
  <2>6. CASE key = "Frame"
    <3>1. ReadField(key, v) = v <=> v.type = "integer" /\ v.num >= 0
      BY <1>1, <2>6 DEF ReadField
    <3> QED
      BY <1>2, <2>2, <2>6, <3>1 DEF Takes, IsBlank
  <2> QED
    BY <1>3, <2>3, <2>4, <2>5, <2>6
<1>4. CASE key \in {"TimeSeconds", "Speed"}
  <2>1. PICK w : w = Real(v.num)
    OBVIOUS
  <2>2. w.type = "float" /\ w.text = NoText /\ w.num = v.num /\ w # Invalid
    BY <2>1, ValueParts DEF Real
  <2>3. \A u : ReadField(key, u) =
                 IF u.type \in {"integer", "float"} THEN Real(u.num) ELSE Invalid
    BY <1>4 DEF ReadField
  <2>4. IsRead(key, v) <=> Takes(key, v)
    <3>1. Takes(key, v) <=> v.type \in {"integer", "float"} /\ v.num >= 0
      BY <1>4 DEF Takes
    <3>2. v.type \in {"integer", "float"} => ReadField(key, v) = w
      BY <2>1, <2>3
    <3>3. v.type \notin {"integer", "float"} => ReadField(key, v) = Invalid
      BY <2>3
    <3> QED
      BY <1>4, <2>2, <3>1, <3>2, <3>3 DEF IsRead
  <2>5. ASSUME IsRead(key, v)
        PROVE  /\ ReadField(key, Written(key, v)) = ReadField(key, v)
               /\ Said(Written(key, v)) = Said(v) /\ ~IsBlank(Written(key, v)) /\ ~IsBlank(v)
    <3>1. v.type \in {"integer", "float"} /\ Written(key, v) = w /\ ReadField(key, v) = w
      BY <1>2, <2>1, <2>3, <2>5 DEF IsRead
    <3>2. ReadField(key, w) = Real(w.num)
      BY <2>2, <2>3
    <3>3. v.text = NoText
      BY <3>1, JsonParts
    <3> QED
      BY <2>1, <2>2, <3>1, <3>2, <3>3 DEF Said, IsBlank
  <2> QED
    BY <1>4, <2>4, <2>5
<1> QED
  BY <1>3, <1>4 DEF AllFields

-----------------------------------------------------------------------------
(***************************************************************************)
(* Commands.                                                                *)
(***************************************************************************)
LEMMA FieldsOfCommands ==
    /\ DOMAIN Fields = {"ChangePOV", "LoadReplay", "SeekReplay", "SetGameSpeed",
                        "SetHUDVisibility", "SetMatchPaused"}
    /\ Fields["ChangePOV"] = {"Focus", "Perspective"} /\ Fields["LoadReplay"] = {"FileName", "Path"}
    /\ Fields["SeekReplay"] = {"Frame", "TimeSeconds"} /\ Fields["SetGameSpeed"] = {"Speed"}
    /\ Fields["SetHUDVisibility"] = {"bVisible"} /\ Fields["SetMatchPaused"] = {"bPaused"}
  BY DEF Fields

LEMMA FieldsAreFields ==
    ASSUME NEW name \in DOMAIN Fields
    PROVE  /\ Fields[name] \subseteq AllFields
           /\ name = "LoadReplay" => Fields[name] = {"FileName", "Path"}
           /\ name # "LoadReplay" => Fields[name] \cap {"FileName", "Path"} = {}
  BY FieldsOfCommands DEF AllFields

\* What RocketLeagueCommand::validate asks of a command with at most its fields.
LEMMA ValidateMeans ==
    ASSUME NEW c, c.command \in DOMAIN Fields, DOMAIN c.data \subseteq Fields[c.command]
    PROVE  Validate(c) <=>
             IF c.command = "LoadReplay"
             THEN \E key \in DOMAIN c.data : c.data[key].text # NoText
             ELSE /\ DOMAIN c.data # {}
                  /\ \A key \in DOMAIN c.data :
                        key \in {"TimeSeconds", "Speed"} => c.data[key].num >= 0
<1>1. PICK K : K = DOMAIN c.data
  OBVIOUS
<1>2. PICK d : d = c.data
  OBVIOUS
<1>3. CASE c.command = "LoadReplay"
  BY <1>3 DEF Validate
<1>4. CASE c.command = "SeekReplay"
  <2>1. K \subseteq {"Frame", "TimeSeconds"}
    BY <1>1, <1>4, FieldsOfCommands
  <2> QED
    BY <1>1, <1>2, <1>4, <2>1 DEF Validate
<1>5. CASE c.command = "SetGameSpeed"
  <2>1. K \subseteq {"Speed"}
    BY <1>1, <1>5, FieldsOfCommands
  <2> QED
    BY <1>1, <1>2, <1>5, <2>1 DEF Validate
<1>6. CASE c.command \in {"ChangePOV", "SetHUDVisibility", "SetMatchPaused"}
  <2>1. K \subseteq {"Focus", "Perspective", "bVisible", "bPaused"}
    BY <1>1, <1>6, FieldsOfCommands
  <2> QED
    BY <1>1, <1>2, <1>6, <2>1 DEF Validate
<1> QED
  BY <1>3, <1>4, <1>5, <1>6, FieldsOfCommands

\* What from_value reads of JSON with the name of a command.
LEMMA ParsedParts ==
    ASSUME NEW json, IsJsonCommand(json), json.command \in DOMAIN Fields
    PROVE  /\ Parsed(json).command = json.command
           /\ DOMAIN Parsed(json).data = DOMAIN json.data \cap Fields[json.command]
           /\ \A key \in DOMAIN json.data \cap Fields[json.command] :
                 /\ Parsed(json).data[key] = ReadField(key, json.data[key])
                 /\ IsJsonValue(json.data[key]) /\ key \in AllFields
<1>1. PICK f : f = [key \in DOMAIN json.data \cap Fields[json.command] |->
                      ReadField(key, json.data[key])]
  OBVIOUS
<1>2. Parsed(json) = [command |-> json.command, data |-> f]
  BY <1>1 DEF Parsed
<1>3. Parsed(json).command = json.command /\ Parsed(json).data = f
  BY <1>2
<1> QED
  BY <1>1, <1>3, FieldsAreFields DEF IsJsonCommand

\* What one field adds to a command: what the command says in it, and whether
\* both the library and the game take it.
LEMMA FieldMeans ==
    ASSUME NEW v, IsJsonValue(v), NEW key \in AllFields
    PROVE  /\ key \notin {"FileName", "Path"} =>
                 /\ IsRead(key, v) <=> Takes(key, v)
                 /\ IsRead(key, v) => ~IsBlank(v)
           /\ key \in {"FileName", "Path"} =>
                 /\ IsRead(key, v) <=> Takes(key, v)
                 /\ IsRead(key, v) => ReadField(key, v) = v /\ v.type = "string"
           /\ IsRead(key, v) =>
                 /\ ReadField(key, Written(key, v)) = ReadField(key, v)
                 /\ Said(Written(key, v)) = Said(v)
                 /\ IsBlank(Written(key, v)) <=> IsBlank(v)
<1>1. CASE key = "Focus"
  BY <1>1, FocusField
<1>2. CASE key # "Focus" /\ key \notin {"FileName", "Path"}
  BY <1>2, OtherField
<1>3. CASE key \in {"FileName", "Path"}
  <2>1. Takes(key, v) <=> v.type = "string"
    BY <1>3 DEF Takes
  <2>2. IsRead(key, v) => ReadField(key, v) = v
    BY <1>3 DEF ReadField, IsRead
  <2>3. key \in AllFields \ {"Focus"}
    BY <1>3
  <2> QED
    BY <1>3, <2>1, <2>2, <2>3, OtherField
<1> QED
  BY <1>1, <1>2, <1>3

LEMMA AcceptedMeans ==
    ASSUME NEW json, IsJsonCommand(json), json.command \in DOMAIN Fields
    PROVE  LET K == DOMAIN json.data \cap Fields[json.command]
           IN  Accepted(json) <=>
                  /\ \A key \in K : IsRead(key, json.data[key])
                  /\ \E key \in K : ~IsBlank(json.data[key])
<1> DEFINE K == DOMAIN json.data \cap Fields[json.command]
<1>1. PICK p : p = Parsed(json)
  OBVIOUS
<1>2. PICK name : name = json.command
  OBVIOUS
<1>3. PICK d : d = json.data
  OBVIOUS
<1>4. /\ p.command = name /\ DOMAIN p.data = K /\ name \in DOMAIN Fields
      /\ \A key \in K : /\ p.data[key] = ReadField(key, d[key])
                        /\ IsJsonValue(d[key]) /\ key \in AllFields
  BY <1>1, <1>2, <1>3, ParsedParts
<1>5. K \subseteq Fields[name]
  BY <1>2
<1>6. Accepted(json) <=> (\A key \in K : p.data[key] # Invalid) /\ Validate(p)
  BY <1>1, <1>2, <1>4 DEF Accepted
<1> HIDE DEF K
<1>7. CASE name = "LoadReplay"
  <2>1. Validate(p) <=> \E key \in K : p.data[key].text # NoText
    BY <1>4, <1>5, <1>7, ValidateMeans
  <2>2. K \subseteq {"FileName", "Path"}
    BY <1>4, <1>5, <1>7, FieldsAreFields
  <2>3. \A key \in K : p.data[key] # Invalid <=> IsRead(key, d[key])
    BY <1>4, <2>2 DEF IsRead
  <2>4. \A key \in K : IsRead(key, d[key]) => p.data[key] = d[key] /\ d[key].type = "string"
    BY <1>4, <2>2, FieldMeans
  <2> QED
    BY <1>3, <1>6, <2>1, <2>3, <2>4 DEF IsBlank, K
<1>8. CASE name # "LoadReplay"
  <2>1. Validate(p) <=>
          K # {} /\ \A key \in K : key \in {"TimeSeconds", "Speed"} => p.data[key].num >= 0
    BY <1>4, <1>5, <1>8, ValidateMeans
  <2>2. K \cap {"FileName", "Path"} = {}
    BY <1>4, <1>5, <1>8, FieldsAreFields
  <2>3. (\A key \in K : p.data[key] # Invalid) /\ Validate(p)
           <=> K # {} /\ \A key \in K : IsRead(key, d[key])
    BY <1>4, <2>1 DEF IsRead
  <2>4. \A key \in K : IsRead(key, d[key]) => ~IsBlank(d[key])
    BY <1>4, <2>2, FieldMeans
  <2> QED
    BY <1>3, <1>6, <2>3, <2>4 DEF K
<1> QED
  BY <1>7, <1>8 DEF K

\* The library takes a command exactly when the game does.
LEMMA AcceptedIsWellFormed ==
    ASSUME NEW json, IsJsonCommand(json)
    PROVE  Accepted(json) <=> WellFormed(json)
<1>1. CASE json.command \notin DOMAIN Fields
  BY <1>1 DEF Accepted, WellFormed
<1>2. CASE json.command \in DOMAIN Fields
  <2> DEFINE K == DOMAIN json.data \cap Fields[json.command]
  <2>1. \A key \in K : IsRead(key, json.data[key]) <=> Takes(key, json.data[key])
    BY <1>2, ParsedParts, FieldMeans
  <2>2. DOMAIN Says(json) = {key \in K : ~IsBlank(json.data[key])}
    BY DEF Says
  <2>3. DOMAIN Says(json) # {} <=> \E key \in K : ~IsBlank(json.data[key])
    BY <2>2
  <2> QED
    BY <1>2, <2>1, <2>3, AcceptedMeans DEF WellFormed
<1> QED
  BY <1>1, <1>2

\* What is written to the socket: the fields that say something, as to_value
\* writes them.
LEMMA WireParts ==
    ASSUME NEW json, IsJsonCommand(json), Accepted(json)
    PROVE  LET K    == DOMAIN json.data \cap Fields[json.command]
               wire == ToValue(Parsed(json))
           IN  /\ wire.command = json.command
               /\ DOMAIN wire.data = {key \in K : ~IsBlank(json.data[key])}
               /\ \A key \in DOMAIN wire.data : wire.data[key] = Written(key, json.data[key])
<1> DEFINE K == DOMAIN json.data \cap Fields[json.command]
<1>1. PICK p : p = Parsed(json)
  OBVIOUS
<1>2. PICK d : d = json.data
  OBVIOUS
<1>3. json.command \in DOMAIN Fields
  BY DEF Accepted
<1>4. /\ p.command = json.command /\ DOMAIN p.data = K
      /\ \A key \in K : /\ p.data[key] = ReadField(key, d[key])
                        /\ IsJsonValue(d[key]) /\ key \in AllFields
  BY <1>1, <1>2, <1>3, ParsedParts
<1>5. \A key \in K : IsRead(key, d[key])
  BY <1>2, <1>3, AcceptedMeans
<1> HIDE DEF K
<1>6. ASSUME NEW key \in K PROVE WritesField(key, p.data[key]) <=> ~IsBlank(d[key])
  <2>1. CASE key \in {"FileName", "Path"}
    <3>1. p.data[key] = d[key] /\ d[key].type = "string"
      BY <1>4, <1>5, <2>1, FieldMeans
    <3> QED
      BY <2>1, <3>1 DEF WritesField, IsBlank
  <2>2. CASE key \notin {"FileName", "Path"}
    <3>1. ~IsBlank(d[key])
      BY <1>4, <1>5, <2>2, FieldMeans
    <3> QED
      BY <2>2, <3>1 DEF WritesField
  <2> QED
    BY <2>1, <2>2
<1>7. PICK S : S = {key \in K : ~IsBlank(d[key])}
  OBVIOUS
<1>8. {k \in DOMAIN p.data : WritesField(k, p.data[k])} = S
  BY <1>4, <1>6, <1>7
<1>9. PICK f : f = [key \in S |-> IF key = "Focus" THEN FocusToWire(p.data[key]) ELSE p.data[key]]
  OBVIOUS
<1>10. ToValue(p) = [command |-> p.command, data |-> f]
  BY <1>8, <1>9 DEF ToValue
<1>11. ToValue(p).command = json.command /\ ToValue(p).data = f
  BY <1>4, <1>10
<1>12. DOMAIN f = S /\ \A key \in S : f[key] = Written(key, d[key])
  <2>1. ASSUME NEW key \in S PROVE f[key] = Written(key, d[key])
    <3>1. p.data[key] = ReadField(key, d[key])
      BY <1>4, <1>7
    <3>2. f[key] = IF key = "Focus" THEN FocusToWire(p.data[key]) ELSE p.data[key]
      BY <1>9
    <3> QED
      BY <3>1, <3>2 DEF Written
  <2> QED
    BY <1>9, <2>1
<1> QED
  BY <1>1, <1>2, <1>7, <1>11, <1>12 DEF K

LEMMA SentKeepsMeaning ==
    ASSUME NEW json, IsJsonCommand(json), Accepted(json)
    PROVE  LET wire == Sent(json).wire
           IN  /\ Sent(json).asked = json /\ wire.command = json.command
               /\ Accepted(wire) /\ Says(wire) = Says(json)
               /\ DOMAIN wire.data = DOMAIN Says(wire)
<1> DEFINE K == DOMAIN json.data \cap Fields[json.command]
<1>1. PICK w : w = ToValue(Parsed(json))
  OBVIOUS
<1>2. Sent(json).asked = json /\ Sent(json).wire = w
  BY <1>1 DEF Sent
<1>3. PICK name : name = json.command
  OBVIOUS
<1>4. PICK d : d = json.data
  OBVIOUS
<1>5. PICK e : e = w.data
  OBVIOUS
<1>6. name \in DOMAIN Fields
  BY <1>3 DEF Accepted
<1>7. PICK S : S = {key \in K : ~IsBlank(d[key])}
  OBVIOUS
<1>8. w.command = name /\ DOMAIN e = S /\ \A key \in S : e[key] = Written(key, d[key])
  BY <1>1, <1>3, <1>4, <1>5, <1>7, WireParts
<1>9. /\ \A key \in K : IsRead(key, d[key]) /\ IsJsonValue(d[key]) /\ key \in AllFields
      /\ S # {} /\ S \subseteq K /\ K \subseteq Fields[name]
  BY <1>3, <1>4, <1>6, <1>7, AcceptedMeans, ParsedParts
<1> HIDE DEF K
<1>10. \A key \in S : /\ ReadField(key, e[key]) = ReadField(key, d[key])
                      /\ Said(e[key]) = Said(d[key]) /\ ~IsBlank(e[key])
  BY <1>7, <1>8, <1>9, FieldMeans
<1>11. Says(w) = Says(json)
  <2>1. {key \in DOMAIN e \cap Fields[name] : ~IsBlank(e[key])} = S
    BY <1>8, <1>9, <1>10
  <2>2. Says(w) = [key \in S |-> Said(e[key])]
    BY <1>5, <1>8, <2>1 DEF Says
  <2>3. Says(json) = [key \in S |-> Said(d[key])]
    BY <1>3, <1>4, <1>7 DEF Says, K
  <2> QED
    BY <1>10, <2>2, <2>3
<1>12. DOMAIN Says(w) = S
  BY <1>3, <1>4, <1>7, <1>11 DEF Says, K
<1>13. Accepted(w)
  <2>1. PICK q : q = Parsed(w)
    OBVIOUS
  <2>2. PICK f : f = [key \in DOMAIN e \cap Fields[name] |-> ReadField(key, e[key])]
    OBVIOUS
  <2>3. q = [command |-> name, data |-> f]
    BY <1>5, <1>8, <2>1, <2>2 DEF Parsed
  <2>4. q.command = name /\ q.data = f /\ DOMAIN f = S
    BY <1>8, <1>9, <2>2, <2>3
  <2>5. \A key \in S : f[key] = ReadField(key, d[key])
    BY <1>8, <1>9, <1>10, <2>2
  <2>6. \A key \in S : f[key] # Invalid
                       /\ (key \in {"TimeSeconds", "Speed"} => f[key].num >= 0)
    BY <1>9, <2>5 DEF IsRead
  <2>7. Validate(q)
    <3>1. q.command \in DOMAIN Fields /\ DOMAIN q.data \subseteq Fields[q.command]
      BY <1>6, <1>9, <2>4
    <3>2. CASE name = "LoadReplay"
      <4>1. PICK key \in S : key \in {"FileName", "Path"}
        BY <1>6, <1>9, <3>2, FieldsAreFields
      <4>2. f[key] = d[key] /\ d[key].type = "string" /\ ~IsBlank(d[key])
        BY <1>7, <1>9, <2>5, <4>1, FieldMeans
      <4>3. f[key].text # NoText
        BY <4>2 DEF IsBlank
      <4> QED
        BY <2>4, <3>1, <3>2, <4>3, ValidateMeans
    <3>3. CASE name # "LoadReplay"
      BY <1>9, <2>4, <2>6, <3>1, <3>3, ValidateMeans
    <3> QED
      BY <3>2, <3>3
  <2> QED
    BY <1>6, <1>8, <2>1, <2>4, <2>6, <2>7 DEF Accepted
<1> QED
  BY <1>2, <1>3, <1>5, <1>8, <1>11, <1>12, <1>13

-----------------------------------------------------------------------------
(***************************************************************************)
(* What the steps do to the feed.                                           *)
(***************************************************************************)
LEMMA StepCases ==
    ASSUME [Next]_vars
    PROVE  \/ GameStep
           \/ /\ ~IsPython /\ UNCHANGED pythonVars
              /\ \/ Console!Starts \/ Console!ConnectSucceeds \/ Console!ReconnectSucceeds
                 \/ Console!AttemptFails \/ Console!ReadsMessage \/ Console!ReadsEnd
                 \/ Console!RefreshElapses \/ Console!SendsCommand \/ Console!DeadlinePasses
                 \/ Console!ReadsLine \/ Console!InputEnds
           \/ /\ IsPython /\ UNCHANGED consoleVars
              /\ \/ Python!Connects \/ Python!BeginsRead \/ Python!ReadsMessage
                 \/ Python!ReadsEnd \/ Python!Closes
                 \/ \E json \in PyCommand : Python!SendsCommand(json)
           \/ UNCHANGED vars
  BY Zenon DEF Next, ConsoleStep, PythonStep, Console!Next, Console!AttemptEnds, Console!Reads,
         Console!Steps, Python!Next, Python!Reads

\* The command line stays, and so do the console program's variables while a
\* Python program runs.
LEMMA CliStays == [Next]_vars => cli' = cli
<1> SUFFICES ASSUME [Next]_vars PROVE cli' = cli
  OBVIOUS
<1>1. CASE GameStep
  BY <1>1, Zenon DEF GameStep
<1>2. CASE \/ Console!Starts \/ Console!ConnectSucceeds \/ Console!ReconnectSucceeds
           \/ Console!AttemptFails \/ Console!ReadsMessage \/ Console!ReadsEnd
           \/ Console!RefreshElapses \/ Console!SendsCommand \/ Console!DeadlinePasses
           \/ Console!ReadsLine \/ Console!InputEnds
  BY <1>2, Zenon DEF Console!Starts, Console!ConnectSucceeds, Console!ReconnectSucceeds,
     Console!AttemptFails, Console!ReadsMessage, Console!ReadsEnd, Console!RefreshElapses,
     Console!SendsCommand, Console!DeadlinePasses, Console!ReadsLine, Console!InputEnds
<1>3. CASE \/ Python!Connects \/ Python!BeginsRead \/ Python!ReadsMessage
           \/ Python!ReadsEnd \/ Python!Closes
           \/ \E json \in PyCommand : Python!SendsCommand(json)
  BY <1>3, Zenon DEF Python!Connects, Python!BeginsRead, Python!ReadsMessage, Python!ReadsEnd,
     Python!Closes, Python!SendsCommand
<1>4. CASE UNCHANGED vars
  BY <1>4, Zenon DEF vars
<1> QED
  BY <1>1, <1>2, <1>3, <1>4, StepCases, Zenon

FeedStays  == UNCHANGED <<line, ending, pending, handed, answer>>
FeedRenews == /\ line' = line + 1 /\ ending' = "open" /\ pending' = <<>> /\ answer' = "none"
              /\ handed' = handed
FeedAnswers == /\ UNCHANGED <<line, ending, pending, handed>>
               /\ pending = <<>> /\ ending # "open" /\ answer' \in {"closed", "error"}
FeedHands == /\ pending # <<>> /\ pending' = Tail(pending) /\ handed' = Append(handed, Head(pending))
             /\ UNCHANGED <<line, ending>>

LEMMA ConsoleFeed ==
    /\ Console!ConnectSucceeds \/ Console!ReconnectSucceeds => FeedRenews
    /\ Console!ReadsMessage => FeedHands
    /\ Console!ReadsEnd => FeedAnswers
    /\ (\/ Console!Starts \/ Console!AttemptFails \/ Console!RefreshElapses
        \/ Console!SendsCommand \/ Console!DeadlinePasses \/ Console!ReadsLine
        \/ Console!InputEnds)
          => FeedStays
<1>1. Console!ConnectSucceeds \/ Console!ReconnectSucceeds => FeedRenews
  BY DEF Console!ConnectSucceeds, Console!ReconnectSucceeds, Console!Feed!Renew, FeedRenews
<1>2. Console!ReadsMessage => FeedHands
  BY DEF Console!ReadsMessage, Console!Feed!HandOver, FeedHands
<1>3. Console!ReadsEnd => FeedAnswers
  BY DEF Console!ReadsEnd, Console!Feed!AnswerClosed, Console!Feed!AnswerError, FeedAnswers
<1>4. (\/ Console!Starts \/ Console!AttemptFails \/ Console!RefreshElapses
       \/ Console!SendsCommand \/ Console!DeadlinePasses \/ Console!ReadsLine
       \/ Console!InputEnds)
         => Console!feedVars' = Console!feedVars
  BY Zenon DEF Console!Starts, Console!AttemptFails, Console!RefreshElapses, Console!SendsCommand,
     Console!DeadlinePasses, Console!ReadsLine, Console!InputEnds
<1>5. Console!feedVars' = Console!feedVars => FeedStays
  BY DEF Console!feedVars, FeedStays
<1> QED
  BY <1>1, <1>2, <1>3, <1>4, <1>5, Zenon

LEMMA PythonFeed ==
    /\ Python!Connects => FeedRenews \/ FeedStays
    /\ Python!BeginsRead => FeedStays \/ (FeedRenews /\ ~holds)
    /\ Python!ReadsMessage => FeedHands
    /\ Python!ReadsEnd => FeedAnswers
    /\ \A json : Python!SendsCommand(json) => FeedStays \/ (FeedRenews /\ ~holds)
    /\ Python!Closes => FeedStays
<1> USE DEF Python!feedVars, FeedStays, FeedRenews, FeedHands, FeedAnswers
<1>1. Python!Connected => FeedRenews
  BY DEF Python!Connected, Python!Feed!Renew
<1>2. Python!NotConnected => FeedStays
  BY DEF Python!NotConnected
<1>3. Python!EnsureConnected => FeedStays \/ (FeedRenews /\ ~holds)
  BY <1>1 DEF Python!EnsureConnected
<1>4. Python!Closes => FeedStays
  BY DEF Python!Closes
<1>5. Python!ReadsMessage => FeedHands
  BY DEF Python!ReadsMessage, Python!Feed!Skip, Python!Feed!HandOver
<1>6. Python!ReadsEnd => FeedAnswers
  BY DEF Python!ReadsEnd, Python!Feed!AnswerClosed, Python!Feed!AnswerError
<1> HIDE DEF Python!feedVars, FeedStays, FeedRenews, FeedHands, FeedAnswers
<1>7. Python!Connects => FeedRenews \/ FeedStays
  BY <1>1, <1>2, Zenon DEF Python!Connects
<1>8. Python!BeginsRead => FeedStays \/ (FeedRenews /\ ~holds)
  BY <1>2, <1>3, Zenon DEF Python!BeginsRead
<1>9. ASSUME NEW json, Python!SendsCommand(json) PROVE FeedStays \/ (FeedRenews /\ ~holds)
  BY <1>2, <1>3, <1>9, Zenon DEF Python!SendsCommand
<1> QED
  BY <1>4, <1>5, <1>6, <1>7, <1>8, <1>9, Zenon

\* The game writes on an open connection, and takes away what was not read.
FeedMoves ==
    /\ line > 0 /\ UNCHANGED <<line, handed, answer>>
    /\ \/ /\ ending = "open" /\ ending' = "open"
          /\ \E m \in Message : pending' = Append(pending, m)
       \/ /\ ending = "open" /\ ending' \in {"closed", "bad"} /\ pending' = pending
       \/ /\ ending' = "reset" /\ \E n \in 0..Len(pending) : pending' = SubSeq(pending, 1, n)

LEMMA GameFeed == GameStep => FeedMoves /\ UNCHANGED <<printed, sent, consoleVars, pythonVars>>
  BY DEF GameStep, Console!Feed!Write, Console!Feed!Ends, Console!Feed!Resets, FeedMoves

-----------------------------------------------------------------------------
(***************************************************************************)
(* What is shown, beside what was asked for.                                *)
(***************************************************************************)
ShownOf(s) == [i \in DOMAIN s |-> ParseStatsEvent(s[i])]
MeantOf(s) == [i \in DOMAIN s |-> s[i].meant]

LEMMA OneLonger ==
    ASSUME NEW B, NEW f \in Seq(B), NEW y \in B, NEW n \in Nat, Len(f) = n,
           NEW g \in [1..(n + 1) -> B],
           \A i \in 1..n : g[i] = f[i], g[n + 1] = y
    PROVE  g = Append(f, y)
<1>1. PICK h : h = Append(f, y)
  OBVIOUS
<1>2. /\ h \in Seq(B) /\ Len(h) = n + 1 /\ h[n + 1] = y
      /\ \A i \in 1..n : h[i] = f[i]
  BY <1>1, AppendProperties, LenProperties
<1>3. h = [i \in 1..(n + 1) |-> h[i]]
  BY <1>2, LenProperties
<1>4. ASSUME NEW i \in 1..(n + 1) PROVE g[i] = h[i]
  <2>1. i \in 1..n \/ i = n + 1
    OBVIOUS
  <2> QED
    BY <1>2, <2>1
<1>5. g = h
  BY <1>3, <1>4
<1> QED
  BY <1>1, <1>5

LEMMA ShownOfAppend ==
    ASSUME NEW A, NEW s \in Seq(A), NEW x \in A
    PROVE  /\ ShownOf(s) \in Seq({ParseStatsEvent(y) : y \in A})
           /\ ShownOf(Append(s, x)) = Append(ShownOf(s), ParseStatsEvent(x))
<1>1. PICK n : n = Len(s)
  OBVIOUS
<1>2. PICK t : t = Append(s, x)
  OBVIOUS
<1>3. PICK B : B = {ParseStatsEvent(y) : y \in A}
  OBVIOUS
<1>4. PICK f : f = ShownOf(s)
  OBVIOUS
<1>5. PICK g : g = ShownOf(t)
  OBVIOUS
<1>6. /\ n \in Nat /\ DOMAIN s = 1..n /\ DOMAIN t = 1..(n + 1) /\ t[n + 1] = x
      /\ \A i \in 1..n : t[i] = s[i] /\ s[i] \in A
  BY <1>1, <1>2, AppendProperties, LenProperties, ElementOfSeq
<1>7. \A i \in 1..n : f[i] = ParseStatsEvent(s[i]) /\ f[i] \in B
  BY <1>3, <1>4, <1>6 DEF ShownOf
<1>8. f \in [1..n -> B]
  <2>1. f = [i \in 1..n |-> ParseStatsEvent(s[i])]
    BY <1>4, <1>6 DEF ShownOf
  <2>2. f = [i \in 1..n |-> f[i]]
    BY <2>1
  <2> QED
    BY <1>7, <2>2
<1>9. f \in Seq(B) /\ Len(f) = n
  <2>1. f \in Seq(B)
    BY <1>6, <1>8, SeqDef
  <2>2. DOMAIN f = 1..n /\ DOMAIN f = 1..Len(f) /\ Len(f) \in Nat
    BY <1>8, <2>1, LenProperties
  <2> QED
    BY <1>6, <2>1, <2>2
<1>10. ASSUME NEW C, \A i \in 1..(n + 1) : g[i] \in C PROVE g \in [1..(n + 1) -> C]
  <2>1. g = [i \in 1..(n + 1) |-> ParseStatsEvent(t[i])]
    BY <1>5, <1>6 DEF ShownOf
  <2>2. g = [i \in 1..(n + 1) |-> g[i]]
    BY <2>1
  <2> QED
    BY <1>10, <2>2
<1>11. \A i \in 1..(n + 1) : g[i] = ParseStatsEvent(t[i])
  BY <1>5, <1>6 DEF ShownOf
<1>12. g[n + 1] = ParseStatsEvent(x) /\ \A i \in 1..n : g[i] = f[i]
  <2>1. n + 1 \in 1..(n + 1) /\ \A i \in 1..n : i \in 1..(n + 1)
    BY <1>6
  <2> QED
    BY <1>6, <1>7, <1>11, <2>1
<1>13. PICK y : y = ParseStatsEvent(x)
  OBVIOUS
<1>14. y \in B
  BY <1>3, <1>13
<1>15. g \in [1..(n + 1) -> B]
  <2>1. ASSUME NEW i \in 1..(n + 1) PROVE g[i] \in B
    <3>1. i \in 1..n \/ i = n + 1
      BY <1>6
    <3> QED
      BY <1>7, <1>12, <1>13, <1>14, <3>1
  <2> QED
    BY <1>10, <2>1
<1>16. g = Append(f, y)
  BY <1>6, <1>9, <1>12, <1>13, <1>14, <1>15, OneLonger
<1> QED
  BY <1>2, <1>3, <1>4, <1>5, <1>9, <1>13, <1>16

LEMMA MeantOfAppend ==
    ASSUME NEW A, NEW s \in Seq(A), NEW x \in A
    PROVE  /\ MeantOf(s) \in Seq({y.meant : y \in A})
           /\ MeantOf(Append(s, x)) = Append(MeantOf(s), x.meant)
<1>1. PICK n : n = Len(s)
  OBVIOUS
<1>2. PICK t : t = Append(s, x)
  OBVIOUS
<1>3. PICK B : B = {y.meant : y \in A}
  OBVIOUS
<1>4. PICK f : f = MeantOf(s)
  OBVIOUS
<1>5. PICK g : g = MeantOf(t)
  OBVIOUS
<1>6. /\ n \in Nat /\ DOMAIN s = 1..n /\ DOMAIN t = 1..(n + 1) /\ t[n + 1] = x
      /\ \A i \in 1..n : t[i] = s[i] /\ s[i] \in A
  BY <1>1, <1>2, AppendProperties, LenProperties, ElementOfSeq
<1>7. \A i \in 1..n : f[i] = s[i].meant /\ f[i] \in B
  BY <1>3, <1>4, <1>6 DEF MeantOf
<1>8. f \in [1..n -> B]
  <2>1. f = [i \in 1..n |-> s[i].meant]
    BY <1>4, <1>6 DEF MeantOf
  <2>2. f = [i \in 1..n |-> f[i]]
    BY <2>1
  <2> QED
    BY <1>7, <2>2
<1>9. f \in Seq(B) /\ Len(f) = n
  <2>1. f \in Seq(B)
    BY <1>6, <1>8, SeqDef
  <2>2. DOMAIN f = 1..n /\ DOMAIN f = 1..Len(f) /\ Len(f) \in Nat
    BY <1>8, <2>1, LenProperties
  <2> QED
    BY <1>6, <2>1, <2>2
<1>10. ASSUME NEW C, \A i \in 1..(n + 1) : g[i] \in C PROVE g \in [1..(n + 1) -> C]
  <2>1. g = [i \in 1..(n + 1) |-> t[i].meant]
    BY <1>5, <1>6 DEF MeantOf
  <2>2. g = [i \in 1..(n + 1) |-> g[i]]
    BY <2>1
  <2> QED
    BY <1>10, <2>2
<1>11. \A i \in 1..(n + 1) : g[i] = t[i].meant
  BY <1>5, <1>6 DEF MeantOf
<1>12. g[n + 1] = x.meant /\ \A i \in 1..n : g[i] = f[i]
  <2>1. n + 1 \in 1..(n + 1) /\ \A i \in 1..n : i \in 1..(n + 1)
    BY <1>6
  <2> QED
    BY <1>6, <1>7, <1>11, <2>1
<1>13. PICK y : y = x.meant
  OBVIOUS
<1>14. y \in B
  BY <1>3, <1>13
<1>15. g \in [1..(n + 1) -> B]
  <2>1. ASSUME NEW i \in 1..(n + 1) PROVE g[i] \in B
    <3>1. i \in 1..n \/ i = n + 1
      BY <1>6
    <3> QED
      BY <1>7, <1>12, <1>13, <1>14, <3>1
  <2> QED
    BY <1>10, <2>1
<1>16. g = Append(f, y)
  BY <1>6, <1>9, <1>12, <1>13, <1>14, <1>15, OneLonger
<1> QED
  BY <1>2, <1>3, <1>4, <1>5, <1>9, <1>13, <1>16

\* A part stays one when the whole grows, and when both grow by the same.
LEMMA PartOfLonger ==
    ASSUME NEW A, NEW s \in Seq(A), NEW B, NEW t \in Seq(B), NEW x \in B, IsPartOf(s, t)
    PROVE  IsPartOf(s, Append(t, x))
<1>1. PICK place \in [DOMAIN s -> DOMAIN t] :
          /\ \A i \in DOMAIN s : s[i] = t[place[i]]
          /\ \A i, j \in DOMAIN s : i < j => place[i] < place[j]
  BY DEF IsPartOf
<1>2. PICK u : u = Append(t, x)
  OBVIOUS
<1>3. DOMAIN t \subseteq DOMAIN u /\ \A i \in DOMAIN t : u[i] = t[i]
  BY <1>2, AppendProperties, LenProperties
<1>4. place \in [DOMAIN s -> DOMAIN u]
  BY <1>3
<1>5. \A i \in DOMAIN s : s[i] = u[place[i]]
  BY <1>1, <1>3
<1>6. IsPartOf(s, u)
  BY <1>1, <1>4, <1>5 DEF IsPartOf
<1> QED
  BY <1>2, <1>6

LEMMA PartsGrow ==
    ASSUME NEW A, NEW s \in Seq(A), NEW B, NEW t \in Seq(B), NEW x \in A \cap B, IsPartOf(s, t)
    PROVE  IsPartOf(Append(s, x), Append(t, x))
<1>1. PICK place \in [DOMAIN s -> DOMAIN t] :
          /\ \A i \in DOMAIN s : s[i] = t[place[i]]
          /\ \A i, j \in DOMAIN s : i < j => place[i] < place[j]
  BY DEF IsPartOf
<1>2. PICK u : u = Append(t, x)
  OBVIOUS
<1>3. PICK r : r = Append(s, x)
  OBVIOUS
<1>4. PICK n \in Nat : n = Len(s)
  BY LenProperties
<1>5. PICK m \in Nat : m = Len(t)
  BY LenProperties
<1>6. /\ DOMAIN s = 1..n /\ DOMAIN r = 1..(n + 1) /\ r[n + 1] = x
      /\ \A i \in 1..n : r[i] = s[i]
  BY <1>3, <1>4, AppendProperties, LenProperties
<1>7. /\ DOMAIN t = 1..m /\ DOMAIN u = 1..(m + 1) /\ u[m + 1] = x
      /\ \A i \in 1..m : u[i] = t[i]
  BY <1>2, <1>5, AppendProperties, LenProperties
<1>8. \A i \in 1..n : place[i] \in 1..m
  BY <1>6, <1>7
<1>9. PICK longer : longer = [i \in 1..(n + 1) |-> IF i = n + 1 THEN m + 1 ELSE place[i]]
  OBVIOUS
<1>10. longer[n + 1] = m + 1 /\ \A i \in 1..n : longer[i] = place[i] /\ i # n + 1
  BY <1>9
<1>11. longer \in [1..(n + 1) -> 1..(m + 1)]
  BY <1>8, <1>9
<1>12. \A i \in 1..(n + 1) : r[i] = u[longer[i]]
  <2>1. ASSUME NEW i \in 1..n PROVE r[i] = u[longer[i]]
    <3>1. longer[i] = place[i] /\ place[i] \in 1..m /\ r[i] = s[i]
      BY <1>6, <1>8, <1>10
    <3>2. s[i] = t[place[i]] /\ u[place[i]] = t[place[i]]
      BY <1>1, <1>6, <1>7, <3>1
    <3> QED
      BY <3>1, <3>2
  <2>2. r[n + 1] = u[longer[n + 1]]
    BY <1>6, <1>7, <1>10
  <2> QED
    BY <2>1, <2>2
<1>13. ASSUME NEW i \in 1..(n + 1), NEW j \in 1..(n + 1), i < j
       PROVE  longer[i] < longer[j]
  <2>1. i \in 1..n /\ longer[i] = place[i] /\ place[i] \in 1..m
    BY <1>8, <1>10, <1>13
  <2>2. CASE j = n + 1
    BY <1>10, <2>1, <2>2
  <2>3. CASE j # n + 1
    <3>1. j \in 1..n
      BY <2>3
    <3> QED
      BY <1>1, <1>6, <1>10, <1>13, <2>1, <3>1
  <2> QED
    BY <2>2, <2>3
<1>14. IsPartOf(r, u)
  BY <1>6, <1>7, <1>11, <1>12, <1>13 DEF IsPartOf
<1> QED
  BY <1>2, <1>3, <1>14

-----------------------------------------------------------------------------
(***************************************************************************)
(* Reading a text, and showing it or not.                                   *)
(***************************************************************************)
LEMMA TextsAreMeant ==
    ASSUME TypeInv
    PROVE  /\ \A m \in Texts : IsMeant(m)
           /\ Message \subseteq Texts /\ Range(cli.input) \subseteq Texts
           /\ cli.input \in Seq(Texts) /\ handed \in Seq(Texts) /\ pending \in Seq(Texts)
<1>1. \A m \in Range(cli.input) : IsMeant(m)
  BY CommandLineAssumption, Zenon DEF TypeInv
<1>2. cli.input \in Seq(Range(cli.input))
  BY CommandLineAssumption, Zenon DEF TypeInv
<1>3. Message \subseteq Texts /\ Range(cli.input) \subseteq Texts
  BY Zenon DEF Texts
<1>4. \A m \in Texts : IsMeant(m)
  BY <1>1, MessageAssumption, Zenon DEF Texts
<1>5. ASSUME NEW S, NEW T, S \subseteq T, NEW s \in Seq(S) PROVE s \in Seq(T)
  BY <1>5
<1>6. pending \in Seq(Message) /\ handed \in Seq(Message)
  BY Zenon DEF TypeInv
<1> QED
  BY <1>2, <1>3, <1>4, <1>5, <1>6, Zenon

LEMMA ReadSoFarType == ASSUME TypeInv PROVE ReadSoFar \in Seq(Texts)
<1>1. cli.input \in Seq(Texts) /\ handed \in Seq(Texts)
  BY TextsAreMeant
<1>2. at \in 0..Len(cli.input)
  BY DEF TypeInv
<1>3. SubSeq(cli.input, 1, at) \in Seq(Texts)
  <2>1. PICK s : s = cli.input
    OBVIOUS
  <2>2. s \in Seq(Texts) /\ at \in 0..Len(s)
    BY <1>1, <1>2, <2>1
  <2>3. SubSeq(s, 1, at) \in Seq(Texts)
    <3>1. CASE at = 0
      BY <3>1, SubSeqEmpty
    <3>2. CASE at # 0
      BY <2>2, <3>2, LenProperties, SubSeqProperties
    <3> QED
      BY <3>1, <3>2
  <2> QED
    BY <2>1, <2>3
<1> QED
  BY <1>1, <1>3, Zenon DEF ReadSoFar

\* What a program shows is what its user asked for; player_board leaves out
\* ticks that come early.
LEMMA PrintsWhatIsWanted ==
    ASSUME cli \in CommandLine, ~IsPython, ~Refused, NEW event
    PROVE  /\ cli.program # "player_board" => (Console!Prints(event) <=> IsWanted(event))
           /\ Console!Prints(event) => IsWanted(event)
<1>1. CASE cli.program \in {"rl_events", "stdin"}
  <2>1. ~BadTokens(cli.tokens)
    BY <1>1, ConsoleAsksTheSame DEF Refused, Console!ArgumentsRefused
  <2>2. cli.tokens \in Seq(STRING)
    BY CommandLineAssumption, Zenon
  <2>3. cli.asks = AskedOnCommandLine(cli.tokens)
    BY <2>1, CommandLineAssumption DEF IsPython
  <2>4. cli.asks = Console!Kinds
    BY <2>2, <2>3, ParsedAsAsked, ConsoleAsksTheSame
  <2>5. Console!Wants(Console!Kinds, event) <=> IsWanted(event)
    <3>1. Console!Wants(Console!Kinds, event) <=> Wants(Console!Kinds, event)
      BY ConsoleAsksTheSame, Zenon
    <3> QED
      BY <1>1, <2>4, <3>1, Zenon DEF Wants, IsWanted
  <2>6. Console!Prints(event) <=> Console!Wants(Console!Kinds, event)
    BY <1>1 DEF Console!Prints
  <2> QED
    BY <2>5, <2>6
<1>2. CASE cli.program = "player_board"
  BY <1>2 DEF Console!Prints, IsWanted
<1>3. CASE cli.program = "tick_listener"
  BY <1>3 DEF Console!Prints, IsWanted
<1>4. CASE cli.program = "rl_command"
  BY <1>4 DEF Console!Prints, IsWanted
<1>5. CASE cli.program = "raw_events"
  BY <1>5 DEF Console!Prints, IsWanted
<1>6. cli.program \in {"rl_events", "stdin", "player_board", "tick_listener", "raw_events", "rl_command"}
  BY CommandLineAssumption DEF IsPython
<1> QED
  BY <1>1, <1>2, <1>3, <1>4, <1>5, <1>6

LEMMA PythonReadsWhatIsWanted ==
    ASSUME cli \in CommandLine, IsPython, ~BadTokens(cli.tokens), NEW event
    PROVE  Python!Wants(Python!BuildFilter(cli.tokens), event) <=> IsWanted(event)
<1>1. cli.tokens \in Seq(STRING)
  BY CommandLineAssumption, Zenon
<1>2. cli.asks = AskedInPython(cli.tokens)
  BY CommandLineAssumption DEF IsPython
<1>3. cli.asks = Python!BuildFilter(cli.tokens)
  BY <1>1, <1>2, BuiltAsAsked, PythonAsksTheSame
<1>4. Python!Wants(cli.asks, event) <=> Wants(cli.asks, event)
  BY PythonAsksTheSame, Zenon
<1>5. IsWanted(event) <=> (cli.asks = {} \/ event.kind \in cli.asks)
  BY DEF IsWanted, IsPython
<1> QED
  BY <1>3, <1>4, <1>5 DEF Wants

\* A text m is read, and shown if it is wanted.
ShowsText(m) ==
    /\ m \in Texts /\ cli' = cli
    /\ ReadSoFar' = Append(ReadSoFar, m)
    /\ \/ printed' = printed /\ (m \notin Wanted \/ cli.program = "player_board")
       \/ printed' = Append(printed, StatsEventToValue(m.meant)) /\ m \in Wanted

\* Nothing is read or shown.
ShowsNothing == UNCHANGED <<cli, handed, at, printed>>

LEMMA EmitsParts ==
    ASSUME NEW event, NEW back, Console!Emits(event, back)
    PROVE  \/ /\ Console!Prints(event)
              /\ printed' = Append(printed, Console!StatsEventToValue(event))
              /\ emitted' = emitted + 1
              /\ pc' = IF cli.program \in {"rl_events", "stdin"} /\ Console!AtLimit(emitted + 1)
                       THEN "done" ELSE back
           \/ ~Console!Prints(event) /\ printed' = printed /\ emitted' = emitted /\ pc' = back
  BY Zenon DEF Console!Emits

\* What a console program shows of an event it has read.
LEMMA EmitsWhatIsWanted ==
    ASSUME TypeInv, ~IsPython, ~Refused, NEW m \in Texts, m.meant # NotAnEvent,
           NEW event, event = m.meant, NEW back, Console!Emits(event, back)
    PROVE  \/ printed' = printed /\ (m \notin Wanted \/ cli.program = "player_board")
           \/ printed' = Append(printed, StatsEventToValue(m.meant)) /\ m \in Wanted
<1>1. m \in Wanted <=> IsWanted(event)
  BY Zenon DEF Wanted
<1>2. cli \in CommandLine
  BY DEF TypeInv
<1>3. Console!StatsEventToValue(event) = StatsEventToValue(event)
  BY ConsoleReadsTheSame, Zenon
<1>4. /\ cli.program # "player_board" => (Console!Prints(event) <=> IsWanted(event))
      /\ Console!Prints(event) => IsWanted(event)
  BY <1>2, PrintsWhatIsWanted
<1> QED
  BY <1>1, <1>3, <1>4, EmitsParts, Zenon

LEMMA HandedIsRead ==
    ASSUME TypeInv, FeedHands, cli' = cli, cli.program # "stdin"
    PROVE  /\ Head(pending) \in Message /\ Head(pending) \in Texts
           /\ ReadSoFar' = Append(ReadSoFar, Head(pending))
           /\ ParseStatsEvent(Head(pending).json) = Head(pending).meant
<1>1. Head(pending) \in Message
  BY HeadTailProperties DEF TypeInv, FeedHands
<1>2. Head(pending) \in Texts
  BY <1>1, TextsAreMeant
<1>3. ReadSoFar' = Append(ReadSoFar, Head(pending))
  BY Zenon DEF ReadSoFar, FeedHands
<1>4. ParseStatsEvent(Head(pending).json) = Head(pending).meant
  BY <1>1, MessageAssumption, ParsedAsMeant
<1> QED
  BY <1>1, <1>2, <1>3, <1>4

LEMMA ConsoleShowsMessage ==
    ASSUME TypeInv, PlaceInv, ~IsPython, Console!ReadsMessage
    PROVE  \E m \in Texts : ShowsText(m)
<1>1. FeedHands /\ cli' = cli /\ pc = "reading"
  BY ConsoleFeed DEF Console!ReadsMessage
<1>2. cli.program # "stdin" /\ ~Refused
  BY <1>1 DEF PlaceInv
<1>3. PICK m : m = Head(pending)
  OBVIOUS
<1>4. /\ m \in Message /\ m \in Texts /\ ReadSoFar' = Append(ReadSoFar, m)
      /\ ParseStatsEvent(m.json) = m.meant
  BY <1>1, <1>2, <1>3, HandedIsRead
<1>5. Console!ParseStatsEvent(m.json) = m.meant
  BY <1>4, ConsoleReadsTheSame, Zenon
<1>6. answer' = IF m \in Console!OddMessage THEN "error" ELSE "value"
  BY <1>3 DEF Console!ReadsMessage, Console!Feed!HandOver
<1>7. m \in Console!OddMessage <=> m.meant = NotAnEvent
  BY <1>4, ConsoleReadsTheSame, Zenon
<1>8. CASE m.meant = NotAnEvent
  <2>1. printed' = printed
    BY <1>6, <1>7, <1>8 DEF Console!ReadsMessage
  <2>2. m \notin Wanted
    BY <1>8, Zenon DEF Wanted
  <2> QED
    BY <1>1, <1>4, <2>1, <2>2 DEF ShowsText
<1>9. CASE m.meant # NotAnEvent
  <2>1. Console!Emits(m.meant, "reading")
    BY <1>3, <1>5, <1>6, <1>7, <1>9 DEF Console!ReadsMessage
  <2>2. \/ printed' = printed /\ (m \notin Wanted \/ cli.program = "player_board")
        \/ printed' = Append(printed, StatsEventToValue(m.meant)) /\ m \in Wanted
    BY <1>2, <1>4, <1>9, <2>1, EmitsWhatIsWanted
  <2> QED
    BY <1>1, <1>4, <2>2 DEF ShowsText
<1> QED
  BY <1>8, <1>9

LEMMA LineIsRead ==
    ASSUME TypeInv, cli.program = "stdin", at < Len(cli.input), at' = at + 1, cli' = cli
    PROVE  /\ cli.input[at + 1] \in Texts
           /\ ReadSoFar' = Append(ReadSoFar, cli.input[at + 1])
<1>1. PICK s : s = cli.input
  OBVIOUS
<1>2. PICK n : n = at
  OBVIOUS
<1>3. /\ s \in Seq(Texts) /\ Len(s) \in Nat /\ n \in Nat /\ n < Len(s) /\ n + 1 \in 1..Len(s)
      /\ DOMAIN s = 1..Len(s)
  <2>1. s \in Seq(Texts) /\ n \in 0..Len(s)
    BY <1>1, <1>2, TextsAreMeant DEF TypeInv
  <2>2. Len(s) \in Nat /\ DOMAIN s = 1..Len(s) /\ n < Len(s)
    BY <1>1, <1>2, <2>1, LenProperties
  <2> QED
    BY <2>1, <2>2
<1>4. s[n + 1] \in Texts
  BY <1>3, ElementOfSeq
<1>5. SubSeq(s, 1, n + 1) = Append(SubSeq(s, 1, n), s[n + 1])
  BY <1>3
<1>6. ReadSoFar' = SubSeq(s, 1, n + 1)
  BY <1>1, <1>2, Zenon DEF ReadSoFar
<1>7. ReadSoFar = SubSeq(s, 1, n)
  BY <1>1, <1>2, Zenon DEF ReadSoFar
<1> QED
  BY <1>1, <1>2, <1>4, <1>5, <1>6, <1>7

LEMMA ConsoleShowsLine ==
    ASSUME TypeInv, PlaceInv, ~IsPython, Console!ReadsLine
    PROVE  \E m \in Texts : ShowsText(m)
<1>1. pc = "stdin" /\ at < Len(cli.input) /\ at' = at + 1 /\ cli' = cli
  BY Zenon DEF Console!ReadsLine
<1>2. cli.program = "stdin" /\ ~Refused
  BY <1>1 DEF PlaceInv
<1>3. PICK m : m = cli.input[at + 1]
  OBVIOUS
<1>4. m \in Texts /\ ReadSoFar' = Append(ReadSoFar, m)
  BY <1>1, <1>2, <1>3, LineIsRead
<1>5. IsMeant(m)
  BY <1>4, TextsAreMeant
<1>6. Console!ParseStatsEvent(m.json) = ParseStatsEvent(m.json) /\ Console!NotAnEvent = NotAnEvent
  BY ConsoleReadsTheSame, Zenon
<1>7. CASE m.form = "json" /\ m.meant # NotAnEvent
  <2>1. ParseStatsEvent(m.json) = m.meant
    BY <1>5, <1>7, ParsedAsMeant
  <2>2. Console!Emits(m.meant, "stdin")
    BY <1>3, <1>6, <1>7, <2>1, Zenon DEF Console!ReadsLine
  <2>3. \/ printed' = printed /\ (m \notin Wanted \/ cli.program = "player_board")
        \/ printed' = Append(printed, StatsEventToValue(m.meant)) /\ m \in Wanted
    BY <1>2, <1>4, <1>7, <2>2, EmitsWhatIsWanted
  <2> QED
    BY <1>1, <1>4, <2>3 DEF ShowsText
<1>8. CASE m.form # "json" \/ m.meant = NotAnEvent
  <2>1. m.meant = NotAnEvent
    BY <1>5, <1>8 DEF IsMeant
  <2>2. m.form = "json" => Console!ParseStatsEvent(m.json) = Console!NotAnEvent
    BY <1>5, <1>6, <2>1, ParsedAsMeant
  <2>3. printed' = printed
    BY <1>3, <2>2 DEF Console!ReadsLine
  <2>4. m \notin Wanted
    BY <2>1, Zenon DEF Wanted
  <2> QED
    BY <1>1, <1>4, <2>3, <2>4 DEF ShowsText
<1> QED
  BY <1>7, <1>8

LEMMA PythonShowsMessage ==
    ASSUME TypeInv, ReadInv, IsPython, Python!ReadsMessage
    PROVE  \E m \in Texts : ShowsText(m)
<1>1. FeedHands /\ cli' = cli /\ call = "read"
  BY PythonFeed DEF Python!ReadsMessage
<1>2. cli.program # "stdin" /\ ~BadTokens(cli.tokens) /\ cli \in CommandLine
  BY <1>1 DEF ReadInv, IsPython, TypeInv
<1>3. PICK m : m = Head(pending)
  OBVIOUS
<1>4. /\ m \in Message /\ m \in Texts /\ ReadSoFar' = Append(ReadSoFar, m)
      /\ ParseStatsEvent(m.json) = m.meant
  BY <1>1, <1>2, <1>3, HandedIsRead
<1>5. /\ Python!ParseStatsEvent(m.json) = m.meant
      /\ Python!StatsEventToValue(m.meant) = StatsEventToValue(m.meant)
      /\ Python!NotAnEvent = NotAnEvent
  BY <1>4, PythonReadsTheSame, Zenon
<1>6. \/ m.meant # NotAnEvent /\ ~Python!Wants(Python!BuildFilter(cli.tokens), m.meant)
            /\ printed' = printed
      \/ m.meant # NotAnEvent /\ Python!Wants(Python!BuildFilter(cli.tokens), m.meant)
            /\ printed' = Append(printed, StatsEventToValue(m.meant))
      \/ m.meant = NotAnEvent /\ printed' = printed
  BY <1>3, <1>5, Zenon DEF Python!ReadsMessage
<1>7. Python!Wants(Python!BuildFilter(cli.tokens), m.meant) <=> IsWanted(m.meant)
  BY <1>2, PythonReadsWhatIsWanted
<1>8. m \in Wanted <=> m.meant # NotAnEvent /\ IsWanted(m.meant)
  BY <1>4, Zenon DEF Wanted
<1> QED
  BY <1>1, <1>4, <1>6, <1>7, <1>8, Zenon DEF ShowsText

\* A step shows a text it reads, or nothing.
LEMMA StepShows ==
    ASSUME [Next]_vars, TypeInv, PlaceInv, ReadInv
    PROVE  (\E m \in Texts : ShowsText(m)) \/ ShowsNothing
<1>1. cli' = cli
  BY CliStays
<1>2. CASE GameStep
  BY <1>1, <1>2, GameFeed DEF FeedMoves, consoleVars, ShowsNothing
<1>3. CASE ~IsPython /\ Console!ReadsMessage
  BY <1>3, ConsoleShowsMessage
<1>4. CASE ~IsPython /\ Console!ReadsLine
  BY <1>4, ConsoleShowsLine
<1>5. CASE \/ Console!Starts \/ Console!ConnectSucceeds \/ Console!ReconnectSucceeds
           \/ Console!AttemptFails \/ Console!ReadsEnd
           \/ Console!RefreshElapses \/ Console!SendsCommand \/ Console!DeadlinePasses
           \/ Console!InputEnds
  <2>1. handed' = handed
    <3>1. FeedRenews \/ FeedAnswers \/ FeedStays => handed' = handed
      BY DEF FeedRenews, FeedAnswers, FeedStays
    <3> QED
      BY <1>5, <3>1, ConsoleFeed
  <2>2. at' = at /\ printed' = printed
    BY <1>5, Zenon DEF Console!Starts, Console!ConnectSucceeds, Console!ReconnectSucceeds,
       Console!AttemptFails, Console!ReadsEnd, Console!RefreshElapses, Console!SendsCommand,
       Console!DeadlinePasses, Console!InputEnds
  <2> QED
    BY <1>1, <2>1, <2>2 DEF ShowsNothing
<1>6. CASE IsPython /\ Python!ReadsMessage
  BY <1>6, PythonShowsMessage
<1>7. CASE /\ IsPython /\ UNCHANGED consoleVars
           /\ \/ Python!Connects \/ Python!BeginsRead \/ Python!ReadsEnd \/ Python!Closes
              \/ \E json \in PyCommand : Python!SendsCommand(json)
  <2>1. handed' = handed
    <3>1. FeedRenews \/ FeedAnswers \/ FeedStays => handed' = handed
      BY DEF FeedRenews, FeedAnswers, FeedStays
    <3> QED
      BY <1>7, <3>1, PythonFeed, Zenon
  <2>2. printed' = printed
    BY <1>7, Zenon DEF Python!Connects, Python!BeginsRead, Python!ReadsEnd, Python!Closes,
       Python!SendsCommand
  <2> QED
    BY <1>1, <1>7, <2>1, <2>2 DEF ShowsNothing, consoleVars
<1>8. CASE UNCHANGED vars
  BY <1>8 DEF vars, consoleVars, ShowsNothing
<1> QED
  BY <1>2, <1>3, <1>4, <1>5, <1>6, <1>7, <1>8, StepCases, Zenon

-----------------------------------------------------------------------------
(***************************************************************************)
(* The values the variables take.                                           *)
(***************************************************************************)
LEMMA StepFeed ==
    ASSUME [Next]_vars
    PROVE  FeedMoves \/ FeedRenews \/ FeedAnswers \/ FeedHands \/ FeedStays
<1>1. CASE GameStep
  BY <1>1, GameFeed
<1>2. CASE UNCHANGED vars
  BY <1>2 DEF vars, FeedStays
<1> QED
  BY <1>1, <1>2, StepCases, ConsoleFeed, PythonFeed

LEMMA FeedType ==
    ASSUME TypeInv, [Next]_vars
    PROVE  /\ line' \in Nat /\ ending' \in {"open", "closed", "bad", "reset"}
           /\ pending' \in Seq(Message) /\ handed' \in Seq(Message)
<1>0. /\ line \in Nat /\ ending \in {"open", "closed", "bad", "reset"}
      /\ pending \in Seq(Message) /\ handed \in Seq(Message)
  BY DEF TypeInv
<1>1. CASE FeedMoves
  <2>1. ASSUME NEW m \in Message, pending' = Append(pending, m) PROVE pending' \in Seq(Message)
    BY <1>0, <2>1, AppendProperties
  <2>2. ASSUME NEW n \in 0..Len(pending), pending' = SubSeq(pending, 1, n)
        PROVE  pending' \in Seq(Message)
    <3>1. CASE n = 0
      BY <2>2, <3>1, SubSeqEmpty
    <3>2. CASE n # 0
      BY <1>0, <2>2, <3>2, LenProperties, SubSeqProperties
    <3> QED
      BY <3>1, <3>2
  <2>3. pending' \in Seq(Message)
    BY <1>0, <1>1, <2>1, <2>2 DEF FeedMoves
  <2> QED
    BY <1>0, <1>1, <2>3 DEF FeedMoves
<1>2. CASE FeedRenews
  BY <1>0, <1>2 DEF FeedRenews
<1>3. CASE FeedAnswers \/ FeedStays
  BY <1>0, <1>3 DEF FeedAnswers, FeedStays
<1>4. CASE FeedHands
  <2>1. Head(pending) \in Message /\ Tail(pending) \in Seq(Message)
    BY <1>0, <1>4, HeadTailProperties DEF FeedHands
  <2> QED
    BY <1>0, <1>4, <2>1, AppendProperties DEF FeedHands
<1> QED
  BY <1>1, <1>2, <1>3, <1>4, StepFeed

LEMMA CountersType ==
    ASSUME TypeInv, [Next]_vars
    PROVE  at' \in 0..Len(cli.input) /\ refused' \in Nat
<1>0. at \in 0..Len(cli.input) /\ refused \in Nat
  BY DEF TypeInv
<1>1. CASE GameStep \/ UNCHANGED consoleVars \/ UNCHANGED vars
  <2>1. at' = at /\ refused' = refused
    BY <1>1, GameFeed DEF consoleVars, vars
  <2> QED
    BY <1>0, <2>1
<1>2. CASE Console!ReadsLine
  <2>1. refused' = refused /\ at' = at + 1 /\ at < Len(cli.input)
    BY <1>2, Zenon DEF Console!ReadsLine
  <2>2. Len(cli.input) \in Nat
    BY TextsAreMeant, LenProperties
  <2> QED
    BY <1>0, <2>1, <2>2
<1>3. CASE \/ Console!Starts \/ Console!ConnectSucceeds \/ Console!ReconnectSucceeds
           \/ Console!AttemptFails \/ Console!ReadsMessage \/ Console!ReadsEnd
           \/ Console!RefreshElapses \/ Console!SendsCommand \/ Console!DeadlinePasses
           \/ Console!InputEnds
  <2>1. at' = at /\ (refused' = refused \/ refused' = 0 \/ refused' = refused + 1)
    BY <1>3, Zenon DEF Console!Starts, Console!ConnectSucceeds, Console!ReconnectSucceeds,
       Console!AttemptFails, Console!ReadsMessage, Console!ReadsEnd, Console!RefreshElapses,
       Console!SendsCommand, Console!DeadlinePasses, Console!InputEnds
  <2> QED
    BY <1>0, <2>1
<1> QED
  BY <1>1, <1>2, <1>3, StepCases, Zenon

LEMMA WantedStays == cli' = cli => Texts' = Texts /\ Wanted' = Wanted
<1> SUFFICES ASSUME cli' = cli PROVE Texts' = Texts /\ Wanted' = Wanted
  OBVIOUS
<1>1. Texts' = Texts
  BY Zenon DEF Texts
<1>2. \A x : IsWanted(x)' <=> IsWanted(x)
  BY Zenon DEF IsWanted
<1>3. Wanted' = {m \in Texts : m.meant # NotAnEvent /\ IsWanted(m.meant)'}
  BY <1>1, Zenon DEF Wanted
<1> QED
  BY <1>1, <1>2, <1>3, Zenon DEF Wanted

LEMMA TypeInit == Init => TypeInv
<1> SUFFICES ASSUME Init PROVE TypeInv
  OBVIOUS
<1>1. cli \in CommandLine
  BY DEF Init
<1>2. line = 0 /\ ending = "closed" /\ pending = <<>> /\ handed = <<>>
  BY DEF Init, Console!Feed!Init
<1>3. at = 0 /\ refused = 0 /\ printed = <<>>
  BY DEF Init, Console!Init
<1>4. cli.input \in Seq(Range(cli.input))
  BY <1>1, CommandLineAssumption, Zenon
<1>5. Len(cli.input) \in Nat
  BY <1>4, LenProperties
<1>6. printed \in Seq({StatsEventToValue(m.meant) : m \in Texts})
  <2>1. PICK S : S = {StatsEventToValue(m.meant) : m \in Texts}
    OBVIOUS
  <2> QED
    BY <1>3, <2>1
<1> QED
  BY <1>1, <1>2, <1>3, <1>5, <1>6 DEF TypeInv

LEMMA TypeStep == TypeInv /\ PlaceInv /\ ReadInv /\ [Next]_vars => TypeInv'
<1> SUFFICES ASSUME TypeInv, PlaceInv, ReadInv, [Next]_vars PROVE TypeInv'
  OBVIOUS
<1>1. cli' = cli /\ Texts' = Texts
  BY CliStays, WantedStays
<1>2. PICK S : S = {StatsEventToValue(m.meant) : m \in Texts}
  OBVIOUS
<1>3. S = {StatsEventToValue(m.meant) : m \in Texts}'
  BY <1>1, <1>2
<1>4. printed \in Seq(S)
  BY <1>2, Zenon DEF TypeInv
<1>5. printed' \in Seq(S)
  <2>1. CASE ShowsNothing
    BY <1>4, <2>1 DEF ShowsNothing
  <2>2. ASSUME NEW m \in Texts, ShowsText(m) PROVE printed' \in Seq(S)
    <3>1. PICK x : x = StatsEventToValue(m.meant)
      OBVIOUS
    <3>2. x \in S
      BY <1>2, <3>1
    <3>3. printed' = printed \/ printed' = Append(printed, x)
      BY <2>2, <3>1, Zenon DEF ShowsText
    <3> QED
      BY <1>4, <3>2, <3>3, AppendProperties
  <2> QED
    BY <2>1, <2>2, StepShows
<1>6. cli' \in CommandLine
  BY <1>1 DEF TypeInv
<1>7. at' \in 0..Len(cli'.input) /\ refused' \in Nat
  BY <1>1, CountersType
<1> QED
  BY <1>3, <1>5, <1>6, <1>7, FeedType DEF TypeInv

-----------------------------------------------------------------------------
(***************************************************************************)
(* Where a program is.                                                      *)
(***************************************************************************)
LEMMA RefusedStays == cli' = cli => (Refused' <=> Refused) /\ (IsPython' <=> IsPython)
                                    /\ (Limited' <=> Limited)
<1> SUFFICES ASSUME cli' = cli
             PROVE  (Refused' <=> Refused) /\ (IsPython' <=> IsPython) /\ (Limited' <=> Limited)
  OBVIOUS
<1>1. Refused' <=> Refused
  BY Zenon DEF Refused, Console!ArgumentsRefused
<1>2. IsPython' <=> IsPython
  BY Zenon DEF IsPython
<1>3. Limited' <=> Limited
  BY Zenon DEF Limited
<1> QED
  BY <1>1, <1>2, <1>3

LEMMA PythonIsNotRefused == IsPython => ~Refused
  BY DEF IsPython, Refused, Console!ArgumentsRefused

\* Where the steps of a console program lead, and what they count.
LEMMA ConsoleMoves ==
    /\ Console!Starts =>
          /\ pc = "starting" /\ UNCHANGED <<line, refused, emitted, printed>>
          /\ pc' = IF Refused THEN "failed"
                   ELSE IF cli.program = "stdin" THEN "stdin" ELSE "connecting"
    /\ Console!ConnectSucceeds =>
          /\ pc = "connecting" /\ line' = line + 1 /\ refused' = 0 /\ UNCHANGED <<emitted, printed>>
          /\ pc' = IF cli.program = "rl_command" THEN "sending" ELSE "reading"
    /\ Console!ReconnectSucceeds =>
          /\ pc = "reconnecting" /\ line' = line + 1 /\ refused' = 0 /\ UNCHANGED <<emitted, printed>>
          /\ pc' = "reading"
    /\ Console!AttemptFails =>
          /\ pc \in {"connecting", "reconnecting"} /\ pc' \in {pc, "failed"}
          /\ refused' = refused + 1 /\ UNCHANGED <<line, emitted, printed>>
    /\ Console!ReadsEnd =>
          /\ pc = "reading" /\ UNCHANGED <<line, refused, emitted, printed>>
          /\ IF cli.program \in Console!Reconnecting THEN pc' = "reconnecting"
                                                     ELSE pc' \in {"done", "failed"}
    /\ Console!RefreshElapses =>
          cli.program = "player_board" /\ UNCHANGED <<line, refused, emitted, printed, pc>>
    /\ Console!SendsCommand =>
          /\ pc = "sending" /\ UNCHANGED <<line, refused, emitted, printed>>
          /\ pc' \in {"reading", "failed"}
    /\ Console!DeadlinePasses =>
          /\ cli.program = "rl_command" /\ pc = "reading"
          /\ UNCHANGED <<line, refused, emitted, printed>> /\ pc' = "done"
    /\ Console!InputEnds =>
          pc = "stdin" /\ UNCHANGED <<line, refused, emitted, printed>> /\ pc' = "done"
<1>1. Console!Starts =>
          /\ pc = "starting" /\ UNCHANGED <<line, refused, emitted, printed>>
          /\ pc' = IF Refused THEN "failed"
                   ELSE IF cli.program = "stdin" THEN "stdin" ELSE "connecting"
  BY DEF Console!Starts, Console!feedVars, Refused
<1>2. Console!ConnectSucceeds =>
          /\ pc = "connecting" /\ line' = line + 1 /\ refused' = 0 /\ UNCHANGED <<emitted, printed>>
          /\ pc' = IF cli.program = "rl_command" THEN "sending" ELSE "reading"
  BY DEF Console!ConnectSucceeds, Console!Feed!Renew
<1>3. Console!ReconnectSucceeds =>
          /\ pc = "reconnecting" /\ line' = line + 1 /\ refused' = 0 /\ UNCHANGED <<emitted, printed>>
          /\ pc' = "reading"
  BY DEF Console!ReconnectSucceeds, Console!Feed!Renew
<1>4. Console!AttemptFails =>
          /\ pc \in {"connecting", "reconnecting"} /\ pc' \in {pc, "failed"}
          /\ refused' = refused + 1 /\ UNCHANGED <<line, emitted, printed>>
  BY DEF Console!AttemptFails, Console!feedVars
<1>5. Console!ReadsEnd =>
          /\ pc = "reading" /\ UNCHANGED <<line, refused, emitted, printed>>
          /\ IF cli.program \in Console!Reconnecting THEN pc' = "reconnecting"
                                                     ELSE pc' \in {"done", "failed"}
  BY DEF Console!ReadsEnd, Console!LosesFeed, Console!Feed!AnswerClosed, Console!Feed!AnswerError
<1>6. Console!RefreshElapses =>
          cli.program = "player_board" /\ UNCHANGED <<line, refused, emitted, printed, pc>>
  BY DEF Console!RefreshElapses, Console!feedVars
<1>7. Console!SendsCommand =>
          /\ pc = "sending" /\ UNCHANGED <<line, refused, emitted, printed>>
          /\ pc' \in {"reading", "failed"}
  BY DEF Console!SendsCommand, Console!feedVars
<1>8. Console!DeadlinePasses =>
          /\ cli.program = "rl_command" /\ pc = "reading"
          /\ UNCHANGED <<line, refused, emitted, printed>> /\ pc' = "done"
  BY DEF Console!DeadlinePasses, Console!feedVars
<1>9. Console!InputEnds =>
          pc = "stdin" /\ UNCHANGED <<line, refused, emitted, printed>> /\ pc' = "done"
  BY DEF Console!InputEnds, Console!feedVars
<1> QED
  BY <1>1, <1>2, <1>3, <1>4, <1>5, <1>6, <1>7, <1>8, <1>9

\* The two steps that read a text.
Counts(back) ==
    \/ emitted' = emitted /\ printed' = printed /\ pc' = back
    \/ /\ emitted' = emitted + 1 /\ \E x : printed' = Append(printed, x)
       /\ pc' = IF cli.program \in {"rl_events", "stdin"} /\ Console!AtLimit(emitted + 1)
                THEN "done" ELSE back

LEMMA ConsoleReads ==
    /\ Console!ReadsMessage =>
          /\ pc = "reading" /\ UNCHANGED <<line, refused>>
          /\ \/ Counts("reading")
             \/ /\ answer' = "error" /\ UNCHANGED <<emitted, printed>>
                /\ pc' = IF cli.program \in Console!Reconnecting THEN "reconnecting" ELSE "failed"
    /\ Console!ReadsLine =>
          /\ pc = "stdin" /\ UNCHANGED <<line, refused>>
          /\ Counts("stdin") \/ (pc' = "failed" /\ UNCHANGED <<emitted, printed>>)
<1>1. ASSUME NEW event, NEW back, Console!Emits(event, back) PROVE Counts(back)
  <2>1. PICK x : x = Console!StatsEventToValue(event)
    OBVIOUS
  <2>2. \/ /\ printed' = Append(printed, x) /\ emitted' = emitted + 1
           /\ pc' = IF cli.program \in {"rl_events", "stdin"} /\ Console!AtLimit(emitted + 1)
                    THEN "done" ELSE back
        \/ printed' = printed /\ emitted' = emitted /\ pc' = back
    BY <1>1, <2>1, EmitsParts
  <2> QED
    BY <2>2 DEF Counts
<1>2. ASSUME Console!ReadsMessage
      PROVE  /\ pc = "reading" /\ UNCHANGED <<line, refused>>
             /\ \/ Counts("reading")
                \/ /\ answer' = "error" /\ UNCHANGED <<emitted, printed>>
                   /\ pc' = IF cli.program \in Console!Reconnecting THEN "reconnecting" ELSE "failed"
  <2>1. pc = "reading" /\ UNCHANGED <<line, refused>> /\ answer' \in {"error", "value"}
    BY <1>2 DEF Console!ReadsMessage, Console!Feed!HandOver
  <2>2. CASE answer' = "value"
    <3>1. Console!Emits(Console!ParseStatsEvent(Head(pending).json), "reading")
      BY <1>2, <2>2 DEF Console!ReadsMessage
    <3> QED
      BY <1>1, <2>1, <3>1
  <2>3. CASE answer' = "error"
    <3>1. Console!LosesFeed("failed") /\ printed' = printed /\ emitted' = emitted
      BY <1>2, <2>3 DEF Console!ReadsMessage
    <3> QED
      BY <2>1, <2>3, <3>1 DEF Console!LosesFeed
  <2> QED
    BY <2>1, <2>2, <2>3
<1>3. ASSUME Console!ReadsLine
      PROVE  /\ pc = "stdin" /\ UNCHANGED <<line, refused>>
             /\ Counts("stdin") \/ (pc' = "failed" /\ UNCHANGED <<emitted, printed>>)
  <2>1. pc = "stdin" /\ UNCHANGED <<line, refused>>
    BY <1>3 DEF Console!ReadsLine, Console!feedVars
  <2>2. PICK event : event = Console!ParseStatsEvent(cli.input[at + 1].json)
    OBVIOUS
  <2>3. PICK form : form = cli.input[at + 1].form
    OBVIOUS
  <2>4. \/ Console!Emits(event, "stdin")
        \/ pc' = pc /\ printed' = printed /\ emitted' = emitted
        \/ pc' = "failed" /\ printed' = printed /\ emitted' = emitted
    <3>1. CASE form = "json" /\ event # Console!NotAnEvent
      BY <1>3, <2>2, <2>3, <3>1, Zenon DEF Console!ReadsLine
    <3>2. CASE ~(form = "json" /\ event # Console!NotAnEvent)
      BY <1>3, <2>2, <2>3, <3>2 DEF Console!ReadsLine
    <3> QED
      BY <3>1, <3>2
  <2> QED
    BY <1>1, <2>1, <2>4 DEF Counts
<1> QED
  BY <1>2, <1>3

\* What the other steps leave alone.
LEMMA OtherMoves ==
    /\ GameStep => UNCHANGED <<pc, line, refused, emitted, printed, call>>
    /\ UNCHANGED vars => UNCHANGED <<pc, line, refused, emitted, printed, call, pending, ending, answer>>
    /\ UNCHANGED consoleVars => UNCHANGED <<pc, refused, emitted>>
  BY GameFeed DEF consoleVars, pythonVars, vars, FeedMoves

LEMMA PlaceInit == Init => PlaceInv
<1> SUFFICES ASSUME Init PROVE PlaceInv
  OBVIOUS
<1>1. line = 0 /\ pc = "starting" /\ refused = 0
  BY DEF Init, Console!Init, Console!Feed!Init
<1> QED
  BY <1>1 DEF PlaceInv

LEMMA PlaceStep == TypeInv /\ PlaceInv /\ [Next]_vars => PlaceInv'
<1> SUFFICES ASSUME TypeInv, PlaceInv, [Next]_vars PROVE PlaceInv'
  OBVIOUS
<1>0. /\ cli' = cli /\ (Refused' <=> Refused) /\ (IsPython' <=> IsPython)
      /\ line \in Nat /\ refused \in Nat /\ (IsPython => ~Refused)
  BY CliStays, RefusedStays, PythonIsNotRefused DEF TypeInv
<1>1. CASE UNCHANGED <<pc, line, refused>>
  BY <1>0, <1>1 DEF PlaceInv
<1>2. CASE IsPython /\ UNCHANGED consoleVars
  <2>1. pc' = pc /\ refused' = refused /\ cli.program # "stdin" /\ cli.program # "rl_command"
    BY <1>2, OtherMoves DEF IsPython
  <2> QED
    BY <1>0, <1>2, <2>1 DEF PlaceInv
<1>3. CASE ~IsPython /\ Console!Starts
  BY <1>0, <1>3, ConsoleMoves DEF PlaceInv
<1>4. CASE ~IsPython /\ (Console!ConnectSucceeds \/ Console!ReconnectSucceeds)
  <2>1. /\ pc \in {"connecting", "reconnecting"} /\ line' = line + 1
        /\ pc' = "reading" \/ (pc' = "sending" /\ cli.program = "rl_command")
    BY <1>4, ConsoleMoves
  <2>2. line' > 0
    BY <1>0, <2>1
  <2>3. ~Refused /\ cli.program # "stdin"
    BY <2>1 DEF PlaceInv
  <2> QED
    BY <1>0, <1>4, <2>1, <2>2, <2>3 DEF PlaceInv
<1>5. CASE ~IsPython /\ Console!AttemptFails
  <2>1. /\ pc \in {"connecting", "reconnecting"} /\ pc' \in {pc, "failed"} /\ line' = line
        /\ refused' = refused + 1
    BY <1>5, ConsoleMoves
  <2>2. refused' > 0
    BY <1>0, <2>1
  <2> QED
    BY <1>0, <1>5, <2>1, <2>2 DEF PlaceInv
<1>6. CASE ~IsPython /\ Console!ReadsMessage
  <2>1. /\ pc = "reading" /\ UNCHANGED <<line, refused>>
        /\ pc' \in {"reading", "done", "reconnecting", "failed"}
    BY <1>6, ConsoleReads DEF Counts
  <2> QED
    BY <1>0, <1>6, <2>1 DEF PlaceInv
<1>7. CASE ~IsPython /\ Console!ReadsLine
  <2>1. /\ pc = "stdin" /\ UNCHANGED <<line, refused>> /\ pc' \in {"stdin", "done", "failed"}
    BY <1>7, ConsoleReads DEF Counts
  <2> QED
    BY <1>0, <1>7, <2>1 DEF PlaceInv
<1>8. CASE ~IsPython /\ (\/ Console!ReadsEnd \/ Console!SendsCommand \/ Console!DeadlinePasses)
  <2>1. /\ pc \in {"reading", "sending"} /\ UNCHANGED <<line, refused>>
        /\ pc' \in {"reading", "reconnecting", "done", "failed"}
    BY <1>8, ConsoleMoves
  <2> QED
    BY <1>0, <1>8, <2>1 DEF PlaceInv
<1>9. CASE ~IsPython /\ Console!InputEnds
  BY <1>0, <1>9, ConsoleMoves DEF PlaceInv
<1>10. GameStep \/ UNCHANGED vars \/ Console!RefreshElapses => UNCHANGED <<pc, line, refused>>
  BY OtherMoves, ConsoleMoves
<1> QED
  BY <1>1, <1>2, <1>3, <1>4, <1>5, <1>6, <1>7, <1>8, <1>9, <1>10, StepCases, Zenon

-----------------------------------------------------------------------------
(***************************************************************************)
(* What is thrown away, and what a reading object has understood.           *)
(***************************************************************************)
LEMMA LossInit == Init => LossInv
<1> SUFFICES ASSUME Init PROVE LossInv
  OBVIOUS
<1>1. pending = <<>> /\ pc = "starting"
  BY DEF Init, Console!Init, Console!Feed!Init
<1> QED
  BY <1>1 DEF LossInv

LEMMA LossStep == TypeInv /\ PlaceInv /\ LossInv /\ [Next]_vars => LossInv'
<1> SUFFICES ASSUME TypeInv, PlaceInv, LossInv, [Next]_vars PROVE LossInv'
  OBVIOUS
<1>0. line \in Nat /\ pending \in Seq(Message)
  BY DEF TypeInv
<1>1. line' = 0 => pending' = <<>>
  <2>1. CASE FeedMoves
    BY <1>0, <2>1 DEF FeedMoves
  <2>2. CASE FeedRenews
    BY <1>0, <2>2 DEF FeedRenews
  <2>3. CASE FeedAnswers \/ FeedStays
    BY <2>3 DEF FeedAnswers, FeedStays, LossInv
  <2>4. CASE FeedHands
    BY <2>4 DEF FeedHands, LossInv
  <2> QED
    BY <2>1, <2>2, <2>3, <2>4, StepFeed
<1>2. CASE GameStep
  <2>1. FeedMoves /\ pc' = pc /\ answer' = answer
    BY <1>2, GameFeed, OtherMoves DEF FeedMoves
  <2>2. ASSUME pending = <<>>, ending # "open" PROVE pending' = <<>> /\ ending' # "open"
    <3>1. ending' = "reset" /\ \E n \in 0..Len(pending) : pending' = SubSeq(pending, 1, n)
      BY <2>1, <2>2 DEF FeedMoves
    <3>2. Len(pending) = 0
      BY <2>2
    <3>3. pending' = SubSeq(pending, 1, 0)
      BY <3>1, <3>2
    <3> QED
      BY <3>1, <3>3, SubSeqEmpty
  <2> QED
    BY <1>1, <2>1, <2>2 DEF LossInv
<1>3. CASE UNCHANGED vars
  BY <1>3, OtherMoves DEF LossInv, vars
<1>4. CASE IsPython /\ UNCHANGED consoleVars
  <2>1. pc' = "starting"
    BY <1>4, OtherMoves DEF PlaceInv
  <2> QED
    BY <1>1, <2>1 DEF LossInv
<1>5. CASE Console!ReadsMessage
  BY <1>1, <1>5, ConsoleReads DEF LossInv, Counts
<1>6. CASE Console!ReadsEnd
  <2>1. pending' = <<>> /\ ending' # "open"
    BY <1>6, ConsoleFeed DEF FeedAnswers
  <2> QED
    BY <1>1, <2>1 DEF LossInv
<1>7. CASE Console!AttemptFails \/ Console!RefreshElapses
  <2>1. FeedStays
    BY <1>7, ConsoleFeed
  <2>2. pc' = "reconnecting" => pc = "reconnecting"
    BY <1>7, ConsoleMoves
  <2> QED
    BY <1>1, <2>1, <2>2 DEF LossInv, FeedStays
<1>8. CASE \/ Console!Starts \/ Console!ConnectSucceeds \/ Console!ReconnectSucceeds
           \/ Console!SendsCommand \/ Console!DeadlinePasses \/ Console!ReadsLine
           \/ Console!InputEnds
  <2>1. pc' # "reconnecting"
    BY <1>8, ConsoleMoves, ConsoleReads DEF Counts
  <2> QED
    BY <1>1, <2>1 DEF LossInv
<1> QED
  BY <1>2, <1>3, <1>4, <1>5, <1>6, <1>7, <1>8, StepCases, Zenon

LEMMA ReadInit == Init => ReadInv
  BY DEF Init, Python!Init, ReadInv

LEMMA ReadStep == ReadInv /\ [Next]_vars => ReadInv'
<1> SUFFICES ASSUME ReadInv, [Next]_vars PROVE ReadInv'
  OBVIOUS
<1>0. cli' = cli
  BY CliStays
<1>1. CASE call' = call \/ call' = "none"
  BY <1>0, <1>1 DEF ReadInv, IsPython, BadTokens
<1>2. CASE Python!BeginsRead
  <2>1. call' = "read" => ~BadTokens(cli.tokens)
    BY <1>2, PythonAsksTheSame DEF Python!BeginsRead
  <2> QED
    BY <1>0, <2>1 DEF ReadInv, IsPython, BadTokens
<1>3. (\/ Python!Connects \/ Python!ReadsMessage \/ Python!ReadsEnd \/ Python!Closes
       \/ \E json \in PyCommand : Python!SendsCommand(json))
          => call' = call \/ call' = "none"
  BY Zenon DEF Python!Connects, Python!ReadsMessage, Python!ReadsEnd, Python!Closes,
     Python!SendsCommand
<1>4. GameStep \/ UNCHANGED vars \/ UNCHANGED pythonVars => call' = call
  BY OtherMoves DEF pythonVars
<1> QED
  BY <1>1, <1>2, <1>3, <1>4, StepCases, Zenon

-----------------------------------------------------------------------------
(***************************************************************************)
(* --max-events.                                                            *)
(***************************************************************************)
LEMMA LimitInit == Init => LimitInv
<1> SUFFICES ASSUME Init PROVE LimitInv
  OBVIOUS
<1>1. emitted = 0 /\ printed = <<>> /\ pc = "starting"
  BY DEF Init, Console!Init
<1>2. Limited => 0 <= Max({1, cli.max})
  <2>1. SUFFICES ASSUME Limited PROVE 0 <= Max({1, cli.max})
    OBVIOUS
  <2>2. cli.max \in Nat
    BY <2>1, CommandLineAssumption DEF Init, Limited
  <2>3. Max({1, cli.max}) \in Nat
    <3>1. CASE cli.max <= 1
      BY <2>2, <3>1, MaxIs
    <3>2. CASE cli.max > 1
      BY <2>2, <3>2, MaxIs
    <3> QED
      BY <2>2, <3>1, <3>2
  <2> QED
    BY <2>3
<1> QED
  BY <1>1, <1>2 DEF LimitInv

\* The limit in force: one for zero.
LEMMA LimitIs ==
    ASSUME TypeInv, Limited
    PROVE  /\ cli.max \in Nat
           /\ Max({1, cli.max}) = IF cli.max <= 1 THEN 1 ELSE cli.max
<1>1. cli.max \in Nat
  BY CommandLineAssumption DEF TypeInv, Limited
<1>2. CASE cli.max <= 1
  BY <1>1, <1>2, MaxIs
<1>3. CASE cli.max > 1
  BY <1>1, <1>3, MaxIs
<1> QED
  BY <1>1, <1>2, <1>3

LEMMA CountsWithinLimit ==
    ASSUME TypeInv, LimitInv, ~IsPython, cli' = cli, pc \notin {"done", "failed"},
           NEW back, back \notin {"done", "failed"}, Counts(back)
    PROVE  LimitInv'
<1>1. printed \in Seq({StatsEventToValue(m.meant) : m \in Texts})
  BY DEF TypeInv
<1>2. PICK n \in Nat : n = Len(printed)
  BY <1>1, LenProperties
<1>3. emitted = n
  BY <1>2 DEF LimitInv
<1>4. CASE emitted' = emitted /\ printed' = printed /\ pc' = back
  BY <1>4, RefusedStays DEF LimitInv
<1>5. CASE /\ emitted' = emitted + 1 /\ \E x : printed' = Append(printed, x)
           /\ pc' = IF cli.program \in {"rl_events", "stdin"} /\ Console!AtLimit(emitted + 1)
                    THEN "done" ELSE back
  <2>1. PICK x : printed' = Append(printed, x)
    BY <1>5
  <2>2. Len(printed') = n + 1
    BY <1>1, <1>2, <2>1
  <2>3. CASE Limited
    <3>1. PICK max \in Nat : max = cli.max
      BY <2>3, LimitIs
    <3>2. PICK top : top = Max({1, cli.max})
      OBVIOUS
    <3>3. top = IF max <= 1 THEN 1 ELSE max
      BY <2>3, <3>1, <3>2, LimitIs
    <3>4. (n = 0 \/ n < max) /\ cli.program \in {"rl_events", "stdin"} /\ max # -1
      BY <1>3, <2>3, <3>1 DEF LimitInv, Limited
    <3>5. Console!AtLimit(n + 1) <=> n + 1 >= max
      BY <3>1, <3>4 DEF Console!AtLimit, Console!NoLimit
    <3>6. emitted' = n + 1 /\ pc' = IF n + 1 >= max THEN "done" ELSE back
      BY <1>3, <1>5, <3>4, <3>5
    <3>7. n + 1 <= top /\ (n + 1 >= max => n + 1 = top) /\ (~(n + 1 >= max) => n + 1 < max)
      BY <3>3, <3>4
    <3>8. cli'.max = max /\ Max({1, cli'.max}) = top
      BY <3>1, <3>2
    <3>9. \/ pc' = "done" /\ emitted' = top
          \/ pc' # "done" /\ emitted' < max /\ emitted' <= top
      BY <3>6, <3>7
    <3> QED
      BY <2>2, <3>6, <3>7, <3>8, <3>9 DEF LimitInv
  <2>4. CASE ~Limited
    <3>1. ~Limited' /\ (cli.program = "rl_events" => pc' # "done")
      BY <1>5, <2>4, RefusedStays DEF Limited, Console!AtLimit, Console!NoLimit
    <3> QED
      BY <1>3, <1>5, <2>2, <3>1 DEF LimitInv
  <2> QED
    BY <2>3, <2>4
<1> QED
  BY <1>4, <1>5 DEF Counts

LEMMA LimitStep == TypeInv /\ PlaceInv /\ LimitInv /\ [Next]_vars => LimitInv'
<1> SUFFICES ASSUME TypeInv, PlaceInv, LimitInv, [Next]_vars PROVE LimitInv'
  OBVIOUS
<1>0. cli' = cli /\ (IsPython' <=> IsPython) /\ (Limited' <=> Limited)
  BY CliStays, RefusedStays
<1>1. CASE /\ UNCHANGED <<emitted, printed>>
           /\ pc \notin {"done", "failed"} \/ pc' = pc
           /\ cli.program = "rl_events" => pc' # "done" \/ pc' = pc
  <2>1. Max({1, cli'.max}) = Max({1, cli.max}) /\ cli'.max = cli.max
    BY <1>0
  <2> QED
    BY <1>0, <1>1, <2>1 DEF LimitInv
<1>2. CASE ~IsPython /\ Console!ReadsMessage
  <2>1. CASE Counts("reading")
    <3>1. pc = "reading"
      BY <1>2, ConsoleReads
    <3> QED
      BY <1>0, <1>2, <2>1, <3>1, CountsWithinLimit
  <2>2. CASE ~Counts("reading")
    BY <1>1, <1>2, <2>2, ConsoleReads
  <2> QED
    BY <2>1, <2>2
<1>3. CASE ~IsPython /\ Console!ReadsLine
  <2>1. CASE Counts("stdin")
    <3>1. pc = "stdin"
      BY <1>3, ConsoleReads
    <3> QED
      BY <1>0, <1>3, <2>1, <3>1, CountsWithinLimit
  <2>2. CASE ~Counts("stdin")
    BY <1>1, <1>3, <2>2, ConsoleReads
  <2> QED
    BY <2>1, <2>2
<1>4. CASE Console!ReadsEnd
  BY <1>1, <1>4, ConsoleMoves DEF Console!Reconnecting
<1>5. CASE Console!InputEnds
  <2>1. cli.program = "stdin"
    BY <1>5, ConsoleMoves DEF PlaceInv
  <2> QED
    BY <1>1, <1>5, <2>1, ConsoleMoves
<1>6. CASE \/ Console!Starts \/ Console!ConnectSucceeds \/ Console!ReconnectSucceeds
           \/ Console!AttemptFails \/ Console!RefreshElapses \/ Console!SendsCommand
           \/ Console!DeadlinePasses
  BY <1>1, <1>6, ConsoleMoves
<1>7. CASE IsPython /\ UNCHANGED consoleVars
  <2>1. ~Limited /\ pc' = pc /\ emitted' = emitted /\ cli.program # "rl_events"
    BY <1>7, OtherMoves DEF IsPython, Limited
  <2> QED
    BY <1>0, <1>7, <2>1 DEF LimitInv
<1>8. CASE GameStep \/ UNCHANGED vars
  BY <1>1, <1>8, OtherMoves
<1> QED
  BY <1>2, <1>3, <1>4, <1>5, <1>6, <1>7, <1>8, StepCases, Zenon

-----------------------------------------------------------------------------
(***************************************************************************)
(* What is shown, step by step.                                             *)
(***************************************************************************)
LEMMA ShownAre ==
    /\ Shown = ShownOf(printed) /\ WantedSoFar = MeantOf(Keep(ReadSoFar, Wanted))
    /\ Shown' = ShownOf(printed') /\ WantedSoFar' = MeantOf(Keep(ReadSoFar', Wanted'))
  BY Zenon DEF Shown, ShownOf, WantedSoFar, MeantOf

LEMMA ShownInit == Init => ShownIsWanted
<1> SUFFICES ASSUME Init PROVE ShownIsWanted
  OBVIOUS
<1>1. printed = <<>> /\ ReadSoFar = <<>>
  BY SubSeqEmpty DEF Init, Console!Init, Console!Feed!Init, ReadSoFar
<1>2. Keep(ReadSoFar, Wanted) = <<>>
  BY <1>1, KeepEmpty
<1>3. Shown = <<>> /\ WantedSoFar = <<>>
  <2>1. ShownOf(<<>>) = <<>> /\ MeantOf(<<>>) = <<>>
    BY DEF ShownOf, MeantOf
  <2> QED
    BY <1>1, <1>2, <2>1, ShownAre
<1>4. IsPartOf(<<>>, <<>>)
  <2>1. PICK place : place = [i \in {} |-> i]
    OBVIOUS
  <2>2. place \in [DOMAIN <<>> -> DOMAIN <<>>] /\ DOMAIN <<>> = {}
    BY <2>1
  <2> QED
    BY <2>2 DEF IsPartOf
<1> QED
  BY <1>3, <1>4 DEF ShownIsWanted

\* A text that is read is wanted and shown, or neither; player_board may leave
\* out a wanted one.
LEMMA ShownGrows ==
    ASSUME TypeInv, ShownIsWanted, NEW m \in Texts, ShowsText(m)
    PROVE  ShownIsWanted'
<1>1. PICK P : P = {StatsEventToValue(t.meant) : t \in Texts}
  OBVIOUS
<1>2. PICK f : f = Shown
  OBVIOUS
<1>3. PICK w : w = WantedSoFar
  OBVIOUS
<1>4. PICK A : A = {ParseStatsEvent(y) : y \in P}
  OBVIOUS
<1>5. PICK B : B = {t.meant : t \in Texts}
  OBVIOUS
<1>6. PICK x : x = StatsEventToValue(m.meant)
  OBVIOUS
<1>7. PICK e : e = m.meant
  OBVIOUS
<1>8. printed \in Seq(P) /\ x \in P /\ ReadSoFar \in Seq(Texts)
  BY <1>1, <1>6, ReadSoFarType, Zenon DEF TypeInv
<1>9. f \in Seq(A) /\ ShownOf(Append(printed, x)) = Append(f, ParseStatsEvent(x))
  BY <1>2, <1>4, <1>8, ShownOfAppend, ShownAre
<1>10. Keep(ReadSoFar, Wanted) \in Seq(Texts)
  BY <1>8, KeepType
<1>11. w \in Seq(B) /\ e \in B
       /\ MeantOf(Append(Keep(ReadSoFar, Wanted), m)) = Append(w, e)
  BY <1>3, <1>5, <1>7, <1>10, MeantOfAppend, ShownAre
<1>12. WantedSoFar' = IF m \in Wanted THEN Append(w, e) ELSE w
  <2>1. ReadSoFar' = Append(ReadSoFar, m) /\ Wanted' = Wanted
    BY WantedStays, Zenon DEF ShowsText
  <2>2. Keep(ReadSoFar', Wanted') = IF m \in Wanted THEN Append(Keep(ReadSoFar, Wanted), m)
                                                    ELSE Keep(ReadSoFar, Wanted)
    BY <1>8, <2>1, KeepAppend
  <2> QED
    BY <1>3, <1>11, <2>2, ShownAre
<1>13. cli' = cli
  BY Zenon DEF ShowsText
<1>14. m \in Wanted => ParseStatsEvent(x) = e
  <2>1. SUFFICES ASSUME m \in Wanted PROVE ParseStatsEvent(x) = e
    OBVIOUS
  <2>2. IsMeant(m) /\ m.meant # NotAnEvent
    BY <2>1, TextsAreMeant DEF Wanted
  <2> QED
    BY <1>6, <1>7, <2>2, ParsedAgain
<1>15. \/ Shown' = f /\ (m \notin Wanted \/ cli.program = "player_board")
       \/ Shown' = Append(f, e) /\ m \in Wanted
  <2>1. CASE printed' = printed /\ (m \notin Wanted \/ cli.program = "player_board")
    BY <1>2, <2>1, ShownAre
  <2>2. CASE printed' = Append(printed, x) /\ m \in Wanted
    BY <1>9, <1>14, <2>2, ShownAre
  <2> QED
    BY <1>6, <2>1, <2>2, Zenon DEF ShowsText
<1>16. CASE cli.program # "player_board"
  <2>1. f = w
    BY <1>2, <1>3, <1>16 DEF ShownIsWanted
  <2>2. Shown' = WantedSoFar'
    BY <1>12, <1>15, <1>16, <2>1
  <2> QED
    BY <1>13, <1>16, <2>2 DEF ShownIsWanted
<1>17. CASE cli.program = "player_board"
  <2>1. IsPartOf(f, w)
    BY <1>2, <1>3, <1>17 DEF ShownIsWanted
  <2>2. m \in Wanted => e \in A
    BY <1>4, <1>8, <1>14
  <2>3. IsPartOf(f, Append(w, e))
    BY <1>9, <1>11, <2>1, PartOfLonger
  <2>4. m \in Wanted => IsPartOf(Append(f, e), Append(w, e))
    BY <1>9, <1>11, <2>1, <2>2, PartsGrow
  <2>5. PICK g : g = Shown'
    OBVIOUS
  <2>6. PICK v : v = WantedSoFar'
    OBVIOUS
  <2>7. IsPartOf(g, v)
    BY <1>12, <1>15, <2>1, <2>3, <2>4, <2>5, <2>6, Zenon
  <2>8. IsPartOf(Shown, WantedSoFar)'
    BY <2>5, <2>6, <2>7 DEF IsPartOf
  <2> QED
    BY <1>13, <1>17, <2>8 DEF ShownIsWanted
<1> QED
  BY <1>16, <1>17

LEMMA ShownStays ==
    ASSUME ShownIsWanted, ShowsNothing
    PROVE  ShownIsWanted'
<1>1. /\ cli' = cli /\ handed' = handed /\ at' = at /\ printed' = printed
  BY DEF ShowsNothing
<1>2. ReadSoFar' = ReadSoFar /\ Wanted' = Wanted
  BY <1>1, WantedStays, Zenon DEF ReadSoFar
<1>3. Shown' = Shown /\ WantedSoFar' = WantedSoFar
  BY <1>1, <1>2, ShownAre, Zenon
<1>4. PICK g : g = Shown'
  OBVIOUS
<1>5. PICK v : v = WantedSoFar'
  OBVIOUS
<1>6. IsPartOf(Shown, WantedSoFar) => IsPartOf(Shown, WantedSoFar)'
  BY <1>3, <1>4, <1>5, Zenon DEF IsPartOf
<1> QED
  BY <1>1, <1>3, <1>6 DEF ShownIsWanted

-----------------------------------------------------------------------------
(***************************************************************************)
(* What is sent.                                                            *)
(***************************************************************************)
LEMMA SentInit == Init => SentInv
<1> SUFFICES ASSUME Init PROVE SentInv
  OBVIOUS
<1>1. sent = <<>>
  BY DEF Init, Console!Init
<1> QED
  BY <1>1 DEF SentInv

\* What a step sends.
LEMMA StepSends ==
    ASSUME [Next]_vars, TypeInv, PlaceInv
    PROVE  \/ sent' = sent
           \/ \E json : IsJsonCommand(json) /\ Accepted(json) /\ sent' = <<Sent(json)>>
<1>1. CASE GameStep \/ UNCHANGED vars
  BY <1>1, GameFeed DEF vars
<1>2. CASE ~IsPython /\ Console!SendsCommand
  <2>1. pc = "sending" /\ (sent' = sent \/ sent' = <<Console!Sent(cli.command)>>)
    BY <1>2 DEF Console!SendsCommand
  <2>2. cli.program = "rl_command" /\ ~Refused /\ cli \in CommandLine
    BY <2>1 DEF PlaceInv, TypeInv
  <2>3. IsJsonCommand(cli.command)
    BY <2>2, CommandLineAssumption
  <2>4. Console!Accepted(cli.command)
    BY <2>2 DEF Refused, Console!ArgumentsRefused
  <2>5. Accepted(cli.command) /\ Console!Sent(cli.command) = Sent(cli.command)
    BY <2>4, ConsoleSendsTheSame, Zenon
  <2> QED
    BY <2>1, <2>3, <2>5
<1>3. ASSUME NEW json \in PyCommand, Python!SendsCommand(json)
      PROVE  sent' = sent \/ (IsJsonCommand(json) /\ Accepted(json) /\ sent' = <<Sent(json)>>)
  <2>1. sent' = sent \/ (Python!Accepted(json) /\ sent' = <<Python!Sent(json)>>)
    BY <1>3, Zenon DEF Python!SendsCommand, Python!Writes
  <2> QED
    BY <2>1, PyCommandAssumption, PythonSendsTheSame, Zenon
<1>4. CASE \/ Console!Starts \/ Console!ConnectSucceeds \/ Console!ReconnectSucceeds
           \/ Console!AttemptFails \/ Console!ReadsMessage \/ Console!ReadsEnd
           \/ Console!RefreshElapses \/ Console!DeadlinePasses
           \/ Console!ReadsLine \/ Console!InputEnds
  BY <1>4, Zenon DEF Console!Starts, Console!ConnectSucceeds, Console!ReconnectSucceeds,
     Console!AttemptFails, Console!ReadsMessage, Console!ReadsEnd,
     Console!RefreshElapses, Console!DeadlinePasses, Console!ReadsLine, Console!InputEnds
<1>5. CASE Python!Connects \/ Python!BeginsRead \/ Python!ReadsMessage \/ Python!ReadsEnd
           \/ Python!Closes
  BY <1>5, Zenon DEF Python!Connects, Python!BeginsRead, Python!ReadsMessage, Python!ReadsEnd,
     Python!Closes
<1> QED
  BY <1>1, <1>2, <1>3, <1>4, <1>5, StepCases, Zenon

LEMMA SentStep == TypeInv /\ PlaceInv /\ SentInv /\ [Next]_vars => SentInv'
<1> SUFFICES ASSUME TypeInv, PlaceInv, SentInv, [Next]_vars PROVE SentInv'
  OBVIOUS
<1>1. CASE sent' = sent
  BY <1>1, Zenon DEF SentInv
<1>2. ASSUME NEW json, IsJsonCommand(json), Accepted(json), sent' = <<Sent(json)>>
      PROVE  SentInv'
  <2>1. PICK s : s = Sent(json)
    OBVIOUS
  <2>2. s.asked = json
    BY <2>1 DEF Sent
  <2>3. ASSUME NEW i \in DOMAIN sent'
        PROVE  /\ IsJsonCommand(sent'[i].asked) /\ Accepted(sent'[i].asked)
               /\ sent'[i] = Sent(sent'[i].asked)
    <3>1. sent'[i] = s
      BY <1>2, <2>1, <2>3
    <3> QED
      BY <1>2, <2>1, <2>2, <3>1, Zenon
  <2> QED
    BY <2>3, Zenon DEF SentInv
<1> QED
  BY <1>1, <1>2, StepSends

-----------------------------------------------------------------------------
(***************************************************************************)
(* The theorems.                                                            *)
(***************************************************************************)
Inv == TypeInv /\ PlaceInv /\ LossInv /\ ReadInv /\ LimitInv /\ ShownIsWanted /\ SentInv

LEMMA InvInit == Init => Inv
  BY TypeInit, PlaceInit, LossInit, ReadInit, LimitInit, ShownInit, SentInit DEF Inv

LEMMA InvStep == Inv /\ [Next]_vars => Inv'
<1> SUFFICES ASSUME Inv, [Next]_vars PROVE Inv'
  OBVIOUS
<1>0. TypeInv /\ PlaceInv /\ LossInv /\ ReadInv /\ LimitInv /\ ShownIsWanted /\ SentInv
  BY DEF Inv
<1>1. ShownIsWanted'
  BY <1>0, StepShows, ShownGrows, ShownStays
<1>2. TypeInv' /\ PlaceInv' /\ LossInv'
  BY <1>0, TypeStep, PlaceStep, LossStep
<1>3. ReadInv' /\ LimitInv' /\ SentInv'
  BY <1>0, ReadStep, LimitStep, SentStep
<1> QED
  BY <1>1, <1>2, <1>3 DEF Inv

\* The variables keep their types, a program that is refused its arguments
\* goes nowhere, and the other parts of the invariant hold with them.
THEOREM InvHolds == Spec => []Inv
<1>1. Init => Inv
  BY InvInit
<1>2. Inv /\ [Next]_vars => Inv'
  BY InvStep
<1> QED
  BY <1>1, <1>2, PTL DEF Spec

\* rl_events, tick_listener, raw_events, rl_command and a Python program show
\* exactly the events they were asked for, each once and in order, over every
\* reconnect and whatever odd messages come between; player_board shows some
\* of the ticks in order; --max-events ends rl_events at exactly that many.
THEOREM PrintsHolds == Spec => []PrintsWhatItWasAsked
<1>1. ASSUME Inv PROVE PrintsWhatItWasAsked
  <2>0. TypeInv /\ PlaceInv /\ LimitInv /\ ShownIsWanted
    BY <1>1 DEF Inv
  <2>1. IF cli.program = "player_board" THEN IsPartOf(Shown, WantedSoFar)
                                        ELSE Shown = WantedSoFar
    BY <2>0 DEF ShownIsWanted
  <2>2. Limited => Len(printed) <= Max({1, cli.max})
    BY <2>0 DEF LimitInv, Limited, IsPython
  <2>3. cli.program = "rl_events" /\ pc = "done" => Len(printed) = Max({1, cli.max})
    BY <2>0 DEF LimitInv, IsPython
  <2> QED
    BY <2>1, <2>2, <2>3 DEF PrintsWhatItWasAsked
<1> QED
  BY <1>1, InvHolds, PTL

\* Every message or line a program reads is understood as its writer meant it,
\* under the names of earlier versions and with data in a string, and the JSON
\* the library writes of an event is read back as that event.
THEOREM DecodedHolds == Spec => []DecodedIsWritten
<1>1. ASSUME Inv PROVE DecodedIsWritten
  <2>0. TypeInv
    BY <1>1 DEF Inv
  <2>1. Range(ReadSoFar) \subseteq Texts
    <3>1. PICK s : s = ReadSoFar
      OBVIOUS
    <3>2. s \in Seq(Texts)
      BY <2>0, <3>1, ReadSoFarType
    <3>3. \A i \in DOMAIN s : s[i] \in Texts
      BY <3>2, LenProperties, ElementOfSeq
    <3> QED
      BY <3>1, <3>3 DEF Range
  <2>2. ASSUME NEW m \in Range(ReadSoFar), m.form = "json"
        PROVE  /\ ParseStatsEvent(m.json) = m.meant
               /\ m.meant # NotAnEvent => ParseStatsEvent(StatsEventToValue(m.meant)) = m.meant
    <3>1. IsMeant(m)
      BY <2>0, <2>1, TextsAreMeant
    <3> QED
      BY <2>2, <3>1, ParsedAsMeant, ParsedAgain
  <2> QED
    BY <2>2, Zenon DEF DecodedIsWritten
<1> QED
  BY <1>1, InvHolds, PTL

\* A command reaches the game with every field the user set, in a form the
\* parser accepts again, and rl_command connects exactly for the commands the
\* game would take.
THEOREM SentHolds == Spec => []SentMeansAsked
<1>1. ASSUME Inv PROVE SentMeansAsked
  <2>0. TypeInv /\ PlaceInv /\ SentInv
    BY <1>1 DEF Inv
  <2>1. ASSUME NEW i \in DOMAIN sent
        PROVE  /\ WellFormed(sent[i].asked) /\ Accepted(sent[i].wire)
               /\ sent[i].wire.command = sent[i].asked.command
               /\ Says(sent[i].wire) = Says(sent[i].asked)
               /\ DOMAIN sent[i].wire.data = DOMAIN Says(sent[i].wire)
    <3>1. PICK json : json = sent[i].asked
      OBVIOUS
    <3>2. IsJsonCommand(json) /\ Accepted(json) /\ sent[i] = Sent(json)
      BY <2>0, <3>1, Zenon DEF SentInv
    <3>3. WellFormed(json)
      BY <3>2, AcceptedIsWellFormed
    <3>4. PICK w : w = Sent(json).wire
      OBVIOUS
    <3>5. w.command = json.command /\ Accepted(w) /\ Says(w) = Says(json)
          /\ DOMAIN w.data = DOMAIN Says(w)
      BY <3>2, <3>4, SentKeepsMeaning
    <3>6. sent[i].wire = w
      BY <3>2, <3>4
    <3> QED
      BY <3>1, <3>3, <3>5, <3>6, Zenon
  <2>2. ASSUME cli.program = "rl_command", pc # "starting"
        PROVE  WellFormed(cli.command) <=> line > 0 \/ refused > 0 \/ pc = "connecting"
    <3>1. IsJsonCommand(cli.command)
      BY <2>0, <2>2, CommandLineAssumption DEF TypeInv
    <3>2. WellFormed(cli.command) <=> Accepted(cli.command)
      BY <3>1, AcceptedIsWellFormed
    <3>3. Accepted(cli.command) <=> Console!Accepted(cli.command)
      BY ConsoleSendsTheSame, Zenon
    <3>4. Console!Accepted(cli.command) <=> ~Refused
      BY <2>2 DEF Refused, Console!ArgumentsRefused
    <3>5. Refused => line = 0 /\ refused = 0 /\ pc # "connecting"
      BY <2>0 DEF PlaceInv
    <3>6. ~Refused => line > 0 \/ refused > 0 \/ pc = "connecting"
      BY <2>0, <2>2 DEF PlaceInv
    <3>7. ~(0 > 0)
      OBVIOUS
    <3> QED
      BY <3>2, <3>3, <3>4, <3>5, <3>6, <3>7
  <2> QED
    BY <2>1, <2>2, Zenon DEF SentMeansAsked
<1> QED
  BY <1>1, InvHolds, PTL

\* What the game has written is thrown away only after an error, or when a
\* Python program asks for a connection or has closed its client, and an
\* object loses its client by nothing but close.
THEOREM LossHolds == Spec => NothingLostUnasked
<1>1. ASSUME Inv, [Next]_vars
      PROVE  /\ line' # line /\ pending # <<>> =>
                   IF IsPython THEN ~holds \/ method' \in {"connect", "reconnect"}
                               ELSE answer = "error"
             /\ holds /\ ~holds' => method' = "close"
  <2>0. PlaceInv /\ LossInv
    BY <1>1 DEF Inv
  <2>1. CASE GameStep \/ UNCHANGED vars
    <3>1. line' = line /\ holds' = holds
      BY <2>1, GameFeed DEF FeedMoves, pythonVars, vars
    <3> QED
      BY <3>1
  <2>2. CASE ~IsPython /\ UNCHANGED pythonVars
             /\ (Console!ConnectSucceeds \/ Console!ReconnectSucceeds)
    <3>1. pc \in {"connecting", "reconnecting"} /\ holds' = holds
      BY <2>2, ConsoleMoves DEF pythonVars
    <3>2. pending # <<>> => answer = "error"
      BY <2>0, <2>2, <3>1 DEF PlaceInv, LossInv
    <3> QED
      BY <2>2, <3>1, <3>2
  <2>3. CASE ~IsPython /\ UNCHANGED pythonVars
             /\ (\/ Console!Starts \/ Console!AttemptFails \/ Console!ReadsMessage
                 \/ Console!ReadsEnd \/ Console!RefreshElapses \/ Console!SendsCommand
                 \/ Console!DeadlinePasses \/ Console!ReadsLine \/ Console!InputEnds)
    <3>1. FeedStays \/ FeedHands \/ FeedAnswers => line' = line
      BY DEF FeedStays, FeedHands, FeedAnswers
    <3>2. line' = line
      BY <2>3, <3>1, ConsoleFeed
    <3>3. holds' = holds
      BY <2>3 DEF pythonVars
    <3> QED
      BY <3>2, <3>3
  <2>4. CASE IsPython /\ Python!Connects
    <3>1. method' \in {"connect", "reconnect"} /\ (holds' = TRUE \/ holds' = holds)
      BY <2>4, Zenon DEF Python!Connects, Python!Connected, Python!NotConnected
    <3> QED
      BY <2>4, <3>1
  <2>5. CASE IsPython /\ (Python!BeginsRead \/ \E json \in PyCommand : Python!SendsCommand(json))
    <3>1. FeedStays \/ (FeedRenews /\ ~holds)
      BY <2>5, PythonFeed, Zenon
    <3>2. line' = line \/ ~holds
      BY <3>1 DEF FeedStays
    <3>3. holds' = TRUE \/ holds' = holds
      BY <2>5, Zenon DEF Python!BeginsRead, Python!SendsCommand, Python!EnsureConnected,
         Python!Connected, Python!NotConnected
    <3> QED
      BY <2>5, <3>2, <3>3
  <2>6. CASE IsPython /\ (Python!ReadsMessage \/ Python!ReadsEnd)
    <3>1. line' = line
      BY <2>6, PythonFeed DEF FeedHands, FeedAnswers
    <3>2. holds' = holds
      BY <2>6, Zenon DEF Python!ReadsMessage, Python!ReadsEnd
    <3> QED
      BY <3>1, <3>2
  <2>7. CASE IsPython /\ Python!Closes
    <3>1. line' = line
      BY <2>7, PythonFeed DEF FeedStays
    <3>2. method' = "close"
      BY <2>7, Zenon DEF Python!Closes
    <3> QED
      BY <3>1, <3>2
  <2> QED
    BY <1>1, <2>1, <2>2, <2>3, <2>4, <2>5, <2>6, <2>7, StepCases, Zenon
<1>2. Inv /\ [Next]_vars =>
        [/\ line' # line /\ pending # <<>> =>
               IF IsPython THEN ~holds \/ method' \in {"connect", "reconnect"}
                           ELSE answer = "error"
         /\ holds /\ ~holds' => method' = "close"]_vars
  BY <1>1, Zenon
<1> QED
  BY <1>2, InvHolds, PTL DEF Spec, NothingLostUnasked

-----------------------------------------------------------------------------
(***************************************************************************)
(* The programs and the feed.                                               *)
(***************************************************************************)
LEMMA SameFeed ==
    /\ Python!Feed!Renew <=> Console!Feed!Renew
    /\ Python!Feed!Skip <=> Console!Feed!Skip
    /\ Python!Feed!HandOver <=> Console!Feed!HandOver
    /\ Python!Feed!AnswerClosed <=> Console!Feed!AnswerClosed
    /\ Python!Feed!AnswerError <=> Console!Feed!AnswerError
    /\ Python!feedVars' = Python!feedVars <=> Console!Feed!feedVars' = Console!Feed!feedVars
    /\ Console!feedVars' = Console!feedVars <=> Console!Feed!feedVars' = Console!Feed!feedVars
<1>1. Python!OddMessage = Console!OddMessage
  BY ConsoleReadsTheSame, PythonReadsTheSame, Zenon
<1>2. Python!Feed!Renew <=> Console!Feed!Renew
  BY Zenon DEF Python!Feed!Renew, Console!Feed!Renew
<1>3. Python!Feed!Skip <=> Console!Feed!Skip
  BY <1>1, Zenon DEF Python!Feed!Skip, Console!Feed!Skip
<1>4. Python!Feed!HandOver <=> Console!Feed!HandOver
  BY <1>1, Zenon DEF Python!Feed!HandOver, Console!Feed!HandOver
<1>5. /\ Python!Feed!AnswerClosed <=> Console!Feed!AnswerClosed
      /\ Python!Feed!AnswerError <=> Console!Feed!AnswerError
  BY Zenon DEF Python!Feed!AnswerClosed, Console!Feed!AnswerClosed, Python!Feed!AnswerError,
     Console!Feed!AnswerError
<1>6. /\ Python!feedVars' = Python!feedVars <=> Console!Feed!feedVars' = Console!Feed!feedVars
      /\ Console!feedVars' = Console!feedVars <=> Console!Feed!feedVars' = Console!Feed!feedVars
  BY DEF Python!feedVars, Console!feedVars, Console!Feed!feedVars
<1> QED
  BY <1>2, <1>3, <1>4, <1>5, <1>6

LEMMA FeedStep == [Next]_vars => [Console!Feed!Next]_(Console!Feed!feedVars)
<1> SUFFICES ASSUME [Next]_vars
             PROVE  Console!Feed!Next \/ Console!Feed!feedVars' = Console!Feed!feedVars
  OBVIOUS
<1>1. CASE GameStep
  <2>1. \/ \E m \in Message : Console!Feed!Write(m)
        \/ \E how \in {"closed", "bad"} : Console!Feed!Ends(how)
        \/ Console!Feed!Resets
    BY <1>1, Zenon DEF GameStep
  <2> QED
    BY <2>1, Zenon DEF Console!Feed!Next, Console!Feed!Game
<1>2. CASE Console!ConnectSucceeds \/ Console!ReconnectSucceeds
  BY <1>2, Zenon DEF Console!ConnectSucceeds, Console!ReconnectSucceeds, Console!Feed!Next
<1>3. CASE Console!ReadsMessage \/ Console!ReadsEnd
  BY <1>3, Zenon DEF Console!ReadsMessage, Console!ReadsEnd, Console!Feed!Next
<1>4. CASE \/ Console!Starts \/ Console!AttemptFails \/ Console!RefreshElapses
           \/ Console!SendsCommand \/ Console!DeadlinePasses \/ Console!ReadsLine
           \/ Console!InputEnds
  <2>1. Console!feedVars' = Console!feedVars
    BY <1>4, Zenon DEF Console!Starts, Console!AttemptFails, Console!RefreshElapses,
       Console!SendsCommand, Console!DeadlinePasses, Console!ReadsLine, Console!InputEnds
  <2> QED
    BY <2>1, SameFeed
<1>5. CASE Python!Connects \/ Python!BeginsRead \/ \E json \in PyCommand : Python!SendsCommand(json)
  <2>1. Python!Feed!Renew \/ Python!feedVars' = Python!feedVars
    BY <1>5, Zenon DEF Python!Connects, Python!BeginsRead, Python!SendsCommand, Python!Connected,
       Python!NotConnected, Python!EnsureConnected
  <2>2. Console!Feed!Renew \/ Console!Feed!feedVars' = Console!Feed!feedVars
    BY <2>1, SameFeed
  <2> QED
    BY <2>2, Zenon DEF Console!Feed!Next
<1>6. CASE Python!ReadsMessage \/ Python!ReadsEnd
  <2>1. \/ Python!Feed!Skip \/ Python!Feed!HandOver
        \/ Python!Feed!AnswerClosed \/ Python!Feed!AnswerError
    BY <1>6, Zenon DEF Python!ReadsMessage, Python!ReadsEnd
  <2> QED
    BY <2>1, SameFeed, Zenon DEF Console!Feed!Next
<1>7. CASE Python!Closes
  BY <1>7, SameFeed DEF Python!Closes
<1>8. CASE UNCHANGED vars
  BY <1>8 DEF vars, Console!Feed!feedVars
<1> QED
  BY <1>1, <1>2, <1>3, <1>4, <1>5, <1>6, <1>7, <1>8, StepCases, Zenon

\* A program, and the game, do to the feed only what EventFeed lets them: the
\* promise that StatsClient keeps (StatsClientProofs) is all they build on.
THEOREM ProgramsUseTheFeed == Spec => Console!Feed!Spec
<1>1. Init => Console!Feed!Init
  BY Zenon DEF Init
<1> QED
  BY <1>1, FeedStep, PTL DEF Spec, Console!Feed!Spec

=============================================================================
