----------------------------- MODULE FeedReaders -----------------------------
(***************************************************************************)
(* One program at work on the Stats API: the game at one end of the feed    *)
(* (EventFeed, which StatsClient implements) and, as cli says, a console    *)
(* program (ConsolePrograms) or a Python program with its object            *)
(* (PythonObject) at the other.                                             *)
(***************************************************************************)
EXTENDS EventJson, Commands, SequencesExt, Selections

CONSTANTS Message,        \* what the game may write: [form, meant, json]
          CommandLine,    \* the programs that may run
          PyCommand,      \* JSON a Python program sends
          Traffic,        \* bound: messages the game writes, per program
          MaxLines,       \* bound: connections
          StartAttempts,
          Attempts

ASSUME AttemptsAssumption == StartAttempts \in Nat \ {0} /\ Attempts \in Nat \ {0}

\* meant says what the writer of a message or line meant by it; every message
\* on the socket is a JSON value.
ASSUME MessageAssumption == \A m \in Message : m.form = "json" /\ IsMeant(m)

\* asks says what a user asked for with tokens that are understood.
ASSUME CommandLineAssumption ==
    \A c \in CommandLine :
        /\ c.program \in {"rl_events", "stdin", "player_board", "tick_listener",
                          "raw_events", "rl_command", "python"}
        /\ c.tokens \in Seq(STRING) /\ c.max \in Nat \cup {-1}
        /\ c.input \in Seq(Range(c.input)) /\ \A m \in Range(c.input) : IsMeant(m)
        /\ ~BadTokens(c.tokens) =>
              c.asks = IF c.program = "python" THEN AskedInPython(c.tokens)
                                               ELSE AskedOnCommandLine(c.tokens)
        /\ c.program = "rl_command" => IsJsonCommand(c.command)

ASSUME PyCommandAssumption == \A json \in PyCommand : IsJsonCommand(json)

VARIABLES line, ending, pending, handed, answer,
          cli, pc, tries, due, emitted, at, printed, sent, refused,
          holds, call, method, reply

Console == INSTANCE ConsolePrograms
Python  == INSTANCE PythonObject

consoleVars == <<pc, tries, due, emitted, at, refused>>
pythonVars  == <<holds, call, method, reply>>
vars == <<line, ending, pending, handed, answer, cli, printed, sent,
          consoleVars, pythonVars>>

IsPython == cli.program = "python"

Init ==
    /\ cli \in CommandLine
    /\ Console!Feed!Init
    /\ Console!Init
    /\ Python!Init

GameStep ==
    /\ \/ /\ Len(handed) + Len(pending) < Traffic[cli.program]
          /\ \E m \in Message : Console!Feed!Write(m)
       \/ \E how \in {"closed", "bad"} : Console!Feed!Ends(how)
       \/ Console!Feed!Resets
    /\ UNCHANGED <<cli, printed, sent, consoleVars, pythonVars>>

ConsoleStep == ~IsPython /\ Console!Next /\ UNCHANGED pythonVars
PythonStep  == IsPython /\ Python!Next /\ UNCHANGED consoleVars

Next == GameStep \/ ConsoleStep \/ PythonStep

Spec == Init /\ [][Next]_vars

\* A program's own steps are taken, a connect attempt ends one way or the
\* other, and a timer runs out; whether attempts succeed, what the game does
\* and which methods a Python program calls is left open.
Fairness ==
    /\ WF_vars(~IsPython /\ Console!AttemptEnds /\ UNCHANGED pythonVars)
    /\ WF_vars(~IsPython /\ Console!Reads /\ UNCHANGED pythonVars)
    /\ WF_vars(~IsPython /\ Console!Steps /\ UNCHANGED pythonVars)
    /\ WF_vars(IsPython /\ Python!Reads /\ UNCHANGED consoleVars)

FairSpec == Spec /\ Fairness

-----------------------------------------------------------------------------
(***************************************************************************)
(* Properties.  meant is what the writer of a message meant by it, asks the *)
(* kinds a user asked for ({} for all); no program reads either.            *)
(***************************************************************************)
ReadSoFar == IF cli.program = "stdin" THEN SubSeq(cli.input, 1, at) ELSE handed

IsWanted(event) ==
    CASE cli.program \in {"rl_events", "stdin", "python"} ->
            cli.asks = {} \/ event.kind \in cli.asks
      [] cli.program \in {"player_board", "tick_listener"} -> event.kind = "UpdateState"
      [] cli.program = "rl_command" -> event.kind # "UpdateState"
      [] OTHER -> TRUE

Texts  == Message \cup Range(cli.input)
Wanted == {m \in Texts : m.meant # NotAnEvent /\ IsWanted(m.meant)}

WantedSoFar == LET wanted == Keep(ReadSoFar, Wanted)
               IN  [i \in DOMAIN wanted |-> wanted[i].meant]

\* s is what is left of t when elements are taken out.
IsPartOf(s, t) ==
    \E place \in [DOMAIN s -> DOMAIN t] :
        /\ \A i \in DOMAIN s : s[i] = t[place[i]]
        /\ \A i, j \in DOMAIN s : i < j => place[i] < place[j]

Shown == [i \in DOMAIN printed |-> ParseStatsEvent(printed[i])]

Limited == cli.program \in {"rl_events", "stdin"} /\ cli.max # -1

\* A program prints, or returns to Python, the events it was asked for, each
\* once and in order, over every reconnect and whatever odd messages come
\* between; --max-events ends it at exactly that many (at one for zero).
\* player_board shows some of the ticks, in order.
PrintsWhatItWasAsked ==
    /\ IF cli.program = "player_board"
       THEN IsPartOf(Shown, WantedSoFar)
       ELSE Shown = WantedSoFar
    /\ Limited => Len(printed) <= Max({1, cli.max})
    /\ cli.program = "rl_events" /\ pc = "done" => Len(printed) = Max({1, cli.max})

\* What is read in a message is what its writer meant, under the names of
\* earlier versions and with data in a string, and the JSON the library writes
\* of an event is read back as that event.
DecodedIsWritten ==
    \A m \in Range(ReadSoFar) : m.form = "json" =>
        LET event == ParseStatsEvent(m.json)
        IN  /\ event = m.meant
            /\ event # NotAnEvent => ParseStatsEvent(StatsEventToValue(event)) = event

\* What a value says; a blank string says nothing.
Said(v)      == <<v.text.word, v.num + Number(v.text.digits)>>
IsBlank(v) == v.type = "string" /\ v.text = NoText

\* What a JSON command says: the known fields it sets, by value.
Says(json) ==
    [key \in {k \in DOMAIN json.data \cap Fields[json.command] : ~IsBlank(json.data[k])} |->
        Said(json.data[key])]

\* The values the game takes for a field.
Takes(key, v) ==
    CASE key \in {"FileName", "Path"} -> v.type = "string"
      [] key = "Perspective" -> v.type = "string" /\ v.text.word \in Perspectives
      [] key = "Focus" ->
            /\ v.type = "string"
            /\ \/ v.text.word = "Ball"
               \/ v.text.digits # <<>> /\ Number(v.text.digits) <= MaxShortcut
      [] key \in {"bVisible", "bPaused"} -> v.type = "bool"
      [] key = "Frame" -> v.type = "integer" /\ v.num >= 0
      [] OTHER -> v.type \in {"integer", "float"} /\ v.num >= 0

\* What the game takes: a known command with at least one field, of its type.
WellFormed(json) ==
    /\ json.command \in DOMAIN Fields
    /\ DOMAIN Says(json) # {}
    /\ \A key \in DOMAIN json.data \cap Fields[json.command] : Takes(key, json.data[key])

\* A command reaches the game with every field the user set, in a form the
\* parser itself accepts again; one the game would drop is refused before
\* anything is connected, and no other is.
SentMeansAsked ==
    /\ \A i \in DOMAIN sent :
          /\ WellFormed(sent[i].asked) /\ Accepted(sent[i].wire)
          /\ sent[i].wire.command = sent[i].asked.command
          /\ Says(sent[i].wire) = Says(sent[i].asked)
          /\ DOMAIN sent[i].wire.data = DOMAIN Says(sent[i].wire)
    /\ cli.program = "rl_command" /\ pc # "starting" =>
          (WellFormed(cli.command) <=> line > 0 \/ refused > 0 \/ pc = "connecting")

\* Events the game has written are thrown away only after an error, or when a
\* Python program asks for a connection or has closed its client; an object
\* loses its client by nothing but close.
NothingLostUnasked ==
    [][/\ line' # line /\ pending # <<>> =>
             IF IsPython THEN ~holds \/ method' \in {"connect", "reconnect"}
                         ELSE answer = "error"
       /\ holds /\ ~holds' => method' = "close"]_vars

GaveUp(l) ==
    /\ pc = "failed"
    /\ cli.program \in Console!Reconnecting /\ ~Console!ArgumentsRefused =>
          refused = IF l = 0 THEN StartAttempts ELSE Attempts

\* A lost connection, or a first one that is not made, never leaves a program
\* in between: it gets a new connection, or ends, and one that reconnects
\* gives up only after the whole budget of attempts of this outage.  A read
\* of a Python object does not outlive the connection.
OutageResolved ==
    /\ \A l \in 0..MaxLines :
          (~IsPython /\ line = l /\ (ending # "open" \/ pc = "reconnecting"))
              ~> (line > l \/ pc = "done" \/ GaveUp(l))
    /\ (call = "read" /\ ending # "open") ~> (call = "none" \/ ending = "open")

=============================================================================
