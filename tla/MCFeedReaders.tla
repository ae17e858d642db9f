---------------------------- MODULE MCFeedReaders ----------------------------
EXTENDS FeedReaders

Event(kind, name, body) ==
    [kind |-> kind, name |-> name, data |-> [wraps |-> 0, body |-> body]]

\* How the game writes an event: under a name, with the data in wraps strings.
Written(event, name, wraps) ==
    [form |-> "json", meant |-> event,
     json |-> [keys |-> "Event", name |-> name,
               data |-> [event.data EXCEPT !.wraps = wraps]]]

Known(kind, wraps) ==
    Written(Event(kind, kind, Body("object", 1, TRUE)), kind, wraps)
Old(name, wraps) ==
    Written(Event(OldName[name], OldName[name], Body("object", 2, FALSE)), name, wraps)
New(body, wraps) == Written(Event("Unknown", "NewKind", body), "NewKind", wraps)

NoEvent(keys, name, wraps, body) ==
    [form |-> "json", meant |-> NotAnEvent,
     json |-> [keys |-> keys, name |-> name, data |-> [wraps |-> wraps, body |-> body]]]
Line(form) == [NoEvent("none", "none", 0, NoBody) EXCEPT !.form = form]

NoLocation == NoEvent("Event", "BallHit", 0, Body("object", 1, FALSE))

MCMessage == {Known("UpdateState", 0), Old("ReplayEnd", 1), NoLocation}

\* What the library writes: other keys, no string.
Rewritten(m) == [m EXCEPT !.json = StatsEventToValue(ParseStatsEvent(m.json))]

EventLines ==
    {Known(kind, wraps) : kind \in KnownKinds, wraps \in 0..1}
        \cup {Old(name, wraps) : name \in DOMAIN OldName, wraps \in 0..1}
        \cup {New(body, wraps) : body \in {NoBody, Body("object", 1, FALSE)}, wraps \in 0..1}

OddLines ==
    {NoEvent("Event", kind, wraps, body) :
        kind \in KnownKinds, wraps \in 0..1, body \in {NoBody}}
        \cup {NoEvent("Event", kind, 1, Body("text", 0, FALSE)) : kind \in {"NewKind", "MatchPaused"}}
        \cup {NoEvent("Event", "MatchPaused", 2, Body("object", 1, TRUE)),
              NoEvent("none", "MatchPaused", 0, Body("object", 1, TRUE))}
        \cup {NoEvent("Event", kind, 1, Body("object", 1, FALSE)) : kind \in NeedsLocation}

FewLines == {Known("GoalScored", 1), Rewritten(Old("ReplayStart", 1)), NoLocation,
             Line("not json"), Line("blank"), Line("no utf-8")}

Inputs == {<<m>> : m \in EventLines \cup OddLines \cup {Rewritten(e) : e \in EventLines}}
              \cup [1..2 -> FewLines] \cup [1..3 -> FewLines]

(***************************************************************************)
(* Commands.                                                                *)
(***************************************************************************)
FieldValues ==
    [Focus |-> {Str(Word("Ball")), Str(Word("ball")), Str(NoText), Str(Digits(<<0>>)),
                Str(Digits(<<0, 7>>)), Str(Digits(<<1, 2>>)), Str(Digits(<<1, 3>>)), Whole(7)},
     Perspective |-> {Str(Word("Fly")), Str(Word("fly")), Val("null", NoText, 0)},
     FileName |-> {Str(Word("a.replay")), Str(NoText), Whole(1)},
     Path |-> {Str(Word("/r")), Str(NoText)},
     Frame |-> {Whole(0), Whole(5), Whole(-1), Real(5)},
     TimeSeconds |-> {Whole(0), Real(2), Real(-2), Str(Digits(<<2>>))},
     Speed |-> {Whole(0), Real(1), Whole(-1), Bool(TRUE)},
     bVisible |-> {Bool(TRUE), Bool(FALSE), Whole(1)},
     bPaused |-> {Bool(TRUE), Str(Word("true"))},
     Other |-> {Whole(0)}]

Data(keys) == {d \in [keys -> UNION {FieldValues[k] : k \in keys}] :
                  \A k \in keys : d[k] \in FieldValues[k]}

MCCommands ==
    UNION {{[command |-> name, data |-> d] :
               d \in UNION {Data(keys) : keys \in SUBSET Fields[name] \cup {{"Other"}}}} :
              name \in DOMAIN Fields}
        \cup {[command |-> "Quit", data |-> d] : d \in Data({"Other"})}

MCPyCommand ==
    {[command |-> "SetMatchPaused", data |-> [bPaused |-> Bool(TRUE)]],
     [command |-> "SeekReplay", data |-> [Frame |-> Whole(-1)]]}

(***************************************************************************)
(* Command lines.                                                           *)
(***************************************************************************)
Cli(program, tokens, asks) ==
    [program |-> program, tokens |-> tokens, asks |-> asks, max |-> -1,
     strict |-> FALSE, input |-> <<>>, command |-> [command |-> "none", data |-> <<>>]]

Tokens(program) ==
    {Cli(program, <<>>, {}),
     Cli(program, <<"goal", "goal_replay_end">>, {"GoalScored", "GoalReplayEnd"}),
     Cli(program, <<"goal_replay_end", "all">>,
         IF program = "python" THEN {"GoalReplayEnd"} ELSE {}),
     Cli(program, <<"goals">>, {})}

MCCommandLine ==
    {[c EXCEPT !.max = max] : c \in Tokens("rl_events"), max \in {-1, 0, 2}}
        \cup {Cli(program, <<>>, {}) : program \in {"player_board", "tick_listener", "raw_events"}}
        \cup {[Cli("rl_command", <<>>, {}) EXCEPT !.command = c] : c \in MCCommands}
        \cup {[c EXCEPT !.input = input, !.strict = strict, !.max = max] :
                 c \in {Cli("stdin", <<>>, {}), Cli("stdin", <<"goal">>, {"GoalScored"})},
                 input \in Inputs, strict \in BOOLEAN, max \in {-1, 1}}
        \cup Tokens("python")

MCTraffic == [rl_events |-> 3, player_board |-> 3, tick_listener |-> 2, raw_events |-> 2,
              rl_command |-> 1, stdin |-> 0, python |-> 2]

=============================================================================
