--------------------------- MODULE ConsolePrograms ---------------------------
(***************************************************************************)
(* The console programs that own a client: rl_events (on the feed and, with *)
(* --stdin, on lines of a file), player_board, tick_listener, raw_events    *)
(* and rl_command (src/bin/).  One of them runs, as its command line cli    *)
(* says.  The client is the feed it promises to be (EventFeed): a call of   *)
(* next_event is one of the feed's answers.  What a program prints is kept  *)
(* as the JSON of the event, whatever the layout.                           *)
(***************************************************************************)
EXTENDS EventJson, Commands

CONSTANTS Message,        \* what the game may write
          MaxLines,       \* bound: connections in one behaviour
          StartAttempts,  \* attempts of connect_with_retry, 20 in the code
          Attempts        \* attempts of reconnect_with_backoff, 10 in the code

VARIABLES line, ending, pending, handed, answer,  \* the feed
          cli,       \* the command line
          pc,        \* where the program is
          tries,     \* failed attempts of the loop it is in
          due,       \* player_board: the refresh time has passed
          emitted,   \* rl_events: events counted for --max-events
          at,        \* rl_events --stdin: lines read
          printed,   \* what was printed, oldest first
          sent,      \* the command written last: <<>> or <<Sent(json)>>
          refused    \* ghost: attempts refused since the last connection

programVars == <<cli, pc, tries, due, emitted, at, printed, sent, refused>>

OddMessage == {m \in Message : ParseStatsEvent(m.json) = NotAnEvent}

Feed == INSTANCE EventFeed WITH Value <- Message, Odd <- OddMessage

feedVars == <<line, ending, pending, handed, answer>>

NoLimit == -1
Reconnecting == {"rl_events", "player_board"}

\* Attempts a program makes before it gives up.
Budget == IF cli.program \in Reconnecting
          THEN IF line = 0 THEN StartAttempts ELSE Attempts
          ELSE 1

(***************************************************************************)
(* Starting and connecting.                                                 *)
(***************************************************************************)
\* A command line that parse_args refuses ends the program before it connects.
ArgumentsRefused ==
    \/ cli.program \in {"rl_events", "stdin"} /\ BadTokens(cli.tokens)
    \/ cli.program = "rl_command" /\ ~Accepted(cli.command)

Starts ==
    /\ pc = "starting"
    /\ pc' = IF ArgumentsRefused THEN "failed"
             ELSE IF cli.program = "stdin" THEN "stdin" ELSE "connecting"
    /\ UNCHANGED feedVars
    /\ UNCHANGED <<cli, tries, due, emitted, at, printed, sent, refused>>

ConnectSucceeds ==
    /\ pc = "connecting"
    /\ line < MaxLines
    /\ Feed!Renew
    /\ pc' = IF cli.program = "rl_command" THEN "sending" ELSE "reading"
    /\ refused' = 0
    /\ UNCHANGED <<cli, tries, due, emitted, at, printed, sent>>

ReconnectSucceeds ==
    /\ pc = "reconnecting"
    /\ line < MaxLines
    /\ Feed!Renew
    /\ pc' = "reading"
    /\ refused' = 0
    /\ UNCHANGED <<cli, tries, due, emitted, at, printed, sent>>

\* connect_with_retry and reconnect_with_backoff give up with the last error.
AttemptFails ==
    /\ pc \in {"connecting", "reconnecting"}
    /\ IF tries + 1 = Budget THEN pc' = "failed" /\ tries' = tries
                             ELSE pc' = pc /\ tries' = tries + 1
    /\ refused' = refused + 1
    /\ UNCHANGED feedVars
    /\ UNCHANGED <<cli, due, emitted, at, printed, sent>>

(***************************************************************************)
(* Reading events.                                                          *)
(***************************************************************************)
Kinds == ParseEventFilterValue(cli.tokens)

\* What a program prints of an event it reads.
Prints(event) ==
    CASE cli.program \in {"rl_events", "stdin"} -> Wants(Kinds, event)
      [] cli.program = "player_board" -> event.kind = "UpdateState" /\ due
      [] cli.program = "tick_listener" -> event.kind = "UpdateState"
      [] cli.program = "rl_command" -> event.kind # "UpdateState"
      [] OTHER -> TRUE

\* Faulty variant: one event more than asked.
AtLimitPast(n) == cli.max # NoLimit /\ n > cli.max

AtLimit(n) == cli.max # NoLimit /\ n >= cli.max

\* print_event and the count behind it; --max-events ends the program.
Emits(event, back) ==
    IF Prints(event)
    THEN /\ printed' = Append(printed, StatsEventToValue(event))
         /\ emitted' = emitted + 1
         /\ due' = (due /\ cli.program # "player_board")
         /\ pc' = IF cli.program \in {"rl_events", "stdin"} /\ AtLimit(emitted + 1)
                  THEN "done" ELSE back
    ELSE pc' = back /\ UNCHANGED <<printed, emitted, due>>

\* Faulty variant: the attempts of earlier outages count.
LosesFeedKeepsTries(how) ==
    /\ pc' = IF cli.program \in Reconnecting THEN "reconnecting" ELSE how
    /\ tries' = tries

\* Ok(None) and Err start the loop of reconnect_with_backoff, or end a program
\* that has none.
LosesFeed(how) ==
    /\ pc' = IF cli.program \in Reconnecting THEN "reconnecting" ELSE how
    /\ tries' = 0

ReadsMessage ==
    /\ pc = "reading"
    /\ Feed!HandOver
    /\ IF answer' = "value"
       THEN Emits(ParseStatsEvent(Head(pending).json), "reading") /\ UNCHANGED tries
       ELSE LosesFeed("failed") /\ UNCHANGED <<printed, emitted, due>>
    /\ UNCHANGED <<cli, at, sent, refused>>

ReadsEnd ==
    /\ pc = "reading"
    /\ \/ Feed!AnswerClosed /\ LosesFeed("done")
       \/ Feed!AnswerError /\ LosesFeed("failed")
    /\ UNCHANGED <<cli, due, emitted, at, printed, sent, refused>>

\* player_board: last_render.elapsed() reaches the refresh time.
RefreshElapses ==
    /\ cli.program = "player_board" /\ pc \in {"reading", "reconnecting"} /\ ~due
    /\ due' = TRUE
    /\ UNCHANGED feedVars
    /\ UNCHANGED <<cli, pc, tries, emitted, at, printed, sent, refused>>

(***************************************************************************)
(* rl_command.                                                              *)
(***************************************************************************)
\* The command is written before anything is read; a socket the game has
\* reset refuses it.
SendsCommand ==
    /\ pc = "sending"
    /\ IF ending = "reset" THEN pc' = "failed" /\ sent' = sent
       ELSE pc' = "reading" /\ sent' = <<Sent(cli.command)>>
    /\ UNCHANGED feedVars
    /\ UNCHANGED <<cli, tries, due, emitted, at, printed, refused>>

\* timeout_at(deadline) drops the pending call and ends the program.
DeadlinePasses ==
    /\ cli.program = "rl_command" /\ pc = "reading"
    /\ pc' = "done"
    /\ UNCHANGED feedVars
    /\ UNCHANGED <<cli, tries, due, emitted, at, printed, sent, refused>>

(***************************************************************************)
(* rl_events --stdin.                                                       *)
(***************************************************************************)
\* A line that is no UTF-8 ends the program in either mode, one that is no
\* event only with --strict-stdin; blank lines are passed over.
ReadsLine ==
    /\ pc = "stdin" /\ at < Len(cli.input)
    /\ at' = at + 1
    /\ LET text  == cli.input[at + 1]
           event == ParseStatsEvent(text.json)
       IN  CASE text.form = "json" /\ event # NotAnEvent -> Emits(event, "stdin")
             [] text.form = "blank" -> pc' = pc /\ UNCHANGED <<printed, emitted, due>>
             [] OTHER ->
                  /\ pc' = IF text.form = "no utf-8" \/ cli.strict THEN "failed" ELSE pc
                  /\ UNCHANGED <<printed, emitted, due>>
    /\ UNCHANGED feedVars
    /\ UNCHANGED <<cli, tries, sent, refused>>

InputEnds ==
    /\ pc = "stdin" /\ at = Len(cli.input)
    /\ pc' = "done"
    /\ UNCHANGED feedVars
    /\ UNCHANGED <<cli, tries, due, emitted, at, printed, sent, refused>>

(***************************************************************************)
(* The program.                                                             *)
(***************************************************************************)
Init ==
    /\ pc = "starting" /\ tries = 0 /\ due = TRUE /\ emitted = 0 /\ at = 0
    /\ printed = <<>> /\ sent = <<>> /\ refused = 0

AttemptEnds == ConnectSucceeds \/ ReconnectSucceeds \/ AttemptFails
Reads == ReadsMessage \/ ReadsEnd
Steps == Starts \/ SendsCommand \/ ReadsLine \/ InputEnds

Next == AttemptEnds \/ Reads \/ RefreshElapses \/ DeadlinePasses \/ Steps

=============================================================================
