----------------------------- MODULE PythonObject -----------------------------
(***************************************************************************)
(* RocketLeagueStatsClient of src/python_bindings.rs: an object that may    *)
(* hold a client, and the calls a Python program makes on it, one at a time *)
(* and in any order.  A call of next_event_json blocks until the feed has   *)
(* an answer; nothing can cancel it.  The program reads with one choice of  *)
(* event types, those of cli.                                               *)
(***************************************************************************)
EXTENDS EventJson, Commands

CONSTANTS Message, MaxLines, PyCommand   \* JSON the program sends as commands

VARIABLES line, ending, pending, handed, answer,  \* the feed
          cli,      \* event types of the filter, <<>> for next_event_json
          holds,    \* self.client is Some
          call,     \* the call in progress: "none", or "read" while it blocks
          method,   \* the last method called
          reply,    \* its outcome: "ok", "event", "None", "RuntimeError", "ValueError"
          printed,  \* JSON returned by reads, oldest first
          sent      \* the command written last: <<>> or <<Sent(json)>>

feedVars == <<line, ending, pending, handed, answer>>

OddMessage == {m \in Message : ParseStatsEvent(m.json) = NotAnEvent}

Feed == INSTANCE EventFeed WITH Value <- Message, Odd <- OddMessage

\* RocketLeagueStatsClient::connect, or reconnect on the client held.
Connected == line < MaxLines /\ Feed!Renew /\ holds' = TRUE

\* Faulty variant: the client held is dropped before the attempt.
NotConnectedDrops == UNCHANGED feedVars /\ holds' = FALSE

\* A failed attempt keeps the client held, or none.
NotConnected == UNCHANGED feedVars /\ holds' = holds

\* connect, and reconnect with and without a client, do the same to the feed.
Connects ==
    /\ call = "none"
    /\ method' \in {"connect", "reconnect"}
    /\ \/ Connected /\ reply' = "ok"
       \/ NotConnected /\ reply' = "RuntimeError"
    /\ UNCHANGED <<cli, call, printed, sent>>

(***************************************************************************)
(* Reading.                                                                 *)
(***************************************************************************)
EnsureConnected == IF holds THEN UNCHANGED feedVars /\ holds' = TRUE ELSE Connected

\* The object connects before it looks at the filter.
BeginsRead ==
    /\ call = "none"
    /\ method' = "read"
    /\ \/ /\ EnsureConnected
          /\ IF BadTokens(cli.tokens)
             THEN call' = "none" /\ reply' = "ValueError"
             ELSE call' = "read" /\ reply' = reply
       \/ ~holds /\ NotConnected /\ call' = "none" /\ reply' = "RuntimeError"
    /\ UNCHANGED <<cli, printed, sent>>

\* next_filtered_event goes past what the filter rejects.
ReadsMessage ==
    /\ call = "read" /\ pending # <<>>
    /\ LET event == ParseStatsEvent(Head(pending).json)
       IN  \/ /\ event # NotAnEvent /\ ~Wants(BuildFilter(cli.tokens), event)
              /\ Feed!Skip
              /\ UNCHANGED <<call, reply, printed>>
           \/ /\ event # NotAnEvent /\ Wants(BuildFilter(cli.tokens), event)
              /\ Feed!HandOver
              /\ call' = "none" /\ reply' = "event"
              /\ printed' = Append(printed, StatsEventToValue(event))
           \/ /\ event = NotAnEvent
              /\ Feed!HandOver
              /\ call' = "none" /\ reply' = "RuntimeError"
              /\ UNCHANGED printed
    /\ UNCHANGED <<cli, holds, method, sent>>

\* The object keeps a client whose connection has ended.
ReadsEnd ==
    /\ call = "read"
    /\ \/ Feed!AnswerClosed /\ reply' = "None"
       \/ Feed!AnswerError /\ reply' = "RuntimeError"
    /\ call' = "none"
    /\ UNCHANGED <<cli, holds, method, printed, sent>>

(***************************************************************************)
(* Sending and closing.                                                     *)
(***************************************************************************)
Writes(json) ==
    IF ending' = "reset" THEN reply' = "RuntimeError" /\ sent' = sent
    ELSE reply' = "ok" /\ sent' = <<Sent(json)>>

\* The command is parsed before anything is connected.
SendsCommand(json) ==
    /\ call = "none"
    /\ method' = "send"
    /\ \/ ~Accepted(json) /\ NotConnected /\ reply' = "ValueError" /\ sent' = sent
       \/ Accepted(json) /\ EnsureConnected /\ Writes(json)
       \/ Accepted(json) /\ ~holds /\ NotConnected /\ reply' = "RuntimeError" /\ sent' = sent
    /\ UNCHANGED <<cli, call, printed>>

\* The client is taken out first: it is gone even when its shutdown fails.
Closes ==
    /\ call = "none"
    /\ method' = "close"
    /\ reply' \in IF holds THEN {"ok", "RuntimeError"} ELSE {"ok"}
    /\ holds' = FALSE
    /\ UNCHANGED feedVars
    /\ UNCHANGED <<cli, call, printed, sent>>

Init == holds = FALSE /\ call = "none" /\ method = "none" /\ reply = "none"

Reads == ReadsMessage \/ ReadsEnd

Next == \/ Connects
        \/ BeginsRead
        \/ Reads
        \/ \E json \in PyCommand : SendsCommand(json)
        \/ Closes

=============================================================================
