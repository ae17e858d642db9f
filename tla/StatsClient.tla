---------------------------- MODULE StatsClient ----------------------------
(***************************************************************************)
(* RocketLeagueStatsClient (src/client.rs): one TCP connection to the game  *)
(* at a time, a read buffer, and the calls a program makes on them.         *)
(*                                                                          *)
(* The byte stream is abstracted to cells.  The game writes a JSON value as *)
(* two cells, "open" and one of Ends, so that a read can end in the middle  *)
(* of a value.  The end cell says what the value turns out to be: "event"   *)
(* (an event the caller's filter accepts), "other" (an event it rejects) or *)
(* "odd" (JSON that is not an event envelope).  "ws" is whitespace, "bad"   *)
(* is text the JSON parser rejects.  A cell carries the connection it was   *)
(* written on and its position there: ghost data no guard reads.            *)
(***************************************************************************)
EXTENDS Integers, Sequences, Selections

CONSTANTS MaxAttempts,     \* max_attempts of connect_with_retry
          MaxConnections,  \* bound: connections made in one behaviour
          MaxCells,        \* bound: cells the game writes on each connection
          MaxCommands      \* bound: commands sent on one connection

ASSUME MaxAttemptsAssumption == MaxAttempts \in Nat
ASSUME BoundsAssumption == /\ MaxConnections \in Nat
                           /\ MaxCells \in [1..MaxConnections -> Nat]
                           /\ MaxCommands \in Nat

VARIABLES conn,       \* number of the current connection, 0 before the first
          peer,       \* the game's side: "open", "fin" (closed) or "reset"
          script,     \* kinds of the cells written on this connection
          wire,       \* cells written and not read yet
          buffer,     \* read_buffer
          consumed,   \* ghost: cells of this connection drained from buffer
          call,       \* where the client's task is
          filtered,   \* the pending call is next_filtered_event
          streaming,  \* the client was turned into an event stream
          attempt,    \* attempts connect_with_retry has made
          result,     \* outcome of the last event call on this connection
          taken,      \* ghost: values taken off the buffer, oldest first
          outbox      \* commands written to this connection

vars == <<conn, peer, script, wire, buffer, consumed, call, filtered,
          streaming, attempt, result, taken, outbox>>

netVars  == <<conn, peer, script>>
callVars == <<filtered, streaming, attempt>>

Ends  == {"event", "other", "odd"}
Kinds == Ends \cup {"open", "ws", "bad"}
Cell  == [conn : Nat, pos : Nat, kind : Kinds]

Attempts == IF MaxAttempts = 0 THEN 1 ELSE MaxAttempts

(***************************************************************************)
(* The game.                                                                *)
(***************************************************************************)
MidValue == script # <<>> /\ script[Len(script)] = "open"

GameWrites(k) ==
    /\ conn > 0 /\ peer = "open"
    /\ Len(script) < MaxCells[conn]
    /\ k \in IF MidValue THEN Ends \cup {"bad"} ELSE {"open", "ws", "bad"}
    /\ script' = Append(script, k)
    /\ wire' = Append(wire, [conn |-> conn, pos |-> Len(script) + 1, kind |-> k])
    /\ UNCHANGED <<conn, peer, buffer, consumed, call, result, taken, outbox>>
    /\ UNCHANGED callVars

GameCloses ==
    /\ conn > 0 /\ peer = "open"
    /\ peer' = "fin"
    /\ UNCHANGED <<conn, script, wire, buffer, consumed, call, result, taken, outbox>>
    /\ UNCHANGED callVars

\* A reset throws away what the socket holds and the client has not read.
GameResets ==
    /\ conn > 0 /\ peer # "reset"
    /\ peer' = "reset"
    /\ wire' = <<>>
    /\ UNCHANGED <<conn, script, buffer, consumed, call, result, taken, outbox>>
    /\ UNCHANGED callVars

(***************************************************************************)
(* Connecting.                                                              *)
(***************************************************************************)
\* Faulty variant: reconnect forgets to clear read_buffer.
NewConnectionKeepsBuffer ==
    /\ conn < MaxConnections
    /\ conn' = conn + 1
    /\ peer' = "open"
    /\ script' = <<>> /\ wire' = <<>>
    /\ UNCHANGED buffer
    /\ consumed' = 0
    /\ result' = "none"
    /\ outbox' = 0

NewConnection ==
    /\ conn < MaxConnections
    /\ conn' = conn + 1
    /\ peer' = "open"
    /\ script' = <<>>
    /\ wire' = <<>>
    /\ buffer' = <<>>
    /\ consumed' = 0
    /\ result' = "none"
    /\ outbox' = 0

ConnectSucceeds ==
    /\ call = "connecting"
    /\ NewConnection
    /\ call' = "idle"
    /\ attempt' = 0
    /\ UNCHANGED <<filtered, streaming, taken>>

\* Faulty variant: the last attempt is not recognised, one more is made.
ConnectFailsOneMore ==
    /\ call = "connecting"
    /\ IF attempt = Attempts
       THEN call' = "failed" /\ attempt' = attempt
       ELSE call' = call /\ attempt' = attempt + 1
    /\ UNCHANGED netVars
    /\ UNCHANGED <<wire, buffer, consumed, filtered, streaming, result, taken, outbox>>

ConnectFails ==
    /\ call = "connecting"
    /\ IF attempt + 1 = Attempts
       THEN call' = "failed" /\ attempt' = attempt
       ELSE call' = call /\ attempt' = attempt + 1
    /\ UNCHANGED netVars
    /\ UNCHANGED <<wire, buffer, consumed, filtered, streaming, result, taken, outbox>>

ReconnectSucceeds ==
    /\ call = "idle" /\ ~streaming
    /\ NewConnection
    /\ UNCHANGED <<call, taken>>
    /\ UNCHANGED callVars

\* connect_socket is called before anything is replaced: a failed reconnect
\* (or one dropped by a timeout) leaves the old socket and buffer in place.
ReconnectFails ==
    /\ call = "idle" /\ ~streaming
    /\ UNCHANGED vars

(***************************************************************************)
(* Reading events.                                                          *)
(***************************************************************************)
StartCall(f) ==
    /\ call = "idle"
    /\ streaming => f = filtered
    /\ call' = "parse"
    /\ filtered' = f
    /\ UNCHANGED netVars
    /\ UNCHANGED <<wire, buffer, consumed, streaming, attempt, result, taken, outbox>>

\* n is how much discard_leading_whitespace removes; the cells after it are
\* nothing or the start of a value, a complete value, or neither.
BlankRun(n) ==
    /\ \A i \in 1..n : buffer[i].kind = "ws"
    /\ n < Len(buffer) => buffer[n + 1].kind # "ws"

Unfinished(n) ==
    \/ Len(buffer) = n
    \/ Len(buffer) = n + 1 /\ buffer[n + 1].kind = "open"

ValueAt(n) ==
    /\ Len(buffer) > n + 1
    /\ buffer[n + 1].kind = "open" /\ buffer[n + 2].kind \in Ends

SyntaxErrorAt(n) == ~Unfinished(n) /\ ~ValueAt(n)

Drain(n) ==
    /\ buffer' = SubSeq(buffer, n + 1, Len(buffer))
    /\ consumed' = consumed + n

\* Faulty variant: the value is drained only when it parses as an envelope.
TakeValueKeepsOdd(n) ==
    /\ ValueAt(n)
    /\ Drain(IF buffer[n + 2].kind = "odd" THEN n ELSE n + 2)
    /\ taken' = Append(taken, buffer[n + 2])
    /\ call' = IF buffer[n + 2].kind = "other" /\ filtered THEN "parse" ELSE "idle"
    /\ result' = IF buffer[n + 2].kind = "odd" THEN "decode" ELSE "event"

\* Faulty variant: the whole buffer is drained with the first value.
TakeValueDrainsAll(n) ==
    /\ ValueAt(n)
    /\ Drain(Len(buffer))
    /\ taken' = Append(taken, buffer[n + 2])
    /\ call' = IF buffer[n + 2].kind = "other" /\ filtered THEN "parse" ELSE "idle"
    /\ result' = IF buffer[n + 2].kind = "odd" THEN "decode" ELSE "event"

\* The value is drained first; only then is it parsed as an envelope.
TakeValue(n) ==
    /\ ValueAt(n)
    /\ Drain(n + 2)
    /\ taken' = Append(taken, buffer[n + 2])
    /\ IF buffer[n + 2].kind = "other" /\ filtered
       THEN call' = "parse" /\ result' = result
       ELSE /\ call' = "idle"
            /\ result' = IF buffer[n + 2].kind = "odd" THEN "decode" ELSE "event"

\* Faulty variant: the malformed text is skipped.
ReportSyntaxErrorSkips(n) ==
    /\ SyntaxErrorAt(n)
    /\ Drain(n + 1)
    /\ call' = "idle"
    /\ result' = "syntax"
    /\ UNCHANGED taken

\* A syntax error drains nothing but the whitespace before it.
ReportSyntaxError(n) ==
    /\ SyntaxErrorAt(n)
    /\ Drain(n)
    /\ call' = "idle"
    /\ result' = "syntax"
    /\ UNCHANGED taken

WantMore(n) ==
    /\ Unfinished(n)
    /\ Drain(n)
    /\ call' = "read"
    /\ UNCHANGED <<result, taken>>

\* Ok(None) ends the call; a stream ends with it and drops the client.
ReportClosed(n) ==
    /\ Unfinished(n)
    /\ Drain(n)
    /\ call' = IF streaming THEN "closed" ELSE "idle"
    /\ result' = "closed"
    /\ UNCHANGED taken

ParseBuffer ==
    /\ call = "parse"
    /\ \E n \in 0..Len(buffer) :
          /\ BlankRun(n)
          /\ \/ TakeValue(n)
             \/ ReportSyntaxError(n)
             \/ WantMore(n)
    /\ UNCHANGED netVars
    /\ UNCHANGED callVars
    /\ UNCHANGED <<wire, outbox>>

\* Faulty variant: reads on without parsing what it has.
ReadBytesOnly ==
    /\ call = "read" /\ wire # <<>>
    /\ buffer' = buffer \o wire
    /\ wire' = <<>>
    /\ UNCHANGED netVars
    /\ UNCHANGED callVars
    /\ UNCHANGED <<consumed, call, result, taken, outbox>>

ReadBytes ==
    /\ call = "read" /\ wire # <<>>
    /\ \E n \in 1..Len(wire) :
          /\ buffer' = buffer \o SubSeq(wire, 1, n)
          /\ wire' = SubSeq(wire, n + 1, Len(wire))
    /\ call' = "parse"
    /\ UNCHANGED netVars
    /\ UNCHANGED callVars
    /\ UNCHANGED <<consumed, result, taken, outbox>>

\* Faulty variant: the end of the connection wins over bytes not read yet.
ReadEofEarly ==
    /\ call = "read" /\ peer = "fin"
    /\ ReportClosed(0)
    /\ UNCHANGED netVars
    /\ UNCHANGED callVars
    /\ UNCHANGED <<wire, outbox>>

\* Faulty variant: zero bytes are taken for progress.
ReadEofLoops ==
    /\ call = "read" /\ wire = <<>> /\ peer = "fin"
    /\ call' = "parse"
    /\ UNCHANGED netVars
    /\ UNCHANGED callVars
    /\ UNCHANGED <<wire, buffer, consumed, result, taken, outbox>>

\* Zero bytes: the buffer is parsed one last time.
ReadEof ==
    /\ call = "read" /\ wire = <<>> /\ peer = "fin"
    /\ \E n \in 0..Len(buffer) :
          /\ BlankRun(n)
          /\ \/ TakeValue(n)
             \/ ReportSyntaxError(n)
             \/ ReportClosed(n)
    /\ UNCHANGED netVars
    /\ UNCHANGED callVars
    /\ UNCHANGED <<wire, outbox>>

ReadFails ==
    /\ call = "read" /\ peer = "reset"
    /\ call' = "idle"
    /\ result' = "io"
    /\ UNCHANGED netVars
    /\ UNCHANGED callVars
    /\ UNCHANGED <<wire, buffer, consumed, taken, outbox>>

\* The future is dropped while it waits for bytes: another branch of a
\* select! won, or a timeout fired.  (A stream keeps its pending call.)
CancelCall ==
    /\ call = "read" /\ ~streaming
    /\ call' = "idle"
    /\ UNCHANGED netVars
    /\ UNCHANGED callVars
    /\ UNCHANGED <<wire, buffer, consumed, result, taken, outbox>>

(***************************************************************************)
(* The other calls.                                                         *)
(***************************************************************************)
\* into_event_stream and into_filtered_event_stream consume the client.
IntoStream(f) ==
    /\ call = "idle" /\ ~streaming
    /\ streaming' = TRUE
    /\ filtered' = f
    /\ UNCHANGED netVars
    /\ UNCHANGED <<wire, buffer, consumed, call, attempt, result, taken, outbox>>

\* A command that to_json refuses, or a broken socket, writes nothing.
SendCommand(valid) ==
    /\ call = "idle" /\ ~streaming
    /\ outbox < MaxCommands
    /\ outbox' = IF valid /\ peer # "reset" THEN outbox + 1 ELSE outbox
    /\ UNCHANGED netVars
    /\ UNCHANGED callVars
    /\ UNCHANGED <<wire, buffer, consumed, call, result, taken>>

CloseClient ==
    /\ call = "idle" /\ ~streaming
    /\ call' = "closed"
    /\ UNCHANGED netVars
    /\ UNCHANGED callVars
    /\ UNCHANGED <<wire, buffer, consumed, result, taken, outbox>>

(***************************************************************************)
(* The specification.                                                       *)
(***************************************************************************)
Init ==
    /\ conn = 0 /\ peer = "fin" /\ script = <<>> /\ wire = <<>>
    /\ buffer = <<>> /\ consumed = 0
    /\ call = "connecting" /\ filtered = FALSE /\ streaming = FALSE
    /\ attempt = 0 /\ result = "none" /\ taken = <<>> /\ outbox = 0

Next ==
    \/ \E k \in Kinds : GameWrites(k)
    \/ GameCloses
    \/ GameResets
    \/ ConnectSucceeds
    \/ ConnectFails
    \/ ReconnectSucceeds
    \/ ReconnectFails
    \/ \E f \in BOOLEAN : StartCall(f)
    \/ ParseBuffer
    \/ ReadBytes
    \/ ReadEof
    \/ ReadFails
    \/ CancelCall
    \/ \E f \in BOOLEAN : IntoStream(f)
    \/ \E valid \in BOOLEAN : SendCommand(valid)
    \/ CloseClient

Spec == Init /\ [][Next]_vars

\* A program that keeps asking for events: the task itself runs on (weak
\* fairness), and a call that is cancelled over and over still finds the
\* socket readable some time (strong fairness of ReadBytes).
Polling ==
    /\ WF_vars(\E f \in BOOLEAN : StartCall(f))
    /\ WF_vars(ParseBuffer)
    /\ SF_vars(ReadBytes)
    /\ WF_vars(ReadEof)
    /\ WF_vars(ReadFails)

PollingSpec == Spec /\ Polling

-----------------------------------------------------------------------------
(***************************************************************************)
(* Properties.                                                              *)
(***************************************************************************)

\* Type invariant.  The bound of attempt is what the unreachable! after the
\* retry loop of connect_with_retry stands for.
TypeOK ==
    /\ conn \in Nat
    /\ peer \in {"open", "fin", "reset"}
    /\ script \in Seq(Kinds)
    /\ wire \in Seq(Cell)
    /\ buffer \in Seq(Cell)
    /\ consumed \in Nat
    /\ call \in {"connecting", "failed", "idle", "parse", "read", "closed"}
    /\ filtered \in BOOLEAN
    /\ streaming \in BOOLEAN
    /\ attempt \in 0..(Attempts - 1)
    /\ result \in {"none", "event", "decode", "syntax", "closed", "io"}
    /\ taken \in Seq(Cell)
    /\ outbox \in Nat

\* The buffer and the socket hold, in order and without a gap, the bytes of
\* this connection that follow the ones drained: no byte of an earlier
\* connection survives reconnect, none is lost by a partial read or by a
\* call that was cancelled while it waited.
Contiguous ==
    /\ consumed + Len(buffer) + Len(wire) <= Len(script)
    /\ peer # "reset" => consumed + Len(buffer) + Len(wire) = Len(script)
    /\ \A i \in DOMAIN buffer :
          buffer[i] = [conn |-> conn, pos |-> consumed + i, kind |-> script[consumed + i]]
    /\ \A i \in DOMAIN wire :
          wire[i] = [conn |-> conn, pos |-> consumed + Len(buffer) + i,
                     kind |-> script[consumed + Len(buffer) + i]]

Before(c, d) == c.conn < d.conn \/ (c.conn = d.conn /\ c.pos < d.pos)

\* Of the values written on this connection exactly those in the drained
\* bytes were taken, each once and in the order the game wrote them, however
\* reads are split and calls are cancelled, filtered or repeated.
ExactlyOnceInOrder ==
    /\ \A i, j \in DOMAIN taken : i < j => Before(taken[i], taken[j])
    /\ {taken[i].pos : i \in {j \in DOMAIN taken : taken[j].conn = conn}}
          = {p \in 1..consumed : script[p] \in Ends}

\* next_event answers Ok(None) only when every complete value of the
\* connection was taken: the last parse after a zero-byte read leaves no
\* value behind in the buffer.
EndOfFeedIsHonest ==
    result = "closed" => \A p \in DOMAIN script : script[p] \in Ends => p <= consumed

\* A JSON syntax error is final for its connection: the malformed text stays
\* at the front of the buffer, so until a reconnect succeeds every later
\* call fails the same way and hands over nothing.
SyntaxErrorSticks ==
    [][result = "syntax" /\ conn' = conn
         => result' = "syntax" /\ buffer' = buffer /\ taken' = taken]_vars

Written(p) ==
    /\ p <= Len(script) /\ script[p] \in Ends
    /\ \A q \in 1..p : script[q] # "bad"

\* A value the game finished writing is taken by a program that keeps asking,
\* unless malformed text came before it or the connection went away (a new one
\* starts with nothing written).
WrittenValuesArrive ==
    \A p \in UNION {1..MaxCells[c] : c \in 1..MaxConnections} :
        Written(p) ~> \/ p <= consumed \/ ~Written(p)
                      \/ peer = "reset" \/ call = "closed"

\* A call never outlives the game's end of the connection.
CallsEndWithTheGame ==
    (call \in {"parse", "read"} /\ peer # "open")
        ~> (call \notin {"parse", "read"} \/ peer = "open")

-----------------------------------------------------------------------------
(***************************************************************************)
(* The feed the client promises (EventFeed).                                *)
(***************************************************************************)
Values    == UNION {[conn : {c}, pos : 1..MaxCells[c], kind : Ends] : c \in 1..MaxConnections}
OddValues == {c \in Values : c.kind = "odd"}

\* The values a program can still get: complete, on their way, and with no
\* malformed text of the same connection before them.
Readable == {c \in Cell : c.kind \in Ends /\ \A p \in 1..c.pos : script[p] # "bad"}

Reachable == Keep(buffer \o wire, Readable)

Ending == IF peer = "reset" THEN "reset"
          ELSE IF \E p \in DOMAIN script : script[p] = "bad" THEN "bad"
          ELSE IF peer = "fin" THEN "closed" ELSE "open"

Answer == CASE result \in {"none", "closed"} -> result
            [] result = "event" -> "value"
            [] OTHER -> "error"

Feed == INSTANCE EventFeed WITH Value <- Values, Odd <- OddValues, line <- conn,
                                ending <- Ending, pending <- Reachable,
                                handed <- taken, answer <- Answer

\* The client implements the feed: what it hands over is always the oldest
\* value the game finished writing on the current connection, and it answers
\* with the end or an error only when no such value is left.
ImplementsEventFeed == Feed!Spec

=============================================================================
