------------------------------ MODULE SosRelay ------------------------------
(***************************************************************************)
(* The outbound relay (src/bin/sos_relay.rs): one task that reads events of *)
(* the game, translates them and writes the payloads to one websocket of    *)
(* the overlay, which it reopens for ever when a write fails.               *)
(*                                                                          *)
(* Payloads are numbered in the order in which they are made.  A websocket  *)
(* is the payloads the operating system has taken for it and the overlay    *)
(* has not read; when it breaks they are lost, and so are the payloads      *)
(* written before the relay notices, because it never reads the socket.  A  *)
(* write that fails has left its message incomplete.                        *)
(*                                                                          *)
(* The operating system takes only so much for an overlay that does not     *)
(* read.  Then a write waits, without a timeout and inside the branch of    *)
(* select! that was chosen, so that nothing else of the relay runs.         *)
(***************************************************************************)
EXTENDS Integers, Sequences, SequencesExt

CONSTANTS HasLimit, Limit,     \* --max-events
          ConnectAttempts,     \* 20 in the code
          ReconnectAttempts,   \* 10 in the code
          WireCapacity,        \* payloads the operating system takes unread
          MaxPayloads,         \* bound: payloads made
          MaxSockets           \* bound: websockets opened

ASSUME RelayLimitAssumption == HasLimit \in BOOLEAN /\ Limit \in Nat
ASSUME RelayAttemptsAssumption == /\ ConnectAttempts \in Nat \ {0}
                                  /\ ReconnectAttempts \in Nat \ {0}
ASSUME WireAssumption == WireCapacity \in Nat \ {0}
ASSUME RelayBoundsAssumption == MaxPayloads \in Nat /\ MaxSockets \in Nat

VARIABLES main,     \* where run() is
          tries,    \* failed attempts of the connect or reconnect under way
          armed,    \* the signal handlers are installed
          signal,   \* SIGINT or SIGTERM has arrived since
          pending,  \* payloads of the current event not written yet
          relayed,  \* payloads written
          socket,   \* state of the websocket
          sockets,  \* websockets opened
          wire,     \* payloads the overlay has not read from it
          got,      \* ghost: payloads the overlay has read
          lost      \* ghost: payloads written and never to be read

link == <<socket, sockets, wire, got, lost>>
relayVars == <<main, tries, armed, signal, pending, relayed, link>>

Ended == main \in {"ok", "err", "killed"}

(***************************************************************************)
(* run: both connections, then the loop.                                    *)
(***************************************************************************)
Connects ==
    /\ main = "connect"
    /\ main' = "open" /\ tries' = 0
    /\ UNCHANGED <<armed, signal, pending, relayed, link>>

ConnectFails ==
    /\ main = "connect"
    /\ IF tries + 1 = ConnectAttempts
       THEN main' = "err" /\ tries' = 0
       ELSE main' = main /\ tries' = tries + 1
    /\ UNCHANGED <<armed, signal, pending, relayed, link>>

\* select! polls its branches in a random order until one is ready, so the
\* first events may be taken before the handlers of the signals exist.
ArmSignals ==
    /\ main = "loop" /\ ~armed
    /\ armed' = TRUE
    /\ UNCHANGED <<main, tries, signal, pending, relayed, link>>

\* Without a handler the signal ends the process.
SignalArrives ==
    /\ ~Ended /\ ~signal
    /\ IF armed THEN signal' = TRUE /\ main' = main
                ELSE signal' = FALSE /\ main' = "killed"
    /\ UNCHANGED <<tries, armed, pending, relayed, link>>

TakeSignal ==
    /\ main = "loop" /\ signal
    /\ main' = "close"
    /\ UNCHANGED <<tries, armed, signal, pending, relayed, link>>

EventArrives(n) ==
    /\ main = "loop"
    /\ relayed + n <= MaxPayloads
    /\ main' = "send" /\ pending' = n
    /\ UNCHANGED <<tries, armed, signal, relayed, link>>

FeedEnds ==
    /\ main = "loop"
    /\ main' = "reconnect" /\ tries' = 0
    /\ UNCHANGED <<armed, signal, pending, relayed, link>>

Reconnects ==
    /\ main = "reconnect"
    /\ main' = "loop" /\ tries' = 0
    /\ UNCHANGED <<armed, signal, pending, relayed, link>>

\* Faulty variant: the attempts start over after the last one.
ReconnectFailsForever ==
    /\ main = "reconnect"
    /\ tries' = (tries + 1) % ReconnectAttempts
    /\ UNCHANGED <<main, armed, signal, pending, relayed, link>>

ReconnectFails ==
    /\ main = "reconnect"
    /\ IF tries + 1 = ReconnectAttempts
       THEN main' = "err" /\ tries' = 0
       ELSE main' = main /\ tries' = tries + 1
    /\ UNCHANGED <<armed, signal, pending, relayed, link>>

(***************************************************************************)
(* connect_ws_with_retry.                                                   *)
(***************************************************************************)
\* Back to the payload that could not be written, or to the loop.
SocketOpens ==
    /\ main = "open" /\ sockets < MaxSockets
    /\ socket' = "up" /\ sockets' = sockets + 1 /\ wire' = <<>>
    /\ main' = IF pending > 0 THEN "send" ELSE "loop"
    /\ UNCHANGED <<tries, armed, signal, pending, relayed, got, lost>>

SocketRefused ==
    /\ main = "open"
    /\ main' = "delay"
    /\ UNCHANGED <<tries, armed, signal, pending, relayed, link>>

DelayEnds ==
    /\ main = "delay"
    /\ main' = "open"
    /\ UNCHANGED <<tries, armed, signal, pending, relayed, link>>

(***************************************************************************)
(* send_envelope_with_retry, the count of the loop around it, and the       *)
(* Close frame at the end.                                                  *)
(***************************************************************************)
AtLimit(n) == HasLimit /\ n >= Limit

\* A write ends: the operating system has room, or the websocket is broken.
WriteEnds == socket = "broken" \/ Len(wire) < WireCapacity

\* The operating system takes the message, also of a websocket that is broken
\* and not yet known to be.
SendSucceeds ==
    /\ main = "send" /\ WriteEnds
    /\ IF socket = "up"
       THEN wire' = Append(wire, relayed + 1) /\ lost' = lost
       ELSE wire' = wire /\ lost' = lost \cup {relayed + 1}
    /\ relayed' = relayed + 1
    /\ pending' = pending - 1
    /\ main' = CASE AtLimit(relayed + 1) -> "close"
                 [] ~AtLimit(relayed + 1) /\ pending = 1 -> "loop"
                 [] OTHER -> "send"
    /\ UNCHANGED <<tries, armed, signal, socket, sockets, got>>

\* Faulty variant: the payload is given up with its websocket.
SendFailsDrops ==
    /\ main = "send" /\ socket = "broken"
    /\ main' = "open"
    /\ relayed' = relayed + 1 /\ pending' = pending - 1
    /\ UNCHANGED <<tries, armed, signal, link>>

\* Faulty variant: the payload before it is sent again as well.
SendFailsRewinds ==
    /\ main = "send" /\ socket = "broken"
    /\ main' = "open"
    /\ IF pending = 1 /\ relayed > 0
       THEN relayed' = relayed - 1 /\ pending' = 2
       ELSE UNCHANGED <<relayed, pending>>
    /\ UNCHANGED <<tries, armed, signal, link>>

SendFails ==
    /\ main = "send" /\ socket = "broken"
    /\ main' = "open"
    /\ UNCHANGED <<tries, armed, signal, pending, relayed, link>>

\* graceful_overlay_shutdown writes a Close frame; when that fails the relay
\* ends all the same.
CloseEnds ==
    /\ main = "close" /\ WriteEnds
    /\ main' = "ok"
    /\ UNCHANGED <<tries, armed, signal, pending, relayed, link>>

(***************************************************************************)
(* The network and the overlay.                                             *)
(***************************************************************************)
OverlayReads ==
    /\ wire # <<>>
    /\ got' = Append(got, Head(wire)) /\ wire' = Tail(wire)
    /\ UNCHANGED <<main, tries, armed, signal, pending, relayed, socket, sockets, lost>>

SocketBreaks ==
    /\ socket = "up"
    /\ socket' = "broken"
    /\ lost' = lost \cup ToSet(wire) /\ wire' = <<>>
    /\ UNCHANGED <<main, tries, armed, signal, pending, relayed, sockets, got>>

(***************************************************************************)
(* The specification.                                                       *)
(***************************************************************************)
RelayInit ==
    /\ main = "connect" /\ tries = 0 /\ armed = FALSE /\ signal = FALSE
    /\ pending = 0 /\ relayed = 0
    /\ socket = "none" /\ sockets = 0 /\ wire = <<>>
    /\ got = <<>> /\ lost = {}

RelayNext ==
    \/ Connects \/ ConnectFails \/ ArmSignals \/ SignalArrives \/ TakeSignal
    \/ (\E n \in 1..2 : EventArrives(n)) \/ FeedEnds
    \/ Reconnects \/ ReconnectFails
    \/ SocketOpens \/ SocketRefused \/ DelayEnds
    \/ SendSucceeds \/ SendFails \/ CloseEnds
    \/ OverlayReads \/ SocketBreaks

RelaySpec == RelayInit /\ [][RelayNext]_relayVars

\* The relay's own steps are not put off for ever, a write not once it can end;
\* select! picks a ready branch at random, so a signal is not passed over for
\* ever.  The overlay need never accept a connection or read, and the game need
\* never answer.
RelayFairness ==
    /\ WF_relayVars(Connects \/ ConnectFails)
    /\ SF_relayVars(TakeSignal)
    /\ WF_relayVars(Reconnects \/ ReconnectFails)
    /\ WF_relayVars(SocketOpens \/ SocketRefused)
    /\ WF_relayVars(DelayEnds)
    /\ WF_relayVars(SendSucceeds \/ SendFails)
    /\ WF_relayVars(CloseEnds)

\* The overlay reads what it was written, or the websocket breaks.
OverlayFairness == WF_relayVars(OverlayReads \/ SocketBreaks)

FairSpec == RelaySpec /\ RelayFairness

-----------------------------------------------------------------------------
(***************************************************************************)
(* Properties.                                                              *)
(***************************************************************************)

\* The values the variables may take.
RelayTypeOK ==
    /\ main \in {"connect", "open", "delay", "loop", "send", "reconnect",
                 "close", "ok", "err", "killed"}
    /\ tries \in Nat
    /\ armed \in BOOLEAN /\ signal \in BOOLEAN /\ (signal => armed)
    /\ pending \in 0..2 /\ (main = "send" => pending > 0)
    /\ (main \in {"connect", "loop", "reconnect"} => pending = 0)
    /\ relayed \in Nat
    /\ socket \in {"none", "up", "broken"} /\ sockets \in Nat
    /\ (main \in {"loop", "send", "reconnect", "close"} => socket # "none")
    /\ wire \in Seq(Nat \ {0}) /\ Len(wire) <= WireCapacity
    /\ got \in Seq(Nat \ {0})
    /\ lost \in SUBSET (Nat \ {0})

\* The overlay reads the payloads in the order in which they were made, and
\* none twice, however often the websocket is reopened and a write repeated.
ReadInOrderOnce ==
    \A i, j \in DOMAIN (got \o wire) : i < j => (got \o wire)[i] < (got \o wire)[j]

\* A payload counted as relayed has been read, or can still be, or was written
\* to a websocket that broke: none is dropped between two websockets, and all
\* of them together stay within --max-events.  The one being written is in
\* none of these places yet.
RelayedAccountedFor ==
    /\ 1..relayed = ToSet(got) \cup ToSet(wire) \cup lost
    /\ lost \cap (ToSet(got) \cup ToSet(wire)) = {}
    /\ HasLimit /\ Limit > 0 => relayed <= Limit

\* A signal that found its handler ends the relay, unless the relay is for ever
\* opening its websocket (connect_ws_with_retry never gives up and never looks
\* at the signal), or for ever writing to an overlay that is connected and does
\* not read: neither a payload's write nor the Close at the end has a timeout.
SignalEndsReachableRelay ==
    <>[](main \notin {"open", "delay"}) /\ OverlayFairness => (signal ~> Ended)

=============================================================================
