-------------------------- MODULE BroadcastServer --------------------------
(***************************************************************************)
(* The overlay broadcast server (src/bin/sos_broadcast.rs).  Its tasks are  *)
(* the main task (run), the accept loop and one handler per overlay; they   *)
(* share a tokio broadcast channel of payloads, a watch channel that says   *)
(* "shut down", and the atomic client_count.                                *)
(*                                                                          *)
(* A payload is its place in the channel: the p-th payload stored, counted  *)
(* from 1, so the channel is `tail', the number stored, and a receiver is   *)
(* the place it reads next.  The channel keeps the newest Capacity          *)
(* payloads.  An event of the game is the number of payloads                *)
(* translate_stats_event makes of it: two for CountdownBegin, else one.     *)
(***************************************************************************)
EXTENDS Integers, Sequences, FiniteSets

CONSTANTS Handlers,           \* bound: the overlay connections of a behaviour
          Capacity,           \* capacity of the broadcast channel (1024)
          HasLimit, Limit,    \* --max-events
          ConnectAttempts,    \* 20 in the code
          ReconnectAttempts,  \* 10 in the code
          MaxPayloads         \* bound: payloads main hands to the channel

ASSUME ChannelAssumption == IsFiniteSet(Handlers) /\ Capacity \in Nat \ {0}
ASSUME LimitAssumption == HasLimit \in BOOLEAN /\ Limit \in Nat
ASSUME AttemptsAssumption == /\ ConnectAttempts \in Nat \ {0}
                             /\ ReconnectAttempts \in Nat \ {0}
ASSUME PayloadsAssumption == MaxPayloads \in Nat

VARIABLES main,     \* where run() is
          tries,    \* failed attempts of the connect or reconnect under way
          signal,   \* SIGINT or SIGTERM has arrived
          flag,     \* the value of the watch channel: shut down
          pending,  \* payloads of the current event not handed over yet
          relayed,  \* payloads handed to the channel, dropped ones included
          tail,     \* payloads the channel has stored
          accept,   \* where run_accept_loop is
          up,       \* the process runs
          count,    \* client_count
          task,     \* where each handler is
          next,     \* the payload each handler's receiver reads next
          holding,  \* payload a handler is writing, 0 for none or a pong
          from,     \* ghost: first payload after the handler subscribed
          since,    \* ghost: payloads relayed before it did
          got,      \* ghost: payloads written to the overlay
          skipped   \* ghost: payloads reported as lagged

mainVars    == <<main, tries, signal, flag, pending, relayed, tail>>
handlerVars == <<count, task, next, holding, from, since, got, skipped>>
vars        == <<mainVars, accept, up, handlerVars>>

Registered == {h \in Handlers : task[h] \in {"serve", "write", "close"}}
Subscribed == {h \in Handlers : task[h] = "handshake"} \cup Registered

MainEnded == main \in {"ok", "err"}

\* Faulty variant: only a value counts, not that the sender is gone.
StoppingByFlag == flag

\* What changed() of the watch channel tells: true was sent, or the sender is
\* gone because run() has returned.
Stopping == flag \/ MainEnded

(***************************************************************************)
(* run: connect, bind, serve.                                               *)
(***************************************************************************)
Connects ==
    /\ main = "connect"
    /\ main' = "bind" /\ tries' = 0
    /\ UNCHANGED <<signal, flag, pending, relayed, tail, accept, up, handlerVars>>

ConnectFails ==
    /\ main = "connect"
    /\ IF tries + 1 = ConnectAttempts
       THEN main' = "err" /\ tries' = 0
       ELSE main' = main /\ tries' = tries + 1
    /\ UNCHANGED <<signal, flag, pending, relayed, tail, accept, up, handlerVars>>

Binds ==
    /\ main = "bind"
    /\ main' = "serve" /\ accept' = "listen"
    /\ UNCHANGED <<tries, signal, flag, pending, relayed, tail, up, handlerVars>>

BindFails ==
    /\ main = "bind"
    /\ main' = "err"
    /\ UNCHANGED <<tries, signal, flag, pending, relayed, tail, accept, up, handlerVars>>

SignalArrives ==
    /\ main \in {"serve", "relay", "reconnect"} /\ ~signal
    /\ signal' = TRUE
    /\ UNCHANGED <<main, tries, flag, pending, relayed, tail, accept, up, handlerVars>>

TakeSignal ==
    /\ main = "serve" /\ signal
    /\ flag' = TRUE /\ main' = "join"
    /\ UNCHANGED <<tries, signal, pending, relayed, tail, accept, up, handlerVars>>

EventArrives(n) ==
    /\ main = "serve"
    /\ relayed + n <= MaxPayloads
    /\ main' = "relay" /\ pending' = n
    /\ UNCHANGED <<tries, signal, flag, relayed, tail, accept, up, handlerVars>>

AtLimit(n) == HasLimit /\ n >= Limit

\* Faulty variant: nothing is sent while client_count is 0.
SendPayloadIfCounted ==
    /\ main = "relay"
    /\ tail' = IF count = 0 THEN tail ELSE tail + 1
    /\ relayed' = relayed + 1 /\ pending' = pending - 1
    /\ IF AtLimit(relayed + 1)
       THEN flag' = TRUE /\ main' = "join"
       ELSE flag' = flag /\ main' = IF pending = 1 THEN "serve" ELSE "relay"
    /\ UNCHANGED <<tries, signal, accept, up, handlerVars>>

\* Faulty variant: the limit is checked once per event of the game.
SendPayloadLimitPerEvent ==
    /\ main = "relay"
    /\ tail' = IF Subscribed = {} THEN tail ELSE tail + 1
    /\ relayed' = relayed + 1 /\ pending' = pending - 1
    /\ IF pending = 1 /\ AtLimit(relayed + 1)
       THEN flag' = TRUE /\ main' = "join"
       ELSE flag' = flag /\ main' = IF pending = 1 THEN "serve" ELSE "relay"
    /\ UNCHANGED <<tries, signal, accept, up, handlerVars>>

\* send fails, and stores nothing, when no receiver is subscribed.
SendPayload ==
    /\ main = "relay"
    /\ tail' = IF Subscribed = {} THEN tail ELSE tail + 1
    /\ relayed' = relayed + 1
    /\ pending' = pending - 1
    /\ IF AtLimit(relayed + 1)
       THEN flag' = TRUE /\ main' = "join"
       ELSE flag' = flag /\ main' = IF pending = 1 THEN "serve" ELSE "relay"
    /\ UNCHANGED <<tries, signal, accept, up, handlerVars>>

\* next_event gave Ok(None) or an error.
FeedEnds ==
    /\ main = "serve"
    /\ main' = "reconnect" /\ tries' = 0
    /\ UNCHANGED <<signal, flag, pending, relayed, tail, accept, up, handlerVars>>

Reconnects ==
    /\ main = "reconnect"
    /\ main' = "serve" /\ tries' = 0
    /\ UNCHANGED <<signal, flag, pending, relayed, tail, accept, up, handlerVars>>

\* Faulty variant: the attempts start over after the last one.
ReconnectFailsForever ==
    /\ main = "reconnect"
    /\ tries' = (tries + 1) % ReconnectAttempts
    /\ UNCHANGED <<main, signal, flag, pending, relayed, tail, accept, up, handlerVars>>

ReconnectFails ==
    /\ main = "reconnect"
    /\ IF tries + 1 = ReconnectAttempts
       THEN main' = "err" /\ tries' = 0
       ELSE main' = main /\ tries' = tries + 1
    /\ UNCHANGED <<signal, flag, pending, relayed, tail, accept, up, handlerVars>>

\* accept_handle.await
JoinAcceptLoop ==
    /\ main = "join" /\ accept = "done"
    /\ main' = "ok"
    /\ UNCHANGED <<tries, signal, flag, pending, relayed, tail, accept, up, handlerVars>>

\* The runtime is dropped with run(); handlers are not joined.
ProcessExits ==
    /\ MainEnded /\ up
    /\ up' = FALSE
    /\ UNCHANGED <<mainVars, accept, handlerVars>>

(***************************************************************************)
(* run_accept_loop.                                                         *)
(***************************************************************************)
\* The receiver is subscribed before the handler starts its handshake.
Accepts(h) ==
    /\ up /\ accept = "listen" /\ task[h] = "free"
    /\ task' = [task EXCEPT ![h] = "handshake"]
    /\ next' = [next EXCEPT ![h] = tail + 1]
    /\ from' = [from EXCEPT ![h] = tail + 1]
    /\ since' = [since EXCEPT ![h] = relayed]
    /\ UNCHANGED <<mainVars, accept, up, count, holding, got, skipped>>

AcceptFails ==
    /\ up /\ accept = "listen"
    /\ accept' = "backoff"
    /\ UNCHANGED <<mainVars, up, handlerVars>>

BackoffEnds ==
    /\ up /\ accept = "backoff"
    /\ accept' = "listen"
    /\ UNCHANGED <<mainVars, up, handlerVars>>

\* Faulty variant: the loop ends only when run() has dropped the sender.
AcceptLoopOutlivesRun ==
    /\ up /\ accept = "listen" /\ MainEnded
    /\ accept' = "done"
    /\ UNCHANGED <<mainVars, up, handlerVars>>

AcceptLoopStops ==
    /\ up /\ accept = "listen" /\ Stopping
    /\ accept' = "done"
    /\ UNCHANGED <<mainVars, up, handlerVars>>

(***************************************************************************)
(* handle_client.                                                           *)
(***************************************************************************)
Goto(h, from_, to) ==
    /\ up /\ task[h] = from_
    /\ task' = [task EXCEPT ![h] = to]
    /\ UNCHANGED <<mainVars, accept, up>>

\* Faulty variant: the handler subscribes after its handshake.
HandshakeThenSubscribe(h) ==
    /\ Goto(h, "handshake", "serve")
    /\ count' = count + 1
    /\ next' = [next EXCEPT ![h] = tail + 1]
    /\ UNCHANGED <<holding, from, since, got, skipped>>

HandshakeSucceeds(h) ==
    /\ Goto(h, "handshake", "serve")
    /\ count' = count + 1
    /\ UNCHANGED <<next, holding, from, since, got, skipped>>

HandshakeFails(h) ==
    /\ Goto(h, "handshake", "gone")
    /\ UNCHANGED <<count, next, holding, from, since, got, skipped>>

\* Faulty variant: a lagging receiver resubscribes.
LagsToTheEnd(h) ==
    /\ up /\ task[h] = "serve"
    /\ next[h] <= tail - Capacity
    /\ skipped' = [skipped EXCEPT ![h] = @ + ((tail + 1) - next[h])]
    /\ next' = [next EXCEPT ![h] = tail + 1]
    /\ UNCHANGED <<mainVars, accept, up, count, task, holding, from, since, got>>

\* RecvError::Lagged: the receiver moves to the oldest payload kept.
Lags(h) ==
    /\ up /\ task[h] = "serve"
    /\ next[h] <= tail - Capacity
    /\ skipped' = [skipped EXCEPT ![h] = @ + ((tail - Capacity + 1) - next[h])]
    /\ next' = [next EXCEPT ![h] = tail - Capacity + 1]
    /\ UNCHANGED <<mainVars, accept, up, count, task, holding, from, since, got>>

ReceivesPayload(h) ==
    /\ Goto(h, "serve", "write")
    /\ next[h] <= tail /\ next[h] > tail - Capacity
    /\ holding' = [holding EXCEPT ![h] = next[h]]
    /\ next' = [next EXCEPT ![h] = @ + 1]
    /\ UNCHANGED <<count, from, since, got, skipped>>

ReceivesPing(h) ==
    /\ Goto(h, "serve", "write")
    /\ UNCHANGED <<count, next, holding, from, since, got, skipped>>

WriteSucceeds(h) ==
    /\ Goto(h, "write", "serve")
    /\ got' = IF holding[h] = 0 THEN got ELSE [got EXCEPT ![h] = Append(@, holding[h])]
    /\ holding' = [holding EXCEPT ![h] = 0]
    /\ UNCHANGED <<count, next, from, since, skipped>>

\* Faulty variant: the handler returns without leaving its loop in order.
WriteFailsReturns(h) ==
    /\ Goto(h, "write", "gone")
    /\ UNCHANGED <<count, next, holding, from, since, got, skipped>>

WriteFails(h) ==
    /\ Goto(h, "write", "close")
    /\ UNCHANGED <<count, next, holding, from, since, got, skipped>>

\* A Close frame, a receive error or the end of the stream.
OverlayLeaves(h) ==
    /\ Goto(h, "serve", "close")
    /\ UNCHANGED <<count, next, holding, from, since, got, skipped>>

SeesShutdown(h) ==
    /\ Stopping
    /\ Goto(h, "serve", "close")
    /\ UNCHANGED <<count, next, holding, from, since, got, skipped>>

\* RecvError::Closed: every sender is gone and the channel is read to its end.
\* run() holds one sender, the accept loop another.
SeesChannelClosed(h) ==
    /\ MainEnded /\ accept = "done" /\ next[h] > tail
    /\ Goto(h, "serve", "close")
    /\ UNCHANGED <<count, next, holding, from, since, got, skipped>>

HandlerEnds(h) ==
    /\ Goto(h, "close", "gone")
    /\ count' = count - 1
    /\ UNCHANGED <<next, holding, from, since, got, skipped>>

(***************************************************************************)
(* The specification.                                                       *)
(***************************************************************************)
Init ==
    /\ main = "connect" /\ tries = 0 /\ signal = FALSE /\ flag = FALSE
    /\ pending = 0 /\ relayed = 0 /\ tail = 0
    /\ accept = "off" /\ up = TRUE /\ count = 0
    /\ task = [h \in Handlers |-> "free"]
    /\ next = [h \in Handlers |-> 1]
    /\ holding = [h \in Handlers |-> 0]
    /\ from = [h \in Handlers |-> 1]
    /\ since = [h \in Handlers |-> 0]
    /\ got = [h \in Handlers |-> <<>>]
    /\ skipped = [h \in Handlers |-> 0]

MainStep ==
    \/ Connects \/ ConnectFails \/ Binds \/ BindFails
    \/ SignalArrives \/ TakeSignal
    \/ (\E n \in 1..2 : EventArrives(n)) \/ SendPayload
    \/ FeedEnds \/ Reconnects \/ ReconnectFails
    \/ JoinAcceptLoop \/ ProcessExits

AcceptStep ==
    \/ (\E h \in Handlers : Accepts(h))
    \/ AcceptFails \/ BackoffEnds \/ AcceptLoopStops

HandlerStep(h) ==
    \/ HandshakeSucceeds(h) \/ HandshakeFails(h)
    \/ Lags(h) \/ ReceivesPayload(h) \/ ReceivesPing(h)
    \/ WriteSucceeds(h) \/ WriteFails(h)
    \/ OverlayLeaves(h) \/ SeesShutdown(h) \/ SeesChannelClosed(h)
    \/ HandlerEnds(h)

Next == MainStep \/ AcceptStep \/ \E h \in Handlers : HandlerStep(h)

Spec == Init /\ [][Next]_vars

\* The main task and the accept loop run whenever they can; select! picks a
\* ready branch at random, so the branch that ends a loop is not passed over
\* for ever.  The network owes nothing: no event, no answer, no overlay.
ServerFairness ==
    /\ WF_vars(Connects \/ ConnectFails)
    /\ WF_vars(Binds \/ BindFails)
    /\ SF_vars(TakeSignal)
    /\ WF_vars(SendPayload)
    /\ WF_vars(Reconnects \/ ReconnectFails)
    /\ WF_vars(JoinAcceptLoop)
    /\ WF_vars(BackoffEnds)
    /\ SF_vars(AcceptLoopStops)

\* A handler's writes end, by success or failure, and its loop sees shutdown.
HandlerFairness(h) ==
    /\ WF_vars(WriteSucceeds(h) \/ WriteFails(h))
    /\ SF_vars(SeesShutdown(h))
    /\ WF_vars(HandlerEnds(h))

\* An overlay that reads: its handshake and the writes to it end, and its loop
\* comes to its receiver.
ReaderFairness(h) ==
    /\ WF_vars(HandshakeSucceeds(h) \/ HandshakeFails(h))
    /\ WF_vars(WriteSucceeds(h) \/ WriteFails(h))
    /\ SF_vars(ReceivesPayload(h) \/ Lags(h))

\* Overlays may stall every handler for good.
FairSpec == Spec /\ ServerFairness

-----------------------------------------------------------------------------
(***************************************************************************)
(* Properties.                                                              *)
(***************************************************************************)

\* The values the variables may take.
TypeOK ==
    /\ main \in {"connect", "bind", "serve", "relay", "reconnect", "join", "ok", "err"}
    /\ tries \in Nat /\ signal \in BOOLEAN /\ flag \in BOOLEAN
    /\ pending \in 0..2 /\ (main = "relay" => pending > 0)
    /\ relayed \in Nat /\ tail \in Nat
    /\ accept \in {"off", "listen", "backoff", "done"}
    /\ up \in BOOLEAN
    /\ count \in Nat
    /\ task \in [Handlers -> {"free", "handshake", "serve", "write", "close", "gone"}]
    /\ next \in [Handlers -> Nat \ {0}]
    /\ holding \in [Handlers -> Nat]
    /\ from \in [Handlers -> Nat \ {0}]
    /\ since \in [Handlers -> Nat]
    /\ got \in [Handlers -> Seq(Nat \ {0})]
    /\ skipped \in [Handlers -> Nat]

\* client_count is the number of overlays past their handshake whose handler
\* has not ended, whichever way each of them leaves.
CountIsExact == count = Cardinality(Registered)

AccountedFor(h) ==
    /\ next[h] <= tail + 1
    /\ next[h] - from[h] = Len(got[h]) + skipped[h] + (IF holding[h] = 0 THEN 0 ELSE 1)
    /\ \A i \in DOMAIN got[h] : from[h] <= got[h][i] /\ got[h][i] < next[h]
    /\ \A i, j \in DOMAIN got[h] : i < j => got[h][i] < got[h][j]
    /\ holding[h] # 0 =>
         /\ holding[h] = next[h] - 1
         /\ \A i \in DOMAIN got[h] : got[h][i] < holding[h]

NothingDroppedFor(h) == relayed - since[h] = tail + 1 - from[h]

\* Every payload between a handler's subscription and its receiver's place was
\* written to the overlay once and in order, or is being written (or was when
\* the write failed), or was reported as lagged.  While it is connected, from
\* before its handshake on, every payload run() counts as relayed is among
\* those the channel has or had for it, whatever other overlays come and go.
PayloadsAccountedFor ==
    /\ \A h \in Handlers : AccountedFor(h)
    /\ \A h \in Subscribed : NothingDroppedFor(h)

MissedWereOverwritten(h) ==
    \A p \in from[h]..(next[h] - 1) :
        \/ p <= tail - Capacity
        \/ p = holding[h]
        \/ \E i \in DOMAIN got[h] : got[h][i] = p

\* An overlay misses a payload only when Capacity newer ones were stored
\* before its handler came to read it.
OnlyOverwrittenMissed == \A h \in Handlers : MissedWereOverwritten(h)

\* After the limit of --max-events nothing more is relayed, not even the
\* second payload of the event that reached it.
LimitHolds == HasLimit /\ Limit > 0 => relayed <= Limit

\* What the help text says of --max-events: the server stops after it has
\* broadcast that many messages, whatever the number.
StopsAfterLimit == HasLimit => relayed <= Limit

\* A signal ends run(), even when the feed is lost again and again and every
\* overlay stalls its handler.
SignalEndsRun == signal ~> MainEnded

\* A lost feed is either recovered or ends run() with an error.
FeedLossResolved == main = "reconnect" ~> main \in {"serve", "err"}

Due(h, p) == h \in Subscribed /\ from[h] <= p /\ p <= tail

\* Every payload relayed since an overlay connected, during its handshake too,
\* is written to it if it reads, unless newer ones overwrite it first, the
\* overlay leaves or the process ends; what other overlays do is no matter.
ReadersGetPayloads ==
    \A h \in Handlers : ReaderFairness(h) =>
        \A p \in 1..MaxPayloads :
            Due(h, p) ~> \/ \E i \in DOMAIN got[h] : got[h][i] = p
                        \/ p <= tail - Capacity
                        \/ task[h] \in {"close", "gone"} \/ ~up

\* When run() is over, also by an error that sends no shutdown, the accept
\* loop ends, and with it the handlers of connected overlays whose writes end.
TasksEndWithRun ==
    (\A h \in Handlers : HandlerFairness(h))
        => (MainEnded ~> (~up \/ (accept \in {"off", "done"} /\ Registered = {})))

=============================================================================
