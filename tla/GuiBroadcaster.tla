--------------------------- MODULE GuiBroadcaster ---------------------------
(***************************************************************************)
(* The desktop broadcaster (src/bin/sos_broadcast_gui.rs): the window's     *)
(* thread, which starts and stops sessions and drains the worker's events   *)
(* once a frame; and a session, which is the worker's thread with its       *)
(* accept loop and handlers, as in the command-line server.                 *)
(*                                                                          *)
(* This module is about what the window shows of a session and how a        *)
(* session ends.  The channel of payloads is BroadcastServer's, and whether *)
(* an overlay gets a payload is left out here.  A WorkerEvent is a pair:    *)
(* <<"status", s>> for Started and Stopped, <<"clients", n>> for Clients    *)
(* and <<"relayed", n>> for Relayed; log lines are left out.                *)
(***************************************************************************)
EXTENDS Integers, Sequences, SequencesExt, FiniteSets

CONSTANTS Overlays,           \* bound: overlay connections of a session
          ConnectAttempts,    \* 20 in the code
          ReconnectAttempts,  \* 10 in the code
          MaxRelayed,         \* bound: payloads of a session
          MaxSessions         \* bound: clicks on Start

ASSUME GuiAttemptsAssumption == /\ ConnectAttempts \in Nat \ {0}
                                /\ ReconnectAttempts \in Nat \ {0}
ASSUME GuiBoundsAssumption ==
    IsFiniteSet(Overlays) /\ MaxRelayed \in Nat /\ MaxSessions \in Nat

VARIABLES window,         \* the application's life
          running, status, client_count, relayed_count,  \* what it shows
          sessions,       \* sessions started
          stop,           \* the shutdown channel from the window to the worker
          events,         \* WorkerEvents sent and not drained
          worker,         \* where run_broadcast_worker is
          tries,          \* failed attempts of its connect or reconnect
          pending,        \* payloads of the current event not sent yet
          relayed,        \* payloads sent in this session
          flag,           \* the channel that shuts the accept loop down
          accept,         \* where the accept loop is
          count,          \* the session's atomic client count
          task,           \* where each handler is
          announce        \* the count each handler has read and is to report

shown    == <<running, status, client_count, relayed_count>>
handlers == <<count, task, announce>>
session  == <<worker, tries, pending, relayed, flag, accept>>
vars     == <<window, shown, sessions, stop, events, session, handlers>>

Alive == worker \notin {"none", "ended"}

(***************************************************************************)
(* The window.                                                              *)
(***************************************************************************)
Fresh == [o \in Overlays |-> "free"]

\* Faulty variant: the counters of the last session stay.
StartKeepsCounts ==
    /\ window = "open" /\ ~running /\ sessions < MaxSessions
    /\ running' = TRUE /\ status' = "Starting"
    /\ UNCHANGED <<client_count, relayed_count>>
    /\ sessions' = sessions + 1 /\ stop' = FALSE /\ events' = <<>>
    /\ worker' = "build" /\ tries' = 0 /\ pending' = 0 /\ relayed' = 0
    /\ flag' = FALSE /\ accept' = "off" /\ count' = 0 /\ task' = Fresh
    /\ UNCHANGED <<window, announce>>

Start ==
    /\ window = "open" /\ ~running /\ sessions < MaxSessions
    /\ running' = TRUE /\ status' = "Starting"
    /\ client_count' = 0 /\ relayed_count' = 0
    /\ sessions' = sessions + 1 /\ stop' = FALSE /\ events' = <<>>
    /\ worker' = "build" /\ tries' = 0 /\ pending' = 0 /\ relayed' = 0
    /\ flag' = FALSE /\ accept' = "off" /\ count' = 0 /\ task' = Fresh
    /\ UNCHANGED <<window, announce>>

Stop ==
    /\ window = "open" /\ running
    /\ status' = "Stopping" /\ stop' = TRUE
    /\ UNCHANGED <<window, running, client_count, relayed_count, sessions, events,
                   session, handlers>>

Latest(kind, old) ==
    LET those == {i \in DOMAIN events : events[i][1] = kind}
    IN IF those = {} THEN old ELSE events[Max(those)][2]

IsStopped(e) == e \in {<<"status", "Stopped">>, <<"status", "Error">>}

StoppedReported == \E i \in DOMAIN events : IsStopped(events[i])

\* Faulty variant: Stopped is seen only as the last event of a frame.
DrainEventsByLast ==
    /\ window = "open" /\ events # <<>>
    /\ status' = Latest("status", status)
    /\ client_count' = Latest("clients", client_count)
    /\ relayed_count' = Latest("relayed", relayed_count)
    /\ events' = <<>>
    /\ IF IsStopped(Last(events))
       THEN running' = FALSE /\ worker' = "none" /\ task' = Fresh
       ELSE UNCHANGED <<running, worker, task>>
    /\ UNCHANGED <<window, sessions, stop, tries, pending, relayed, flag, accept,
                   count, announce>>

\* All events of a frame are taken, then handled in order, those behind Stopped
\* too.  Stopped joins the thread, which drops the runtime and its handlers.
DrainEvents ==
    /\ window = "open" /\ events # <<>>
    /\ status' = Latest("status", status)
    /\ client_count' = Latest("clients", client_count)
    /\ relayed_count' = Latest("relayed", relayed_count)
    /\ events' = <<>>
    /\ IF StoppedReported
       THEN running' = FALSE /\ worker' = "none" /\ task' = Fresh
       ELSE UNCHANGED <<running, worker, task>>
    /\ UNCHANGED <<window, sessions, stop, tries, pending, relayed, flag, accept,
                   count, announce>>

\* Faulty variant: the thread is joined without being told to stop.
CloseWindowJoins ==
    /\ window = "open"
    /\ window' = "closing"
    /\ UNCHANGED <<stop, shown, sessions, events, session, handlers>>

\* Drop: stop the session, then wait for its thread.
CloseWindow ==
    /\ window = "open"
    /\ window' = "closing" /\ stop' = (stop \/ running)
    /\ status' = IF running THEN "Stopping" ELSE status
    /\ UNCHANGED <<running, client_count, relayed_count, sessions, events, session, handlers>>

Exit ==
    /\ window = "closing" /\ ~Alive
    /\ window' = "closed" /\ worker' = "none" /\ task' = Fresh
    /\ UNCHANGED <<shown, sessions, stop, events, tries, pending, relayed, flag, accept,
                   count, announce>>

(***************************************************************************)
(* The worker: run_broadcast_worker, in the thread that start() spawns.     *)
(***************************************************************************)
Tell(kind, what) == events' = Append(events, <<kind, what>>)

Ends(how) == worker' = "ended" /\ Tell("status", how)

BuildsRuntime ==
    /\ worker = "build"
    /\ worker' = "connect"
    /\ UNCHANGED <<window, shown, sessions, stop, events, tries, pending, relayed, flag,
                   accept, handlers>>

BuildFails ==
    /\ worker = "build"
    /\ Ends("Error")
    /\ UNCHANGED <<window, shown, sessions, stop, tries, pending, relayed, flag, accept,
                   handlers>>

\* connect_client_with_shutdown.  Each attempt and each pause ends at once when
\* the window says stop, also the pause behind the last attempt.
Connects ==
    /\ worker = "connect" /\ tries < ConnectAttempts
    /\ worker' = "bind" /\ tries' = 0
    /\ UNCHANGED <<window, shown, sessions, stop, events, pending, relayed, flag, accept,
                   handlers>>

ConnectFails ==
    /\ worker = "connect" /\ tries < ConnectAttempts
    /\ tries' = tries + 1
    /\ UNCHANGED <<window, shown, sessions, stop, events, worker, pending, relayed, flag,
                   accept, handlers>>

ConnectEnds ==
    /\ worker = "connect"
    /\ \/ stop /\ Ends("Stopped")
       \/ tries = ConnectAttempts /\ Ends("Error")
    /\ UNCHANGED <<window, shown, sessions, stop, tries, pending, relayed, flag, accept,
                   handlers>>

Binds ==
    /\ worker = "bind"
    /\ worker' = "serve" /\ accept' = "listen" /\ Tell("status", "Running")
    /\ UNCHANGED <<window, shown, sessions, stop, tries, pending, relayed, flag, handlers>>

BindFails ==
    /\ worker = "bind"
    /\ Ends("Error")
    /\ UNCHANGED <<window, shown, sessions, stop, tries, pending, relayed, flag, accept,
                   handlers>>

SeesStop ==
    /\ worker = "serve" /\ stop
    /\ flag' = TRUE /\ worker' = "join"
    /\ UNCHANGED <<window, shown, sessions, stop, events, tries, pending, relayed, accept,
                   handlers>>

EventArrives(n) ==
    /\ worker = "serve" /\ relayed + n <= MaxRelayed
    /\ worker' = "relay" /\ pending' = n
    /\ UNCHANGED <<window, shown, sessions, stop, events, tries, relayed, flag, accept,
                   handlers>>

SendPayload ==
    /\ worker = "relay"
    /\ relayed' = relayed + 1 /\ pending' = pending - 1
    /\ Tell("relayed", relayed + 1)
    /\ worker' = IF pending = 1 THEN "serve" ELSE "relay"
    /\ UNCHANGED <<window, shown, sessions, stop, tries, flag, accept, handlers>>

FeedEnds ==
    /\ worker = "serve"
    /\ worker' = "reconnect" /\ tries' = 0
    /\ UNCHANGED <<window, shown, sessions, stop, events, pending, relayed, flag, accept,
                   handlers>>

\* reconnect_rl_with_backoff; every wait of it watches the window's stop.
Reconnects ==
    /\ worker = "reconnect" /\ tries < ReconnectAttempts
    /\ worker' = "serve" /\ tries' = 0
    /\ UNCHANGED <<window, shown, sessions, stop, events, pending, relayed, flag, accept,
                   handlers>>

ReconnectFails ==
    /\ worker = "reconnect" /\ tries < ReconnectAttempts
    /\ tries' = tries + 1
    /\ UNCHANGED <<window, shown, sessions, stop, events, worker, pending, relayed, flag,
                   accept, handlers>>

\* Faulty variant: giving up waits for the accept loop without ending it.
ReconnectEndsJoining ==
    /\ worker = "reconnect"
    /\ stop \/ tries = ReconnectAttempts
    /\ worker' = "join"
    /\ UNCHANGED <<flag, events, window, shown, sessions, stop, tries, pending, relayed,
                   accept, handlers>>

ReconnectEnds ==
    /\ worker = "reconnect"
    /\ \/ stop /\ flag' = TRUE /\ worker' = "join" /\ events' = events
       \/ tries = ReconnectAttempts /\ Ends("Error") /\ flag' = flag
    /\ UNCHANGED <<window, shown, sessions, stop, tries, pending, relayed, accept, handlers>>

JoinAcceptLoop ==
    /\ worker = "join" /\ accept = "done"
    /\ Ends("Stopped")
    /\ UNCHANGED <<window, shown, sessions, stop, tries, pending, relayed, flag, accept,
                   handlers>>

(***************************************************************************)
(* run_accept_loop and handle_client.                                       *)
(***************************************************************************)
Stopping == flag \/ worker = "ended"

Accepts(o) ==
    /\ worker # "none" /\ accept = "listen" /\ task[o] = "free"
    /\ task' = [task EXCEPT ![o] = "handshake"]
    /\ UNCHANGED <<window, shown, sessions, stop, events, session, count, announce>>

AcceptFails ==
    /\ worker # "none" /\ accept = "listen"
    /\ accept' = "backoff"
    /\ UNCHANGED <<window, shown, sessions, stop, events, worker, tries, pending, relayed,
                   flag, handlers>>

BackoffEnds ==
    /\ worker # "none" /\ accept = "backoff"
    /\ accept' = "listen"
    /\ UNCHANGED <<window, shown, sessions, stop, events, worker, tries, pending, relayed,
                   flag, handlers>>

AcceptLoopStops ==
    /\ worker # "none" /\ accept = "listen" /\ Stopping
    /\ accept' = "done"
    /\ UNCHANGED <<window, shown, sessions, stop, events, worker, tries, pending, relayed,
                   flag, handlers>>

Goto(o, here, there) ==
    /\ worker # "none" /\ task[o] = here
    /\ task' = [task EXCEPT ![o] = there]
    /\ UNCHANGED <<window, shown, sessions, stop, session>>

\* The count is taken in one step and reported in another.
CountsIn(o) ==
    /\ Goto(o, "handshake", "entering")
    /\ count' = count + 1
    /\ announce' = [announce EXCEPT ![o] = count + 1]
    /\ UNCHANGED events

HandshakeFails(o) ==
    /\ Goto(o, "handshake", "gone")
    /\ UNCHANGED <<events, count, announce>>

ReportsIn(o) ==
    /\ Goto(o, "entering", "serve")
    /\ Tell("clients", announce[o])
    /\ UNCHANGED <<count, announce>>

\* A failed write, a Close frame, a receive error, the end of the stream, or
\* the accept loop's shutdown.
LeavesLoop(o) ==
    /\ Goto(o, "serve", "close")
    /\ UNCHANGED <<events, count, announce>>

CountsOut(o) ==
    /\ Goto(o, "close", "leaving")
    /\ count' = count - 1
    /\ announce' = [announce EXCEPT ![o] = count - 1]
    /\ UNCHANGED events

ReportsOut(o) ==
    /\ Goto(o, "leaving", "gone")
    /\ Tell("clients", announce[o])
    /\ UNCHANGED <<count, announce>>

(***************************************************************************)
(* The specification.                                                       *)
(***************************************************************************)
Init ==
    /\ window = "open" /\ running = FALSE /\ status = "Idle"
    /\ client_count = 0 /\ relayed_count = 0
    /\ sessions = 0 /\ stop = FALSE /\ events = <<>>
    /\ worker = "none" /\ tries = 0 /\ pending = 0 /\ relayed = 0
    /\ flag = FALSE /\ accept = "off"
    /\ count = 0 /\ task = Fresh /\ announce = [o \in Overlays |-> 0]

WindowStep == Start \/ Stop \/ DrainEvents \/ CloseWindow \/ Exit

WorkerStep ==
    \/ BuildsRuntime \/ BuildFails
    \/ Connects \/ ConnectFails \/ ConnectEnds \/ Binds \/ BindFails
    \/ SeesStop \/ (\E n \in 1..2 : EventArrives(n)) \/ SendPayload
    \/ FeedEnds \/ Reconnects \/ ReconnectFails \/ ReconnectEnds
    \/ JoinAcceptLoop

AcceptStep ==
    (\E o \in Overlays : Accepts(o)) \/ AcceptFails \/ BackoffEnds \/ AcceptLoopStops

HandlerStep(o) ==
    \/ CountsIn(o) \/ HandshakeFails(o) \/ ReportsIn(o)
    \/ LeavesLoop(o) \/ CountsOut(o) \/ ReportsOut(o)

Next == WindowStep \/ WorkerStep \/ AcceptStep \/ \E o \in Overlays : HandlerStep(o)

Spec == Init /\ [][Next]_vars

\* A running window is redrawn every 100 ms; every attempt of the worker is
\* bounded by a timeout and every wait watches the stop; select! picks a ready
\* branch at random.  Nothing is assumed of the game, the overlays or the user.
GuiFairness ==
    /\ WF_vars(DrainEvents) /\ WF_vars(Exit)
    /\ WF_vars(BuildsRuntime \/ BuildFails)
    /\ WF_vars(Connects \/ ConnectFails \/ ConnectEnds)
    /\ WF_vars(Binds \/ BindFails)
    /\ SF_vars(SeesStop)
    /\ WF_vars(SendPayload)
    /\ WF_vars(Reconnects \/ ReconnectFails \/ ReconnectEnds)
    /\ WF_vars(JoinAcceptLoop)
    /\ WF_vars(BackoffEnds)
    /\ SF_vars(AcceptLoopStops)

FairSpec == Spec /\ GuiFairness

-----------------------------------------------------------------------------
(***************************************************************************)
(* Properties.                                                              *)
(***************************************************************************)

\* The values the variables may take.
TypeOK ==
    /\ window \in {"open", "closing", "closed"}
    /\ running \in BOOLEAN
    /\ status \in {"Idle", "Starting", "Running", "Stopping", "Stopped", "Error"}
    /\ client_count \in Nat /\ relayed_count \in Nat
    /\ sessions \in 0..MaxSessions /\ stop \in BOOLEAN
    /\ events \in Seq(({"status"} \X {"Running", "Stopped", "Error"})
                       \cup ({"clients", "relayed"} \X Nat))
    /\ worker \in {"none", "build", "connect", "bind", "serve", "relay", "reconnect",
                   "join", "ended"}
    /\ tries \in Nat /\ pending \in 0..2 /\ (worker = "relay" => pending > 0)
    /\ relayed \in Nat /\ flag \in BOOLEAN
    /\ accept \in {"off", "listen", "backoff", "done"}
    /\ count \in Nat
    /\ task \in [Overlays -> {"free", "handshake", "entering", "serve", "close",
                              "leaving", "gone"}]
    /\ announce \in [Overlays -> Nat]

\* The window offers Start exactly when no worker is left: a second worker would
\* find the port taken, and a window that missed Stopped could never start one.
\* The status it shows is that of a session under way, or of none.
ShownSessionIsReal ==
    window = "open" =>
        /\ running <=> worker # "none"
        /\ running => status \in {"Starting", "Running", "Stopping"}
        /\ ~running => status \in {"Idle", "Stopped", "Error"}

\* The relayed total shown is one this session has reached, and the latest one
\* as soon as no report is under way.
RelayedShownIsTrue ==
    /\ relayed_count <= relayed
    /\ (window = "open" /\ ~\E i \in DOMAIN events : events[i][1] = "relayed")
           => relayed_count = relayed

\* "View live client count": once every report has been drained and no handler
\* is between counting and reporting, the window shows the session's count.
ClientsShownAreLive ==
    (/\ window = "open" /\ running /\ events = <<>>
     /\ \A o \in Overlays : task[o] \notin {"entering", "leaving"})
        => client_count = count

\* Stop ends the session and the window shows it, while connecting, while
\* reconnecting and with overlays that never answer.
StopEndsSession == (stop /\ running) ~> (~running \/ window # "open")

\* Closing the window ends the process, whatever the session is doing.
CloseEndsProcess == window = "closing" ~> window = "closed"

\* A session that ends by itself, by any failure, is shown as ended.
EndIsShown == worker = "ended" ~> (worker = "none" /\ ~running) \/ window # "open"

=============================================================================
