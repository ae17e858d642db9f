--------------------------- MODULE MockBroadcast ---------------------------
(***************************************************************************)
(* The mock broadcaster (src/bin/mock_broadcast.rs): it plays a scenario of *)
(* SOS payloads to overlays at a steady pace, and makes up the content of   *)
(* game:update_state each time.                                             *)
(*                                                                          *)
(* Its accept loop, handlers, channel and shutdown are those of             *)
(* BroadcastServer, whose variables and steps this module takes.  What is   *)
(* its own is run_server and UpdateStateRandomizer; and that the whole      *)
(* behaves as a BroadcastServer whose limit is the end of the scenario is a *)
(* property.  Choosing the scenario stands in the place of "connect".       *)
(*                                                                          *)
(* Random numbers are free choices.  Of a made-up update only its players   *)
(* are kept; the clock, the scores and the numbers of a player are left     *)
(* out.  A filter that names an unknown event ends the program before       *)
(* anything is started and is not modelled.                                 *)
(***************************************************************************)
EXTENDS Integers, Sequences, SequencesExt, FiniteSets

CONSTANTS Templates,        \* the events of all_examples.json
          Wanted,           \* --event, {} for all
          HasMax, MaxEvents,  \* --max-events
          LoopEvents,       \* --loop or --no-loop
          Players,          \* size of the pool of players (6)
          Handlers, Capacity, MaxPayloads    \* as in BroadcastServer

ASSUME TemplatesAssumption == Templates \in Seq(STRING) /\ Wanted \subseteq ToSet(Templates)
ASSUME EndAssumption == HasMax \in BOOLEAN /\ MaxEvents \in Nat /\ LoopEvents \in BOOLEAN
ASSUME PoolAssumption == Players \in Nat \ {0, 1}
ASSUME MockServerAssumption ==
    IsFiniteSet(Handlers) /\ Capacity \in Nat \ {0} /\ MaxPayloads \in Nat

VARIABLES main, tries, signal, flag, pending, relayed, tail,
          accept, up, count, task, next, holding, from, since, got, skipped,
          index,    \* the template sent next, counted from 0
          log,      \* ghost: the templates sent
          made,     \* last_player_payload_by_id: the update that made it
          update    \* the last game:update_state made

handlers == <<count, task, next, holding, from, since, got, skipped>>
randomizer == <<made, update>>
own == <<index, log, randomizer>>

\* select_scenario
Scenario ==
    IF Wanted = {} THEN Templates ELSE SelectSeq(Templates, LAMBDA e : e \in Wanted)

\* An empty selection is an error before anything is started.
ASSUME ScenarioAssumption == Scenario \in Seq(STRING) \ {<<>>}

\* The scenario's end is a limit like the one asked for.
EndsAt == IF HasMax /\ (LoopEvents \/ MaxEvents < Len(Scenario))
          THEN MaxEvents ELSE Len(Scenario)

Server == INSTANCE BroadcastServer
            WITH HasLimit <- HasMax \/ ~LoopEvents, Limit <- EndsAt,
                 ConnectAttempts <- 1, ReconnectAttempts <- 1

vars == <<Server!vars, own>>

(***************************************************************************)
(* UpdateStateRandomizer.                                                   *)
(***************************************************************************)
Pool == 0..(Players - 1)

\* The players that move: two or more in a row around the pool.
Active(start, n) == {(start + k) % Players : k \in 0..(n - 1)}

\* What was made last for everybody seen so far, after this tick.
MadeAt(tick, active) ==
    [p \in active \cup DOMAIN made |-> IF p \in active THEN tick ELSE made[p]]

\* Faulty variant: player_map holds only those who move.
PlayerMapOfActive(active, tick) == [p \in active |-> tick]

\* player_map holds everybody seen so far, those who do not move with the
\* payload made for them last.
PlayerMap(active, tick) == MadeAt(tick, active)

NextUpdateStatePayload ==
    \E start \in Pool, n \in 2..Players :
        LET tick == update.tick + 1
            active == Active(start, n)
        IN  /\ made' = MadeAt(tick, active)
            /\ update' = [tick |-> tick, players |-> PlayerMap(active, tick)]

(***************************************************************************)
(* run_server.                                                              *)
(***************************************************************************)
ChoosesScenario == Server!Connects /\ UNCHANGED own

Binds == Server!Binds /\ UNCHANGED own

BindFails == Server!BindFails /\ UNCHANGED own

SignalArrives == Server!SignalArrives /\ UNCHANGED own

TakeSignal == Server!TakeSignal /\ UNCHANGED own

\* envelope_for_send; the ticks that were missed are skipped.
TickerTicks ==
    /\ Server!EventArrives(1)
    /\ IF Scenario[index + 1] = "game:update_state"
       THEN NextUpdateStatePayload ELSE UNCHANGED randomizer
    /\ UNCHANGED <<index, log>>

MaxReached(n) == HasMax /\ n >= MaxEvents

\* Faulty variant: the scenario ends before its last template.
CompletesEarly == index + 2 >= Len(Scenario)

Completes == index + 1 >= Len(Scenario)

Stops == MaxReached(relayed + 1) \/ (Completes /\ ~LoopEvents)

NextIndex == IF Completes /\ LoopEvents /\ ~Stops THEN 0 ELSE index + 1

\* Faulty variant: the loop is left without telling the tasks to shut down.
TellsNobody == FALSE

TellsShutdown == Stops

\* The send itself, which fails without a receiver, and what follows it.
Sends ==
    /\ main = "relay"
    /\ tail' = IF Server!Subscribed = {} THEN tail ELSE tail + 1
    /\ relayed' = relayed + 1 /\ pending' = 0
    /\ log' = Append(log, index)
    /\ index' = NextIndex
    /\ flag' = TellsShutdown
    /\ main' = IF Stops THEN "join" ELSE "serve"
    /\ UNCHANGED <<tries, signal, accept, up, handlers, randomizer>>

JoinAcceptLoop == Server!JoinAcceptLoop /\ UNCHANGED own

ProcessExits == Server!ProcessExits /\ UNCHANGED own

AcceptStep == Server!AcceptStep /\ UNCHANGED own

HandlerStep(h) == Server!HandlerStep(h) /\ UNCHANGED own

Init ==
    /\ Server!Init
    /\ index = 0 /\ log = <<>>
    /\ made = <<>> /\ update = [tick |-> 0, players |-> <<>>]

Next ==
    \/ ChoosesScenario \/ Binds \/ BindFails \/ SignalArrives \/ TakeSignal
    \/ TickerTicks \/ Sends \/ JoinAcceptLoop \/ ProcessExits
    \/ AcceptStep \/ \E h \in Handlers : HandlerStep(h)

Spec == Init /\ [][Next]_vars

(***************************************************************************)
(* Properties.                                                              *)
(***************************************************************************)
\* The mock is a BroadcastServer with the scenario's end or --max-events,
\* whichever comes first, for its limit: overlays see the same server.
ImplementsBroadcastServer == Server!Spec

\* The payloads sent run through the chosen templates in order, around and
\* around, with none left out at the wrap.  A program that ends well was told
\* to end: by a signal, or it has sent exactly what was asked for, whether
\* anybody was there or not.
PlaysScenario ==
    /\ \A k \in DOMAIN log : log[k] = (k - 1) % Len(Scenario)
    /\ main \in {"join", "ok"} /\ ~signal =>
          /\ HasMax \/ ~LoopEvents
          /\ Len(log) = IF EndsAt = 0 THEN 1 ELSE EndsAt

\* "once a player appears in update_state they remain in later update_state
\* payloads": nobody leaves, nobody falls back to an older payload, and at
\* least two of the pool play.
SeenPlayersStay ==
    [][update' # update =>
        /\ \A p \in DOMAIN update.players :
              p \in DOMAIN update'.players /\ update'.players[p] >= update.players[p]
        /\ Cardinality({p \in DOMAIN update'.players :
                           update'.players[p] = update'.tick}) >= 2]_vars

=============================================================================
