------------------------ MODULE MockBroadcastProofs ------------------------
(***************************************************************************)
(* Proofs about MockBroadcast, for every scenario, every way to end it, a   *)
(* pool of any size, and every set of overlays and channel capacity.        *)
(***************************************************************************)
EXTENDS MockBroadcast, DataLemmas, FiniteSetTheorems

Length == Len(Scenario)

\* run_server has not left its loop.
Plays == main \in {"connect", "bind", "serve", "relay"}

\* A send does not end the scenario: what the loop has just checked.
GoesOn(n) == (HasMax => n < MaxEvents) /\ (~LoopEvents => n < Length)

\* Where run_server is in the scenario, and that it goes on only within it.
Position ==
    /\ main \in {"connect", "bind", "serve", "relay", "join", "ok", "err"}
    /\ main = "relay" => pending = 1
    /\ Plays => flag = FALSE
    /\ relayed \in Nat /\ index \in Nat
    /\ ~LoopEvents => index = relayed
    /\ Plays /\ LoopEvents => index = relayed % Length
    /\ Plays => relayed = 0 \/ GoesOn(relayed)

\* The templates sent.
Sent ==
    /\ log \in Seq(Nat) /\ Len(log) = relayed
    /\ PlaysScenario

\* The inductive invariant of what is sent.
PlayInv == Position /\ Sent

\* player_map is what has been made, none of it newer than the last update.
PlayersInv ==
    /\ update.tick \in Nat /\ update.players = made
    /\ DOMAIN made \subseteq Pool
    /\ \A p \in DOMAIN made : made[p] \in 0..update.tick

LEMMA LengthType == Length \in Nat \ {0} /\ Len(Scenario) = Length
<1>1. Scenario \in Seq(STRING) /\ Scenario # <<>>
  BY ScenarioAssumption
<1> QED
  BY <1>1, EmptySeq DEF Length

\* The limit of the server that the mock is.
LEMMA EndsAtValue ==
    /\ EndsAt \in Nat
    /\ LoopEvents => (HasMax => EndsAt = MaxEvents)
    /\ ~LoopEvents => EndsAt = IF HasMax /\ MaxEvents < Length THEN MaxEvents ELSE Length
  BY LengthType, EndAssumption DEF EndsAt

\* run_server stops where that limit says.
LEMMA StopsAtLimit ==
    ASSUME Position, main = "relay"
    PROVE  Stops <=> (HasMax \/ ~LoopEvents) /\ relayed + 1 >= EndsAt
<1>1. relayed \in Nat /\ (~LoopEvents => index = relayed)
  BY DEF Position
<1>2. Stops <=> \/ HasMax /\ relayed + 1 >= MaxEvents
                \/ index + 1 >= Length /\ ~LoopEvents
  BY LengthType DEF Stops, MaxReached, Completes
<1>3. CASE LoopEvents
  BY <1>2, <1>3, EndsAtValue
<1>4. CASE ~LoopEvents
  <2>1. Stops <=> (HasMax /\ relayed + 1 >= MaxEvents) \/ relayed + 1 >= Length
    BY <1>1, <1>2, <1>4
  <2> QED
    BY <1>1, <1>4, <2>1, EndsAtValue, LengthType, EndAssumption
<1> QED
  BY <1>3, <1>4

\* The scenario's next template, counted around.
LEMMA IndexIsRemainder ==
    ASSUME Position, Plays
    PROVE  index = relayed % Length /\ index \in 0..(Length - 1)
<1>1. relayed \in Nat
  BY DEF Position
<1>2. CASE LoopEvents
  BY <1>1, <1>2, LengthType, DivisionProperties DEF Position
<1>3. CASE ~LoopEvents
  <2>1. index = relayed /\ relayed \in 0..(Length - 1)
    BY <1>1, <1>3, LengthType DEF Position, GoesOn
  <2>2. Length * 0 + relayed = relayed
    BY <1>1, LengthType
  <2>3. relayed % Length = relayed
    BY <2>1, <2>2, LengthType, RemainderIsUnique
  <2> QED
    BY <2>1, <2>3
<1> QED
  BY <1>2, <1>3

-----------------------------------------------------------------------------
(***************************************************************************)
(* The steps of run_server.                                                 *)
(***************************************************************************)
\* All but the send leave what has been sent, and go on only before the end.
LEMMA QuietSteps ==
    ASSUME Position, Next, ~Sends
    PROVE  /\ UNCHANGED <<relayed, index, log>>
           /\ main' \in {"connect", "bind", "serve", "relay", "join", "ok", "err"}
           /\ Plays' => Plays /\ flag' = flag
           /\ main' = "relay" => pending' = 1
           /\ (main' \in {"join", "ok"} /\ ~signal') => main \in {"join", "ok"} /\ ~signal
<1>1. CASE ChoosesScenario \/ Binds \/ BindFails
  BY <1>1 DEF ChoosesScenario, Binds, BindFails, Server!Connects, Server!Binds,
              Server!BindFails, own, Plays
<1>2. CASE SignalArrives \/ TakeSignal
  <2>1. UNCHANGED <<relayed, index, log, pending>> /\ (Plays' => Plays /\ flag' = flag)
    BY <1>2 DEF SignalArrives, TakeSignal, Server!SignalArrives, Server!TakeSignal, own, Plays
  <2>2. CASE SignalArrives
    BY <2>1, <2>2 DEF SignalArrives, Server!SignalArrives, Position
  <2>3. CASE TakeSignal
    <3>1. main' = "join" /\ signal /\ signal' = signal
      BY <2>3 DEF TakeSignal, Server!TakeSignal
    <3> QED
      BY <2>1, <3>1
  <2> QED
    BY <1>2, <2>2, <2>3
<1>3. CASE TickerTicks
  BY <1>3 DEF TickerTicks, Server!EventArrives, Plays
<1>4. CASE JoinAcceptLoop \/ ProcessExits
  BY <1>4 DEF JoinAcceptLoop, ProcessExits, Server!JoinAcceptLoop, Server!ProcessExits,
              Server!mainVars, Server!MainEnded, own, Plays, Position
<1>5. CASE AcceptStep \/ \E h \in Handlers : HandlerStep(h)
  <2>1. UNCHANGED Server!mainVars /\ UNCHANGED own
    BY <1>5 DEF AcceptStep, HandlerStep, Server!AcceptStep, Server!HandlerStep,
                Server!Accepts, Server!AcceptFails, Server!BackoffEnds, Server!AcceptLoopStops,
                Server!HandshakeSucceeds, Server!HandshakeFails, Server!Lags,
                Server!ReceivesPayload, Server!ReceivesPing, Server!WriteSucceeds,
                Server!WriteFails, Server!OverlayLeaves, Server!SeesShutdown,
                Server!SeesChannelClosed, Server!HandlerEnds, Server!Goto
  <2> QED
    BY <2>1 DEF Server!mainVars, own, Plays, Position
<1> QED
  BY <1>1, <1>2, <1>3, <1>4, <1>5 DEF Next

LEMMA PositionStep ==
    ASSUME Position, Next
    PROVE  Position'
<1>1. CASE Sends
  <2>1. /\ relayed' = relayed + 1 /\ index' = NextIndex /\ flag' = Stops
        /\ main' = IF Stops THEN "join" ELSE "serve"
        /\ main = "relay"
    BY <1>1 DEF Sends, TellsShutdown
  <2>2. /\ relayed \in Nat /\ index = relayed % Length /\ index \in 0..(Length - 1)
        /\ ~LoopEvents => index = relayed
    BY <2>1, IndexIsRemainder DEF Position, Plays
  <2>3. NextIndex = IF index + 1 >= Length /\ LoopEvents /\ ~Stops THEN 0 ELSE index + 1
    BY LengthType DEF NextIndex, Completes
  <2>4. index' \in Nat /\ (~LoopEvents => index' = relayed')
    BY <2>1, <2>2, <2>3
  <2>5. ~Stops /\ LoopEvents => index' = relayed' % Length
    <3>1. (relayed + 1) % Length = IF (relayed % Length) + 1 = Length
                                  THEN 0 ELSE (relayed % Length) + 1
      BY <2>2, LengthType, RemainderOfSuccessor
    <3>2. index + 1 >= Length <=> index + 1 = Length
      BY <2>2, LengthType
    <3> QED
      BY <2>1, <2>2, <2>3, <3>1, <3>2
  <2>6. ~Stops => GoesOn(relayed + 1)
    BY <2>2, LengthType, EndAssumption DEF Stops, MaxReached, Completes, GoesOn
  <2>7. Plays' <=> ~Stops
    BY <2>1 DEF Plays
  <2>8. relayed' \in Nat /\ main' \in {"join", "serve"}
    BY <2>1, <2>2
  <2>9. Plays' => flag' = FALSE
    BY <2>1, <2>7
  <2> QED
    BY <2>1, <2>4, <2>5, <2>6, <2>7, <2>8, <2>9 DEF Position
<1>2. CASE ~Sends
  BY <1>2, QuietSteps DEF Position
<1> QED
  BY <1>1, <1>2

LEMMA SentStep ==
    ASSUME Position, Sent, Next
    PROVE  Sent'
<1>1. CASE Sends
  <2>1. /\ relayed' = relayed + 1 /\ log' = Append(log, index) /\ main = "relay"
        /\ main' = IF Stops THEN "join" ELSE "serve"
    BY <1>1 DEF Sends
  <2>2. /\ relayed \in Nat /\ index \in Nat /\ index = relayed % Length
        /\ relayed = 0 \/ GoesOn(relayed)
    BY <2>1, IndexIsRemainder DEF Position, Plays
  <2>3. /\ log' \in Seq(Nat) /\ Len(log') = relayed' /\ DOMAIN log' = 1..(relayed + 1)
        /\ log'[relayed + 1] = index /\ \A k \in 1..relayed : log'[k] = log[k]
        /\ DOMAIN log = 1..relayed
    BY <2>1, <2>2, AppendProperties, LenProperties DEF Sent
  <2>4. ASSUME NEW k \in DOMAIN log' PROVE log'[k] = (k - 1) % Len(Scenario)
    <3>1. CASE k = relayed + 1
      BY <2>2, <2>3, <3>1, LengthType
    <3>2. CASE k # relayed + 1
      <4>1. k \in DOMAIN log /\ log'[k] = log[k]
        BY <2>2, <2>3, <2>4, <3>2
      <4> QED
        BY <4>1 DEF Sent, PlaysScenario
    <3> QED
      BY <3>1, <3>2
  <2>5. main' \in {"join", "ok"} =>
            /\ HasMax \/ ~LoopEvents
            /\ relayed + 1 = IF EndsAt = 0 THEN 1 ELSE EndsAt
    <3>1. SUFFICES ASSUME Stops PROVE /\ HasMax \/ ~LoopEvents
                                      /\ relayed + 1 = IF EndsAt = 0 THEN 1 ELSE EndsAt
      BY <2>1
    <3>2. (HasMax \/ ~LoopEvents) /\ relayed + 1 >= EndsAt
      BY <2>1, <3>1, StopsAtLimit
    <3>3. relayed = 0 \/ relayed < EndsAt
      BY <2>2, <3>2, EndsAtValue, LengthType, EndAssumption DEF GoesOn
    <3> QED
      BY <2>2, <3>2, <3>3, EndsAtValue
  <2> QED
    BY <2>1, <2>3, <2>4, <2>5 DEF Sent, PlaysScenario
<1>2. CASE ~Sends
  <2>1. UNCHANGED <<relayed, log>>
    BY <1>2, QuietSteps
  <2>2. PlaysScenario'
    BY <1>2, <2>1, QuietSteps DEF Sent, PlaysScenario
  <2> QED
    BY <2>1, <2>2 DEF Sent
<1> QED
  BY <1>1, <1>2

LEMMA PlayInvHolds == Spec => []PlayInv
<1>1. Init => PlayInv
  <2> SUFFICES ASSUME Init PROVE PlayInv
    OBVIOUS
  <2>1. /\ main = "connect" /\ flag = FALSE /\ relayed = 0 /\ index = 0 /\ log = <<>>
    BY DEF Init, Server!Init
  <2>2. 0 % Length = 0
    BY LengthType
  <2>3. Position
    BY <2>1, <2>2 DEF Position, Plays
  <2>4. log \in Seq(Nat) /\ Len(log) = 0 /\ DOMAIN log = {}
    BY <2>1
  <2>5. Sent
    BY <2>1, <2>4 DEF Sent, PlaysScenario
  <2> QED
    BY <2>3, <2>5 DEF PlayInv
<1>2. PlayInv /\ [Next]_vars => PlayInv'
  <2> SUFFICES ASSUME PlayInv, [Next]_vars PROVE PlayInv'
    OBVIOUS
  <2>1. CASE Next
    BY <2>1, PositionStep, SentStep DEF PlayInv
  <2>2. CASE UNCHANGED vars
    BY <2>2 DEF vars, own, Server!vars, Server!mainVars, PlayInv, Position, Sent, Plays,
                PlaysScenario
  <2> QED
    BY <2>1, <2>2
<1> QED
  BY <1>1, <1>2, PTL DEF Spec

\* The mock sends the chosen templates in order, around and around with none
\* left out at the wrap, and one that ends without a signal has sent exactly
\* what --max-events and --no-loop ask for.
THEOREM MockPlaysScenario == Spec => []PlaysScenario
<1>1. PlayInv => PlaysScenario
  BY DEF PlayInv, Sent
<1> QED
  BY <1>1, PlayInvHolds, PTL

-----------------------------------------------------------------------------
(***************************************************************************)
(* The mock is a BroadcastServer.                                           *)
(***************************************************************************)
LEMMA ServerStep ==
    ASSUME PlayInv, [Next]_vars
    PROVE  [Server!Next]_(Server!vars)
<1>1. CASE ChoosesScenario \/ Binds \/ BindFails \/ SignalArrives \/ TakeSignal
  BY <1>1 DEF ChoosesScenario, Binds, BindFails, SignalArrives, TakeSignal,
              Server!Next, Server!MainStep
<1>2. CASE TickerTicks
  BY <1>2 DEF TickerTicks, Server!Next, Server!MainStep
<1>3. CASE Sends
  <2>1. main = "relay" /\ Position
    BY <1>3 DEF Sends, PlayInv
  <2>2. pending = 1 /\ flag = FALSE
    BY <2>1 DEF Position, Plays
  <2>3. Stops <=> Server!AtLimit(relayed + 1)
    BY <2>1, StopsAtLimit DEF Server!AtLimit
  <2>4. /\ IF Server!AtLimit(relayed + 1)
           THEN flag' = TRUE /\ main' = "join"
           ELSE flag' = flag /\ main' = IF pending = 1 THEN "serve" ELSE "relay"
        /\ pending' = pending - 1
    <3>1. flag' = Stops /\ main' = (IF Stops THEN "join" ELSE "serve") /\ pending' = pending - 1
      BY <1>3, <2>2 DEF Sends, TellsShutdown
    <3>2. CASE Stops
      BY <2>3, <3>1, <3>2, Zenon
    <3>3. CASE ~Stops
      <4>1. flag' = flag
        <5>1. Stops = FALSE
          BY <3>3, Zenon DEF Stops
        <5> QED
          BY <2>2, <3>1, <5>1
      <4> QED
        BY <2>2, <2>3, <3>1, <3>3, <4>1
    <3> QED
      BY <3>2, <3>3
  <2>5. Server!SendPayload
    BY <1>3, <2>4 DEF Sends, Server!SendPayload, handlers, Server!handlerVars
  <2> QED
    BY <2>5 DEF Server!Next, Server!MainStep
<1>4. CASE JoinAcceptLoop \/ ProcessExits
  BY <1>4 DEF JoinAcceptLoop, ProcessExits, Server!Next, Server!MainStep
<1>5. CASE AcceptStep \/ \E h \in Handlers : HandlerStep(h)
  BY <1>5 DEF AcceptStep, HandlerStep, Server!Next
<1>6. CASE UNCHANGED vars
  BY <1>6 DEF vars
<1> QED
  BY <1>1, <1>2, <1>3, <1>4, <1>5, <1>6 DEF Next

\* Overlays see the same server: every behaviour of the mock is one of a
\* BroadcastServer whose limit is the scenario's end or --max-events.
THEOREM MockImplementsServer == Spec => ImplementsBroadcastServer
<1>1. Init => Server!Init
  BY DEF Init
<1>2. PlayInv /\ [Next]_vars => [Server!Next]_(Server!vars)
  BY ServerStep
<1> QED
  BY <1>1, <1>2, PlayInvHolds, PTL DEF Spec, ImplementsBroadcastServer, Server!Spec

-----------------------------------------------------------------------------
(***************************************************************************)
(* The players of game:update_state.                                        *)
(***************************************************************************)
\* A pair of different elements makes a finite set that holds it larger than one.
LEMMA TwoOfThem ==
    ASSUME NEW S, IsFiniteSet(S), NEW a \in S, NEW b \in S, a # b
    PROVE  Cardinality(S) >= 2
<1>1. IsFiniteSet({a}) /\ Cardinality({a}) = 1
  BY FS_Singleton
<1>2. IsFiniteSet({a} \cup {b}) /\ Cardinality({a} \cup {b}) = 2
  BY <1>1, FS_AddElement
<1>3. {a} \cup {b} \in SUBSET S
  OBVIOUS
<1>4. Cardinality({a} \cup {b}) <= Cardinality(S) /\ Cardinality(S) \in Nat
  BY <1>3, FS_Subset, FS_CardinalityType
<1> QED
  BY <1>2, <1>4

\* Two or more in a row around the pool are two different players of it.
LEMMA TwoAreActive ==
    ASSUME NEW start \in Pool, NEW n \in 2..Players
    PROVE  /\ Active(start, n) \subseteq Pool
           /\ \E a, b \in Active(start, n) : a # b
<1>0. Players \in Nat \ {0} /\ Players > 1 /\ start \in Nat /\ start < Players
  BY PoolAssumption DEF Pool
<1>1. Active(start, n) \subseteq Pool
  <2>1. ASSUME NEW k \in 0..(n - 1) PROVE (start + k) % Players \in 0..(Players - 1)
    BY <1>0, DivisionProperties
  <2> QED
    BY <2>1 DEF Active, Pool
<1>2. 0 \in 0..(n - 1) /\ 1 \in 0..(n - 1)
  BY <1>0
<1>3. (start + 0) % Players \in Active(start, n) /\ (start + 1) % Players \in Active(start, n)
  BY <1>2 DEF Active
<1>4. (start + 0) % Players # (start + 1) % Players
  <2>1. (start + 1) % Players = IF (start % Players) + 1 = Players
                                THEN 0 ELSE (start % Players) + 1
    BY <1>0, RemainderOfSuccessor
  <2>2. start + 0 = start /\ start % Players \in 0..(Players - 1)
    BY <1>0, DivisionProperties
  <2> QED
    BY <1>0, <2>1, <2>2
<1> QED
  BY <1>1, <1>3, <1>4

\* One update: everybody seen stays, none with an older payload, two move.
LEMMA UpdateStep ==
    ASSUME PlayersInv, NextUpdateStatePayload
    PROVE  /\ PlayersInv'
           /\ \A p \in DOMAIN update.players :
                  p \in DOMAIN update'.players /\ update'.players[p] >= update.players[p]
           /\ Cardinality({p \in DOMAIN update'.players :
                              update'.players[p] = update'.tick}) >= 2
<1>1. PICK start \in Pool, n \in 2..Players :
          /\ made' = MadeAt(update.tick + 1, Active(start, n))
          /\ update' = [tick |-> update.tick + 1,
                        players |-> PlayerMap(Active(start, n), update.tick + 1)]
  BY DEF NextUpdateStatePayload
<1> DEFINE active == Active(start, n)
           tick == update.tick + 1
<1>2. update.tick \in Nat /\ update.players = made /\ DOMAIN made \subseteq Pool
      /\ \A p \in DOMAIN made : made[p] \in 0..update.tick
  BY DEF PlayersInv
<1>3. update'.tick = tick /\ update'.players = made'
  BY <1>1 DEF PlayerMap
<1>4. active \subseteq Pool /\ \E a, b \in active : a # b
  BY TwoAreActive
<1>5. /\ DOMAIN made' = active \cup DOMAIN made
      /\ \A p \in DOMAIN made' : made'[p] = IF p \in active THEN tick ELSE made[p]
  BY <1>1 DEF MadeAt
<1> HIDE DEF active, tick
<1>6. tick \in Nat /\ tick = update.tick + 1
  BY <1>2 DEF tick
<1>7. PlayersInv'
  <2>1. DOMAIN made' \subseteq Pool
    BY <1>2, <1>4, <1>5
  <2>2. \A p \in DOMAIN made' : made'[p] \in 0..update'.tick
    BY <1>2, <1>3, <1>5, <1>6
  <2> QED
    BY <1>3, <1>6, <2>1, <2>2 DEF PlayersInv
<1>8. ASSUME NEW p \in DOMAIN update.players
      PROVE  p \in DOMAIN update'.players /\ update'.players[p] >= update.players[p]
  BY <1>2, <1>3, <1>5, <1>6, <1>8
<1>9. Cardinality({p \in DOMAIN made' : made'[p] = tick}) >= 2
  <2> DEFINE moved == {p \in DOMAIN made' : made'[p] = tick}
  <2>1. PICK a \in active, b \in active : a # b
    BY <1>4
  <2>2. a \in moved /\ b \in moved
    BY <1>5, <2>1
  <2>3. moved \in SUBSET Pool
    BY <1>2, <1>4, <1>5
  <2>4. IsFiniteSet(moved)
    <3>1. IsFiniteSet(Pool)
      BY PoolAssumption, FS_Interval DEF Pool
    <3> QED
      BY <2>3, <3>1, FS_Subset
  <2> HIDE DEF moved
  <2>5. Cardinality(moved) >= 2
    BY <2>1, <2>2, <2>4, TwoOfThem
  <2> QED
    BY <2>5 DEF moved
<1> QED
  BY <1>3, <1>7, <1>8, <1>9

\* Only a tick of the timer makes an update.
LEMMA RandomizerStep ==
    ASSUME [Next]_vars
    PROVE  NextUpdateStatePayload \/ UNCHANGED randomizer
<1>1. CASE TickerTicks
  BY <1>1 DEF TickerTicks
<1>2. CASE Sends
  BY <1>2 DEF Sends
<1>3. CASE ~TickerTicks /\ ~Sends
  BY <1>3 DEF Next, vars, own, ChoosesScenario, Binds, BindFails, SignalArrives, TakeSignal,
              JoinAcceptLoop, ProcessExits, AcceptStep, HandlerStep
<1> QED
  BY <1>1, <1>2, <1>3

LEMMA PlayersInvHolds == Spec => []PlayersInv
<1>1. Init => PlayersInv
  BY DEF Init, PlayersInv
<1>2. PlayersInv /\ [Next]_vars => PlayersInv'
  <2> SUFFICES ASSUME PlayersInv, [Next]_vars PROVE PlayersInv'
    OBVIOUS
  <2>1. CASE NextUpdateStatePayload
    BY <2>1, UpdateStep
  <2>2. CASE UNCHANGED randomizer
    BY <2>2 DEF randomizer, PlayersInv
  <2> QED
    BY <2>1, <2>2, RandomizerStep
<1> QED
  BY <1>1, <1>2, PTL DEF Spec

\* "once a player appears in update_state they remain in later update_state
\* payloads": nobody leaves, nobody falls back to an older payload, and at least
\* two of the pool play, whatever the random numbers.
THEOREM MockPlayersStay == Spec => SeenPlayersStay
<1>1. PlayersInv /\ [Next]_vars =>
        [update' # update =>
           /\ \A p \in DOMAIN update.players :
                 p \in DOMAIN update'.players /\ update'.players[p] >= update.players[p]
           /\ Cardinality({p \in DOMAIN update'.players :
                              update'.players[p] = update'.tick}) >= 2]_vars
  <2> SUFFICES ASSUME PlayersInv, [Next]_vars, update' # update
               PROVE  /\ \A p \in DOMAIN update.players :
                            /\ p \in DOMAIN update'.players
                            /\ update'.players[p] >= update.players[p]
                      /\ Cardinality({p \in DOMAIN update'.players :
                                         update'.players[p] = update'.tick}) >= 2
    OBVIOUS
  <2>1. NextUpdateStatePayload
    BY RandomizerStep DEF randomizer
  <2> QED
    BY <2>1, UpdateStep
<1> QED
  BY <1>1, PlayersInvHolds, PTL DEF Spec, SeenPlayersStay

=============================================================================
