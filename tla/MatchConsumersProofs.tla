------------------------ MODULE MatchConsumersProofs ------------------------
(***************************************************************************)
(* Proofs about the SOS side: MatchConsumers, what is kept and told of a    *)
(* match, for every set of players, every way the game may write them, and  *)
(* every bound on matches and scores; and SosRelay, how the payloads made   *)
(* of it travel, for every limit, number of attempts and bound.             *)
(***************************************************************************)
EXTENDS MatchConsumers, SosRelay, DataLemmas, FiniteSetTheorems

(***************************************************************************)
(* What the readers make of a player.                                       *)
(***************************************************************************)
\* The id a player has in the overlay.
IdOf(s) == IF style.name[s] = Blank THEN NoId
           ELSE <<style.name[s], IF style.shortcut = "none" THEN 0 ELSE s>>

LEMMA StyleFacts ==
    ASSUME style \in Styles, NEW s \in Seats
    PROVE  /\ style.name[s] \in Names /\ style.name[s] # Missing
           /\ style.shortcut \in {"field", "extra", "both", "none"}
           /\ style.boost \in {"field", "flat", "car", "none"}
           /\ s \in Nat /\ s # 0 /\ s # Missing
           /\ SeatTeam[s] \in 0..1 /\ SeatTeam[s] \in Nat /\ SeatTeam[s] # Missing
<1>1. style \in [shortcut : {"field", "extra", "both", "none"},
                 boost : {"field", "flat", "car", "none"}, name : [Seats -> Names]]
  BY StylesAssumption
<1>2. /\ style.name \in [Seats -> Names]
      /\ style.shortcut \in {"field", "extra", "both", "none"}
      /\ style.boost \in {"field", "flat", "car", "none"}
  BY <1>1
<1>3. style.name[s] \in Names /\ Missing \notin Names
  BY <1>2, NamesAssumption
<1>4. s \in Nat /\ s # 0 /\ SeatTeam[s] \in 0..1 /\ Missing \notin Nat
  BY SeatsAssumption, MissingAssumption
<1> QED
  BY <1>2, <1>3, <1>4

\* A reference is resolved to the player's id, whichever way it is written.
LEMMA ReferenceId ==
    ASSUME style \in Styles, NEW s \in Seats
    PROVE  /\ PlayerRef(s) \in References /\ PlayerRef(s) # Missing
           /\ PlayerRefId(PlayerRef(s)) = IdOf(s)
           /\ style.shortcut # "none" => TargetRefValue(PlayerRef(s)) = IdOf(s)
<1>1. PICK r : r = PlayerRef(s)
  OBVIOUS
<1>2. /\ r.name = style.name[s] /\ r.team = SeatTeam[s]
      /\ r.shortcut = IF style.shortcut \in {"field", "both"} THEN s ELSE 0
      /\ r.extra = IF style.shortcut \in {"extra", "both"} THEN s ELSE Missing
      /\ r = [name |-> r.name, team |-> r.team, shortcut |-> r.shortcut, extra |-> r.extra]
  BY <1>1 DEF PlayerRef, WrittenIf
<1>3. r.shortcut \in Nat /\ r.extra \in Nat \cup {Missing}
  BY <1>2, StyleFacts
<1>4. r \in References /\ r # Missing
  <2>1. r \in References
    BY <1>2, <1>3, StyleFacts DEF References
  <2> QED
    BY <2>1, MissingAssumption
<1>5. PlayerRefShortcut(r) = IF style.shortcut = "none" THEN Missing ELSE s
  BY <1>2, StyleFacts DEF PlayerRefShortcut, FirstOf
<1>6. OrZero(PlayerRefShortcut(r)) = IF style.shortcut = "none" THEN 0 ELSE s
  BY <1>5, StyleFacts DEF OrZero
<1>7. PlayerRefId(r) = IdOf(s)
  BY <1>2, <1>6 DEF PlayerRefId, FormatPlayerId, IdOf
<1>8. style.shortcut # "none" => TargetRefValue(r) = IdOf(s)
  BY <1>5, <1>7, StyleFacts DEF TargetRefValue
<1> QED
  BY <1>1, <1>4, <1>7, <1>8

\* The same id comes out of the player's entry in a tick, with its score and,
\* when the game writes one, its boost.
LEMMA TickEntry ==
    ASSUME style \in Styles, NEW s \in Seats, score[s] \in Nat
    PROVE  LET p == TickPlayer(s) IN
           /\ TickPlayerId(p) = IdOf(s)
           /\ p.name = IF style.name[s] = Blank THEN Missing ELSE style.name[s]
           /\ p.primary = s /\ p.team = SeatTeam[s] /\ p.score = score[s]
           /\ EffectiveBoost(p) = IF style.boost = "none" THEN Missing ELSE score[s]
           /\ TranslatePlayer(p).primary = s /\ TranslatePlayer(p).score = score[s]
           /\ TranslatePlayer(p).boost = IF style.boost = "none" THEN 0 ELSE score[s]
<1>1. PICK p : p = TickPlayer(s)
  OBVIOUS
<1>2. /\ p.name = IF style.name[s] # Blank THEN style.name[s] ELSE Missing
      /\ p.primary = s /\ p.team = SeatTeam[s] /\ p.score = score[s]
      /\ p.shortcut = IF style.shortcut \in {"field", "both"} THEN s ELSE Missing
      /\ p.extra = IF style.shortcut \in {"extra", "both"} THEN s ELSE Missing
      /\ p.boost = IF style.boost = "field" THEN score[s] ELSE Missing
      /\ p.flatBoost = IF style.boost = "flat" THEN score[s] ELSE Missing
      /\ p.carBoost = IF style.boost = "car" THEN score[s] ELSE Missing
  BY <1>1 DEF TickPlayer, WrittenIf
<1>3. score[s] # Missing
  BY MissingAssumption
<1>4. EffectiveBoost(p) = IF style.boost = "none" THEN Missing ELSE score[s]
  BY <1>2, <1>3, StyleFacts DEF EffectiveBoost, FirstOf
<1>5. OrBlank(p.name) = style.name[s]
  BY <1>2, StyleFacts DEF OrBlank
<1>6. OrZero(FirstOf(p.shortcut, p.extra)) = IF style.shortcut = "none" THEN 0 ELSE s
  BY <1>2, StyleFacts DEF OrZero, FirstOf
<1>7. TickPlayerId(p) = IdOf(s)
  BY <1>5, <1>6 DEF TickPlayerId, FormatPlayerId, IdOf
<1>8. /\ TranslatePlayer(p).primary = s /\ TranslatePlayer(p).score = score[s]
      /\ TranslatePlayer(p).boost = IF style.boost = "none" THEN 0 ELSE score[s]
  BY <1>2, <1>3, <1>4 DEF TranslatePlayer, OrZero
<1> QED
  BY <1>1, <1>2, <1>4, <1>7, <1>8

\* An id of its own.
LEMMA IdsTellApart ==
    ASSUME style \in Styles, NEW s \in Seats, NEW t \in Seats, IdOf(s) = IdOf(t),
           style.name[s] # Blank,
           style.shortcut = "none" => s = t \/ style.name[t] # style.name[s]
    PROVE  s = t
<1>1. PICK x, y : /\ x = IF style.shortcut = "none" THEN 0 ELSE s
                  /\ y = IF style.shortcut = "none" THEN 0 ELSE t
  OBVIOUS
<1>2. IdOf(s) = <<style.name[s], x>>
  BY <1>1 DEF IdOf
<1>3. IdOf(t) = IF style.name[t] = Blank THEN <<>> ELSE <<style.name[t], y>>
  BY <1>1 DEF IdOf, NoId
<1>4. <<style.name[s], x>> # <<>>
  OBVIOUS
<1>5. <<style.name[s], x>> = <<style.name[t], y>>
  BY <1>2, <1>3, <1>4
<1>6. style.name[s] = style.name[t] /\ x = y
  BY <1>5
<1> QED
  BY <1>1, <1>6

\* A tick lists every player of the match once.
LEMMA OrderCovers ==
    ASSUME NEW S, IsFiniteSet(S), NEW order \in SetToSeqs(S)
    PROVE  /\ \A i \in DOMAIN order : order[i] \in S
           /\ \A s \in S : \E i \in DOMAIN order : order[i] = s
           /\ \A i, j \in DOMAIN order : order[i] = order[j] => i = j
           /\ DOMAIN order = 1..Cardinality(S) /\ Cardinality(S) \in Nat
<1>1. /\ order \in [1..Cardinality(S) -> S]
      /\ \A i, j \in 1..Cardinality(S) : i # j => order[i] # order[j]
  BY DEF SetToSeqs
<1>2. Cardinality(S) \in Nat
  BY FS_CardinalityType
<1>3. IsFiniteSet(1..Cardinality(S)) /\ Cardinality(1..Cardinality(S)) = Cardinality(S)
  BY <1>2, FS_Interval
<1>4. order \in Injection(1..Cardinality(S), S)
  BY <1>1 DEF Injection, IsInjective
<1>5. order \in Surjection(1..Cardinality(S), S)
  BY <1>3, <1>4, FS_Injection
<1> QED
  BY <1>1, <1>2, <1>5 DEF Surjection

(***************************************************************************)
(* The game.                                                                *)
(***************************************************************************)
GameInv ==
    /\ style \in Styles /\ match \in Nat /\ live \in BOOLEAN
    /\ live => match > 0
    /\ Present # {} => live
    /\ Present \subseteq Seats /\ IsFiniteSet(Present)
    /\ score \in [Present -> Nat]
    /\ goals \in [0..1 -> Nat]

\* A player of the match with an id of its own.
Distinct(s) ==
    /\ style.name[s] # Blank
    /\ style.shortcut # "none" \/ \A t \in Present \ {s} : style.name[t] # style.name[s]

\* The table of a tick: nobody but players of the match, and under the id of
\* each player that has its own that player's entry, in whatever order the
\* tick lists them.
LEMMA TickTables ==
    ASSUME GameInv, NEW order \in SetToSeqs(Present), NEW players,
           players = [i \in DOMAIN order |-> TickPlayer(order[i])]
    PROVE  LET table == TranslatePlayers(players) IN
           /\ \A id \in DOMAIN table : table[id].primary \in Present
           /\ \A s \in Present : Distinct(s) =>
                 IdOf(s) \in DOMAIN table /\ table[IdOf(s)] = TranslatePlayer(TickPlayer(s))
<1> DEFINE table == TranslatePlayers(players)
           With(id) == {i \in DOMAIN players : TickPlayerId(players[i]) = id}
<1>1. /\ \A i \in DOMAIN order : order[i] \in Present
      /\ \A s \in Present : \E i \in DOMAIN order : order[i] = s
      /\ DOMAIN order = 1..Cardinality(Present) /\ Cardinality(Present) \in Nat
  BY OrderCovers DEF GameInv
<1>2. PICK n \in Nat : n = Cardinality(Present)
  BY <1>1
<1>3. DOMAIN players = 1..n /\ \A i \in 1..n : players[i] = TickPlayer(order[i])
  BY <1>1, <1>2
<1>4. \A i \in 1..n : order[i] \in Present /\ order[i] \in Seats /\ score[order[i]] \in Nat
  BY <1>1, <1>2 DEF GameInv
<1>5. \A i \in 1..n : TickPlayerId(players[i]) = IdOf(order[i])
  BY <1>3, <1>4, TickEntry DEF GameInv
<1>6. /\ DOMAIN table = {TickPlayerId(players[i]) : i \in 1..n}
      /\ \A id \in DOMAIN table : table[id] = TranslatePlayer(players[Max(With(id))])
  BY <1>3 DEF TranslatePlayers
<1>7. ASSUME NEW id \in DOMAIN table
      PROVE  /\ Max(With(id)) \in 1..n
             /\ IdOf(order[Max(With(id))]) = id
             /\ table[id] = TranslatePlayer(TickPlayer(order[Max(With(id))]))
  <2>1. With(id) \in SUBSET (1..n) /\ With(id) # {}
    BY <1>3, <1>6
  <2>2. PICK W : W = With(id)
    OBVIOUS
  <2>3. Max(W) \in W
    BY <2>1, <2>2, MaxOfIndices
  <2>4. Max(With(id)) \in 1..n /\ TickPlayerId(players[Max(With(id))]) = id
    BY <2>1, <2>2, <2>3
  <2> QED
    BY <1>3, <1>5, <1>6, <2>4
<1>8. ASSUME NEW id \in DOMAIN table PROVE table[id].primary \in Present
  <2>1. PICK i \in 1..n : table[id] = TranslatePlayer(TickPlayer(order[i]))
    BY <1>7
  <2>2. PICK s \in Present : s = order[i] /\ s \in Seats /\ score[s] \in Nat
    BY <1>4
  <2>3. TranslatePlayer(TickPlayer(s)).primary = s
    BY <2>2, TickEntry DEF GameInv
  <2> QED
    BY <2>1, <2>2, <2>3
<1>9. ASSUME NEW s \in Present, Distinct(s)
      PROVE  IdOf(s) \in DOMAIN table /\ table[IdOf(s)] = TranslatePlayer(TickPlayer(s))
  <2>1. PICK i \in 1..n : order[i] = s
    BY <1>1, <1>2
  <2>2. IdOf(s) \in DOMAIN table
    BY <1>5, <1>6, <2>1
  <2>3. PICK j \in 1..n : /\ IdOf(order[j]) = IdOf(s)
                          /\ table[IdOf(s)] = TranslatePlayer(TickPlayer(order[j]))
    BY <1>7, <2>2
  <2>4. order[j] = s
    <3>1. PICK t \in Present : t = order[j] /\ t \in Seats
      BY <1>4
    <3>2. IdOf(s) = IdOf(t) /\ s \in Seats /\ style \in Styles
      BY <2>3, <3>1 DEF GameInv
    <3>3. style.name[s] # Blank
          /\ (style.shortcut = "none" => s = t \/ style.name[t] # style.name[s])
      BY <1>9, <3>1 DEF Distinct
    <3> QED
      BY <3>1, <3>2, <3>3, IdsTellApart
  <2> QED
    BY <2>2, <2>3, <2>4
<1> QED
  BY <1>8, <1>9

\* Both teams have their goals, or 0 when the tick lists none.
LEMMA TickTeams ==
    ASSUME GameInv, NEW teams \in {<<>>, <<0, 1>>, <<1, 0>>}, NEW listed,
           listed = [i \in DOMAIN teams |-> [num |-> teams[i], score |-> goals[teams[i]]]]
    PROVE  TranslateTeams(listed) = IF listed = <<>> THEN NoTick.goals ELSE goals
<1> DEFINE Of(num) == {i \in DOMAIN listed : listed[i].num = num}
<1>g. goals \in [0..1 -> Nat]
  BY DEF GameInv
<1>t. TranslateTeams(listed) =
        [num \in 0..1 |-> IF Of(num) = {} THEN 0 ELSE listed[Max(Of(num))].score]
  BY DEF TranslateTeams
<1>1. CASE teams = <<>>
  <2>1. DOMAIN listed = {} /\ listed = <<>>
    BY <1>1
  <2>2. TranslateTeams(listed) = [num \in 0..1 |-> 0]
    BY <1>t, <2>1
  <2> QED
    BY <2>1, <2>2 DEF NoTick
<1>2. CASE teams \in {<<0, 1>>, <<1, 0>>}
  <2>1. /\ DOMAIN teams = 1..2 /\ \A i \in 1..2 : teams[i] \in 0..1
        /\ \A num \in 0..1 : \E i \in 1..2 : teams[i] = num
    BY <1>2
  <2>2. /\ DOMAIN listed = 1..2
        /\ \A i \in 1..2 : listed[i].num = teams[i] /\ listed[i].score = goals[teams[i]]
    BY <2>1
  <2>3. ASSUME NEW num \in 0..1
        PROVE  Of(num) # {} /\ listed[Max(Of(num))].score = goals[num]
    <3>1. Of(num) \in SUBSET (1..2) /\ Of(num) # {}
      BY <2>1, <2>2
    <3>2. PICK T : T = Of(num)
      OBVIOUS
    <3>3. Max(T) \in T
      BY <3>1, <3>2, MaxOfIndices
    <3> QED
      BY <2>2, <3>1, <3>2, <3>3
  <2>4. listed # <<>>
    BY <2>2
  <2>5. TranslateTeams(listed) = [num \in 0..1 |-> goals[num]]
    BY <1>t, <2>3
  <2>6. goals = [num \in 0..1 |-> goals[num]]
    BY <1>g
  <2> QED
    BY <2>4, <2>5, <2>6
<1> QED
  BY <1>1, <1>2

(***************************************************************************)
(* What an event does to the overlay.                                       *)
(***************************************************************************)
\* Kinds whose payload tells the guid.
Telling == DOMAIN SosName \cup {"CountdownBegin", "UpdateState", "BallHit",
                                "StatfeedEvent", "GoalScored"}

Said(e) == IF e.kind \in Telling THEN NormalizedMatchGuid(e.guid) ELSE Missing

\* Kinds without a payload of their own that the game writes.
Passed == {"BoostPickup", "CrossbarHit", "PlayerJoined", "PlayerLeft"}

\* Kinds that leave the tables of the overlay alone.
Quiet == {"MatchInitialized", "CountdownBegin", "RoundStarted", "GoalReplayStart",
          "MatchPaused", "MatchEnded", "BallHit", "StatfeedEvent", "GoalScored"} \cup Passed

LEMMA SosNames ==
    /\ DOMAIN SosName = {"MatchCreated", "MatchInitialized", "GoalReplayStart",
                         "GoalReplayWillEnd", "GoalReplayEnd", "MatchEnded", "PodiumStart",
                         "MatchDestroyed", "ReplayCreated"}
    /\ SosName["MatchCreated"] = "game:match_created"
    /\ SosName["MatchInitialized"] = "game:initialized"
    /\ SosName["GoalReplayStart"] = "game:replay_start"
    /\ SosName["MatchEnded"] = "game:match_ended"
    /\ SosName["MatchDestroyed"] = "game:match_destroyed"
  BY DEF SosName

LEMMA OnePayload ==
    ASSUME NEW e, NEW p, TranslateStatsEvent(e) = <<p>>
    PROVE  Overlaid(e) = Reads(overlay, p)
  BY DEF Overlaid

\* What reading a payload that is no beginning, end or tick does.
LEMMA QuietPayload ==
    ASSUME NEW o, NEW p,
           p.event \notin {"game:match_created", "game:match_destroyed", "game:update_state"}
    PROVE  Reads(o, p) = [guid |-> FirstOf(o.guid, p.guid), players |-> o.players,
                          teams |-> o.teams, refs |-> p.refs]
  BY DEF Reads

\* A new match clears the overlay, and its end as well.
LEMMA MatchCreatedClears ==
    ASSUME NEW guid
    PROVE  /\ Overlaid(Plain("MatchCreated", guid)).guid = NormalizedMatchGuid(guid)
           /\ Overlaid(Plain("MatchCreated", guid)).players = <<>>
           /\ Overlaid(Plain("MatchCreated", guid)).teams = NoTick.goals
<1>0. PICK e : e = Plain("MatchCreated", guid)
  OBVIOUS
<1>1. e = Plain("MatchCreated", guid) /\ e.kind = "MatchCreated" /\ e.guid = guid
  BY <1>0 DEF Plain
<1>2. PICK p : p = Payload("game:match_created", NormalizedMatchGuid(guid), <<>>)
  OBVIOUS
<1>3. TranslateStatsEvent(e) = <<p>>
  BY <1>1, <1>2, SosNames DEF TranslateStatsEvent
<1>4. p.event = "game:match_created" /\ p.guid = NormalizedMatchGuid(guid)
  BY <1>2 DEF Payload
<1>5. /\ EmptyOverlay.guid = Missing /\ EmptyOverlay.players = <<>>
      /\ EmptyOverlay.teams = NoTick.goals
  BY DEF EmptyOverlay, NoTick
<1>6. Reads(overlay, p) = [guid |-> FirstOf(Missing, p.guid), players |-> <<>>,
                           teams |-> NoTick.goals, refs |-> p.refs]
  BY <1>4, <1>5 DEF Reads
<1> QED
  BY <1>1, <1>3, <1>4, <1>6, OnePayload DEF FirstOf

LEMMA MatchDestroyedClears ==
    ASSUME NEW guid
    PROVE  Overlaid(Plain("MatchDestroyed", guid)) = EmptyOverlay
<1>0. PICK e : e = Plain("MatchDestroyed", guid)
  OBVIOUS
<1>1. e = Plain("MatchDestroyed", guid) /\ e.kind = "MatchDestroyed" /\ e.guid = guid
  BY <1>0 DEF Plain
<1>2. PICK p : p = Payload("game:match_destroyed", NormalizedMatchGuid(guid), <<>>)
  OBVIOUS
<1>3. TranslateStatsEvent(e) = <<p>>
  BY <1>1, <1>2, SosNames DEF TranslateStatsEvent
<1>4. p.event = "game:match_destroyed"
  BY <1>2 DEF Payload
<1> QED
  BY <1>1, <1>3, <1>4, OnePayload DEF Reads

\* A tick brings the tables.
LEMMA TickBrings ==
    ASSUME NEW e, e.kind = "UpdateState"
    PROVE  /\ Overlaid(e).guid = FirstOf(overlay.guid, NormalizedMatchGuid(e.guid))
           /\ Overlaid(e).players = TranslatePlayers(e.players)
           /\ Overlaid(e).teams = TranslateTeams(e.teams)
           /\ Overlaid(e).refs =
                << IF e.target = Missing THEN NoId ELSE TargetRefValue(e.target) >>
<1>1. PICK t : t = << IF e.target = Missing THEN NoId ELSE TargetRefValue(e.target) >>
  OBVIOUS
<1>2. PICK p : p = [event |-> "game:update_state", guid |-> NormalizedMatchGuid(e.guid),
                    refs |-> t, players |-> TranslatePlayers(e.players),
                    teams |-> TranslateTeams(e.teams)]
  OBVIOUS
<1>3. TranslateStatsEvent(e) = <<p>>
  BY <1>1, <1>2, SosNames DEF TranslateStatsEvent
<1>4. /\ p.event = "game:update_state" /\ p.guid = NormalizedMatchGuid(e.guid) /\ p.refs = t
      /\ p.players = TranslatePlayers(e.players) /\ p.teams = TranslateTeams(e.teams)
  BY <1>2
<1>5. Reads(overlay, p) = [guid |-> FirstOf(overlay.guid, p.guid), players |-> p.players,
                           teams |-> p.teams, refs |-> p.refs]
  BY <1>4 DEF Reads
<1> QED
  BY <1>1, <1>3, <1>4, <1>5, OnePayload

\* The other events leave the tables as they are, tell their guid, and their
\* references are resolved as the table's players are.
LEMMA QuietKeeps ==
    ASSUME NEW e, e.kind \in Quiet
    PROVE  /\ Overlaid(e).guid = FirstOf(overlay.guid, Said(e))
           /\ Overlaid(e).players = overlay.players /\ Overlaid(e).teams = overlay.teams
           /\ e.kind = "GoalScored" =>
                 Overlaid(e).refs = <<PlayerRefId(e.scorer),
                                      IF e.assister = Missing THEN NoId
                                      ELSE PlayerRefId(e.assister), PlayerRefId(e.touch)>>
           /\ e.kind = "BallHit" =>
                 Overlaid(e).refs = <<IF e.players = <<>> THEN NoId
                                      ELSE PlayerRefId(Head(e.players))>>
           /\ e.kind = "StatfeedEvent" =>
                 Overlaid(e).refs = <<PlayerRefId(e.main),
                                      IF e.secondary = Missing THEN NoId
                                      ELSE PlayerRefId(e.secondary)>>
<1>g. PICK g : g = NormalizedMatchGuid(e.guid)
  OBVIOUS
<1>1. CASE e.kind \in {"MatchInitialized", "GoalReplayStart", "MatchEnded"}
  <2>1. PICK p : p = Payload(SosName[e.kind], g, <<>>)
    OBVIOUS
  <2>2. TranslateStatsEvent(e) = <<p>>
    BY <1>1, <1>g, <2>1, SosNames DEF TranslateStatsEvent
  <2>3. /\ p.event \notin {"game:match_created", "game:match_destroyed", "game:update_state"}
        /\ p.guid = g
    BY <1>1, <2>1, SosNames DEF Payload
  <2>4. Said(e) = g
    BY <1>1, <1>g, SosNames DEF Said, Telling
  <2> QED
    BY <1>1, <2>2, <2>3, <2>4, OnePayload, QuietPayload
<1>2. CASE e.kind \in {"RoundStarted", "MatchPaused"} \cup Passed
  <2>1. PICK p : p = IF e.kind = "RoundStarted" THEN Payload("game:round_started_go", Missing, <<>>)
                     ELSE Payload(e.kind, Missing, <<>>)
    OBVIOUS
  <2>2. TranslateStatsEvent(e) = <<p>>
    BY <1>2, <2>1, SosNames DEF TranslateStatsEvent, Passed
  <2>3. /\ p.event \notin {"game:match_created", "game:match_destroyed", "game:update_state"}
        /\ p.guid = Missing
    BY <1>2, <2>1 DEF Payload, Passed
  <2>4. Said(e) = Missing
    BY <1>2, SosNames DEF Said, Telling, Passed
  <2> QED
    BY <1>2, <2>2, <2>3, <2>4, OnePayload, QuietPayload DEF Passed
<1>3. CASE e.kind = "CountdownBegin"
  <2>1. PICK p, q : /\ p = Payload("game:pre_countdown_begin", g, <<>>)
                    /\ q = Payload("game:post_countdown_begin", g, <<>>)
    OBVIOUS
  <2>2. TranslateStatsEvent(e) = <<p, q>>
    BY <1>3, <1>g, <2>1, SosNames DEF TranslateStatsEvent
  <2>3. Overlaid(e) = Reads(Reads(overlay, p), q)
    BY <2>2 DEF Overlaid
  <2>4. /\ p.event \notin {"game:match_created", "game:match_destroyed", "game:update_state"}
        /\ q.event \notin {"game:match_created", "game:match_destroyed", "game:update_state"}
        /\ p.guid = g /\ q.guid = g
    BY <2>1 DEF Payload
  <2>5. Said(e) = g
    BY <1>3, <1>g DEF Said, Telling
  <2>6. PICK o : o = Reads(overlay, p)
    OBVIOUS
  <2>7. o.guid = FirstOf(overlay.guid, g) /\ o.players = overlay.players /\ o.teams = overlay.teams
    BY <2>4, <2>6, QuietPayload
  <2>8. /\ Overlaid(e).guid = FirstOf(o.guid, g)
        /\ Overlaid(e).players = o.players /\ Overlaid(e).teams = o.teams
    BY <2>3, <2>4, <2>6, QuietPayload
  <2> QED
    BY <1>3, <2>5, <2>7, <2>8 DEF FirstOf
<1>4. CASE e.kind = "GoalScored"
  <2>1. PICK r : r = <<PlayerRefId(e.scorer),
                       IF e.assister = Missing THEN NoId ELSE PlayerRefId(e.assister),
                       PlayerRefId(e.touch)>>
    OBVIOUS
  <2>2. PICK p : p = Payload("game:goal_scored", g, r)
    OBVIOUS
  <2>3. TranslateStatsEvent(e) = <<p>>
    BY <1>4, <1>g, <2>1, <2>2, SosNames DEF TranslateStatsEvent
  <2>4. /\ p.event \notin {"game:match_created", "game:match_destroyed", "game:update_state"}
        /\ p.guid = g /\ p.refs = r
    BY <2>2 DEF Payload
  <2>5. Said(e) = g
    BY <1>4, <1>g DEF Said, Telling
  <2> QED
    BY <1>4, <2>1, <2>3, <2>4, <2>5, OnePayload, QuietPayload
<1>5. CASE e.kind = "BallHit"
  <2>1. PICK r : r = <<IF e.players = <<>> THEN NoId ELSE PlayerRefId(Head(e.players))>>
    OBVIOUS
  <2>2. PICK p : p = Payload("game:ball_hit", g, r)
    OBVIOUS
  <2>3. TranslateStatsEvent(e) = <<p>>
    BY <1>5, <1>g, <2>1, <2>2, SosNames DEF TranslateStatsEvent
  <2>4. /\ p.event \notin {"game:match_created", "game:match_destroyed", "game:update_state"}
        /\ p.guid = g /\ p.refs = r
    BY <2>2 DEF Payload
  <2>5. Said(e) = g
    BY <1>5, <1>g DEF Said, Telling
  <2> QED
    BY <1>5, <2>1, <2>3, <2>4, <2>5, OnePayload, QuietPayload
<1>6. CASE e.kind = "StatfeedEvent"
  <2>1. PICK r : r = <<PlayerRefId(e.main),
                       IF e.secondary = Missing THEN NoId ELSE PlayerRefId(e.secondary)>>
    OBVIOUS
  <2>2. PICK p : p = Payload("game:statfeed_event", g, r)
    OBVIOUS
  <2>3. TranslateStatsEvent(e) = <<p>>
    BY <1>6, <1>g, <2>1, <2>2, SosNames DEF TranslateStatsEvent
  <2>4. /\ p.event \notin {"game:match_created", "game:match_destroyed", "game:update_state"}
        /\ p.guid = g /\ p.refs = r
    BY <2>2 DEF Payload
  <2>5. Said(e) = g
    BY <1>6, <1>g DEF Said, Telling
  <2> QED
    BY <1>6, <2>1, <2>3, <2>4, <2>5, OnePayload, QuietPayload
<1> QED
  BY <1>1, <1>2, <1>3, <1>4, <1>5, <1>6 DEF Quiet

(***************************************************************************)
(* The steps of the game.                                                   *)
(***************************************************************************)
\* Every step but a beginning, an end or a tick hands over a quiet event of
\* this match and leaves match and tables as they are; a hit names one player.
DeliversQuietly(e) == /\ Delivers(e) /\ e.kind \in Quiet /\ e.guid = match
                      /\ e.kind = "BallHit" => \E r : e.players = <<r>>

Quietly == UNCHANGED <<style, match, live, told>> /\ \E e : DeliversQuietly(e)

LEMMA StepKinds ==
    ASSUME [Next]_vars
    PROVE  MatchBegins \/ MatchGoes \/ Ticks \/ Quietly \/ UNCHANGED vars
<1>1. CASE Announces
  <2>1. PICK kind \in {"MatchInitialized", "CountdownBegin", "RoundStarted",
                       "GoalReplayStart", "MatchPaused"} : Delivers(Plain(kind, match))
    BY <1>1 DEF Announces
  <2>2. /\ Plain(kind, match).kind \in Quiet \ {"BallHit"}
        /\ Plain(kind, match).guid = match
    BY DEF Plain, Quiet
  <2> QED
    BY <1>1, <2>1, <2>2 DEF Announces, Quietly, DeliversQuietly, game
<1>2. ASSUME NEW s \in Seats, Joins(s) \/ Leaves(s) PROVE Quietly
  <2>1. PICK kind \in {"PlayerJoined", "PlayerLeft"} : Delivers(Presence(kind, s))
    BY <1>2 DEF Joins, Leaves
  <2>2. /\ Presence(kind, s).kind \in Quiet \ {"BallHit"}
        /\ Presence(kind, s).guid = match
    BY DEF Presence, Quiet, Passed
  <2> QED
    BY <1>2, <2>1, <2>2 DEF Joins, Leaves, Quietly, DeliversQuietly
<1>3. CASE Scores
  <2>1. PICK e : Delivers(e) /\ e.kind = "GoalScored" /\ e.guid = match
    BY <1>3 DEF Scores
  <2> QED
    BY <1>3, <2>1 DEF Scores, Quietly, DeliversQuietly, Quiet
<1>4. CASE Touches
  <2>1. PICK e : /\ Delivers(e) /\ e.guid = match
                 /\ e.kind \in {"BallHit", "BoostPickup", "CrossbarHit", "StatfeedEvent"}
                 /\ e.kind = "BallHit" => \E r : e.players = <<r>>
    <3>1. PICK s \in Present :
             \/ Delivers([kind |-> "BallHit", guid |-> match, players |-> <<PlayerRef(s)>>])
             \/ Delivers([kind |-> "BoostPickup", guid |-> match, player |-> PlayerRef(s)])
             \/ Delivers([kind |-> "CrossbarHit", guid |-> match, touch |-> PlayerRef(s)])
             \/ \E t \in Present \cup {0} :
                   Delivers([kind |-> "StatfeedEvent", guid |-> match, main |-> PlayerRef(s),
                             secondary |-> IF t = 0 THEN Missing ELSE PlayerRef(t)])
      BY <1>4 DEF Touches
    <3>2. CASE Delivers([kind |-> "BallHit", guid |-> match, players |-> <<PlayerRef(s)>>])
      BY <3>2
    <3>3. CASE Delivers([kind |-> "BoostPickup", guid |-> match, player |-> PlayerRef(s)])
      BY <3>3
    <3>4. CASE Delivers([kind |-> "CrossbarHit", guid |-> match, touch |-> PlayerRef(s)])
      BY <3>4
    <3>5. CASE \E t \in Present \cup {0} :
                 Delivers([kind |-> "StatfeedEvent", guid |-> match, main |-> PlayerRef(s),
                           secondary |-> IF t = 0 THEN Missing ELSE PlayerRef(t)])
      BY <3>5
    <3> QED
      BY <3>1, <3>2, <3>3, <3>4, <3>5
  <2> QED
    BY <1>4, <2>1 DEF Touches, Quietly, DeliversQuietly, Quiet, Passed, game
<1>5. CASE MatchEnds
  <2>1. PICK e : Delivers(e) /\ e.kind = "MatchEnded" /\ e.guid = match
    BY <1>5 DEF MatchEnds
  <2> QED
    BY <1>5, <2>1 DEF MatchEnds, Quietly, DeliversQuietly, Quiet, game
<1> QED
  BY <1>1, <1>2, <1>3, <1>4, <1>5 DEF Next

LEMMA GameInvStep ==
    ASSUME GameInv, [Next]_vars
    PROVE  GameInv' /\ style' = style
<1>1. CASE MatchBegins
  <2>1. IsFiniteSet({}) /\ DOMAIN <<>> = {} /\ [t \in 0..1 |-> 0] \in [0..1 -> Nat]
    BY FS_EmptySet
  <2>2. /\ score' = <<>> /\ goals' = [t \in 0..1 |-> 0] /\ live' = TRUE
        /\ match' = match + 1 /\ style' = style
    BY <1>1 DEF MatchBegins
  <2>3. Present' = {} /\ score' \in [{} -> Nat] /\ goals' \in [0..1 -> Nat]
    BY <2>1, <2>2 DEF Present
  <2>4. match' \in Nat /\ match' > 0 /\ style' \in Styles
    BY <2>2 DEF GameInv
  <2>5. live' \in BOOLEAN /\ live'
    BY <2>2
  <2>6. Present' \subseteq Seats /\ IsFiniteSet(Present') /\ score' \in [Present' -> Nat]
    BY <2>1, <2>3
  <2> QED
    BY <2>2, <2>3, <2>4, <2>5, <2>6 DEF GameInv
<1>2. CASE MatchGoes
  <2>1. IsFiniteSet({}) /\ DOMAIN <<>> = {}
    BY FS_EmptySet
  <2>2. score' = <<>> /\ live' = FALSE /\ UNCHANGED <<style, match, goals>>
    BY <1>2 DEF MatchGoes
  <2>3. Present' = {} /\ score' \in [{} -> Nat]
    BY <2>1, <2>2 DEF Present
  <2>4. Present' \subseteq Seats /\ IsFiniteSet(Present') /\ score' \in [Present' -> Nat]
    BY <2>1, <2>3
  <2> QED
    BY <2>2, <2>3, <2>4 DEF GameInv
<1>3. CASE Announces \/ Ticks \/ Touches \/ MatchEnds \/ UNCHANGED vars
  BY <1>3 DEF Announces, Ticks, Touches, MatchEnds, vars, game, GameInv, Present
<1>4. ASSUME NEW s \in Seats, Joins(s) PROVE GameInv' /\ style' = style
  <2>1. /\ live /\ score' = [t \in Present \cup {s} |-> IF t = s THEN 0 ELSE score[t]]
        /\ UNCHANGED <<style, match, live, goals>>
    BY <1>4 DEF Joins
  <2>2. Present' = Present \cup {s} /\ IsFiniteSet(Present')
    BY <2>1, FS_AddElement DEF Present, GameInv
  <2>3. score' \in [Present \cup {s} -> Nat]
    BY <2>1 DEF GameInv
  <2> QED
    BY <2>1, <2>2, <2>3 DEF GameInv
<1>5. ASSUME NEW s \in Seats, Leaves(s) PROVE GameInv' /\ style' = style
  <2>1. /\ s \in Present /\ score' = [t \in Present \ {s} |-> score[t]]
        /\ UNCHANGED <<style, match, live, goals>>
    BY <1>5 DEF Leaves, Restrict
  <2>2. Present' = Present \ {s} /\ IsFiniteSet(Present')
    BY <2>1, FS_RemoveElement DEF Present, GameInv
  <2>3. score' \in [Present \ {s} -> Nat]
    BY <2>1 DEF GameInv
  <2> QED
    BY <2>1, <2>2, <2>3 DEF GameInv
<1>6. CASE Scores
  <2>1. PICK scorer \in Seats \cup {0} :
           /\ scorer \in Present \cup {0}
           /\ IF scorer # 0 /\ goals[SeatTeam[scorer]] < MaxScore
              THEN /\ goals' = [goals EXCEPT ![SeatTeam[scorer]] = @ + 1]
                   /\ score' = [score EXCEPT ![scorer] = @ + 1]
              ELSE UNCHANGED <<goals, score>>
    BY <1>6 DEF Scores
  <2>2. UNCHANGED <<style, match, live>>
    BY <1>6 DEF Scores
  <2>3. score' \in [Present -> Nat] /\ goals' \in [0..1 -> Nat]
    <3>1. CASE scorer # 0 /\ goals[SeatTeam[scorer]] < MaxScore
      <4>1. scorer \in Present /\ score \in [Present -> Nat] /\ goals \in [0..1 -> Nat]
        BY <2>1, <3>1 DEF GameInv
      <4>2. /\ score' = [score EXCEPT ![scorer] = score[scorer] + 1]
            /\ goals' = [goals EXCEPT ![SeatTeam[scorer]] = goals[SeatTeam[scorer]] + 1]
        BY <2>1, <3>1
      <4>3. SeatTeam[scorer] \in 0..1
        BY <4>1, SeatsAssumption DEF GameInv
      <4>4. score[scorer] + 1 \in Nat /\ goals[SeatTeam[scorer]] + 1 \in Nat
        BY <4>1, <4>3
      <4> QED
        BY <4>1, <4>2, <4>4
    <3>2. CASE UNCHANGED <<goals, score>>
      BY <3>2 DEF GameInv
    <3> QED
      BY <2>1, <3>1, <3>2
  <2>4. Present' = Present
    BY <2>3 DEF Present
  <2> QED
    BY <2>2, <2>3, <2>4 DEF GameInv
<1> QED
  BY <1>1, <1>2, <1>3, <1>4, <1>5, <1>6 DEF Next

\* The game's own state has its types, players are only in a match that is
\* played, and a match that is played has a number.
THEOREM GameHolds == Spec => []GameInv
<1>1. Init => GameInv
  <2> SUFFICES ASSUME Init PROVE GameInv
    OBVIOUS
  <2>1. IsFiniteSet({}) /\ DOMAIN <<>> = {} /\ [t \in 0..1 |-> 0] \in [0..1 -> Nat]
    BY FS_EmptySet
  <2> QED
    BY <2>1 DEF Init, GameInv, Present
<1>2. GameInv /\ [Next]_vars => GameInv'
  BY GameInvStep
<1> QED
  BY <1>1, <1>2, PTL DEF Spec

(***************************************************************************)
(* The guid of the overlay.                                                 *)
(***************************************************************************)
\* The overlay never takes an empty guid for the match's, nor keeps an older
\* match's, and has the real one from the first payload that says it
\* (normalized_match_guid and translate_stats_event of src/sos.rs).
THEOREM OverlayHasRealGuid == Spec => []GuidIsReal
<1>1. Init => GuidIsReal
  BY DEF Init, GuidIsReal, EmptyOverlay
<1>2. GameInv /\ GuidIsReal /\ [Next]_vars => GuidIsReal'
  <2> SUFFICES ASSUME GameInv, GuidIsReal, [Next]_vars PROVE GuidIsReal'
    OBVIOUS
  <2>0. match \in Nat /\ (live => match # 0) /\ EmptyGuid = 0 /\ Missing # match /\ Missing # 0
    BY MissingAssumption DEF GameInv, EmptyGuid
  <2>1. CASE MatchBegins
    <3>1. PICK guid \in {Missing, EmptyGuid, match + 1} : Delivers(Plain("MatchCreated", guid))
      BY <2>1 DEF MatchBegins
    <3>2. match' = match + 1 /\ match + 1 # 0
      BY <2>0, <2>1 DEF MatchBegins
    <3>3. overlay'.guid = NormalizedMatchGuid(guid) /\ last'.guid = guid
      BY <3>1, MatchCreatedClears DEF Delivers, Plain
    <3> QED
      BY <2>0, <3>2, <3>3 DEF GuidIsReal, NormalizedMatchGuid
  <2>2. CASE MatchGoes
    <3>1. overlay' = EmptyOverlay /\ ~live'
      BY <2>2, MatchDestroyedClears DEF MatchGoes, Delivers
    <3> QED
      BY <3>1 DEF GuidIsReal, EmptyOverlay
  <2>3. CASE Ticks
    <3>1. PICK e : Delivers(e) /\ e.kind = "UpdateState" /\ e.guid = match
      BY <2>3 DEF Ticks, Tick
    <3>2. match' = match /\ live
      BY <2>3 DEF Ticks, game
    <3>3. overlay'.guid = FirstOf(overlay.guid, NormalizedMatchGuid(match))
      BY <3>1, TickBrings DEF Delivers
    <3> QED
      BY <2>0, <3>2, <3>3 DEF GuidIsReal, NormalizedMatchGuid, FirstOf
  <2>4. CASE Quietly
    <3>0. PICK e : DeliversQuietly(e)
      BY <2>4 DEF Quietly
    <3>1. Delivers(e) /\ e.kind \in Quiet /\ e.guid = match
      BY <3>0 DEF DeliversQuietly
    <3>2. match' = match /\ live' = live /\ last' = e
      BY <2>4, <3>1 DEF Quietly, Delivers
    <3>3. overlay'.guid = FirstOf(overlay.guid, Said(e))
      BY <3>1, QuietKeeps DEF Delivers
    <3>4. Said(e) \in {Missing, match}
      BY <3>1 DEF Said, NormalizedMatchGuid
    <3>5. e.kind \in Telling /\ live => Said(e) = match
      BY <2>0, <3>1 DEF Said, NormalizedMatchGuid
    <3>6. overlay'.guid \in {Missing, match}
      BY <3>3, <3>4 DEF FirstOf, GuidIsReal
    <3>7. e.kind \in Telling /\ live => overlay'.guid = match
      BY <2>0, <3>3, <3>5 DEF FirstOf, GuidIsReal
    <3> QED
      BY <3>2, <3>6, <3>7 DEF GuidIsReal, Telling
  <2>5. CASE UNCHANGED vars
    BY <2>5 DEF vars, game, GuidIsReal
  <2> QED
    BY <2>1, <2>2, <2>3, <2>4, <2>5, StepKinds
<1> QED
  BY <1>1, <1>2, GameHolds, PTL DEF Spec

(***************************************************************************)
(* The tables of the overlay.                                               *)
(***************************************************************************)
\* The tables are the last tick's: as OverlayShowsTick, with the id under which
\* each player is found.
TablesInv ==
    /\ Told \subseteq Seats
    /\ \A s \in Told : Identified(s) =>
          /\ IdOf(s) \in DOMAIN overlay.players
          /\ overlay.players[IdOf(s)].primary = s
          /\ overlay.players[IdOf(s)].score = told.score[s]
          /\ overlay.players[IdOf(s)].boost =
                IF style.boost = "none" THEN 0 ELSE told.score[s]
    /\ \A id \in DOMAIN overlay.players : overlay.players[id].primary \in Told
    /\ overlay.teams = told.goals

\* Nothing told, nothing shown.
LEMMA EmptyTables ==
    ASSUME told = NoTick, overlay.players = <<>>, overlay.teams = NoTick.goals
    PROVE  TablesInv
<1>1. DOMAIN <<>> = {}
  OBVIOUS
<1>2. told.score = <<>> /\ told.goals = NoTick.goals
  BY DEF NoTick
<1> QED
  BY <1>1, <1>2 DEF TablesInv, Told

LEMMA TablesStay ==
    ASSUME TablesInv, UNCHANGED <<style, told>>,
           overlay'.players = overlay.players, overlay'.teams = overlay.teams
    PROVE  TablesInv'
  BY DEF TablesInv, Told, Identified, IdOf

LEMMA TicksShow ==
    ASSUME GameInv, Ticks
    PROVE  TablesInv'
<1>1. PICK order \in SetToSeqs(Present), teams \in {<<>>, <<0, 1>>, <<1, 0>>},
           target \in Present \cup {0} : Delivers(Tick(order, teams, target))
  BY DEF Ticks
<1>2. PICK e : e = Tick(order, teams, target)
  OBVIOUS
<1>3. PICK players, listed :
         /\ players = [i \in DOMAIN order |-> TickPlayer(order[i])]
         /\ listed = [i \in DOMAIN teams |-> [num |-> teams[i], score |-> goals[teams[i]]]]
  OBVIOUS
<1>4. e.kind = "UpdateState" /\ e.players = players /\ e.teams = listed
  BY <1>2, <1>3 DEF Tick
<1>5. /\ last' = e /\ overlay' = Overlaid(e)
      /\ told' = [score |-> score, goals |-> IF last'.teams = <<>> THEN NoTick.goals ELSE goals]
      /\ style' = style
  BY <1>1, <1>2 DEF Ticks, Delivers, game
<1>6. PICK table : table = TranslatePlayers(players)
  OBVIOUS
<1>7. overlay'.players = table /\ overlay'.teams = TranslateTeams(listed)
  BY <1>4, <1>5, <1>6, TickBrings
<1>8. /\ told'.score = score
      /\ told'.goals = IF listed = <<>> THEN NoTick.goals ELSE goals
  BY <1>4, <1>5
<1>9. overlay'.teams = told'.goals
  BY <1>3, <1>7, <1>8, TickTeams
<1>10. Told' = Present
  BY <1>8 DEF Told, Present
<1>11. /\ \A id \in DOMAIN table : table[id].primary \in Present
       /\ \A s \in Present : Distinct(s) =>
             IdOf(s) \in DOMAIN table /\ table[IdOf(s)] = TranslatePlayer(TickPlayer(s))
  BY <1>3, <1>6, TickTables
<1>12. ASSUME NEW s \in Told', Identified(s)'
       PROVE  /\ IdOf(s)' \in DOMAIN overlay'.players
              /\ overlay'.players[IdOf(s)'].primary = s
              /\ overlay'.players[IdOf(s)'].score = told'.score[s]
              /\ overlay'.players[IdOf(s)'].boost =
                    IF style'.boost = "none" THEN 0 ELSE told'.score[s]
  <2>1. s \in Present /\ s \in Seats /\ score[s] \in Nat /\ style \in Styles
    BY <1>10, <1>12 DEF GameInv
  <2>2. Distinct(s) /\ IdOf(s)' = IdOf(s)
    BY <1>5, <1>10, <1>12 DEF Identified, Distinct, IdOf
  <2>3. PICK p : p = TranslatePlayer(TickPlayer(s))
    OBVIOUS
  <2>4. /\ p.primary = s /\ p.score = score[s]
        /\ p.boost = IF style.boost = "none" THEN 0 ELSE score[s]
    BY <2>1, <2>3, TickEntry
  <2>5. IdOf(s) \in DOMAIN table /\ table[IdOf(s)] = p
    BY <1>11, <2>1, <2>2, <2>3
  <2> QED
    BY <1>5, <1>7, <1>8, <2>2, <2>4, <2>5
<1>13. Told' \subseteq Seats
  BY <1>10 DEF GameInv
<1> QED
  BY <1>7, <1>9, <1>10, <1>11, <1>12, <1>13 DEF TablesInv

LEMMA TablesHold == Spec => []TablesInv
<1>1. Init => TablesInv
  BY EmptyTables DEF Init, EmptyOverlay, NoTick
<1>2. GameInv /\ TablesInv /\ [Next]_vars => TablesInv'
  <2> SUFFICES ASSUME GameInv, TablesInv, [Next]_vars PROVE TablesInv'
    OBVIOUS
  <2>1. CASE MatchBegins
    <3>1. PICK guid : Delivers(Plain("MatchCreated", guid))
      BY <2>1 DEF MatchBegins
    <3>2. told' = NoTick /\ overlay'.players = <<>> /\ overlay'.teams = NoTick.goals
      BY <2>1, <3>1, MatchCreatedClears DEF MatchBegins, Delivers
    <3>3. told'.score = <<>> /\ told'.goals = NoTick.goals /\ DOMAIN <<>> = {}
      BY <3>2 DEF NoTick
    <3> QED
      BY <3>2, <3>3 DEF TablesInv, Told
  <2>2. CASE MatchGoes
    <3>1. overlay' = EmptyOverlay /\ told' = NoTick
      BY <2>2, MatchDestroyedClears DEF MatchGoes, Delivers
    <3>2. overlay'.players = <<>> /\ overlay'.teams = NoTick.goals
      BY <3>1 DEF EmptyOverlay, NoTick
    <3>3. told'.score = <<>> /\ told'.goals = NoTick.goals /\ DOMAIN <<>> = {}
      BY <3>1 DEF NoTick
    <3> QED
      BY <3>2, <3>3 DEF TablesInv, Told
  <2>3. CASE Ticks
    BY <2>3, TicksShow
  <2>4. CASE Quietly
    <3>0. PICK e : DeliversQuietly(e)
      BY <2>4 DEF Quietly
    <3>1. Delivers(e) /\ e.kind \in Quiet /\ e.guid = match
      BY <3>0 DEF DeliversQuietly
    <3>2. overlay'.players = overlay.players /\ overlay'.teams = overlay.teams
      BY <3>1, QuietKeeps DEF Delivers
    <3> QED
      BY <2>4, <3>2, TablesStay DEF Quietly
  <2>5. CASE UNCHANGED vars
    BY <2>5, TablesStay DEF vars, game
  <2> QED
    BY <2>1, <2>2, <2>3, <2>4, <2>5, StepKinds
<1> QED
  BY <1>1, <1>2, GameHolds, PTL DEF Spec

\* After a tick the overlay's tables are that tick, in whatever order the game
\* lists players and teams and however it writes ids and boosts, and they stay
\* so until the next tick, match or end of the match (translate_players,
\* translate_teams and player_id of src/sos.rs).
THEOREM OverlayKeepsTick == Spec => []OverlayShowsTick
<1>1. TablesInv => OverlayShowsTick
  BY DEF TablesInv, OverlayShowsTick, Finds
<1> QED
  BY <1>1, TablesHold, PTL

(***************************************************************************)
(* The references.                                                          *)
(***************************************************************************)
\* A reference of the last event has been resolved to the id its player has in
\* the tables, if it has one.
RefsInv ==
    \A s \in Seats, i \in DOMAIN LastRefs :
       /\ LastRefs[i] = PlayerRef(s)
       /\ last.kind = "UpdateState" => style.shortcut # "none"
       => overlay.refs[i] = IdOf(s)

LEMMA NoReferences ==
    ASSUME last.kind \notin {"GoalScored", "BallHit", "StatfeedEvent", "UpdateState"}
    PROVE  LastRefs = <<>> /\ DOMAIN LastRefs = {}
  BY DEF LastRefs

\* What a reference of e to a player is resolved to.
LEMMA RefsFollow ==
    ASSUME style \in Styles, NEW s \in Seats, NEW e, last' = e, overlay' = Overlaid(e),
           \/ e.kind \in {"GoalScored", "StatfeedEvent", "UpdateState"}
           \/ e.kind = "BallHit" /\ \E r : e.players = <<r>>,
           NEW i \in DOMAIN LastRefs', LastRefs'[i] = PlayerRef(s),
           e.kind = "UpdateState" => style.shortcut # "none"
    PROVE  overlay'.refs[i] = IdOf(s)
<1>r. PICK r : r = PlayerRef(s)
  OBVIOUS
<1>1. /\ r # Missing /\ PlayerRefId(r) = IdOf(s)
      /\ style.shortcut # "none" => TargetRefValue(r) = IdOf(s)
  BY <1>r, ReferenceId
<1>q. e.kind \in {"GoalScored", "StatfeedEvent", "BallHit"} => e.kind \in Quiet
  BY DEF Quiet
<1>2. CASE e.kind = "GoalScored"
  <2>1. LastRefs' = <<e.scorer, e.assister, e.touch>>
    BY <1>2 DEF LastRefs
  <2>2. overlay'.refs = <<PlayerRefId(e.scorer),
                          IF e.assister = Missing THEN NoId ELSE PlayerRefId(e.assister),
                          PlayerRefId(e.touch)>>
    BY <1>2, <1>q, QuietKeeps
  <2>3. \/ i = 1 /\ e.scorer = r
        \/ i = 2 /\ e.assister = r
        \/ i = 3 /\ e.touch = r
    BY <1>r, <2>1
  <2> QED
    BY <1>1, <2>2, <2>3
<1>3. CASE e.kind = "StatfeedEvent"
  <2>1. LastRefs' = <<e.main, e.secondary>>
    BY <1>3 DEF LastRefs
  <2>2. overlay'.refs = <<PlayerRefId(e.main),
                          IF e.secondary = Missing THEN NoId ELSE PlayerRefId(e.secondary)>>
    BY <1>3, <1>q, QuietKeeps
  <2>3. (i = 1 /\ e.main = r) \/ (i = 2 /\ e.secondary = r)
    BY <1>r, <2>1
  <2> QED
    BY <1>1, <2>2, <2>3
<1>4. CASE e.kind = "BallHit"
  <2>1. PICK x : e.players = <<x>>
    BY <1>4
  <2>2. LastRefs' = <<x>>
    BY <1>4, <2>1 DEF LastRefs
  <2>3. i = 1 /\ x = r
    BY <1>r, <2>2
  <2>4. overlay'.refs = <<IF e.players = <<>> THEN NoId ELSE PlayerRefId(Head(e.players))>>
    BY <1>4, <1>q, QuietKeeps
  <2>5. e.players # <<>> /\ Head(e.players) = x
    BY <2>1
  <2> QED
    BY <1>1, <2>3, <2>4, <2>5
<1>5. CASE e.kind = "UpdateState"
  <2>1. LastRefs' = <<e.target>>
    BY <1>5 DEF LastRefs
  <2>2. i = 1 /\ e.target = r
    BY <1>r, <2>1
  <2>3. overlay'.refs = <<IF e.target = Missing THEN NoId ELSE TargetRefValue(e.target)>>
    BY <1>5, TickBrings
  <2> QED
    BY <1>1, <1>5, <2>2, <2>3
<1> QED
  BY <1>2, <1>3, <1>4, <1>5

LEMMA RefsHold == Spec => []RefsInv
<1>1. Init => RefsInv
  <2> SUFFICES ASSUME Init PROVE RefsInv
    OBVIOUS
  <2>1. last.kind = "None"
    BY DEF Init, Plain
  <2> QED
    BY <2>1, NoReferences DEF RefsInv
<1>2. GameInv /\ RefsInv /\ [Next]_vars => RefsInv'
  <2> SUFFICES ASSUME GameInv, RefsInv, [Next]_vars PROVE RefsInv'
    OBVIOUS
  <2>s. style' = style /\ style \in Styles
    BY GameInvStep DEF GameInv
  <2>1. CASE UNCHANGED vars
    BY <2>1 DEF vars, game, RefsInv, LastRefs, PlayerRef, IdOf, WrittenIf
  <2>2. CASE ~UNCHANGED vars
    <3>1. PICK e : /\ Delivers(e)
                   /\ e.kind \in Quiet \cup {"MatchCreated", "MatchDestroyed", "UpdateState"}
                   /\ e.kind = "BallHit" => \E r : e.players = <<r>>
      <4>1. CASE MatchBegins
        <5>1. PICK guid : Delivers(Plain("MatchCreated", guid))
          BY <4>1 DEF MatchBegins
        <5>2. Plain("MatchCreated", guid).kind = "MatchCreated"
          BY DEF Plain
        <5> QED
          BY <5>1, <5>2
      <4>2. CASE MatchGoes
        <5>1. Delivers(Plain("MatchDestroyed", match))
          BY <4>2 DEF MatchGoes
        <5>2. Plain("MatchDestroyed", match).kind = "MatchDestroyed"
          BY DEF Plain
        <5> QED
          BY <5>1, <5>2
      <4>3. CASE Ticks
        <5>1. PICK order, teams, target : Delivers(Tick(order, teams, target))
          BY <4>3 DEF Ticks
        <5>2. Tick(order, teams, target).kind = "UpdateState"
          BY DEF Tick
        <5> QED
          BY <5>1, <5>2
      <4>4. CASE Quietly
        <5>1. PICK e : DeliversQuietly(e)
          BY <4>4 DEF Quietly
        <5> QED
          BY <5>1 DEF DeliversQuietly
      <4> QED
        BY <2>2, <4>1, <4>2, <4>3, <4>4, StepKinds
    <3>2. last' = e /\ overlay' = Overlaid(e)
      BY <3>1 DEF Delivers
    <3>3. ASSUME NEW s \in Seats, NEW i \in DOMAIN LastRefs', LastRefs'[i] = PlayerRef(s)',
                 last'.kind = "UpdateState" => style'.shortcut # "none"
          PROVE  overlay'.refs[i] = IdOf(s)'
      <4>1. PlayerRef(s)' = PlayerRef(s) /\ IdOf(s)' = IdOf(s)
        BY <2>s DEF PlayerRef, IdOf, WrittenIf
      <4>2. e.kind \in {"GoalScored", "BallHit", "StatfeedEvent", "UpdateState"}
        BY <3>2, <3>3 DEF LastRefs
      <4> QED
        BY <2>s, <3>1, <3>2, <3>3, <4>1, <4>2, RefsFollow
    <3> QED
      BY <3>3 DEF RefsInv
  <2> QED
    BY <2>1, <2>2
<1> QED
  BY <1>1, <1>2, GameHolds, PTL DEF Spec

\* The ids in goals, hits, statfeed and camera target, which the game writes
\* as references, are those of the last tick's table, which it writes as
\* players (player_ref_id, player_id and target_ref_value of src/sos.rs).
THEOREM ReferencesResolve == Spec => []RefsResolve
<1>1. TablesInv /\ RefsInv => RefsResolve
  BY DEF TablesInv, RefsInv, RefsResolve, Finds
<1> QED
  BY <1>1, TablesHold, RefsHold, PTL

(***************************************************************************)
(* The tracker.                                                             *)
(***************************************************************************)
TrackerInv ==
    /\ TrackerIsCurrent
    /\ latest \in Snapshots \cup {Missing} /\ sighting \in Sightings \cup {Missing}

\* An event without the tracked player leaves the tracker as it is.
LEMMA TrackerStays ==
    ASSUME TrackerInv, UNCHANGED <<style, latest, shown, sighting>>
    PROVE  TrackerInv'
  BY DEF TrackerInv, TrackerIsCurrent, WrittenIf

LEMMA OnlyTicksTrack ==
    ASSUME NEW e, Delivers(e), e.kind # "UpdateState"
    PROVE  UNCHANGED <<latest, shown, sighting>>
<1>1. TrackedIn(e) = {}
  BY DEF TrackedIn
<1> QED
  BY <1>1 DEF Delivers, UpdateFromEvent

\* The first player of a tick that has the name.
LEMMA FirstTracked ==
    ASSUME GameInv, NEW order \in SetToSeqs(Present), NEW teams, NEW target,
           NEW e, e = Tick(order, teams, target), TrackedIn(e) # {}
    PROVE  \E s \in Present :
              /\ s \in Seats /\ score[s] \in Nat /\ style.name[s] # Blank
              /\ e.players[Min(TrackedIn(e))] = TickPlayer(s)
              /\ e.guid = match
<1>1. /\ DOMAIN order = 1..Cardinality(Present)
      /\ \A i \in DOMAIN order : order[i] \in Present
  BY OrderCovers DEF GameInv
<1>2. /\ e.kind = "UpdateState" /\ e.guid = match
      /\ e.players = [i \in DOMAIN order |-> TickPlayer(order[i])]
  BY DEF Tick
<1>3. TrackedIn(e) = {i \in DOMAIN e.players : EqIgnoreCase(e.players[i].name, TrackedName)}
  BY <1>2 DEF TrackedIn
<1>4. PICK T : T = TrackedIn(e)
  OBVIOUS
<1>5. T \in SUBSET Nat /\ T # {}
  BY <1>1, <1>2, <1>3, <1>4
<1>6. \E m \in T : \A k \in T : m <= k
  BY <1>5, LeastNat
<1>7. Min(T) \in T
  BY <1>6 DEF Min
<1>8. PICK i \in DOMAIN order : /\ i = Min(TrackedIn(e)) /\ e.players[i] = TickPlayer(order[i])
                                /\ EqIgnoreCase(TickPlayer(order[i]).name, TrackedName)
  BY <1>2, <1>3, <1>4, <1>7
<1>9. PICK s \in Present : s = order[i]
  BY <1>1
<1>10. s \in Seats /\ score[s] \in Nat /\ style \in Styles
  BY DEF GameInv
<1>11. style.name[s] # Blank
  BY <1>8, <1>9, <1>10, TickEntry DEF EqIgnoreCase
<1> QED
  BY <1>2, <1>8, <1>9, <1>10, <1>11

LEMMA TicksTrack ==
    ASSUME GameInv, TrackerInv, Ticks
    PROVE  TrackerInv'
<1>1. PICK order \in SetToSeqs(Present), teams \in {<<>>, <<0, 1>>, <<1, 0>>},
           target \in Present \cup {0} : Delivers(Tick(order, teams, target))
  BY DEF Ticks
<1>2. PICK e : e = Tick(order, teams, target)
  OBVIOUS
<1>3. style' = style /\ Delivers(e)
  BY <1>1, <1>2 DEF Ticks, game
<1>4. CASE TrackedIn(e) = {}
  <2>1. UNCHANGED <<latest, shown, sighting>>
    BY <1>3, <1>4 DEF Delivers, UpdateFromEvent
  <2> QED
    BY <1>3, <2>1, TrackerStays
<1>5. CASE TrackedIn(e) # {}
  <2>1. PICK s \in Present :
           /\ s \in Seats /\ score[s] \in Nat /\ style.name[s] # Blank
           /\ e.players[Min(TrackedIn(e))] = TickPlayer(s) /\ e.guid = match
    BY <1>2, <1>5, FirstTracked
  <2>2. PICK p : p = TickPlayer(s)
    OBVIOUS
  <2>3. PICK x : x = Snapshot(e, p)
    OBVIOUS
  <2>4. /\ out' = (IF IsNews(x) THEN x ELSE Missing) /\ latest' = x
        /\ shown' = FirstOf(out', shown)
        /\ sighting' = [guid |-> e.guid, seat |-> p.primary, score |-> score[p.primary]]
    BY <1>3, <1>5, <2>1, <2>2, <2>3 DEF Delivers, UpdateFromEvent
  <2>5. /\ p.name = style.name[s] /\ p.primary = s /\ p.team = SeatTeam[s] /\ p.score = score[s]
        /\ EffectiveBoost(p) = IF style.boost = "none" THEN Missing ELSE score[s]
    BY <2>1, <2>2, TickEntry DEF GameInv
  <2>6. style.name[s] \in Names /\ SeatTeam[s] \in 0..1 /\ match \in Nat
    BY <2>1, StyleFacts DEF GameInv
  <2>7. x = [guid |-> match, name |-> style.name[s], primary |-> s, team |-> SeatTeam[s],
             score |-> score[s], boost |-> EffectiveBoost(p)]
    BY <2>1, <2>3, <2>5 DEF Snapshot
  <2>8. x \in Snapshots /\ x # Missing
    <3>1. EffectiveBoost(p) \in Nat \cup {Missing}
      BY <2>1, <2>5
    <3>2. x \in Snapshots
      BY <2>1, <2>6, <2>7, <3>1 DEF Snapshots
    <3> QED
      BY <3>2, MissingAssumption
  <2>9. sighting' = [guid |-> match, seat |-> s, score |-> score[s]]
    BY <2>1, <2>4, <2>5
  <2>10. sighting' \in Sightings /\ sighting' # Missing
    <3>1. sighting' \in Sightings
      BY <2>1, <2>6, <2>9 DEF Sightings
    <3> QED
      BY <3>1, MissingAssumption
  <2>11. shown' = x
    <3>1. CASE IsNews(x)
      BY <2>4, <2>8, <3>1 DEF FirstOf
    <3>2. CASE ~IsNews(x)
      BY <2>4, <3>2 DEF FirstOf, IsNews, TrackerInv, TrackerIsCurrent
    <3> QED
      BY <3>1, <3>2
  <2>12. /\ x.guid = match /\ x.primary = s /\ x.score = score[s]
         /\ x.boost = WrittenIf(style.boost # "none", score[s])
    BY <2>5, <2>7 DEF WrittenIf
  <2>13. TrackerIsCurrent'
    <3>1. shown' = latest' /\ shown' # Missing /\ sighting' # Missing
      BY <2>4, <2>8, <2>10, <2>11
    <3>2. /\ shown'.guid = sighting'.guid /\ shown'.primary = sighting'.seat
          /\ shown'.score = sighting'.score
          /\ shown'.boost = WrittenIf(style'.boost # "none", sighting'.score)
      BY <1>3, <2>9, <2>11, <2>12
    <3> QED
      BY <3>1, <3>2 DEF TrackerIsCurrent, WrittenIf
  <2> QED
    BY <2>4, <2>8, <2>10, <2>13 DEF TrackerInv
<1> QED
  BY <1>4, <1>5

\* Who follows the snapshots update_from_event returns knows what the last
\* tick with the tracked player said, and so does latest(): none of the
\* snapshots it holds back was news (PlayerTracker of src/filters.rs).
THEOREM TrackerHoldsLast == Spec => []TrackerIsCurrent
<1>1. Init => TrackerInv
  BY DEF Init, TrackerInv, TrackerIsCurrent
<1>2. GameInv /\ TrackerInv /\ [Next]_vars => TrackerInv'
  <2> SUFFICES ASSUME GameInv, TrackerInv, [Next]_vars PROVE TrackerInv'
    OBVIOUS
  <2>0. style' = style
    BY GameInvStep
  <2>1. CASE MatchBegins
    <3>1. PICK guid : Delivers(Plain("MatchCreated", guid))
      BY <2>1 DEF MatchBegins
    <3>2. Plain("MatchCreated", guid).kind # "UpdateState"
      BY DEF Plain
    <3> QED
      BY <2>0, <3>1, <3>2, OnlyTicksTrack, TrackerStays
  <2>2. CASE MatchGoes
    <3>1. Delivers(Plain("MatchDestroyed", match))
      BY <2>2 DEF MatchGoes
    <3>2. Plain("MatchDestroyed", match).kind # "UpdateState"
      BY DEF Plain
    <3> QED
      BY <2>0, <3>1, <3>2, OnlyTicksTrack, TrackerStays
  <2>3. CASE Ticks
    BY <2>3, TicksTrack
  <2>4. CASE Quietly
    <3>1. PICK e : DeliversQuietly(e)
      BY <2>4 DEF Quietly
    <3>2. Delivers(e) /\ e.kind # "UpdateState"
      BY <3>1 DEF DeliversQuietly, Quiet, Passed
    <3> QED
      BY <2>0, <3>2, OnlyTicksTrack, TrackerStays
  <2>5. CASE UNCHANGED vars
    BY <2>5, TrackerStays DEF vars, game, tracker
  <2> QED
    BY <2>1, <2>2, <2>3, <2>4, <2>5, StepKinds
<1>3. TrackerInv => TrackerIsCurrent
  BY DEF TrackerInv
<1> QED
  BY <1>1, <1>2, <1>3, GameHolds, PTL DEF Spec

(***************************************************************************)
(* The filters.                                                             *)
(***************************************************************************)
\* Kinds in which the filters look at no player.
Silent == {"None", "MatchCreated", "MatchDestroyed", "MatchInitialized", "CountdownBegin",
           "RoundStarted", "GoalReplayStart", "MatchPaused", "MatchEnded", "CrossbarHit"}

Coming == {"PlayerJoined", "PlayerLeft"}

Naming == {"GoalScored", "BallHit", "BoostPickup", "StatfeedEvent"}

TickName(s) == IF style.name[s] = Blank THEN Missing ELSE style.name[s]

\* An entry of a tick, as far as the filters look at it.
Tells(p, s) == p.name = TickName(s) /\ p.team = SeatTeam[s] /\ p.primary = s

\* Whom the last event names: one player, players and nobody, or everyone the
\* last tick told of.
LastInv ==
    \/ last.kind \in Silent
    \/ /\ last.kind \in Coming /\ last.guid = match
       /\ last.primary \in Seats /\ last.name = style.name[last.primary]
    \/ /\ last.kind \in Naming /\ last.guid = match
       /\ FilterRefs(last) \subseteq {PlayerRef(s) : s \in Seats} \cup {NobodyRef}
       /\ last.kind = "BallHit" => \E r : last.players = <<r>>
    \/ /\ last.kind = "UpdateState" /\ last.guid = match
       /\ \A i \in DOMAIN last.players : \E s \in Told :
             Tells(last.players[i], s)
       /\ \A s \in Told : \E i \in DOMAIN last.players : Tells(last.players[i], s)

LEMMA LastStaysSilent ==
    ASSUME last'.kind \in Silent
    PROVE  LastInv'
  BY DEF LastInv

LEMMA TickNames ==
    ASSUME GameInv, Ticks
    PROVE  LastInv'
<1>1. PICK order \in SetToSeqs(Present), teams \in {<<>>, <<0, 1>>, <<1, 0>>},
           target \in Present \cup {0} : Delivers(Tick(order, teams, target))
  BY DEF Ticks
<1>2. /\ last' = Tick(order, teams, target) /\ style' = style /\ match' = match
      /\ told'.score = score
  BY <1>1 DEF Ticks, Delivers, game
<1>3. /\ last'.kind = "UpdateState" /\ last'.guid = match
      /\ last'.players = [i \in DOMAIN order |-> TickPlayer(order[i])]
  BY <1>2 DEF Tick
<1>4. Told' = Present
  BY <1>2 DEF Told, Present
<1>5. /\ \A i \in DOMAIN order : order[i] \in Present
      /\ \A s \in Present : \E i \in DOMAIN order : order[i] = s
  BY OrderCovers DEF GameInv
<1>6. ASSUME NEW s \in Present
      PROVE  Tells(TickPlayer(s), s)
  <2>1. s \in Seats /\ score[s] \in Nat /\ style \in Styles
    BY DEF GameInv
  <2> QED
    BY <2>1, TickEntry DEF TickName, Tells
<1>7. \A s : TickName(s)' = TickName(s)
  BY <1>2 DEF TickName
<1>8. ASSUME NEW i \in DOMAIN last'.players
      PROVE  \E s \in Told' : Tells(last.players[i], s)'
  <2>1. i \in DOMAIN order /\ last'.players[i] = TickPlayer(order[i]) /\ order[i] \in Present
    BY <1>3, <1>5
  <2> QED
    BY <1>4, <1>6, <1>7, <2>1 DEF Tells
<1>9. ASSUME NEW s \in Told'
      PROVE  \E i \in DOMAIN last'.players : Tells(last.players[i], s)'
  <2>1. PICK i \in DOMAIN order : order[i] = s
    BY <1>4, <1>5
  <2>2. i \in DOMAIN last'.players /\ last'.players[i] = TickPlayer(s) /\ s \in Present
    BY <1>3, <1>4, <2>1
  <2> QED
    BY <1>6, <1>7, <2>2 DEF Tells
<1> QED
  BY <1>2, <1>3, <1>8, <1>9 DEF LastInv

LEMMA NamesFollow ==
    ASSUME GameInv, style' = style, match' = match, last'.kind \in Naming, last'.guid = match,
           \A r \in FilterRefs(last') : \E s \in Seats \cup {0} : r = RefOrNobody(s),
           last'.kind = "BallHit" => \E r : last'.players = <<r>>
    PROVE  LastInv'
<1>1. \A s \in Seats : s # 0 /\ PlayerRef(s)' = PlayerRef(s)
  BY SeatsAssumption DEF PlayerRef, WrittenIf
<1>2. FilterRefs(last') \subseteq {PlayerRef(s)' : s \in Seats} \cup {NobodyRef}
  BY <1>1 DEF RefOrNobody
<1>3. NobodyRef' = NobodyRef
  BY DEF NobodyRef
<1> QED
  BY <1>2, <1>3 DEF LastInv

LEMMA LastFollows ==
    ASSUME GameInv, LastInv, [Next]_vars
    PROVE  LastInv'
<1>1. CASE MatchBegins
  <2>1. PICK guid \in {Missing, EmptyGuid, match + 1} : Delivers(Plain("MatchCreated", guid))
    BY <1>1 DEF MatchBegins
  <2>2. last'.kind = "MatchCreated"
    BY <2>1 DEF Delivers, Plain
  <2> QED
    BY <2>2, LastStaysSilent DEF Silent
<1>2. CASE MatchGoes
  <2>1. last'.kind = "MatchDestroyed"
    BY <1>2 DEF MatchGoes, Delivers, Plain
  <2> QED
    BY <2>1, LastStaysSilent DEF Silent
<1>3. CASE Announces
  <2>1. PICK kind \in {"MatchInitialized", "CountdownBegin", "RoundStarted",
                       "GoalReplayStart", "MatchPaused"} : Delivers(Plain(kind, match))
    BY <1>3 DEF Announces
  <2>2. last'.kind = kind
    BY <2>1 DEF Delivers, Plain
  <2> QED
    BY <2>2, LastStaysSilent DEF Silent
<1>4. CASE MatchEnds
  <2>1. PICK winner \in -1..1 :
           Delivers([kind |-> "MatchEnded", guid |-> match, winner |-> winner])
    BY <1>4 DEF MatchEnds
  <2>2. last'.kind = "MatchEnded"
    BY <2>1 DEF Delivers
  <2> QED
    BY <2>2, LastStaysSilent DEF Silent
<1>5. ASSUME NEW s \in Seats, Joins(s) \/ Leaves(s) PROVE LastInv'
  <2>1. PICK kind \in Coming : Delivers(Presence(kind, s))
    BY <1>5 DEF Joins, Leaves, Coming
  <2>2. /\ last'.kind = kind /\ last'.guid = match /\ last'.primary = s
        /\ last'.name = style.name[s]
    BY <2>1 DEF Delivers, Presence
  <2>3. style' = style /\ match' = match
    BY <1>5 DEF Joins, Leaves
  <2> QED
    BY <2>2, <2>3 DEF LastInv
<1>6. CASE Ticks
  BY <1>6, TickNames
<1>7. CASE Scores
  <2>1. PICK scorer, touch \in Seats \cup {0}, assister \in Seats \cup {0} :
           Delivers([kind |-> "GoalScored", guid |-> match,
                     scorer |-> RefOrNobody(scorer), touch |-> RefOrNobody(touch),
                     assister |-> IF assister = 0 THEN Missing ELSE PlayerRef(assister)])
    BY <1>7 DEF Scores
  <2>2. /\ last'.kind = "GoalScored" /\ last'.guid = match
        /\ last'.scorer = RefOrNobody(scorer) /\ last'.touch = RefOrNobody(touch)
        /\ last'.assister = IF assister = 0 THEN Missing ELSE PlayerRef(assister)
    BY <2>1 DEF Delivers
  <2>3. assister # 0 => PlayerRef(assister) = RefOrNobody(assister)
    BY DEF RefOrNobody
  <2>4. FilterRefs(last') = {last'.scorer, last'.touch} \cup ({last'.assister} \ {Missing})
    BY <2>2 DEF FilterRefs
  <2>5. \A r \in FilterRefs(last') : \E s \in Seats \cup {0} : r = RefOrNobody(s)
    BY <2>2, <2>3, <2>4
  <2>6. style' = style /\ match' = match
    BY <1>7 DEF Scores
  <2> QED
    BY <2>2, <2>5, <2>6, NamesFollow DEF Naming
<1>8. CASE Touches
  <2>s. style' = style /\ match' = match
    BY <1>8 DEF Touches, game
  <2>0. PICK s \in Present :
           \/ Delivers([kind |-> "BallHit", guid |-> match, players |-> <<PlayerRef(s)>>])
           \/ Delivers([kind |-> "BoostPickup", guid |-> match, player |-> PlayerRef(s)])
           \/ Delivers([kind |-> "CrossbarHit", guid |-> match, touch |-> PlayerRef(s)])
           \/ \E t \in Present \cup {0} :
                 Delivers([kind |-> "StatfeedEvent", guid |-> match, main |-> PlayerRef(s),
                           secondary |-> IF t = 0 THEN Missing ELSE PlayerRef(t)])
    BY <1>8 DEF Touches
  <2>1. s \in Seats /\ s # 0 /\ RefOrNobody(s) = PlayerRef(s)
    BY SeatsAssumption DEF GameInv, RefOrNobody
  <2>2. CASE Delivers([kind |-> "BallHit", guid |-> match, players |-> <<PlayerRef(s)>>])
    <3>1. last'.kind = "BallHit" /\ last'.guid = match /\ last'.players = <<PlayerRef(s)>>
      BY <2>2 DEF Delivers
    <3>2. FilterRefs(last') = {PlayerRef(s)}
      BY <3>1 DEF FilterRefs, Range
    <3> QED
      BY <2>s, <2>1, <3>1, <3>2, NamesFollow DEF Naming
  <2>3. CASE Delivers([kind |-> "BoostPickup", guid |-> match, player |-> PlayerRef(s)])
    <3>1. last'.kind = "BoostPickup" /\ last'.guid = match /\ last'.player = PlayerRef(s)
      BY <2>3 DEF Delivers
    <3>2. FilterRefs(last') = {PlayerRef(s)}
      BY <3>1 DEF FilterRefs
    <3> QED
      BY <2>s, <2>1, <3>1, <3>2, NamesFollow DEF Naming
  <2>4. CASE Delivers([kind |-> "CrossbarHit", guid |-> match, touch |-> PlayerRef(s)])
    <3>1. last'.kind = "CrossbarHit"
      BY <2>4 DEF Delivers
    <3> QED
      BY <3>1, LastStaysSilent DEF Silent
  <2>5. ASSUME NEW t \in Present \cup {0},
               Delivers([kind |-> "StatfeedEvent", guid |-> match, main |-> PlayerRef(s),
                         secondary |-> IF t = 0 THEN Missing ELSE PlayerRef(t)])
        PROVE  LastInv'
    <3>1. /\ last'.kind = "StatfeedEvent" /\ last'.guid = match /\ last'.main = PlayerRef(s)
          /\ last'.secondary = IF t = 0 THEN Missing ELSE PlayerRef(t)
      BY <2>5 DEF Delivers
    <3>2. t # 0 => PlayerRef(t) = RefOrNobody(t) /\ t \in Seats
      BY DEF RefOrNobody, GameInv
    <3>3. FilterRefs(last') = {last'.main} \cup ({last'.secondary} \ {Missing})
      BY <3>1 DEF FilterRefs
    <3>4. \A r \in FilterRefs(last') : \E x \in Seats \cup {0} : r = RefOrNobody(x)
      BY <2>1, <3>1, <3>2, <3>3
    <3> QED
      BY <2>s, <3>1, <3>4, NamesFollow DEF Naming
  <2> QED
    BY <2>0, <2>2, <2>3, <2>4, <2>5
<1>9. CASE UNCHANGED vars
  BY <1>9 DEF vars, game, LastInv, Told, Tells, TickName, PlayerRef, NobodyRef, WrittenIf
<1> QED
  BY <1>1, <1>2, <1>3, <1>4, <1>5, <1>6, <1>7, <1>8, <1>9 DEF Next

LEMMA LastHolds == Spec => []LastInv
<1>1. Init => LastInv
  BY DEF Init, LastInv, Silent, Plain
<1>2. GameInv /\ LastInv /\ [Next]_vars => LastInv'
  BY LastFollows
<1> QED
  BY <1>1, <1>2, GameHolds, PTL DEF Spec

\* Comparing names: only a blank name folds to a blank one, and an absent name
\* is nobody's.
LEMMA NamesCompare ==
    ASSUME style \in Styles, NEW s \in Seats, NEW n \in Names \ {Blank}
    PROVE  /\ EqIgnoreCase(style.name[s], n) <=> Folded[n] = Folded[style.name[s]]
           /\ EqIgnoreCase(TickName(s), n) <=> Folded[n] = Folded[style.name[s]]
           /\ PlayerRef(s).name = style.name[s] /\ PlayerRef(s).team = SeatTeam[s]
<1>1. style.name[s] \in Names /\ style.name[s] # Missing
  BY StyleFacts
<1>2. EqIgnoreCase(style.name[s], n) <=> Folded[n] = Folded[style.name[s]]
  BY <1>1 DEF EqIgnoreCase
<1>3. style.name[s] = Blank => Folded[n] # Folded[style.name[s]]
  BY NamesAssumption
<1>4. EqIgnoreCase(TickName(s), n) <=> Folded[n] = Folded[style.name[s]]
  BY <1>1, <1>3 DEF EqIgnoreCase, TickName
<1>5. PlayerRef(s).name = style.name[s] /\ PlayerRef(s).team = SeatTeam[s]
  BY DEF PlayerRef
<1> QED
  BY <1>2, <1>4, <1>5

\* The references the filters look at are those the event is about.
LEMMA NamingAbout ==
    ASSUME GameInv, last.kind \in Naming, last.kind = "BallHit" => \E r : last.players = <<r>>,
           NEW s \in Seats
    PROVE  s \in About <=> PlayerRef(s) \in FilterRefs(last)
<1>m. PlayerRef(s) # Missing
  BY ReferenceId DEF GameInv
<1>1. CASE last.kind = "BoostPickup"
  <2>1. FilterRefs(last) = {last.player}
    BY <1>1 DEF FilterRefs
  <2>2. s \in About <=> last.player = PlayerRef(s)
    BY <1>1 DEF About
  <2> QED
    BY <2>1, <2>2
<1>2. CASE last.kind \in {"GoalScored", "BallHit", "StatfeedEvent"}
  <2>1. s \in About <=> PlayerRef(s) \in Range(LastRefs)
    BY <1>2 DEF About
  <2>2. CASE last.kind = "GoalScored"
    <3>1. LastRefs = <<last.scorer, last.assister, last.touch>>
      BY <2>2 DEF LastRefs
    <3>2. Range(LastRefs) = {last.scorer, last.assister, last.touch}
      BY <3>1 DEF Range
    <3>3. FilterRefs(last) = {last.scorer, last.touch} \cup ({last.assister} \ {Missing})
      BY <2>2 DEF FilterRefs
    <3> QED
      BY <1>m, <2>1, <3>2, <3>3
  <2>3. CASE last.kind = "BallHit"
    <3>1. LastRefs = last.players /\ FilterRefs(last) = Range(last.players)
      BY <2>3 DEF LastRefs, FilterRefs
    <3> QED
      BY <2>1, <3>1
  <2>4. CASE last.kind = "StatfeedEvent"
    <3>1. LastRefs = <<last.main, last.secondary>>
      BY <2>4 DEF LastRefs
    <3>2. Range(LastRefs) = {last.main, last.secondary}
      BY <3>1 DEF Range
    <3>3. FilterRefs(last) = {last.main} \cup ({last.secondary} \ {Missing})
      BY <2>4 DEF FilterRefs
    <3> QED
      BY <1>m, <2>1, <3>2, <3>3
  <2> QED
    BY <1>2, <2>2, <2>3, <2>4
<1> QED
  BY <1>1, <1>2 DEF Naming

\* What asking for a name finds in the last event.
LEMMA AskedByName ==
    ASSUME GameInv, LastInv, Told \subseteq Seats, NEW n \in Names \ {Blank}
    PROVE  /\ \A s \in About : Folded[n] = Folded[style.name[s]] =>
                 /\ last.guid = match /\ EventHasPlayerName(last, n)
                 /\ last.kind \notin Coming => EventHasTeam(last, SeatTeam[s])
           /\ EventHasPlayerName(last, n) =>
                 \E s \in About : Folded[n] = Folded[style.name[s]]
<1>s. style \in Styles
  BY DEF GameInv
<1>1. CASE last.kind \in Silent
  <2>1. About = {}
    BY <1>1 DEF About, Silent
  <2>2. FilterRefs(last) = {}
    BY <1>1 DEF FilterRefs, Silent
  <2>3. ~EventHasPlayerName(last, n)
    BY <1>1, <2>2 DEF EventHasPlayerName, Silent
  <2> QED
    BY <2>1, <2>3
<1>2. CASE /\ last.kind \in Coming /\ last.guid = match
           /\ last.primary \in Seats /\ last.name = style.name[last.primary]
  <2>1. About = {last.primary}
    BY <1>2 DEF About, Coming
  <2>2. EventHasPlayerName(last, n) <=> EqIgnoreCase(style.name[last.primary], n)
    BY <1>2 DEF EventHasPlayerName, Coming
  <2> QED
    BY <1>s, <1>2, <2>1, <2>2, NamesCompare
<1>3. CASE /\ last.kind \in Naming /\ last.guid = match
           /\ FilterRefs(last) \subseteq {PlayerRef(s) : s \in Seats} \cup {NobodyRef}
           /\ last.kind = "BallHit" => \E r : last.players = <<r>>
  <2>1. \A s \in Seats : s \in About <=> PlayerRef(s) \in FilterRefs(last)
    BY <1>3, NamingAbout
  <2>2. About \subseteq Seats
    BY DEF About
  <2>3. EventHasPlayerName(last, n) <=> \E r \in FilterRefs(last) : EqIgnoreCase(r.name, n)
    BY <1>3 DEF EventHasPlayerName, Naming
  <2>4. \A team : EventHasTeam(last, team) <=> \E r \in FilterRefs(last) : r.team = team
    BY <1>3 DEF EventHasTeam, Naming
  <2>5. ~EqIgnoreCase(NobodyRef.name, n)
    BY NamesAssumption DEF NobodyRef, EqIgnoreCase
  <2>6. ASSUME NEW s \in About, Folded[n] = Folded[style.name[s]]
        PROVE  EventHasPlayerName(last, n) /\ EventHasTeam(last, SeatTeam[s])
    <3>1. s \in Seats /\ PlayerRef(s) \in FilterRefs(last)
      BY <2>1, <2>2
    <3>2. EqIgnoreCase(PlayerRef(s).name, n) /\ PlayerRef(s).team = SeatTeam[s]
      BY <1>s, <2>6, <3>1, NamesCompare
    <3> QED
      BY <2>3, <2>4, <3>1, <3>2
  <2>7. ASSUME EventHasPlayerName(last, n)
        PROVE  \E s \in About : Folded[n] = Folded[style.name[s]]
    <3>1. PICK r \in FilterRefs(last) : EqIgnoreCase(r.name, n)
      BY <2>3, <2>7
    <3>2. PICK s \in Seats : r = PlayerRef(s)
      BY <1>3, <2>5, <3>1
    <3>3. s \in About /\ Folded[n] = Folded[style.name[s]]
      BY <1>s, <2>1, <3>1, <3>2, NamesCompare
    <3> QED
      BY <3>3
  <2> QED
    BY <1>3, <2>6, <2>7
<1>4. CASE /\ last.kind = "UpdateState" /\ last.guid = match
           /\ \A i \in DOMAIN last.players : \E s \in Told : Tells(last.players[i], s)
           /\ \A s \in Told : \E i \in DOMAIN last.players : Tells(last.players[i], s)
  <2>1. About = Told
    BY <1>4 DEF About
  <2>2. EventHasPlayerName(last, n) <=>
           \E i \in DOMAIN last.players : EqIgnoreCase(last.players[i].name, n)
    BY <1>4 DEF EventHasPlayerName, Range
  <2>3. ASSUME NEW i \in DOMAIN last.players
        PROVE  EventHasTeam(last, last.players[i].team)
    BY <1>4 DEF EventHasTeam, Range
  <2>4. ASSUME NEW s \in About, Folded[n] = Folded[style.name[s]]
        PROVE  EventHasPlayerName(last, n) /\ EventHasTeam(last, SeatTeam[s])
    <3>1. s \in Seats /\ s \in Told
      BY <2>1
    <3>2. PICK i \in DOMAIN last.players :
             last.players[i].name = TickName(s) /\ last.players[i].team = SeatTeam[s]
      BY <1>4, <3>1 DEF Tells
    <3>3. EqIgnoreCase(TickName(s), n)
      BY <1>s, <2>4, <3>1, NamesCompare
    <3> QED
      BY <2>2, <2>3, <3>2, <3>3
  <2>5. ASSUME EventHasPlayerName(last, n)
        PROVE  \E s \in About : Folded[n] = Folded[style.name[s]]
    <3>1. PICK i \in DOMAIN last.players : EqIgnoreCase(last.players[i].name, n)
      BY <2>2, <2>5
    <3>2. PICK s \in Told : last.players[i].name = TickName(s)
      BY <1>4 DEF Tells
    <3>3. EqIgnoreCase(TickName(s), n) /\ s \in Seats
      BY <3>1, <3>2
    <3> QED
      BY <1>s, <2>1, <3>3, NamesCompare
  <2> QED
    BY <1>4, <2>4, <2>5
<1> QED
  BY <1>1, <1>2, <1>3, <1>4 DEF LastInv

\* What asking for a primary id finds in the last event.
LEMMA AskedById ==
    ASSUME LastInv, Told \subseteq Seats, NEW s \in Seats
    PROVE  EventHasPlayerPrimaryId(last, s) <=> s \in About /\ last.kind \in Identifying
<1>1. CASE last.kind \in Silent \cup Naming
  BY <1>1 DEF EventHasPlayerPrimaryId, Identifying, Silent, Naming
<1>2. CASE last.kind \in Coming
  <2>1. EventHasPlayerPrimaryId(last, s) <=> last.primary = s
    BY <1>2 DEF EventHasPlayerPrimaryId, Coming
  <2>2. s \in About <=> s = last.primary
    BY <1>2 DEF About, Coming
  <2> QED
    BY <1>2, <2>1, <2>2 DEF Identifying, Coming
<1>3. CASE last.kind = "UpdateState"
  <2>1. /\ \A i \in DOMAIN last.players : \E t \in Told : Tells(last.players[i], t)
        /\ \A t \in Told : \E i \in DOMAIN last.players : Tells(last.players[i], t)
    BY <1>3 DEF LastInv, Silent, Coming, Naming
  <2>2. EventHasPlayerPrimaryId(last, s) <=>
           \E i \in DOMAIN last.players : last.players[i].primary = s
    BY <1>3 DEF EventHasPlayerPrimaryId, Range
  <2>3. s \in About <=> s \in Told
    BY <1>3 DEF About
  <2> QED
    BY <1>3, <2>1, <2>2, <2>3 DEF Tells, Identifying
<1> QED
  BY <1>1, <1>2, <1>3 DEF LastInv

\* An event about a player, written in any way, passes the filter that asks
\* for its kind, match, name (in any case), team and primary id at once, and
\* neither a filter by name nor one by primary id passes anything else
\* (EventFilter::matches and the helpers it calls, src/filters.rs).
THEOREM FilterFindsItsPlayer == Spec => []FilterFindsPlayer
<1>1. GameInv /\ LastInv /\ TablesInv => FilterFindsPlayer
  <2> SUFFICES ASSUME GameInv, LastInv, TablesInv PROVE FilterFindsPlayer
    OBVIOUS
  <2>0. Told \subseteq Seats /\ About \subseteq Seats
    BY DEF TablesInv, About
  <2>m. ASSUME NEW s \in Seats PROVE s # Missing
    BY SeatsAssumption, MissingAssumption
  <2>1. ASSUME NEW n \in Names \ {Blank}, NEW s \in About, Folded[n] = Folded[style.name[s]],
               NEW f, f = [kinds |-> {last.kind}, name |-> n,
                           primary |-> WrittenIf(last.kind \in Identifying, s),
                           team |-> IF last.kind \in {"PlayerJoined", "PlayerLeft"}
                                    THEN Missing ELSE SeatTeam[s],
                           guid |-> match]
        PROVE  Matches(f, last)
    <3>1. /\ last.guid = match /\ EventHasPlayerName(last, n)
          /\ last.kind \notin Coming => EventHasTeam(last, SeatTeam[s])
      BY <2>0, <2>1, AskedByName
    <3>2. /\ f.kinds = {last.kind} /\ f.name = n /\ f.guid = match
          /\ f.primary = IF last.kind \in Identifying THEN s ELSE Missing
          /\ f.team = IF last.kind \in {"PlayerJoined", "PlayerLeft"} THEN Missing ELSE SeatTeam[s]
      BY <2>1 DEF WrittenIf
    <3>3. f.team # Missing => EventHasTeam(last, f.team)
      BY <3>1, <3>2 DEF Coming
    <3>4. f.primary # Missing => EventHasPlayerPrimaryId(last, f.primary)
      BY <2>0, <2>1, <3>2, AskedById
    <3> QED
      BY <3>1, <3>2, <3>3, <3>4 DEF Matches
  <2>2. ASSUME NEW n \in Names \ {Blank}, Matches([NoFilter EXCEPT !.name = n], last)
        PROVE  \E s \in About : Folded[n] = Folded[style.name[s]]
    <3>1. [NoFilter EXCEPT !.name = n].name = n
      BY DEF NoFilter
    <3>2. n # Missing
      BY NamesAssumption
    <3>3. EventHasPlayerName(last, n)
      BY <2>2, <3>1, <3>2 DEF Matches
    <3> QED
      BY <2>0, <3>3, AskedByName
  <2>3. ASSUME NEW s \in Seats
        PROVE  Matches([NoFilter EXCEPT !.primary = s], last)
                  <=> s \in About /\ last.kind \in Identifying
    <3>1. PICK f : f = [NoFilter EXCEPT !.primary = s]
      OBVIOUS
    <3>2. /\ f.kinds = {} /\ f.guid = Missing /\ f.team = Missing /\ f.name = Missing
          /\ f.primary = s
      BY <3>1 DEF NoFilter
    <3>3. Matches(f, last) <=> EventHasPlayerPrimaryId(last, s)
      BY <2>m, <3>2 DEF Matches
    <3> QED
      BY <2>0, <3>1, <3>3, AskedById
  <2> QED
    BY <2>1, <2>2, <2>3 DEF FilterFindsPlayer
<1> QED
  BY <1>1, GameHolds, LastHolds, TablesHold, PTL

-----------------------------------------------------------------------------
(***************************************************************************)
(* The relay, which passes on what the translator makes of the events: the  *)
(* payloads between it and its overlay.                                     *)
(***************************************************************************)
(***************************************************************************)
(* The payloads on their way and at the end of it, as one sequence: what    *)
(* the overlay has read, then what it can still read.                       *)
(***************************************************************************)
Path == got \o wire

\* A websocket that is not up holds nothing, and none is up while the relay
\* is opening one.
WireNeedsSocket ==
    /\ socket # "up" => wire = <<>>
    /\ main \in {"connect", "open", "delay"} => socket # "up"

\* A relay in its loop, or on the way to it, has not reached --max-events.
Leaving == main = "close" \/ Ended
RunsBelowLimit == HasLimit /\ Limit > 0 /\ ~Leaving => relayed < Limit

\* The inductive invariant of both safety properties.
RelayInv ==
    RelayTypeOK /\ WireNeedsSocket /\ RunsBelowLimit /\ ReadInOrderOnce /\ RelayedAccountedFor

-----------------------------------------------------------------------------
(***************************************************************************)
(* Types.                                                                   *)
(***************************************************************************)
LEMMA RelayInitTypes == RelayInit => RelayTypeOK
<1> SUFFICES ASSUME RelayInit PROVE RelayTypeOK
  OBVIOUS
<1>1. armed \in BOOLEAN /\ signal \in BOOLEAN /\ (signal => armed)
  BY DEF RelayInit
<1>2. /\ wire \in Seq(Nat \ {0}) /\ got \in Seq(Nat \ {0})
      /\ lost \in SUBSET (Nat \ {0})
  BY DEF RelayInit
<1>3. Len(wire) <= WireCapacity
  BY WireAssumption DEF RelayInit
<1> QED
  BY <1>1, <1>2, <1>3 DEF RelayInit, RelayTypeOK

LEMMA RelayTypeStep == RelayTypeOK /\ [RelayNext]_relayVars => RelayTypeOK'
<1> SUFFICES ASSUME RelayTypeOK, [RelayNext]_relayVars PROVE RelayTypeOK'
  OBVIOUS
<1>0. UNCHANGED <<armed, signal>>
          => armed' \in BOOLEAN /\ signal' \in BOOLEAN /\ (signal' => armed')
  <2> SUFFICES ASSUME armed' = armed, signal' = signal
               PROVE  armed' \in BOOLEAN /\ signal' \in BOOLEAN /\ (signal' => armed')
    OBVIOUS
  <2>1. armed \in BOOLEAN /\ signal \in BOOLEAN /\ (signal => armed)
    BY Zenon DEF RelayTypeOK
  <2> QED
    BY <2>1, Zenon
<1>1. CASE Connects \/ ConnectFails
  <2>1. UNCHANGED <<armed, signal, pending, relayed, link>>
    BY <1>1 DEF Connects, ConnectFails
  <2>2. main' \in {"connect", "open", "err"} /\ tries' \in Nat /\ main = "connect"
    BY <1>1 DEF Connects, ConnectFails, RelayTypeOK
  <2> QED
    BY <1>0, <2>1, <2>2 DEF RelayTypeOK, link
<1>2. CASE ArmSignals \/ SignalArrives \/ TakeSignal
  <2>1. armed' \in BOOLEAN /\ signal' \in BOOLEAN /\ (signal' => armed')
    BY <1>2, Zenon DEF ArmSignals, SignalArrives, TakeSignal, RelayTypeOK
  <2>2. UNCHANGED <<tries, pending, relayed, link>>
    BY <1>2 DEF ArmSignals, SignalArrives, TakeSignal
  <2>3. main' \in {main, "killed"} \/ (main' = "close" /\ main = "loop")
    BY <1>2 DEF ArmSignals, SignalArrives, TakeSignal
  <2> QED
    BY <2>1, <2>2, <2>3 DEF RelayTypeOK, link
<1>3. ASSUME NEW n \in 1..2, EventArrives(n) PROVE RelayTypeOK'
  BY <1>3 DEF EventArrives, RelayTypeOK, link
<1>4. CASE FeedEnds \/ Reconnects \/ ReconnectFails
  <2>1. UNCHANGED <<armed, signal, pending, relayed, link>>
    BY <1>4 DEF FeedEnds, Reconnects, ReconnectFails
  <2>2. /\ main' \in {"loop", "reconnect", "err"} /\ tries' \in Nat
        /\ main \in {"loop", "reconnect"}
    BY <1>4 DEF FeedEnds, Reconnects, ReconnectFails, RelayTypeOK
  <2> QED
    BY <1>0, <2>1, <2>2 DEF RelayTypeOK, link
<1>5. CASE SocketOpens
  <2>1. wire' \in Seq(Nat \ {0}) /\ Len(wire') <= WireCapacity
    BY <1>5, WireAssumption DEF SocketOpens
  <2> QED
    BY <1>5, <2>1 DEF SocketOpens, RelayTypeOK
<1>6. CASE SocketRefused \/ DelayEnds \/ SendFails
  <2>1. UNCHANGED <<tries, armed, signal, pending, relayed, link>>
    BY <1>6 DEF SocketRefused, DelayEnds, SendFails
  <2>2. main' \in {"open", "delay"}
    BY <1>6 DEF SocketRefused, DelayEnds, SendFails
  <2> QED
    BY <1>0, <2>1, <2>2 DEF RelayTypeOK, link
<1>7. CASE CloseEnds
  <2>1. UNCHANGED <<tries, armed, signal, pending, relayed, link>> /\ main' = "ok"
    BY <1>7 DEF CloseEnds
  <2> QED
    BY <1>0, <2>1 DEF RelayTypeOK, link
<1>8. CASE SendSucceeds
  <2>1. relayed + 1 \in Nat \ {0} /\ relayed' = relayed + 1 /\ pending > 0
    BY <1>8 DEF SendSucceeds, RelayTypeOK
  <2>2. wire' \in Seq(Nat \ {0}) /\ lost' \in SUBSET (Nat \ {0})
    <3>1. wire \in Seq(Nat \ {0}) /\ lost \in SUBSET (Nat \ {0})
      BY DEF RelayTypeOK
    <3>2. Append(wire, relayed + 1) \in Seq(Nat \ {0})
      BY <2>1, <3>1, AppendProperties
    <3>3. wire' \in {wire, Append(wire, relayed + 1)} /\ lost' \in {lost, lost \cup {relayed + 1}}
      BY <1>8 DEF SendSucceeds
    <3> QED
      BY <2>1, <3>1, <3>2, <3>3
  <2>7. Len(wire') <= WireCapacity
    <3>1. CASE socket = "up"
      <4>1. wire' = Append(wire, relayed + 1) /\ Len(wire) < WireCapacity
        BY <1>8, <3>1 DEF SendSucceeds, WriteEnds
      <4>2. wire \in Seq(Nat \ {0}) /\ relayed + 1 \in Nat \ {0}
        BY <2>1 DEF RelayTypeOK
      <4>3. Len(wire') = Len(wire) + 1 /\ Len(wire) \in Nat
        BY <4>1, <4>2, AppendProperties
      <4> QED
        BY <4>1, <4>3, WireAssumption
    <3>2. CASE socket # "up"
      BY <1>8, <3>2 DEF SendSucceeds, RelayTypeOK
    <3> QED
      BY <3>1, <3>2
  <2>3. pending' \in 0..2 /\ (pending' = 0 => pending = 1)
    BY <1>8, <2>1 DEF SendSucceeds, RelayTypeOK
  <2>4. /\ main' \in {"close", "loop", "send"}
        /\ (main' = "send" => pending # 1) /\ (main' = "loop" => pending = 1)
    BY <1>8 DEF SendSucceeds
  <2>5. UNCHANGED <<tries, armed, signal, socket, sockets, got>> /\ main = "send"
    BY <1>8 DEF SendSucceeds
  <2>6. pending' = pending - 1
    BY <1>8 DEF SendSucceeds
  <2> QED
    BY <2>1, <2>2, <2>3, <2>4, <2>5, <2>6, <2>7 DEF RelayTypeOK
<1>9. CASE OverlayReads
  <2>1. /\ got' \in Seq(Nat \ {0}) /\ wire' \in Seq(Nat \ {0})
        /\ Len(wire') <= WireCapacity
    BY <1>9, HeadTailProperties, AppendProperties, WireAssumption DEF OverlayReads, RelayTypeOK
  <2> QED
    BY <1>9, <2>1 DEF OverlayReads, RelayTypeOK
<1>10. CASE SocketBreaks
  <2>1. ToSet(wire) \subseteq Nat \ {0}
    BY ToSetType DEF RelayTypeOK
  <2>2. lost' \in SUBSET (Nat \ {0})
    BY <1>10, <2>1 DEF SocketBreaks, RelayTypeOK
  <2>3. wire' \in Seq(Nat \ {0}) /\ Len(wire') <= WireCapacity
    BY <1>10, WireAssumption DEF SocketBreaks
  <2> QED
    BY <1>10, <2>2, <2>3 DEF SocketBreaks, RelayTypeOK
<1>11. CASE UNCHANGED relayVars
  BY <1>11 DEF relayVars, link, RelayTypeOK
<1> QED
  BY <1>1, <1>2, <1>3, <1>4, <1>5, <1>6, <1>7, <1>8, <1>9, <1>10, <1>11 DEF RelayNext

\* The relay is never at a place of its code that does not fit its payloads and
\* its websocket: it sends only with a payload in hand, waits for the game only
\* without one, and has a websocket at both.
THEOREM RelayTypesHold == RelaySpec => []RelayTypeOK
  BY RelayInitTypes, RelayTypeStep, PTL DEF RelaySpec

-----------------------------------------------------------------------------
(***************************************************************************)
(* The websocket and the limit.                                             *)
(***************************************************************************)
LEMMA WireStep == RelayTypeOK /\ WireNeedsSocket /\ [RelayNext]_relayVars => WireNeedsSocket'
<1> SUFFICES ASSUME RelayTypeOK, WireNeedsSocket, [RelayNext]_relayVars PROVE WireNeedsSocket'
  OBVIOUS
<1> USE DEF WireNeedsSocket
<1>1. CASE Connects \/ ConnectFails \/ ArmSignals \/ SignalArrives \/ TakeSignal
  BY <1>1 DEF Connects, ConnectFails, ArmSignals, SignalArrives, TakeSignal, link
<1>2. CASE (\E n \in 1..2 : EventArrives(n)) \/ FeedEnds \/ Reconnects \/ ReconnectFails
  BY <1>2 DEF EventArrives, FeedEnds, Reconnects, ReconnectFails, link
<1>3. CASE SocketOpens \/ SocketRefused \/ DelayEnds \/ SendFails \/ CloseEnds
  BY <1>3 DEF SocketOpens, SocketRefused, DelayEnds, SendFails, CloseEnds, link
<1>4. CASE SendSucceeds
  BY <1>4 DEF SendSucceeds
<1>5. CASE OverlayReads \/ SocketBreaks
  BY <1>5 DEF OverlayReads, SocketBreaks
<1> QED
  BY <1>1, <1>2, <1>3, <1>4, <1>5 DEF RelayNext, relayVars, link

LEMMA RelayLimitStep ==
    ASSUME RelayTypeOK, RunsBelowLimit, HasLimit /\ Limit > 0 => relayed <= Limit, [RelayNext]_relayVars
    PROVE  RunsBelowLimit' /\ (HasLimit /\ Limit > 0 => relayed' <= Limit)
<1>1. CASE SendSucceeds
  <2>1. /\ relayed' = relayed + 1 /\ relayed \in Nat /\ ~Leaving
        /\ HasLimit /\ relayed + 1 >= Limit => main' = "close"
    BY <1>1 DEF SendSucceeds, AtLimit, RelayTypeOK, Leaving, Ended
  <2> QED
    BY <2>1, RelayLimitAssumption DEF RunsBelowLimit, Leaving
<1>2. CASE ~SendSucceeds
  <2>1. relayed' = relayed
    BY <1>2 DEF RelayNext, relayVars, link, Connects, ConnectFails, ArmSignals, SignalArrives,
                TakeSignal, EventArrives, FeedEnds, Reconnects, ReconnectFails,
                SocketOpens, SocketRefused, DelayEnds, SendFails, CloseEnds, OverlayReads,
                SocketBreaks
  <2>2. Leaving => Leaving'
    BY <1>2 DEF RelayNext, relayVars, link, Connects, ConnectFails, ArmSignals, SignalArrives,
                TakeSignal, EventArrives, FeedEnds, Reconnects, ReconnectFails,
                SocketOpens, SocketRefused, DelayEnds, SendFails, CloseEnds, OverlayReads,
                SocketBreaks, Leaving, Ended
  <2> QED
    BY <2>1, <2>2 DEF RunsBelowLimit
<1> QED
  BY <1>1, <1>2

-----------------------------------------------------------------------------
(***************************************************************************)
(* The payloads.                                                            *)
(***************************************************************************)
\* Where the payloads counted as relayed are, in terms of the path.
Accounted ==
    /\ Increasing(Path)
    /\ 1..relayed = ToSet(Path) \cup lost
    /\ lost \cap ToSet(Path) = {}

LEMMA AccountedMeansProperties ==
    ASSUME RelayTypeOK
    PROVE  Accounted <=> /\ ReadInOrderOnce
                         /\ 1..relayed = ToSet(got) \cup ToSet(wire) \cup lost
                         /\ lost \cap (ToSet(got) \cup ToSet(wire)) = {}
<1>1. ToSet(Path) = ToSet(got) \cup ToSet(wire)
  BY ToSetOfConcat DEF RelayTypeOK, Path
<1> QED
  BY <1>1 DEF Accounted, ReadInOrderOnce, Increasing, Path

\* What one step does to the payloads: one more is written, to the path or to a
\* broken websocket; those on the wire are lost; or nothing is added or lost.
LEMMA PathStep ==
    ASSUME RelayTypeOK, WireNeedsSocket, [RelayNext]_relayVars
    PROVE  \/ /\ Path' = Append(Path, relayed + 1) /\ lost' = lost
              /\ relayed' = relayed + 1
           \/ /\ Path' = Path /\ lost' = lost \cup {relayed + 1}
              /\ relayed' = relayed + 1
           \/ /\ Path' = got /\ lost' = lost \cup ToSet(wire)
              /\ relayed' = relayed
           \/ UNCHANGED <<Path, lost, relayed>>
<1>1. CASE SendSucceeds
  <2>1. CASE socket = "up"
    <3>1. relayed + 1 \in Nat \ {0} /\ got \in Seq(Nat \ {0}) /\ wire \in Seq(Nat \ {0})
      BY DEF RelayTypeOK
    <3>2. got \o Append(wire, relayed + 1) = Append(got \o wire, relayed + 1)
      BY <3>1, AppendToConcat
    <3> QED
      BY <1>1, <2>1, <3>2 DEF SendSucceeds, Path
  <2>2. CASE socket # "up"
    BY <1>1, <2>2 DEF SendSucceeds, Path
  <2> QED
    BY <2>1, <2>2
<1>2. CASE OverlayReads
  <2>1. Append(got, Head(wire)) \o Tail(wire) = got \o wire
    BY <1>2, ReadKeepsConcat DEF OverlayReads, RelayTypeOK
  <2> QED
    BY <1>2, <2>1 DEF OverlayReads, Path
<1>3. CASE SocketBreaks
  <2>1. got \o <<>> = got
    BY ConcatEmptySeq DEF RelayTypeOK
  <2> QED
    BY <1>3, <2>1 DEF SocketBreaks, Path
<1>4. CASE SocketOpens
  BY <1>4 DEF SocketOpens, WireNeedsSocket, Path
<1>5. CASE UNCHANGED link /\ relayed' = relayed
  BY <1>5 DEF link, Path
<1>6. ~SendSucceeds /\ ~OverlayReads /\ ~SocketBreaks /\ ~SocketOpens
          => UNCHANGED link /\ relayed' = relayed
  BY DEF RelayNext, relayVars, Connects, ConnectFails, ArmSignals, SignalArrives, TakeSignal,
         EventArrives, FeedEnds, Reconnects, ReconnectFails, SocketRefused, DelayEnds,
         SendFails, CloseEnds
<1> QED
  BY <1>1, <1>2, <1>3, <1>4, <1>5, <1>6

LEMMA AccountedStep ==
    ASSUME RelayTypeOK, WireNeedsSocket, Accounted, [RelayNext]_relayVars
    PROVE  Accounted'
<1>1. /\ relayed \in Nat /\ Path \in Seq(Nat \ {0}) /\ Path \in Seq(Nat)
      /\ got \in Seq(Nat) /\ wire \in Seq(Nat)
  <2>1. got \in Seq(Nat \ {0}) /\ wire \in Seq(Nat \ {0}) /\ relayed \in Nat
    BY DEF RelayTypeOK
  <2>2. got \o wire \in Seq(Nat \ {0})
    BY <2>1, ConcatProperties
  <2> QED
    BY <2>1, <2>2, SeqMonotonic DEF Path
<1>2. \A y \in ToSet(Path) \cup lost : y < relayed + 1
  BY <1>1 DEF Accounted
<1>3. 1..(relayed + 1) = (1..relayed) \cup {relayed + 1}
  BY <1>1
<1>4. CASE Path' = Append(Path, relayed + 1) /\ lost' = lost /\ relayed' = relayed + 1
  <2>1. ToSet(Path') = ToSet(Path) \cup {relayed + 1}
    <3>1. Path \in Seq(Nat) /\ relayed + 1 \in Nat
      BY <1>1
    <3>2. ToSet(Append(Path, relayed + 1)) = ToSet(Path) \cup {relayed + 1}
      BY <3>1, ToSetOfAppend
    <3> QED
      BY <1>4, <3>2
  <2>2. Increasing(Path')
    BY <1>1, <1>2, <1>4, IncreasingAppend DEF Accounted
  <2>3. relayed + 1 \notin lost
    BY <1>1, <1>2
  <2> QED
    BY <1>3, <1>4, <2>1, <2>2, <2>3 DEF Accounted
<1>5. CASE Path' = Path /\ lost' = lost \cup {relayed + 1} /\ relayed' = relayed + 1
  <2>1. relayed + 1 \notin ToSet(Path)
    BY <1>1, <1>2
  <2> QED
    BY <1>3, <1>5, <2>1 DEF Accounted
<1>6. CASE Path' = got /\ lost' = lost \cup ToSet(wire) /\ relayed' = relayed
  <2>1. Increasing(got) /\ ToSet(got) \cap ToSet(wire) = {}
    BY <1>1, IncreasingConcat DEF Accounted, Path
  <2>2. ToSet(Path) = ToSet(got) \cup ToSet(wire)
    BY <1>1, ToSetOfConcat DEF Path
  <2> QED
    BY <1>6, <2>1, <2>2 DEF Accounted
<1>7. CASE UNCHANGED <<Path, lost, relayed>>
  BY <1>7 DEF Accounted
<1> QED
  BY <1>4, <1>5, <1>6, <1>7, PathStep

-----------------------------------------------------------------------------
(***************************************************************************)
(* The theorems.                                                            *)
(***************************************************************************)
LEMMA InitRelayInv == RelayInit => RelayInv
<1> SUFFICES ASSUME RelayInit PROVE RelayInv
  OBVIOUS
<1>1. RelayTypeOK
  BY RelayInitTypes
<1>2. WireNeedsSocket
  BY DEF RelayInit, WireNeedsSocket
<1>3. RunsBelowLimit /\ (HasLimit /\ Limit > 0 => relayed <= Limit)
  BY RelayLimitAssumption DEF RelayInit, RunsBelowLimit
<1>4. Path = <<>> /\ lost = {} /\ relayed = 0
  BY DEF RelayInit, Path
<1>5. Accounted
  BY <1>4 DEF Accounted, Increasing, ToSet
<1> QED
  BY <1>1, <1>2, <1>3, <1>5, AccountedMeansProperties DEF RelayInv, RelayedAccountedFor

LEMMA RelayInvStep == RelayInv /\ [RelayNext]_relayVars => RelayInv'
<1> SUFFICES ASSUME RelayInv, [RelayNext]_relayVars PROVE RelayInv'
  OBVIOUS
<1>1. RelayTypeOK /\ WireNeedsSocket /\ RunsBelowLimit /\ RelayedAccountedFor /\ ReadInOrderOnce
  BY DEF RelayInv
<1>2. RelayTypeOK' /\ WireNeedsSocket'
  BY <1>1, RelayTypeStep, WireStep
<1>3. RunsBelowLimit' /\ (HasLimit /\ Limit > 0 => relayed' <= Limit)
  BY <1>1, RelayLimitStep DEF RelayedAccountedFor
<1>4. Accounted
  BY <1>1, AccountedMeansProperties DEF RelayedAccountedFor
<1>5. Accounted'
  BY <1>1, <1>4, AccountedStep
<1>6. ToSet(Path') = ToSet(got') \cup ToSet(wire')
  BY <1>2, ToSetOfConcat DEF RelayTypeOK, Path
<1>7. ReadInOrderOnce'
  BY <1>5 DEF Accounted, ReadInOrderOnce, Increasing, Path
<1> QED
  BY <1>2, <1>3, <1>5, <1>6, <1>7 DEF Accounted, RelayInv, RelayedAccountedFor

LEMMA RelayInvHolds == RelaySpec => []RelayInv
  BY InitRelayInv, RelayInvStep, PTL DEF RelaySpec

\* The overlay reads the relayed payloads in the order in which they were made
\* and none twice, however often the websocket breaks, is reopened and a write
\* is repeated (send_envelope_with_retry).
THEOREM RelayReadsInOrderOnce == RelaySpec => []ReadInOrderOnce
<1>1. RelayInv => ReadInOrderOnce
  BY DEF RelayInv
<1> QED
  BY <1>1, RelayInvHolds, PTL

\* Every payload counted as relayed is read, readable, or was written to a
\* websocket that broke, in exactly one of these; and the count stays within
\* --max-events.
THEOREM RelayAccountsForEveryPayload == RelaySpec => []RelayedAccountedFor
<1>1. RelayInv => RelayedAccountedFor
  BY DEF RelayInv
<1> QED
  BY <1>1, RelayInvHolds, PTL

=============================================================================
