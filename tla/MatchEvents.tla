---------------------------- MODULE MatchEvents ----------------------------
(***************************************************************************)
(* Game events as the client hands them over, and what the library makes of *)
(* one: the SOS payloads of src/sos.rs and the verdict of an EventFilter of *)
(* src/filters.rs.                                                          *)
(*                                                                          *)
(* An event is a record with its kind and the fields of its data that these *)
(* functions read; optional fields hold Missing.  The game has written the  *)
(* shortcut of a player as "Shortcut", as "shortcut" (a key serde leaves in  *)
(* the extra map) or not at all, and the boost at the top level, under       *)
(* another key, or inside a "Car" object.  Ball, colours and locations are   *)
(* left out.                                                                 *)
(***************************************************************************)
EXTENDS Integers, Sequences, FiniteSetsExt, SequencesExt, Functions

CONSTANTS Missing,      \* an absent optional value
          Names,        \* player names
          Blank,        \* the name that trims to nothing
          Folded        \* a name in lower case

ASSUME NamesAssumption == /\ Missing \notin Names /\ Blank \in Names
                          /\ Folded \in [Names -> Names]
                          /\ \A n \in Names : Folded[n] = Folded[Blank] => n = Blank

\* first_i64, first_numeric_i64 and friends: the first key that has a value.
FirstOf(a, b) == IF a # Missing THEN a ELSE b
OrZero(v) == IF v = Missing THEN 0 ELSE v
OrBlank(n) == IF n = Missing THEN Blank ELSE n

(***************************************************************************)
(* src/events.rs: where a player of a tick keeps the boost.                 *)
(***************************************************************************)
EffectiveBoost(p) == FirstOf(p.boost, FirstOf(p.flatBoost, p.carBoost))

(***************************************************************************)
(* src/sos.rs: identifiers, guid, players, teams and payloads.              *)
(***************************************************************************)
NoId == <<>>

FormatPlayerId(name, shortcut) ==
    IF name = Blank THEN NoId ELSE <<name, shortcut>>

\* Faulty variant: a reference has its shortcut in the field only.
PlayerRefShortcutField(r) == IF r.shortcut # 0 THEN r.shortcut ELSE Missing

\* A reference looks into the extra map first, and takes the default 0 of the
\* field for an absent shortcut.
PlayerRefShortcut(r) ==
    FirstOf(r.extra, IF r.shortcut # 0 THEN r.shortcut ELSE Missing)

PlayerRefId(r) == FormatPlayerId(r.name, OrZero(PlayerRefShortcut(r)))

\* The camera's target: an id, or the bare name of something without shortcut.
TargetRefValue(r) ==
    IF PlayerRefShortcut(r) # Missing THEN PlayerRefId(r) ELSE <<r.name>>

\* A player of a tick looks at the field first.
TickPlayerId(p) ==
    FormatPlayerId(OrBlank(p.name), OrZero(FirstOf(p.shortcut, p.extra)))

\* Faulty variant: the empty guid is a guid.
NormalizedMatchGuidRaw(g) == g

\* Guids are numbers, 0 the empty one: it counts as none.
EmptyGuid == 0
NormalizedMatchGuid(g) == IF g = EmptyGuid THEN Missing ELSE g

TranslatePlayer(p) ==
    [name |-> OrBlank(p.name), primary |-> p.primary, team |-> p.team,
     score |-> p.score, boost |-> OrZero(EffectiveBoost(p))]

\* The map is filled in the order of the list: the last of two players with
\* one id stays.
TranslatePlayers(players) ==
    [id \in {TickPlayerId(players[i]) : i \in DOMAIN players} |->
        TranslatePlayer(players[Max({i \in DOMAIN players :
                                        TickPlayerId(players[i]) = id})])]

\* Faulty variant: the teams by their place in the list.
TranslateTeamsByPlace(teams) ==
    [num \in 0..1 |-> IF num + 1 \in DOMAIN teams THEN teams[num + 1].score ELSE 0]

\* Always two entries, blue and orange, whatever the game lists.
TranslateTeams(teams) ==
    [num \in 0..1 |->
        LET listed == {i \in DOMAIN teams : teams[i].num = num}
        IN  IF listed = {} THEN 0 ELSE teams[Max(listed)].score]

\* An SOS payload: its name, its guid (Missing for JSON null), what it says
\* about players (refs) and, for a tick, the tables.
Payload(event, guid, refs) == [event |-> event, guid |-> guid, refs |-> refs]

SosName ==
    [MatchCreated |-> "game:match_created",
     MatchInitialized |-> "game:initialized",
     GoalReplayStart |-> "game:replay_start",
     GoalReplayWillEnd |-> "game:replay_will_end",
     GoalReplayEnd |-> "game:replay_end",
     MatchEnded |-> "game:match_ended",
     PodiumStart |-> "game:podium_start",
     MatchDestroyed |-> "game:match_destroyed",
     ReplayCreated |-> "game:replay_created"]

\* One event becomes one payload, a countdown two; a kind SOS does not know is
\* passed through under its own name with its data untouched.
TranslateStatsEvent(e) ==
    LET guid == NormalizedMatchGuid(e.guid)
    IN  CASE e.kind \in DOMAIN SosName -> <<Payload(SosName[e.kind], guid, <<>>)>>
          [] e.kind = "CountdownBegin" ->
                << Payload("game:pre_countdown_begin", guid, <<>>),
                   Payload("game:post_countdown_begin", guid, <<>>) >>
          [] e.kind = "UpdateState" ->
                << [event |-> "game:update_state", guid |-> guid,
                    refs |-> << IF e.target = Missing THEN NoId
                                ELSE TargetRefValue(e.target) >>,
                    players |-> TranslatePlayers(e.players),
                    teams |-> TranslateTeams(e.teams)] >>
          [] e.kind = "BallHit" ->
                << Payload("game:ball_hit", guid,
                    << IF e.players = <<>> THEN NoId
                       ELSE PlayerRefId(Head(e.players)) >>) >>
          [] e.kind = "StatfeedEvent" ->
                << Payload("game:statfeed_event", guid,
                    << PlayerRefId(e.main),
                       IF e.secondary = Missing THEN NoId
                       ELSE PlayerRefId(e.secondary) >>) >>
          [] e.kind = "GoalScored" ->
                << Payload("game:goal_scored", guid,
                    << PlayerRefId(e.scorer),
                       IF e.assister = Missing THEN NoId
                       ELSE PlayerRefId(e.assister),
                       PlayerRefId(e.touch) >>) >>
          [] e.kind = "RoundStarted" ->
                << Payload("game:round_started_go", Missing, <<>>) >>
          [] OTHER -> << Payload(e.kind, Missing, <<>>) >>

(***************************************************************************)
(* src/filters.rs: EventFilter.  A criterion that is Missing is not set.    *)
(***************************************************************************)
NoFilter == [kinds |-> {}, name |-> Missing, primary |-> Missing,
             team |-> Missing, guid |-> Missing]

EqIgnoreCase(name, expected) == name # Missing /\ Folded[name] = Folded[expected]

\* Faulty variant: the last touch of a goal is not looked at.
FilterRefsNoTouch(e) ==
    CASE e.kind = "GoalScored" -> {e.scorer} \cup ({e.assister} \ {Missing})
      [] e.kind = "BallHit" -> Range(e.players)
      [] e.kind = "BoostPickup" -> {e.player}
      [] e.kind = "StatfeedEvent" -> {e.main} \cup ({e.secondary} \ {Missing})
      [] OTHER -> {}

\* The player references the filters look at.  The last touch of a crossbar
\* hit is not among them.
FilterRefs(e) ==
    CASE e.kind = "GoalScored" -> {e.scorer, e.touch} \cup ({e.assister} \ {Missing})
      [] e.kind = "BallHit" -> Range(e.players)
      [] e.kind = "BoostPickup" -> {e.player}
      [] e.kind = "StatfeedEvent" -> {e.main} \cup ({e.secondary} \ {Missing})
      [] OTHER -> {}

EventHasPlayerName(e, name) ==
    CASE e.kind = "UpdateState" ->
            \E p \in Range(e.players) : EqIgnoreCase(p.name, name)
      [] e.kind \in {"PlayerJoined", "PlayerLeft"} -> EqIgnoreCase(e.name, name)
      [] OTHER -> \E r \in FilterRefs(e) : EqIgnoreCase(r.name, name)

EventHasPlayerPrimaryId(e, primary) ==
    CASE e.kind = "UpdateState" -> \E p \in Range(e.players) : p.primary = primary
      [] e.kind \in {"PlayerJoined", "PlayerLeft"} -> e.primary = primary
      [] OTHER -> FALSE

EventHasTeam(e, team) ==
    CASE e.kind = "UpdateState" -> \/ \E p \in Range(e.players) : p.team = team
                                   \/ \E t \in Range(e.teams) : t.num = team
      [] e.kind = "MatchEnded" -> e.winner = team
      [] OTHER -> \E r \in FilterRefs(e) : r.team = team

Matches(f, e) ==
    /\ f.kinds = {} \/ e.kind \in f.kinds
    /\ f.guid # Missing => e.guid = f.guid
    /\ f.team # Missing => EventHasTeam(e, f.team)
    /\ f.name # Missing => EventHasPlayerName(e, f.name)
    /\ f.primary # Missing => EventHasPlayerPrimaryId(e, f.primary)

(***************************************************************************)
(* src/filters.rs: what PlayerTracker keeps of a tick.                      *)
(***************************************************************************)
Snapshot(e, p) ==
    [guid |-> e.guid, name |-> p.name, primary |-> p.primary, team |-> p.team,
     score |-> p.score, boost |-> EffectiveBoost(p)]

=============================================================================
