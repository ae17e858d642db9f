-------------------------- MODULE MatchConsumers --------------------------
(***************************************************************************)
(* A game that plays matches and two readers of its events: an overlay that *)
(* sees the SOS payloads the broadcaster makes of each event (src/sos.rs)   *)
(* and a PlayerTracker (src/filters.rs).  The readers learn of the game by   *)
(* its events alone, one after the other; what the game itself knows is      *)
(* kept beside, to compare.                                                  *)
(*                                                                           *)
(* The game, the way it writes players, and the overlay are not in src/.     *)
(* They are modelled from the samples in json/, from the tests, and from     *)
(* what the code's comments expect of an overlay ("adopt the real guid").    *)
(***************************************************************************)
EXTENDS MatchEvents

CONSTANTS Seats,        \* players that may join
          SeatTeam,     \* team of each
          Styles,       \* ways of writing, and names: [shortcut, boost, name]
          TrackedName,  \* PlayerTracker::by_name
          MaxMatches,   \* bound: matches played
          MaxScore      \* bound: score of a player, goals of a team

ASSUME SeatsAssumption == /\ Seats \subseteq Nat \ {0}
                          /\ SeatTeam \in [Seats -> 0..1]
                          /\ TrackedName \in Names
ASSUME StylesAssumption ==
    Styles \subseteq [shortcut : {"field", "extra", "both", "none"},
                      boost : {"field", "flat", "car", "none"},
                      name : [Seats -> Names]]
ASSUME MatchBoundsAssumption == MaxMatches \in Nat /\ MaxScore \in Nat

VARIABLES style,     \* the names, and how this game writes players
          match,     \* the match played last, 0 before the first
          live,      \* it has not been destroyed
          score,     \* score of every player in the match
          goals,     \* goals of both teams
          last,      \* the event read last
          told,      \* ghost: what the last tick of this match told
          overlay,   \* what the overlay knows
          latest,    \* PlayerTracker::latest
          out,       \* what the last update_from_event returned
          shown,     \* what a reader of these returns believes
          sighting   \* ghost: the tracked player in the last tick with one

game == <<style, match, live, score, goals>>
tracker == <<latest, out, shown, sighting>>
vars == <<game, last, told, overlay, tracker>>

\* What the tracker returns, what a tick told of the tracked player, and how an
\* event refers to a player: records, which an absent value is none of.
Snapshots == [guid : Nat, name : Names, primary : Seats, team : 0..1, score : Nat,
              boost : Nat \cup {Missing}]
Sightings == [guid : Nat, seat : Seats, score : Nat]
References == [name : Names, team : 0..1, shortcut : Nat, extra : Nat \cup {Missing}]

ASSUME MissingAssumption ==
    /\ Missing \notin Nat /\ Missing \notin Snapshots
    /\ Missing \notin Sightings /\ Missing \notin References

NoTick == [score |-> <<>>, goals |-> [t \in 0..1 |-> 0]]
EmptyOverlay == [guid |-> Missing, players |-> <<>>,
                 teams |-> [t \in 0..1 |-> 0], refs |-> <<>>]

(***************************************************************************)
(* The game's events.  The shortcut of a player is its seat.                *)
(***************************************************************************)
WrittenIf(cond, v) == IF cond THEN v ELSE Missing

PlayerRef(s) ==
    [name |-> style.name[s], team |-> SeatTeam[s],
     shortcut |-> IF style.shortcut \in {"field", "both"} THEN s ELSE 0,
     extra |-> WrittenIf(style.shortcut \in {"extra", "both"}, s)]

\* A scorer or last touch nobody made: the defaults of PlayerRef.
NobodyRef == [name |-> Blank, team |-> 0, shortcut |-> 0, extra |-> Missing]
RefOrNobody(s) == IF s = 0 THEN NobodyRef ELSE PlayerRef(s)

\* A score is also the boost, so that one number tells both.
TickPlayer(s) ==
    [name |-> WrittenIf(style.name[s] # Blank, style.name[s]),
     primary |-> s, team |-> SeatTeam[s],
     shortcut |-> WrittenIf(style.shortcut \in {"field", "both"}, s),
     extra |-> WrittenIf(style.shortcut \in {"extra", "both"}, s),
     score |-> score[s],
     boost |-> WrittenIf(style.boost = "field", score[s]),
     flatBoost |-> WrittenIf(style.boost = "flat", score[s]),
     carBoost |-> WrittenIf(style.boost = "car", score[s])]

Present == DOMAIN score

\* The players and the teams of a tick come in any order, a team may be
\* missing, and the game lists one before the counts of an older one.
Tick(order, teams, target) ==
    [kind |-> "UpdateState", guid |-> match,
     players |-> [i \in DOMAIN order |-> TickPlayer(order[i])],
     teams |-> [i \in DOMAIN teams |-> [num |-> teams[i], score |-> goals[teams[i]]]],
     target |-> IF target = 0 THEN Missing ELSE PlayerRef(target)]

Plain(kind, guid) == [kind |-> kind, guid |-> guid]

(***************************************************************************)
(* The overlay: a new match clears it; a guid is taken while it has none;   *)
(* a tick replaces the tables.                                              *)
(***************************************************************************)
Reads(o, p) ==
    LET base == IF p.event = "game:match_created" THEN EmptyOverlay ELSE o
        tables == IF p.event = "game:update_state" THEN p ELSE base
    IN  IF p.event = "game:match_destroyed" THEN EmptyOverlay
        ELSE [guid |-> FirstOf(base.guid, p.guid), players |-> tables.players,
              teams |-> tables.teams, refs |-> p.refs]

\* An event makes one payload or two.
Overlaid(e) ==
    LET payloads == TranslateStatsEvent(e)
        first == Reads(overlay, payloads[1])
    IN  IF Len(payloads) = 1 THEN first ELSE Reads(first, payloads[2])

(***************************************************************************)
(* PlayerTracker::update_from_event: the first player with the name.        *)
(***************************************************************************)
TrackedIn(e) ==
    IF e.kind # "UpdateState" THEN {}
    ELSE {i \in DOMAIN e.players : EqIgnoreCase(e.players[i].name, TrackedName)}

\* Faulty variant: only a change of the score is news.
IsNewsByScore(snapshot) == latest = Missing \/ latest.score # snapshot.score

IsNews(snapshot) == latest # snapshot

\* A player found is the latest; the snapshot is returned if it is news.
UpdateFromEvent(e) ==
    IF TrackedIn(e) = {}
    THEN out' = Missing /\ UNCHANGED <<latest, shown, sighting>>
    ELSE LET p == e.players[Min(TrackedIn(e))]
             snapshot == Snapshot(e, p)
         IN  /\ out' = IF IsNews(snapshot) THEN snapshot ELSE Missing
             /\ latest' = snapshot
             /\ shown' = FirstOf(out', shown)
             /\ sighting' = [guid |-> e.guid, seat |-> p.primary,
                             score |-> score[p.primary]]

\* Both readers get the event.
Delivers(e) ==
    /\ last' = e
    /\ overlay' = Overlaid(e)
    /\ UpdateFromEvent(e)

(***************************************************************************)
(* The game plays.                                                          *)
(***************************************************************************)
MatchBegins ==
    /\ match < MaxMatches
    /\ match' = match + 1 /\ live' = TRUE
    /\ score' = <<>> /\ goals' = [t \in 0..1 |-> 0]
    /\ told' = NoTick
    /\ \E guid \in {Missing, EmptyGuid, match + 1} : Delivers(Plain("MatchCreated", guid))
    /\ UNCHANGED style

Announces ==
    /\ live
    /\ \E kind \in {"MatchInitialized", "CountdownBegin", "RoundStarted",
                    "GoalReplayStart", "MatchPaused"} :
          Delivers(Plain(kind, match))
    /\ UNCHANGED <<game, told>>

Presence(kind, s) ==
    [kind |-> kind, guid |-> match, name |-> style.name[s], primary |-> s]

Joins(s) ==
    /\ live /\ s \notin Present
    /\ score' = [t \in Present \cup {s} |-> IF t = s THEN 0 ELSE score[t]]
    /\ Delivers(Presence("PlayerJoined", s))
    /\ UNCHANGED <<style, match, live, goals, told>>

Leaves(s) ==
    /\ s \in Present
    /\ score' = Restrict(score, Present \ {s})
    /\ Delivers(Presence("PlayerLeft", s))
    /\ UNCHANGED <<style, match, live, goals, told>>

Ticks ==
    /\ live
    /\ \E order \in SetToSeqs(Present), teams \in {<<>>, <<0, 1>>, <<1, 0>>},
          target \in Present \cup {0} :
          Delivers(Tick(order, teams, target))
    /\ told' = [score |-> score, goals |-> IF last'.teams = <<>> THEN NoTick.goals ELSE goals]
    /\ UNCHANGED game

\* A goal without scorer comes around replays, with or without a last touch;
\* the one who touched the ball last may have left.
Scores ==
    /\ live
    /\ \E scorer, touch \in Seats \cup {0}, assister \in Seats \cup {0} :
          /\ scorer \in Present \cup {0} /\ assister \in Present \cup {0}
          /\ touch = 0 => scorer = 0
          /\ Delivers([kind |-> "GoalScored", guid |-> match,
                       scorer |-> RefOrNobody(scorer), touch |-> RefOrNobody(touch),
                       assister |-> IF assister = 0 THEN Missing ELSE PlayerRef(assister)])
          /\ IF scorer # 0 /\ goals[SeatTeam[scorer]] < MaxScore
             THEN /\ goals' = [goals EXCEPT ![SeatTeam[scorer]] = @ + 1]
                  /\ score' = [score EXCEPT ![scorer] = @ + 1]
             ELSE UNCHANGED <<goals, score>>
    /\ UNCHANGED <<style, match, live, told>>

Touches ==
    /\ \E s \in Present :
          \/ Delivers([kind |-> "BallHit", guid |-> match, players |-> <<PlayerRef(s)>>])
          \/ Delivers([kind |-> "BoostPickup", guid |-> match, player |-> PlayerRef(s)])
          \/ Delivers([kind |-> "CrossbarHit", guid |-> match, touch |-> PlayerRef(s)])
          \/ \E t \in Present \cup {0} :
                Delivers([kind |-> "StatfeedEvent", guid |-> match, main |-> PlayerRef(s),
                          secondary |-> IF t = 0 THEN Missing ELSE PlayerRef(t)])
    /\ UNCHANGED <<game, told>>

MatchEnds ==
    /\ live
    /\ \E winner \in -1..1 :
          Delivers([kind |-> "MatchEnded", guid |-> match, winner |-> winner])
    /\ UNCHANGED <<game, told>>

MatchGoes ==
    /\ live
    /\ live' = FALSE /\ score' = <<>> /\ told' = NoTick
    /\ Delivers(Plain("MatchDestroyed", match))
    /\ UNCHANGED <<style, match, goals>>

Init ==
    /\ style \in Styles /\ match = 0 /\ live = FALSE
    /\ score = <<>> /\ goals = [t \in 0..1 |-> 0]
    /\ last = Plain("None", Missing) /\ told = NoTick /\ overlay = EmptyOverlay
    /\ latest = Missing /\ out = Missing /\ shown = Missing /\ sighting = Missing

Next ==
    \/ MatchBegins \/ Announces \/ Ticks \/ Scores \/ Touches
    \/ MatchEnds \/ MatchGoes
    \/ \E s \in Seats : Joins(s) \/ Leaves(s)

Spec == Init /\ [][Next]_vars

(***************************************************************************)
(* Properties.                                                              *)
(***************************************************************************)
Told == DOMAIN told.score

\* A player of the last tick that has an id of its own: it has a name, and
\* without shortcuts nobody else has it.
Identified(s) ==
    /\ s \in Told /\ style.name[s] # Blank
    /\ style.shortcut # "none" \/ \A t \in Told \ {s} : style.name[t] # style.name[s]

Finds(id, s) == id \in DOMAIN overlay.players /\ overlay.players[id].primary = s

\* The references of the last event, in the order of the payload's.
LastRefs ==
    CASE last.kind = "GoalScored" -> <<last.scorer, last.assister, last.touch>>
      [] last.kind = "BallHit" -> last.players
      [] last.kind = "StatfeedEvent" -> <<last.main, last.secondary>>
      [] last.kind = "UpdateState" -> <<last.target>>
      [] OTHER -> <<>>

\* The values the variables may take.
TypeOK ==
    /\ style \in Styles /\ match \in 0..MaxMatches /\ live \in BOOLEAN
    /\ Present \subseteq Seats /\ \A s \in Present : score[s] \in 0..MaxScore
    /\ goals \in [0..1 -> 0..MaxScore]
    /\ Told \subseteq Seats /\ told.goals \in [0..1 -> 0..MaxScore]
    /\ overlay.guid \in {Missing} \cup 0..MaxMatches
    /\ \A id \in DOMAIN overlay.players : id = NoId \/ id \in Names \X (Seats \cup {0})
    /\ \A x \in {latest, out, shown} :
          x # Missing => x.primary \in Seats /\ Folded[x.name] = Folded[TrackedName]

\* After a tick the overlay's tables are that tick: every player with an id of
\* its own is there with its score and boost, however the game wrote them,
\* nobody else is, and the teams have their goals, in whatever order listed.
OverlayShowsTick ==
    /\ \A s \in Told : Identified(s) =>
          \E id \in DOMAIN overlay.players :
             /\ Finds(id, s)
             /\ overlay.players[id].score = told.score[s]
             /\ overlay.players[id].boost = IF style.boost = "none" THEN 0 ELSE told.score[s]
    /\ \A id \in DOMAIN overlay.players : overlay.players[id].primary \in Told
    /\ overlay.teams = told.goals

\* The ids in goals, hits, statfeed and camera target, which the game writes
\* as references, are those of the table, which it writes as players.  Without
\* shortcuts the target is a bare name, as its test asks.
RefsResolve ==
    \A s \in Told, i \in DOMAIN LastRefs :
       /\ Identified(s) /\ LastRefs[i] = PlayerRef(s)
       /\ last.kind = "UpdateState" => style.shortcut # "none"
       => Finds(overlay.refs[i], s)

\* The overlay never takes an empty guid for the match's, nor keeps an older
\* match's, and has the real one from the first payload that says it.
GuidIsReal ==
    /\ overlay.guid \in {Missing, match}
    /\ live /\ last.guid = match
          /\ last.kind \in DOMAIN SosName \cup {"CountdownBegin", "UpdateState",
                               "BallHit", "StatfeedEvent", "GoalScored"}
       => overlay.guid = match

\* Who only follows the returned snapshots knows what the last tick with the
\* tracked player said, and so does latest().
TrackerIsCurrent ==
    /\ shown = latest
    /\ sighting = Missing <=> shown = Missing
    /\ shown # Missing =>
          /\ shown.guid = sighting.guid /\ shown.primary = sighting.seat
          /\ shown.score = sighting.score
          /\ shown.boost = WrittenIf(style.boost # "none", sighting.score)

\* The players the last event is about, as far as filters.rs looks.
About ==
    {s \in Seats :
        \/ last.kind = "BoostPickup" /\ last.player = PlayerRef(s)
        \/ last.kind = "UpdateState" /\ s \in Told
        \/ last.kind \in {"PlayerJoined", "PlayerLeft"} /\ s = last.primary
        \/ last.kind \in {"GoalScored", "BallHit", "StatfeedEvent"}
             /\ PlayerRef(s) \in Range(LastRefs)}

\* Kinds that carry the players' primary ids.
Identifying == {"UpdateState", "PlayerJoined", "PlayerLeft"}

\* An event about a player, written in any way, passes the filter that asks
\* for its kind, its match, and the player's name (in any case), team and
\* primary id at once.  A filter by name passes nothing else, and neither does
\* one by primary id, which finds nameless players too.  Coming and going has
\* no team, and the references of the other kinds no primary id.
FilterFindsPlayer ==
    /\ \A n \in Names \ {Blank} :
          LET named == {s \in About : Folded[n] = Folded[style.name[s]]}
          IN  /\ \A s \in named :
                    Matches([kinds |-> {last.kind}, name |-> n,
                             primary |-> WrittenIf(last.kind \in Identifying, s),
                             team |-> IF last.kind \in {"PlayerJoined", "PlayerLeft"}
                                      THEN Missing ELSE SeatTeam[s],
                             guid |-> match], last)
              /\ Matches([NoFilter EXCEPT !.name = n], last) => named # {}
    /\ \A s \in Seats : Matches([NoFilter EXCEPT !.primary = s], last)
                          <=> s \in About /\ last.kind \in Identifying

\* What the help text of rl_events says of --player: it matches the events
\* involving the player.  A crossbar hit involves who touched the ball last,
\* as a goal does.
InvolvedEventsPass ==
    \A s \in About \cup {t \in Seats : last.kind = "CrossbarHit" /\ last.touch = PlayerRef(t)} :
       style.name[s] # Blank => Matches([NoFilter EXCEPT !.name = style.name[s]], last)

=============================================================================
