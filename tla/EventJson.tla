----------------------------- MODULE EventJson -----------------------------
(***************************************************************************)
(* Messages of the game as JSON, what src/events.rs reads in them and what  *)
(* it writes back, and the event kinds a user names on a command line.      *)
(*                                                                          *)
(* A message is [keys, name, data].  keys says how the two keys of the      *)
(* envelope are spelled: "Event" as the game does, "event" as the library   *)
(* writes them, or "none" when one is missing or is no string.  data is a   *)
(* body inside wraps strings: the game writes the data of an event as an    *)
(* object or as a string that holds the object's JSON text.  A body is an   *)
(* "object" with its match guid, "other" JSON, or "text" that is no JSON;    *)
(* whole says that an object has the locations its struct has no default    *)
(* for.  The other fields of a body are copied through and left out.        *)
(***************************************************************************)
EXTENDS Integers, Sequences, FiniteSetsExt

KnownKinds ==
    {"UpdateState", "BallHit", "BoostPickup", "ClockUpdatedSeconds",
     "CountdownBegin", "CrossbarHit", "GoalReplayEnd", "GoalReplayStart",
     "GoalReplayWillEnd", "GoalScored", "MatchCreated", "MatchInitialized",
     "MatchDestroyed", "MatchEnded", "MatchPaused", "MatchUnpaused",
     "PlayerJoined", "PlayerLeft", "PodiumStart", "ReplayCreated",
     "RoundStarted", "StatfeedEvent"}

\* Names of earlier game versions.
OldName == [ReplayEnd |-> "GoalReplayEnd", ReplayStart |-> "GoalReplayStart",
            ReplayWillEnd |-> "GoalReplayWillEnd"]

\* Faulty variant: the names of earlier versions are forgotten.
KindOfNameToday(name) == IF name \in KnownKinds THEN name ELSE "Unknown"

KindOfName(name) ==
    IF name \in DOMAIN OldName THEN OldName[name]
    ELSE IF name \in KnownKinds THEN name ELSE "Unknown"

\* Structs with a Vector3 that has no default.
NeedsLocation == {"BallHit", "CrossbarHit", "GoalScored"}

Body(type, guid, whole) == [type |-> type, guid |-> guid, whole |-> whole]
NoBody == Body("other", 0, FALSE)
NotAnEvent == [kind |-> "none", name |-> "none", data |-> [wraps |-> 0, body |-> NoBody]]

\* One string around the data is taken off, whatever the event.
NormalizeEventData(data) ==
    IF data.wraps = 0 THEN data ELSE [data EXCEPT !.wraps = @ - 1]

IsNotJson(data) == data.wraps = 1 /\ data.body.type = "text"

\* from_value into the struct of the kind.
FitsKind(data, kind) ==
    /\ data.wraps = 0 /\ data.body.type = "object"
    /\ kind \in NeedsLocation => data.body.whole

\* An unknown event keeps its own name and any data; a known one is read under
\* its present name.
ParseStatsEvent(json) ==
    LET kind == KindOfName(json.name)
        data == NormalizeEventData(json.data)
    IN  IF \/ json.keys = "none"
           \/ IsNotJson(json.data)
           \/ kind # "Unknown" /\ ~FitsKind(data, kind)
        THEN NotAnEvent
        ELSE [kind |-> kind, name |-> IF kind = "Unknown" THEN json.name ELSE kind,
              data |-> data]

StatsEventToValue(event) == [keys |-> "event", name |-> event.name, data |-> event.data]

(***************************************************************************)
(* What the game writes, in its own terms: which JSON means which event,    *)
(* and which means none.  Data in a string inside a string, under a name    *)
(* the library does not know, is neither: the game writes no such thing.    *)
(***************************************************************************)
IsMessage(json) ==
    /\ json = [keys |-> json.keys, name |-> json.name,
               data |-> [wraps |-> json.data.wraps, body |-> json.data.body]]
    /\ json.keys \in {"Event", "event", "none"} /\ json.data.wraps \in Nat

\* An event under its name, or one of an earlier version, with its data as an
\* object or in a string.
IsWriting(json, event) ==
    /\ json.keys # "none" /\ json.data.wraps \in 0..1
    /\ event = [kind |-> event.kind, name |-> event.name,
                data |-> [wraps |-> 0, body |-> json.data.body]]
    /\ \/ /\ event.kind \in KnownKinds /\ event.name = event.kind
          /\ \/ json.name = event.kind
             \/ json.name \in DOMAIN OldName /\ OldName[json.name] = event.kind
          /\ json.data.body.type = "object"
          /\ event.kind \in NeedsLocation => json.data.body.whole
       \/ /\ event.kind = "Unknown" /\ event.name = json.name
          /\ json.name \notin KnownKinds \cup DOMAIN OldName
          /\ json.data.body.type # "text"

IsNoEvent(json) ==
    \/ json.keys = "none"
    \/ json.data.wraps = 1 /\ json.data.body.type = "text"
    \/ /\ json.name \in KnownKinds \cup DOMAIN OldName
       /\ \/ json.data.wraps > 1 \/ json.data.body.type # "object"
          \/ json.name \in NeedsLocation /\ ~json.data.body.whole

\* A text with what its writer meant by it.
IsMeant(m) ==
    /\ IsMessage(m.json)
    /\ IF m.form # "json" \/ IsNoEvent(m.json) THEN m.meant = NotAnEvent
                                              ELSE IsWriting(m.json, m.meant)

(***************************************************************************)
(* The kinds a user asks for.                                               *)
(***************************************************************************)
KindOfToken ==
    [update_state |-> "UpdateState", update |-> "UpdateState",
     state |-> "UpdateState", tick |-> "UpdateState",
     ball_hit |-> "BallHit", ballhit |-> "BallHit",
     boost_pickup |-> "BoostPickup", boost |-> "BoostPickup",
     clock_updated_seconds |-> "ClockUpdatedSeconds", clock |-> "ClockUpdatedSeconds",
     countdown_begin |-> "CountdownBegin", countdown |-> "CountdownBegin",
     crossbar_hit |-> "CrossbarHit", crossbar |-> "CrossbarHit",
     goal_replay_end |-> "GoalReplayEnd", goal_replay_start |-> "GoalReplayStart",
     goal_replay_will_end |-> "GoalReplayWillEnd",
     goal_scored |-> "GoalScored", goal |-> "GoalScored",
     match_created |-> "MatchCreated", match_initialized |-> "MatchInitialized",
     match_destroyed |-> "MatchDestroyed",
     match_ended |-> "MatchEnded", ended |-> "MatchEnded",
     match_paused |-> "MatchPaused", paused |-> "MatchPaused", pause |-> "MatchPaused",
     match_unpaused |-> "MatchUnpaused", unpaused |-> "MatchUnpaused",
     unpause |-> "MatchUnpaused",
     player_joined |-> "PlayerJoined", joined |-> "PlayerJoined",
     player_left |-> "PlayerLeft", left |-> "PlayerLeft",
     podium_start |-> "PodiumStart", replay_created |-> "ReplayCreated",
     round_started |-> "RoundStarted", round |-> "RoundStarted",
     statfeed_event |-> "StatfeedEvent", statfeed |-> "StatfeedEvent",
     unknown |-> "Unknown"]

BadTokens(tokens) == \E i \in DOMAIN tokens : tokens[i] \notin DOMAIN KindOfToken \cup {"all"}

\* rl_events: "all" clears what was asked for before it.
ParseEventFilterValue(tokens) ==
    LET cleared == Max({0} \cup {i \in DOMAIN tokens : tokens[i] = "all"})
    IN  {KindOfToken[tokens[i]] : i \in cleared + 1 .. Len(tokens)}

\* The Python bindings: "all" says nothing.
BuildFilter(tokens) ==
    {KindOfToken[tokens[i]] : i \in {j \in DOMAIN tokens : tokens[j] # "all"}}

\* What a user asks for with tokens: the kinds named after the last "all", and
\* in Python the kinds named.
AskedOnCommandLine(tokens) ==
    {KindOfToken[tokens[i]] :
        i \in {i \in DOMAIN tokens : \A j \in DOMAIN tokens : tokens[j] = "all" => j < i}}

AskedInPython(tokens) ==
    {KindOfToken[token] : token \in {tokens[i] : i \in DOMAIN tokens} \ {"all"}}

\* EventFilter::matches with kinds only; no kinds ask for all.
Wants(kinds, event) == kinds = {} \/ event.kind \in kinds

=============================================================================
