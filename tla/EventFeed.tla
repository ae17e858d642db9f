----------------------------- MODULE EventFeed -----------------------------
(***************************************************************************)
(* What RocketLeagueStatsClient promises the program that reads events: per *)
(* connection a FIFO of the messages the game has finished writing, and,    *)
(* once that is empty, how the connection ended.  Bytes, buffer, partial    *)
(* reads and cancelled calls do not show.  A message that is no event is    *)
(* handed over as an error and the one after it can still be read.  A new   *)
(* connection forgets what the old one still held.                          *)
(***************************************************************************)
EXTENDS Naturals, Sequences

CONSTANTS Value,  \* messages the game may write
          Odd     \* those of them that are JSON but no event

VARIABLES line,     \* number of the connection, 0 before the first
          ending,   \* "open", or how it ended: "closed" by the game, "bad"
                    \* text (not JSON) at the front, or "reset"
          pending,  \* messages written and not handed over
          handed,   \* messages taken, oldest first
          answer    \* last answer of a call on this connection: "none" yet,
                    \* a "value", "closed" (Ok(None)) or an "error"

feedVars == <<line, ending, pending, handed, answer>>

Init == /\ line = 0 /\ ending = "closed"
        /\ pending = <<>> /\ handed = <<>> /\ answer = "none"

(***************************************************************************)
(* The game.                                                                *)
(***************************************************************************)
Write(v) ==
    /\ line > 0 /\ ending = "open"
    /\ pending' = Append(pending, v)
    /\ UNCHANGED <<line, ending, handed, answer>>

\* The connection ends behind what was written; text that is not JSON ends it
\* as well, for nothing after it can be read.
Ends(how) ==
    /\ line > 0 /\ ending = "open"
    /\ how \in {"closed", "bad"}
    /\ ending' = how
    /\ UNCHANGED <<line, pending, handed, answer>>

\* A reset may take with it the newest of what was written.
Resets ==
    /\ line > 0 /\ ending # "reset"
    /\ ending' = "reset"
    /\ \E n \in 0..Len(pending) : pending' = SubSeq(pending, 1, n)
    /\ UNCHANGED <<line, handed, answer>>

(***************************************************************************)
(* The program's calls.                                                     *)
(***************************************************************************)
HandOver ==
    /\ pending # <<>>
    /\ handed' = Append(handed, Head(pending))
    /\ pending' = Tail(pending)
    /\ answer' = IF Head(pending) \in Odd THEN "error" ELSE "value"
    /\ UNCHANGED <<line, ending>>

\* A filtered call goes past an event it rejects without answering.
Skip ==
    /\ pending # <<>> /\ Head(pending) \notin Odd
    /\ handed' = Append(handed, Head(pending))
    /\ pending' = Tail(pending)
    /\ UNCHANGED <<line, ending, answer>>

AnswerClosed ==
    /\ pending = <<>> /\ ending = "closed"
    /\ answer' = "closed"
    /\ UNCHANGED <<line, ending, pending, handed>>

AnswerError ==
    /\ pending = <<>> /\ ending \in {"bad", "reset"}
    /\ answer' = "error"
    /\ UNCHANGED <<line, ending, pending, handed>>

Renew ==
    /\ line' = line + 1
    /\ ending' = "open"
    /\ pending' = <<>>
    /\ answer' = "none"
    /\ UNCHANGED handed

(***************************************************************************)
(* The specification.                                                       *)
(***************************************************************************)
Game == (\E v \in Value : Write(v)) \/ (\E how \in {"closed", "bad"} : Ends(how)) \/ Resets

Next == Game \/ HandOver \/ Skip \/ AnswerClosed \/ AnswerError \/ Renew

Spec == Init /\ [][Next]_feedVars

=============================================================================
