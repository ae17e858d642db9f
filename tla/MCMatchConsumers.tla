--------------------------- MODULE MCMatchConsumers ---------------------------
EXTENDS MatchConsumers

MCNames == {"", "ann", "Ann"}
MCFolded == [n \in MCNames |-> IF n = "Ann" THEN "ann" ELSE n]
MCSeats == 1..2
MCSeatTeam == <<0, 1>>

\* Two players of one name, and one nameless beside one with a name.
Twins == <<"ann", "ann">>
Alone == <<"Ann", "">>
Style(shortcut, boost, name) == [shortcut |-> shortcut, boost |-> boost, name |-> name]
MCStyles == {Style("field", "field", Twins), Style("extra", "flat", Alone),
             Style("both", "car", Twins), Style("none", "none", Twins),
             Style("none", "none", Alone)}

==============================================================================
