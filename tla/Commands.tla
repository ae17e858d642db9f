------------------------------ MODULE Commands ------------------------------
(***************************************************************************)
(* src/commands.rs: the commands the game accepts, from the JSON a user      *)
(* gives to the JSON that is written to the socket.                         *)
(*                                                                          *)
(* JSON is [command, data]: data maps the fields that are present to values *)
(* [type, text, num].  A text is a word or, where digits matter, a sequence *)
(* of digits.  data that is missing or no object is the empty function.  A  *)
(* parsed command has the same shape, with fields of types of its own.      *)
(***************************************************************************)
EXTENDS Integers, Sequences, SequencesExt

CONSTANT MaxShortcut   \* u32::MAX

ASSUME ShortcutAssumption == MaxShortcut \in Nat

Word(w)    == [word |-> w, digits |-> <<>>]
Digits(ds) == [word |-> "", digits |-> ds]
NoText     == Word("")

Val(type, text, num) == [type |-> type, text |-> text, num |-> num]
Str(text)   == Val("string", text, 0)
Whole(n)    == Val("integer", NoText, n)
Real(n)     == Val("float", NoText, n)
Bool(b)     == Val("bool", NoText, IF b THEN 1 ELSE 0)
Invalid     == Val("invalid", NoText, 0)

Fields ==
    [ChangePOV |-> {"Focus", "Perspective"}, LoadReplay |-> {"FileName", "Path"},
     SeekReplay |-> {"Frame", "TimeSeconds"}, SetGameSpeed |-> {"Speed"},
     SetHUDVisibility |-> {"bVisible"}, SetMatchPaused |-> {"bPaused"}]

Perspectives == {"Fly", "SoftAttach", "HardAttach", "PlayerView", "AutoCam",
                 "Camera_Director"}

\* The number that digits write, by their first i digits.
NumberOfFirst(digits) ==
    LET number[i \in 0..Len(digits)] == IF i = 0 THEN 0 ELSE 10 * number[i - 1] + digits[i]
    IN  number

Number(digits) == NumberOfFirst(digits)[Len(digits)]

DecimalUpTo(n) ==
    LET decimal[k \in 0..n] == IF k < 10 THEN <<k>> ELSE Append(decimal[k \div 10], k % 10)
    IN  decimal

Decimal(n) == DecimalUpTo(n)[n]

\* PovFocus::from_wire: the ball, or digits that fit a u32.
FocusFromWire(v) ==
    IF v = Str(Word("Ball")) THEN Val("ball", NoText, 0)
    ELSE IF /\ v.type = "string" /\ v.text.digits # <<>>
            /\ Number(v.text.digits) <= MaxShortcut
         THEN Val("player", NoText, Number(v.text.digits))
         ELSE Invalid

FocusToWire(v) ==
    Str(IF v.type = "ball" THEN Word("Ball") ELSE Digits(Decimal(v.num)))

\* What a field may hold; JSON null is no value of any of them.
ReadField(key, v) ==
    CASE key = "Focus" -> FocusFromWire(v)
      [] key = "Perspective" ->
            IF v.type = "string" /\ v.text.word \in Perspectives THEN v ELSE Invalid
      [] key \in {"FileName", "Path"} -> IF v.type = "string" THEN v ELSE Invalid
      [] key = "Frame" -> IF v.type = "integer" /\ v.num >= 0 THEN v ELSE Invalid
      [] key \in {"TimeSeconds", "Speed"} ->
            IF v.type \in {"integer", "float"} THEN Real(v.num) ELSE Invalid
      [] OTHER -> IF v.type = "bool" THEN v ELSE Invalid

\* The last two commands have one field, which from_value requires.
Validate(c) ==
    LET has(key) == key \in DOMAIN c.data
    IN  CASE c.command = "LoadReplay" -> \E key \in DOMAIN c.data : c.data[key].text # NoText
          [] c.command = "SeekReplay" ->
                /\ DOMAIN c.data # {}
                /\ has("TimeSeconds") => c.data["TimeSeconds"].num >= 0
          [] c.command = "SetGameSpeed" -> has("Speed") /\ c.data["Speed"].num >= 0
          [] OTHER -> DOMAIN c.data # {}

\* A JSON value, and JSON with a command's name and fields.
IsJsonValue(v) ==
    /\ v = Val(v.type, [word |-> v.text.word, digits |-> v.text.digits], v.num)
    /\ v.type \in {"null", "bool", "integer", "float", "string", "array", "object"}
    /\ v.text.digits \in Seq(0..9) /\ v.num \in Int
    /\ IF v.type = "string" THEN v.num = 0 ELSE v.text = NoText
    /\ v.text.digits # <<>> => v.text.word = ""

IsJsonCommand(json) ==
    \A key \in DOMAIN json.data : IsJsonValue(json.data[key])

Parsed(json) ==
    [command |-> json.command,
     data |-> [key \in DOMAIN json.data \cap Fields[json.command] |->
                  ReadField(key, json.data[key])]]

\* from_value: keys it does not know are left out.
Accepted(json) ==
    /\ json.command \in DOMAIN Fields
    /\ \A key \in DOMAIN Parsed(json).data : Parsed(json).data[key] # Invalid
    /\ Validate(Parsed(json))

\* Faulty variant: zeros are left out with the blank strings.
WritesFieldNotZero(key, v) ==
    /\ key \in {"FileName", "Path"} => v.text # NoText
    /\ v.type \in {"integer", "float"} => v.num # 0

WritesField(key, v) == key \in {"FileName", "Path"} => v.text # NoText

ToValue(c) ==
    [command |-> c.command,
     data |-> [key \in {k \in DOMAIN c.data : WritesField(k, c.data[k])} |->
                  IF key = "Focus" THEN FocusToWire(c.data[key]) ELSE c.data[key]]]

\* What goes to the socket for the JSON a user asked with.
Sent(json) == [asked |-> json, wire |-> ToValue(Parsed(json))]

=============================================================================
