----------------------------- MODULE IniConfig -----------------------------
(***************************************************************************)
(* prepare_connection_config (src/config.rs): the port, web port and packet *)
(* rate of a connection, taken from the options and, when one is named, an  *)
(* ini file that is created and corrected on the way.                       *)
(*                                                                          *)
(* The programs of the repository may be started together with the same     *)
(* file, and the file is written in place, so the clients here share one    *)
(* file: a write truncates it in one step and fills it in another.          *)
(*                                                                          *)
(* A line is a record [key, value, ok]; ok says that the value parses as    *)
(* the key's type.  Comments, section headers and blank lines have the key  *)
(* "other", with a value that tells them apart; 0 is the blank line.  Rates *)
(* are in units of 0.0001, ports are numbers.                               *)
(***************************************************************************)
EXTENDS Integers, Sequences, SequencesExt, Selections

CONSTANTS Clients,      \* programs that share the file
          Starts,       \* bound: the programs started, their ClientOptions and
                        \* what the file holds, [programs, opts, file]
          Runs,         \* bound: times each client prepares its connection
          DefaultPort, DefaultWebPort, MaxRate,
          Template      \* DEFAULT_INI_TEMPLATE

ASSUME IniAssumption ==
    /\ Runs \in Nat
    /\ DefaultPort \in Nat \ {0} /\ DefaultWebPort \in Nat \ {0}
    /\ MaxRate \in Nat

VARIABLES file,     \* lines of the file, or Absent
          opts,     \* options of each client
          pc,       \* where each client is
          seen,     \* the lines it has read
          result,   \* what its last run returned
          previous, \* ghost: what the run before returned
          runs,     \* runs it has begun
          initial,  \* ghost: the file before any client ran
          torn      \* ghost: a write was seen, cut or crossed half way

vars == <<file, opts, pc, seen, result, previous, runs, initial, torn>>

\* The absent number; no line holds the rate -0.0001 that it would be.
None == -1

Keys    == {"Port", "WebPort", "PacketSendRate", "other"}
Lines   == [key : Keys, value : Int \ {None}, ok : BOOLEAN]
Options == [ini : BOOLEAN, override : Nat \cup {None}, auto : BOOLEAN,
            only_when_zero : BOOLEAN, rate : Int]

Absent == <<[key |-> "absent", value |-> 0, ok |-> FALSE]>>
Blank == [key |-> "other", value |-> 0, ok |-> TRUE]

ASSUME FilesAssumption ==
    /\ Template \in Seq(Lines)
    /\ \A s \in Starts : /\ s.file \in {Absent} \cup Seq(Lines)
                         /\ s.opts \in [Clients -> Options]
                         /\ s.programs \subseteq Clients

NoResult == [kind |-> "none", port |-> 0, web_port |-> 0, rate |-> 0, mutated |-> FALSE]
Failed(kind) == [NoResult EXCEPT !.kind = kind]

(***************************************************************************)
(* The text of the file.                                                    *)
(***************************************************************************)
Least(a, b) == IF a <= b THEN a ELSE b

Clamp(rate) == IF rate < 0 THEN 0 ELSE Least(rate, MaxRate)

\* Three decimals.
Formatted(rate) == ((rate + 5) \div 10) * 10

\* Only the first line of a key counts, also when its value does not parse.
Find(lines, key) ==
    LET those == {i \in DOMAIN lines : lines[i].key = key}
    IN IF those = {} \/ ~lines[Min(those)].ok THEN None ELSE lines[Min(those)].value

\* Faulty variant: a line is added although the key has one.
UpsertAdds(lines, key, value) ==
    Append(lines, [key |-> key, value |-> value, ok |-> TRUE])

\* Every line of the key is replaced; without one, a line is added at the end.
Upsert(lines, key, value) ==
    LET new == [key |-> key, value |-> value, ok |-> TRUE]
    IN IF \E i \in DOMAIN lines : lines[i].key = key
       THEN [i \in DOMAIN lines |-> IF lines[i].key = key THEN new ELSE lines[i]]
       ELSE IF lines = <<>> \/ Last(lines) = Blank
            THEN Append(lines, new)
            ELSE lines \o <<Blank, new>>

(***************************************************************************)
(* prepare_connection_config between reading the file and writing it.       *)
(***************************************************************************)
\* Faulty variant: the override is saved in the file.
PortMissingOrOverridden(lines, o) ==
    o.override # None \/ Find(lines, "Port") \in {None, 0}

PortMissing(lines, o) == o.override = None /\ Find(lines, "Port") \in {None, 0}

RateMissing(lines, o) ==
    o.auto /\ (o.only_when_zero => Find(lines, "PacketSendRate") <= 0)

Mutated(lines, o) == PortMissing(lines, o) \/ RateMissing(lines, o)

Corrected(lines, o) ==
    LET a == IF PortMissing(lines, o) THEN Upsert(lines, "Port", DefaultPort) ELSE lines
    IN IF RateMissing(lines, o)
       THEN Upsert(a, "PacketSendRate", Formatted(Clamp(o.rate)))
       ELSE a

Conflicts(port, web_port) == web_port # 0 /\ web_port = port

Returned(lines, o) ==
    LET override == IF o.override = None THEN DefaultPort ELSE o.override
        found == Find(lines, "Port")
        port == IF o.override = None /\ found \notin {None, 0} THEN found ELSE override
        new == Corrected(lines, o)
        web == Find(new, "WebPort")
        rate == Find(new, "PacketSendRate")
        web_port == IF web = None THEN DefaultWebPort ELSE web
    IN IF Conflicts(port, web_port)
       THEN Failed("conflict")
       ELSE [kind |-> "ok", port |-> port, web_port |-> web_port,
             rate |-> Clamp(IF rate = None THEN o.rate ELSE rate),
             mutated |-> Mutated(lines, o)]

ReturnedWithoutFile(o) ==
    LET port == IF o.override = None THEN DefaultPort ELSE o.override
    IN IF Conflicts(port, DefaultWebPort)
       THEN Failed("conflict")
       ELSE [kind |-> "ok", port |-> port, web_port |-> DefaultWebPort,
             rate |-> Clamp(o.rate), mutated |-> FALSE]

(***************************************************************************)
(* The steps of a client.                                                   *)
(***************************************************************************)
MidWrite(c) == pc[c] \in {"template", "fill"}

OthersMidWrite(c) == \E d \in Clients \ {c} : MidWrite(d)

Moves(c, here, there) == pc[c] = here /\ pc' = [pc EXCEPT ![c] = there]

Returns(c, r) == pc' = [pc EXCEPT ![c] = "idle"] /\ result' = [result EXCEPT ![c] = r]

\* Without an ini path nothing is read or written.
Begins(c) ==
    /\ pc[c] = "idle" /\ runs[c] < Runs
    /\ runs' = [runs EXCEPT ![c] = @ + 1]
    /\ previous' = [previous EXCEPT ![c] = result[c]]
    /\ IF opts[c].ini
       THEN pc' = [pc EXCEPT ![c] = "exists"] /\ result' = [result EXCEPT ![c] = NoResult]
       ELSE Returns(c, ReturnedWithoutFile(opts[c]))
    /\ UNCHANGED <<file, opts, seen, initial, torn>>

\* ensure_ini_file_exists
ChecksExistence(c) ==
    /\ Moves(c, "exists", IF file = Absent THEN "create" ELSE "read")
    /\ UNCHANGED <<file, opts, seen, result, previous, runs, initial, torn>>

Creates(c) ==
    /\ Moves(c, "create", "template")
    /\ file' = <<>>
    /\ torn' = (torn \/ OthersMidWrite(c))
    /\ UNCHANGED <<opts, seen, result, previous, runs, initial>>

FillsTemplate(c) ==
    /\ Moves(c, "template", "read")
    /\ file' = Template
    /\ UNCHANGED <<opts, seen, result, previous, runs, initial, torn>>

\* Faulty variant: a corrected file is written only for the packet rate.
ReadsAndWritesRate(c) ==
    /\ pc[c] = "read"
    /\ seen' = [seen EXCEPT ![c] = file]
    /\ torn' = (torn \/ OthersMidWrite(c))
    /\ IF Mutated(file, opts[c]) /\ opts[c].auto
       THEN pc' = [pc EXCEPT ![c] = "write"] /\ result' = result
       ELSE Returns(c, Returned(file, opts[c]))
    /\ UNCHANGED <<file, opts, previous, runs, initial>>

Reads(c) ==
    /\ pc[c] = "read"
    /\ seen' = [seen EXCEPT ![c] = file]
    /\ torn' = (torn \/ OthersMidWrite(c))
    /\ IF Mutated(file, opts[c])
       THEN pc' = [pc EXCEPT ![c] = "write"] /\ result' = result
       ELSE Returns(c, Returned(file, opts[c]))
    /\ UNCHANGED <<file, opts, previous, runs, initial>>

Truncates(c) ==
    /\ Moves(c, "write", "fill")
    /\ file' = <<>>
    /\ torn' = (torn \/ OthersMidWrite(c))
    /\ UNCHANGED <<opts, seen, result, previous, runs, initial>>

\* The file is written before the ports are compared.
Fills(c) ==
    /\ pc[c] = "fill"
    /\ file' = Corrected(seen[c], opts[c])
    /\ Returns(c, Returned(seen[c], opts[c]))
    /\ UNCHANGED <<opts, seen, previous, runs, initial, torn>>

IoFails(c) ==
    /\ pc[c] \in {"create", "template", "read", "write", "fill"}
    /\ Returns(c, Failed("io"))
    /\ torn' = (torn \/ MidWrite(c))
    /\ UNCHANGED <<file, opts, seen, previous, runs, initial>>

Crashes(c) ==
    /\ pc[c] \notin {"idle", "dead"}
    /\ pc' = [pc EXCEPT ![c] = "dead"]
    /\ torn' = (torn \/ MidWrite(c))
    /\ UNCHANGED <<file, opts, seen, result, previous, runs, initial>>

(***************************************************************************)
(* The specification.                                                       *)
(***************************************************************************)
Init ==
    /\ \E s \in Starts :
         /\ file = s.file /\ initial = s.file
         /\ opts = s.opts
         /\ pc = [c \in Clients |-> IF c \in s.programs THEN "idle" ELSE "dead"]
    /\ seen = [c \in Clients |-> <<>>]
    /\ result = [c \in Clients |-> NoResult]
    /\ previous = [c \in Clients |-> NoResult]
    /\ runs = [c \in Clients |-> 0]
    /\ torn = FALSE

ClientStep(c) ==
    \/ Begins(c) \/ ChecksExistence(c) \/ Creates(c) \/ FillsTemplate(c)
    \/ Reads(c) \/ Truncates(c) \/ Fills(c) \/ IoFails(c) \/ Crashes(c)

Next == \E c \in Clients : ClientStep(c)

Spec == Init /\ [][Next]_vars

-----------------------------------------------------------------------------
(***************************************************************************)
(* Properties.                                                              *)
(***************************************************************************)
Kinds == {"none", "ok", "conflict", "io"}

\* The values the variables may take.
TypeOK ==
    /\ pc \in [Clients -> {"idle", "exists", "create", "template", "read", "write",
                            "fill", "dead"}]
    /\ \A c \in Clients :
         /\ result[c].kind \in Kinds /\ previous[c].kind \in Kinds
         /\ result[c].port \in 0..65535 /\ result[c].web_port \in 0..65535
         /\ result[c].rate \in 0..MaxRate
         /\ runs[c] \in 0..Runs
    /\ torn \in BOOLEAN

\* The runs that got as far as comparing the ports.
Answers == {"ok", "conflict"}

Prepared(c) == pc[c] = "idle" /\ result[c].kind \in Answers

Alone(c) == \A d \in Clients \ {c} : runs[d] = 0

\* The ports the game and the client use with this text.
PortIn(lines, o) == IF o.override = None THEN Find(lines, "Port") ELSE o.override
WebPortIn(lines) ==
    IF Find(lines, "WebPort") = None THEN DefaultWebPort ELSE Find(lines, "WebPort")

\* What a client that has the file to itself is told is what it leaves in the
\* file, and so what the game will use: the port, if no override is given, the
\* web port and the rate.  An error says that the two ports are the same there,
\* also when the port was only just written.
ResultMatchesFile ==
    \A c \in Clients : (Prepared(c) /\ opts[c].ini /\ Alone(c)) =>
        IF Conflicts(PortIn(file, opts[c]), WebPortIn(file))
        THEN result[c].kind = "conflict"
        ELSE /\ result[c].kind = "ok"
             /\ result[c].port = PortIn(file, opts[c])
             /\ result[c].web_port = WebPortIn(file)
             /\ opts[c].auto => Clamp(Find(file, "PacketSendRate")) = result[c].rate

\* What the caller is told, but for the flag that says the file was written.
Answer(r) == <<r.kind, r.port, r.web_port, r.rate>>

\* Preparing once more changes nothing: the answer is the same, an error about
\* the ports as well, and the file is written again only if the options ask for
\* it or for a rate of 0.
RerunAgrees ==
    \A c \in Clients :
        (Prepared(c) /\ opts[c].ini /\ Alone(c) /\ previous[c].kind \in Answers) =>
            /\ Answer(result[c]) = Answer(previous[c])
            /\ result[c].mutated =>
                 /\ opts[c].auto
                 /\ opts[c].only_when_zero => result[c].rate = 0

Settled == \A c \in Clients : ~MidWrite(c)

\* The lines that are neither settings nor blank.
Comments == {l \in Lines : l.key = "other" /\ l.value # 0}

Others(lines) == Keep(lines, Comments)

AtFirst == IF initial = Absent THEN Template ELSE initial

\* The user's port and the lines that are not settings survive every mix of
\* clients with whatever options, unless a write was seen half done, cut short
\* or crossed by another: only the write in place can lose them.
OnlyTornWritesLose ==
    (Settled /\ ~torn /\ file # Absent) =>
        /\ Others(file) = Others(AtFirst)
        /\ Find(AtFirst, "Port") \notin {None, 0} =>
             Find(file, "Port") = Find(AtFirst, "Port")

=============================================================================
