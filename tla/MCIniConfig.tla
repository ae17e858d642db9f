---------------------------- MODULE MCIniConfig ----------------------------
EXTENDS IniConfig

Line(key, value) == [key |-> key, value |-> value, ok |-> TRUE]
Unparsable(key) == [key |-> key, value |-> 0, ok |-> FALSE]

Header == Line("other", 1)

\* The file the code writes: header, three commented settings.
TheTemplate ==
    <<Header, Blank, Line("other", 2), Line("Port", 49123), Blank, Line("other", 3),
      Line("WebPort", 49124), Blank, Line("other", 4), Line("PacketSendRate", 600000)>>

LineKinds ==
    {Header, Blank,
     Line("Port", 0), Line("Port", 50000), Line("Port", 49124), Unparsable("Port"),
     Line("WebPort", 0), Line("WebPort", 49123),
     Line("PacketSendRate", 0), Line("PacketSendRate", 2000000),
     Unparsable("PacketSendRate")}

\* Every file of at most two lines after the header, in each order.
AllFiles ==
    {Absent, <<>>} \cup {<<Header>> \o s : s \in BoundedSeq(LineKinds, 2)}

Rates == {-10000, 0, 4, 300000, 2000000}

AllOptions ==
    [ini : BOOLEAN, override : {None, 0, 49124, 50001}, auto : BOOLEAN,
     only_when_zero : BOOLEAN, rate : Rates]

\* For two clients: a few files and options that write in different ways.
FewFiles ==
    {Absent, <<>>,
     <<Header, Line("Port", 50000), Line("PacketSendRate", 0)>>,
     <<Line("PacketSendRate", 300000), Header>>,
     <<Unparsable("Port"), Header, Unparsable("PacketSendRate")>>}

FewOptions ==
    [ini : {TRUE}, override : {None, 50001}, auto : BOOLEAN,
     only_when_zero : BOOLEAN, rate : {300000}]

\* One program with every choice of options and file, and two that share one.
OneProgram ==
    {[file |-> f, opts |-> [d \in Clients |-> o], programs |-> {c}] :
        f \in AllFiles, o \in AllOptions, c \in {CHOOSE d \in Clients : TRUE}}

TwoPrograms ==
    {[file |-> f, opts |-> os, programs |-> Clients] :
        f \in FewFiles, os \in [Clients -> FewOptions]}

OneOrTwoPrograms == OneProgram \cup TwoPrograms

=============================================================================
