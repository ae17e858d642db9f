-------------------------- MODULE IniConfigProofs --------------------------
(***************************************************************************)
(* Proofs about IniConfig, for every set of programs, options and files,    *)
(* every number of runs, and every template and default port.               *)
(***************************************************************************)
EXTENDS IniConfig, DataLemmas

(***************************************************************************)
(* The text of the file: which line counts, and what an upsert changes.     *)
(***************************************************************************)
LEMMA LineTypes ==
    ASSUME NEW lines \in Seq(Lines)
    PROVE  /\ DOMAIN lines = 1..Len(lines) /\ Len(lines) \in Nat
           /\ \A i \in DOMAIN lines : /\ lines[i] \in Lines /\ lines[i].key \in Keys
                                      /\ lines[i].value \in Int \ {None}
<1>1. DOMAIN lines = 1..Len(lines) /\ Len(lines) \in Nat
  BY LenProperties
<1>2. ASSUME NEW i \in DOMAIN lines
      PROVE  lines[i] \in Lines /\ lines[i].key \in Keys /\ lines[i].value \in Int \ {None}
  <2>1. lines[i] \in Lines
    BY <1>1, ElementOfSeq
  <2> QED
    BY <2>1 DEF Lines
<1> QED
  BY <1>1, <1>2

\* The first line of a key is found, or none.
LEMMA FindFirst ==
    ASSUME NEW lines \in Seq(Lines), NEW key, NEW i \in DOMAIN lines, lines[i].key = key,
           \A j \in DOMAIN lines : lines[j].key = key => i <= j
    PROVE  Find(lines, key) = IF lines[i].ok THEN lines[i].value ELSE None
<1> DEFINE those == {j \in DOMAIN lines : lines[j].key = key}
<1>1. those \in SUBSET Nat /\ i \in those /\ i \in Nat
  BY LineTypes
<1>2. \A j \in those : i <= j
  OBVIOUS
<1>3. PICK T : T = those
  OBVIOUS
<1>4. Min(T) = i
  <2>1. Min(T) \in T /\ \A j \in T : Min(T) <= j
    BY <1>1, <1>2, <1>3 DEF Min
  <2>2. Min(T) <= i /\ i <= Min(T) /\ Min(T) \in Nat
    BY <1>1, <1>2, <1>3, <2>1
  <2> QED
    BY <1>1, <2>2
<1>5. those # {} /\ Min(those) = i
  BY <1>1, <1>3, <1>4
<1> QED
  BY <1>5 DEF Find

LEMMA FindNothing ==
    ASSUME NEW lines, NEW key, \A i \in DOMAIN lines : lines[i].key # key
    PROVE  Find(lines, key) = None
  BY DEF Find

LEMMA FirstExists ==
    ASSUME NEW lines \in Seq(Lines), NEW key, NEW k \in DOMAIN lines, lines[k].key = key
    PROVE  \E i \in DOMAIN lines : /\ lines[i].key = key
                                   /\ \A j \in DOMAIN lines : lines[j].key = key => i <= j
<1>1. PICK T : T = {j \in DOMAIN lines : lines[j].key = key}
  OBVIOUS
<1>2. T \in SUBSET Nat /\ T # {}
  BY <1>1, LineTypes
<1>3. PICK i \in T : \A j \in T : i <= j
  BY <1>2, LeastNat
<1> QED
  BY <1>1, <1>3

\* What is found in two texts with the same first line of a key is the same.
LEMMA FindAgrees ==
    ASSUME NEW lines \in Seq(Lines), NEW new \in Seq(Lines), NEW key,
           Len(lines) <= Len(new),
           \A i \in DOMAIN lines : /\ lines[i].key = key <=> new[i].key = key
                                   /\ lines[i].key = key => new[i] = lines[i],
           \A i \in DOMAIN new : i > Len(lines) => new[i].key # key
    PROVE  Find(new, key) = Find(lines, key)
<1>1. /\ DOMAIN lines = 1..Len(lines) /\ Len(lines) \in Nat
      /\ DOMAIN new = 1..Len(new) /\ Len(new) \in Nat
  BY LineTypes
<1>2. CASE \E k \in DOMAIN lines : lines[k].key = key
  <2>1. PICK i \in DOMAIN lines : /\ lines[i].key = key
                                  /\ \A j \in DOMAIN lines : lines[j].key = key => i <= j
    BY <1>2, FirstExists
  <2>2. i \in DOMAIN new /\ new[i].key = key /\ new[i] = lines[i]
    BY <1>1, <2>1
  <2>3. ASSUME NEW j \in DOMAIN new, new[j].key = key PROVE i <= j
    <3>1. ~(j > Len(lines))
      BY <2>3
    <3>2. j \in DOMAIN lines
      BY <1>1, <3>1
    <3> QED
      BY <2>1, <2>3, <3>2
  <2> QED
    BY <2>1, <2>2, <2>3, FindFirst
<1>3. CASE \A k \in DOMAIN lines : lines[k].key # key
  <2>1. ASSUME NEW j \in DOMAIN new PROVE new[j].key # key
    <3>1. j \in DOMAIN lines \/ j > Len(lines)
      BY <1>1
    <3> QED
      BY <1>3, <3>1
  <2> QED
    BY <1>3, <2>1, FindNothing
<1> QED
  BY <1>2, <1>3

\* Lines added at the end: what they are and what is found then.
LEMMA AppendLine ==
    ASSUME NEW lines \in Seq(Lines), NEW x \in Lines
    PROVE  LET new == Append(lines, x) IN
           /\ new \in Seq(Lines)
           /\ \A key : key # x.key => Find(new, key) = Find(lines, key)
           /\ (\A i \in DOMAIN lines : lines[i].key # x.key) =>
                 Find(new, x.key) = IF x.ok THEN x.value ELSE None
           /\ \A i \in DOMAIN new : (i \in DOMAIN lines /\ new[i] = lines[i]) \/ new[i] = x
           /\ x \notin Comments => Others(new) = Others(lines)
<1>1. PICK new : new = Append(lines, x)
  OBVIOUS
<1>2. /\ new \in Seq(Lines) /\ Len(new) = Len(lines) + 1 /\ DOMAIN new = 1..(Len(lines) + 1)
      /\ \A i \in 1..Len(lines) : new[i] = lines[i]
      /\ new[Len(lines) + 1] = x
  BY <1>1, AppendProperties, LenProperties
<1>3. DOMAIN lines = 1..Len(lines) /\ Len(lines) \in Nat
  BY LineTypes
<1>4. \A i \in DOMAIN new : (i \in DOMAIN lines /\ new[i] = lines[i]) \/ (i = Len(lines) + 1 /\ new[i] = x)
  <2>1. \A i \in 1..(Len(lines) + 1) : i \in 1..Len(lines) \/ i = Len(lines) + 1
    BY <1>3
  <2> QED
    BY <1>2, <1>3, <2>1
<1>5. ASSUME NEW key, key # x.key PROVE Find(new, key) = Find(lines, key)
  <2>1. Len(lines) <= Len(new)
    BY <1>2, <1>3
  <2>2. \A i \in DOMAIN new : i > Len(lines) => new[i].key # key
    BY <1>3, <1>4, <1>5
  <2> QED
    BY <1>2, <1>3, <2>1, <2>2, FindAgrees
<1>6. ASSUME \A i \in DOMAIN lines : lines[i].key # x.key
      PROVE  Find(new, x.key) = IF x.ok THEN x.value ELSE None
  <2>1. Len(lines) + 1 \in DOMAIN new /\ new[Len(lines) + 1].key = x.key
    BY <1>2, <1>3
  <2>2. \A j \in DOMAIN new : new[j].key = x.key => Len(lines) + 1 <= j
    BY <1>3, <1>4, <1>6
  <2> QED
    BY <1>2, <2>1, <2>2, FindFirst
<1>7. x \notin Comments => Others(new) = Others(lines)
  BY <1>1, KeepAppend DEF Others
<1> QED
  BY <1>1, <1>2, <1>4, <1>5, <1>6, <1>7

\* An upsert is found again, and changes no other setting and no comment.
LEMMA UpsertFacts ==
    ASSUME NEW lines \in Seq(Lines), NEW key \in Keys \ {"other"}, NEW value \in Int \ {None}
    PROVE  LET new == Upsert(lines, key, value) IN
           /\ new \in Seq(Lines)
           /\ Find(new, key) = value
           /\ \A other \in Keys \ {"other", key} : Find(new, other) = Find(lines, other)
           /\ Others(new) = Others(lines)
<1>1. PICK x : x = [key |-> key, value |-> value, ok |-> TRUE]
  OBVIOUS
<1>2. /\ x \in Lines /\ x.key = key /\ x.value = value /\ x.ok = TRUE /\ x.key # "other"
      /\ x \notin Comments
  BY <1>1 DEF Lines, Comments
<1>3. DOMAIN lines = 1..Len(lines) /\ Len(lines) \in Nat
      /\ \A i \in DOMAIN lines : lines[i] \in Lines
  BY LineTypes
<1>4. CASE \E i \in DOMAIN lines : lines[i].key = key
  <2>1. PICK new : new = [i \in DOMAIN lines |-> IF lines[i].key = key THEN x ELSE lines[i]]
    OBVIOUS
  <2>2. Upsert(lines, key, value) = new
    BY <1>1, <1>4, <2>1 DEF Upsert
  <2>3. /\ new \in [1..Len(lines) -> Lines]
        /\ \A i \in DOMAIN lines : new[i] = IF lines[i].key = key THEN x ELSE lines[i]
    BY <1>2, <1>3, <2>1
  <2>4. new \in Seq(Lines) /\ Len(new) = Len(lines) /\ DOMAIN new = DOMAIN lines
    BY <1>3, <2>3, SeqDef, LenProperties
  <2>5. Find(new, key) = value
    <3>1. PICK i \in DOMAIN lines : /\ lines[i].key = key
                                    /\ \A j \in DOMAIN lines : lines[j].key = key => i <= j
      BY <1>4, FirstExists
    <3>2. i \in DOMAIN new /\ new[i] = x /\ \A j \in DOMAIN new : new[j].key = key => i <= j
      BY <1>2, <2>3, <2>4, <3>1
    <3> QED
      BY <1>2, <2>4, <3>2, FindFirst
  <2>6. ASSUME NEW other \in Keys \ {"other", key}
        PROVE  Find(new, other) = Find(lines, other)
    <3>1. \A i \in DOMAIN lines : /\ lines[i].key = other <=> new[i].key = other
                                  /\ lines[i].key = other => new[i] = lines[i]
      BY <1>2, <2>3
    <3>2. Len(lines) <= Len(new) /\ \A i \in DOMAIN new : ~(i > Len(lines))
      BY <1>3, <2>4
    <3> QED
      BY <2>4, <3>1, <3>2, FindAgrees
  <2>7. Others(new) = Others(lines)
    <3>1. \A i \in 1..Len(lines) : /\ new[i] \in Comments <=> lines[i] \in Comments
                                   /\ new[i] \in Comments => new[i] = lines[i]
      BY <1>2, <1>3, <2>3 DEF Comments
    <3> QED
      BY <1>3, <2>4, <3>1, KeepAgree DEF Others
  <2> QED
    BY <2>2, <2>4, <2>5, <2>6, <2>7
<1>5. CASE \A i \in DOMAIN lines : lines[i].key # key
  <2>b. /\ Blank \in Lines /\ Blank.key = "other" /\ Blank \notin Comments
    BY DEF Blank, Lines, Keys, Comments, None
  <2>1. PICK base \in {lines, Append(lines, Blank)} : Upsert(lines, key, value) = Append(base, x)
    <3>1. CASE lines = <<>> \/ Last(lines) = Blank
      BY <1>1, <1>5, <3>1 DEF Upsert
    <3>2. CASE ~(lines = <<>> \/ Last(lines) = Blank)
      <4>1. Upsert(lines, key, value) = lines \o <<Blank, x>>
        BY <1>1, <1>5, <3>2 DEF Upsert
      <4>2. lines \o <<Blank, x>> = Append(Append(lines, Blank), x)
        <5>1. PICK one, two : one = <<Blank>> /\ two = <<Blank, x>>
          OBVIOUS
        <5>2. one \in Seq(Lines) /\ two = Append(one, x)
          BY <2>b, <5>1
        <5>3. lines \o Append(one, x) = Append(lines \o one, x)
          BY <1>2, <5>2, AppendToConcat
        <5>4. Append(lines, Blank) = lines \o <<Blank>>
          BY <2>b, AppendIsConcat
        <5> QED
          BY <5>1, <5>2, <5>3, <5>4
      <4> QED
        BY <4>1, <4>2
    <3> QED
      BY <3>1, <3>2
  <2>2. /\ base \in Seq(Lines) /\ \A i \in DOMAIN base : base[i].key # key
        /\ \A other \in Keys \ {"other"} : Find(base, other) = Find(lines, other)
        /\ Others(base) = Others(lines)
    <3>1. CASE base = lines
      BY <1>5, <3>1
    <3>2. CASE base = Append(lines, Blank)
      BY <1>5, <2>b, <3>2, AppendLine
    <3> QED
      BY <3>1, <3>2
  <2>3. PICK new : new = Append(base, x)
    OBVIOUS
  <2>4. /\ new \in Seq(Lines) /\ Others(new) = Others(base)
        /\ Find(new, key) = value
        /\ \A other : other # key => Find(new, other) = Find(base, other)
    BY <1>2, <2>2, <2>3, AppendLine
  <2> QED
    BY <2>1, <2>2, <2>3, <2>4
<1> QED
  BY <1>4, <1>5

\* The absent file is none of lines.
LEMMA AbsentIsNoText == Absent \notin Seq(Lines)
<1> SUFFICES ASSUME Absent \in Seq(Lines) PROVE FALSE
  OBVIOUS
<1>1. 1 \in 1..Len(Absent) /\ Absent[1].key = "absent"
  BY DEF Absent
<1>2. Absent[1] \in Lines
  BY <1>1, ElementOfSeq
<1> QED
  BY <1>1, <1>2 DEF Lines, Keys

LEMMA FindType ==
    ASSUME NEW lines \in Seq(Lines), NEW key
    PROVE  Find(lines, key) \in Int
<1>1. CASE \E k \in DOMAIN lines : lines[k].key = key
  <2>1. PICK i \in DOMAIN lines : /\ lines[i].key = key
                                  /\ \A j \in DOMAIN lines : lines[j].key = key => i <= j
    BY <1>1, FirstExists
  <2>2. Find(lines, key) = IF lines[i].ok THEN lines[i].value ELSE None
    BY <2>1, FindFirst
  <2>3. lines[i].value \in Int /\ None \in Int
    BY LineTypes DEF None
  <2> QED
    BY <2>2, <2>3
<1>2. CASE \A k \in DOMAIN lines : lines[k].key # key
  BY <1>2, FindNothing DEF None
<1> QED
  BY <1>1, <1>2

LEMMA ClampType ==
    ASSUME NEW rate \in Int
    PROVE  Clamp(rate) \in 0..MaxRate
<1>1. MaxRate \in Nat
  BY IniAssumption
<1>2. Clamp(rate) = IF rate < 0 THEN 0 ELSE IF rate <= MaxRate THEN rate ELSE MaxRate
  BY DEF Clamp, Least
<1> QED
  BY <1>1, <1>2

LEMMA FormattedType ==
    ASSUME NEW rate \in Nat
    PROVE  Formatted(rate) \in Nat
<1>1. (rate + 5) \div 10 \in Nat
  BY DivisionProperties
<1> QED
  BY <1>1 DEF Formatted

\* The number that is saved for the rate.
Saved(o) == Formatted(Clamp(o.rate))

LEMMA OptionTypes ==
    ASSUME NEW o \in Options
    PROVE  /\ o.ini \in BOOLEAN /\ o.auto \in BOOLEAN /\ o.only_when_zero \in BOOLEAN
           /\ o.rate \in Int /\ o.override \in Nat \cup {None}
           /\ Clamp(o.rate) \in 0..MaxRate /\ Saved(o) \in Nat
<1>1. /\ o.ini \in BOOLEAN /\ o.auto \in BOOLEAN /\ o.only_when_zero \in BOOLEAN
      /\ o.rate \in Int /\ o.override \in Nat \cup {None}
  BY DEF Options
<1>2. Clamp(o.rate) \in 0..MaxRate
  BY <1>1, ClampType
<1>3. Clamp(o.rate) \in Nat
  BY <1>2
<1> QED
  BY <1>1, <1>2, <1>3, FormattedType DEF Saved

\* What the correction of a text leaves and what it puts in.
LEMMA CorrectedFacts ==
    ASSUME NEW lines \in Seq(Lines), NEW o \in Options
    PROVE  /\ Corrected(lines, o) \in Seq(Lines)
           /\ Find(Corrected(lines, o), "WebPort") = Find(lines, "WebPort")
           /\ Find(Corrected(lines, o), "Port") =
                IF PortMissing(lines, o) THEN DefaultPort ELSE Find(lines, "Port")
           /\ Find(Corrected(lines, o), "PacketSendRate") =
                IF RateMissing(lines, o) THEN Saved(o) ELSE Find(lines, "PacketSendRate")
           /\ Others(Corrected(lines, o)) = Others(lines)
           /\ ~Mutated(lines, o) => Corrected(lines, o) = lines
<1>k. /\ "Port" \in Keys \ {"other"} /\ "PacketSendRate" \in Keys \ {"other"}
      /\ "WebPort" \in Keys \ {"other", "Port"}
      /\ "PacketSendRate" \in Keys \ {"other", "Port"}
      /\ "WebPort" \in Keys \ {"other", "PacketSendRate"}
      /\ "Port" \in Keys \ {"other", "PacketSendRate"}
  BY DEF Keys
<1>v. DefaultPort \in Int \ {None} /\ Saved(o) \in Int \ {None}
  <2>1. DefaultPort \in Nat
    BY IniAssumption
  <2>2. Saved(o) \in Nat
    BY OptionTypes
  <2>3. DefaultPort \in Nat /\ Saved(o) \in Nat
    BY <2>1, <2>2
  <2>4. \A n \in Nat : n \in Int \ {None}
    BY DEF None
  <2> QED
    BY <2>3, <2>4
<1>1. PICK a : a = IF PortMissing(lines, o) THEN Upsert(lines, "Port", DefaultPort) ELSE lines
  OBVIOUS
<1>2. /\ a \in Seq(Lines) /\ Others(a) = Others(lines)
      /\ Find(a, "WebPort") = Find(lines, "WebPort")
      /\ Find(a, "PacketSendRate") = Find(lines, "PacketSendRate")
      /\ Find(a, "Port") = IF PortMissing(lines, o) THEN DefaultPort ELSE Find(lines, "Port")
  <2>1. CASE PortMissing(lines, o)
    <3>1. a = Upsert(lines, "Port", DefaultPort)
      BY <1>1, <2>1
    <3>2. /\ a \in Seq(Lines) /\ Find(a, "Port") = DefaultPort /\ Others(a) = Others(lines)
          /\ \A other \in Keys \ {"other", "Port"} : Find(a, other) = Find(lines, other)
      BY <1>k, <1>v, <3>1, UpsertFacts
    <3> QED
      BY <1>k, <2>1, <3>2
  <2>2. CASE ~PortMissing(lines, o)
    BY <1>1, <2>2
  <2> QED
    BY <2>1, <2>2
<1>a. a \in Seq(Lines)
  BY <1>2
<1>3. PICK b : b = IF RateMissing(lines, o) THEN Upsert(a, "PacketSendRate", Saved(o)) ELSE a
  OBVIOUS
<1>4. Corrected(lines, o) = b
  BY <1>1, <1>3 DEF Corrected, Saved
<1>5. /\ b \in Seq(Lines) /\ Others(b) = Others(a)
      /\ Find(b, "WebPort") = Find(a, "WebPort") /\ Find(b, "Port") = Find(a, "Port")
      /\ Find(b, "PacketSendRate") =
           IF RateMissing(lines, o) THEN Saved(o) ELSE Find(a, "PacketSendRate")
  <2>1. CASE RateMissing(lines, o)
    <3>1. b = Upsert(a, "PacketSendRate", Saved(o))
      BY <1>3, <2>1
    <3>2. /\ b \in Seq(Lines) /\ Find(b, "PacketSendRate") = Saved(o) /\ Others(b) = Others(a)
          /\ \A other \in Keys \ {"other", "PacketSendRate"} : Find(b, other) = Find(a, other)
      <4>1. PICK key, value : key = "PacketSendRate" /\ value = Saved(o)
        OBVIOUS
      <4>2. key \in Keys \ {"other"} /\ value \in Int \ {None} /\ b = Upsert(a, key, value)
        BY <1>k, <1>v, <3>1, <4>1
      <4>3. /\ b \in Seq(Lines) /\ Find(b, key) = value /\ Others(b) = Others(a)
            /\ \A other \in Keys \ {"other", key} : Find(b, other) = Find(a, other)
        BY <1>a, <4>2, UpsertFacts
      <4> QED
        BY <4>1, <4>3
    <3> QED
      BY <1>k, <2>1, <3>2
  <2>2. CASE ~RateMissing(lines, o)
    BY <1>2, <1>3, <2>2
  <2> QED
    BY <2>1, <2>2
<1>6. ~Mutated(lines, o) => b = lines
  BY <1>1, <1>3 DEF Mutated
<1> QED
  BY <1>2, <1>4, <1>5, <1>6

\* What a run returns, in terms of the corrected text.
LEMMA ReturnedFacts ==
    ASSUME NEW lines \in Seq(Lines), NEW o \in Options
    PROVE  LET r == Returned(lines, o)
               f == Corrected(lines, o) IN
           IF Conflicts(PortIn(f, o), WebPortIn(f))
           THEN r = Failed("conflict")
           ELSE /\ r.kind = "ok" /\ r.port = PortIn(f, o) /\ r.web_port = WebPortIn(f)
                /\ r.rate = Clamp(IF Find(f, "PacketSendRate") = None THEN o.rate
                                  ELSE Find(f, "PacketSendRate"))
                /\ r.mutated = Mutated(lines, o)
<1> DEFINE override == IF o.override = None THEN DefaultPort ELSE o.override
           found == Find(lines, "Port")
           port == IF o.override = None /\ found \notin {None, 0} THEN found ELSE override
           new == Corrected(lines, o)
           web == Find(new, "WebPort")
           rate == Find(new, "PacketSendRate")
           web_port == IF web = None THEN DefaultWebPort ELSE web
           ok == [kind |-> "ok", port |-> port, web_port |-> web_port,
                  rate |-> Clamp(IF rate = None THEN o.rate ELSE rate),
                  mutated |-> Mutated(lines, o)]
<1>1. Returned(lines, o) = IF Conflicts(port, web_port) THEN Failed("conflict") ELSE ok
  BY DEF Returned
<1>2. port = PortIn(new, o)
  <2>1. Find(new, "Port") = IF PortMissing(lines, o) THEN DefaultPort ELSE found
    BY CorrectedFacts
  <2> QED
    BY <2>1 DEF PortMissing, PortIn
<1>3. web_port = WebPortIn(new)
  BY DEF WebPortIn
<1>4. /\ ok.kind = "ok" /\ ok.port = port /\ ok.web_port = web_port
      /\ ok.mutated = Mutated(lines, o)
      /\ ok.rate = Clamp(IF rate = None THEN o.rate ELSE rate)
  OBVIOUS
<1> HIDE DEF port, web_port, ok
<1> QED
  BY <1>1, <1>2, <1>3, <1>4

\* The port that a correction leaves in the text is a port, unless one is given.
LEMMA PortStays ==
    ASSUME NEW lines \in Seq(Lines), NEW o \in Options
    PROVE  ~PortMissing(Corrected(lines, o), o)
<1>1. PICK f : f = Corrected(lines, o)
  OBVIOUS
<1>2. Find(f, "Port") = IF PortMissing(lines, o) THEN DefaultPort ELSE Find(lines, "Port")
  BY <1>1, CorrectedFacts
<1>3. DefaultPort \notin {None, 0}
  BY IniAssumption DEF None
<1>4. ~PortMissing(f, o)
  BY <1>2, <1>3 DEF PortMissing
<1> QED
  BY <1>1, <1>4

\* A rate that is saved again was saved before.
LEMMA RateSavedBefore ==
    ASSUME NEW lines \in Seq(Lines), NEW o \in Options,
           RateMissing(Corrected(lines, o), o)
    PROVE  /\ RateMissing(lines, o) /\ o.auto
           /\ Find(Corrected(lines, o), "PacketSendRate") = Saved(o)
           /\ o.only_when_zero => Saved(o) = 0
<1>1. PICK f : f = Corrected(lines, o)
  OBVIOUS
<1>2. Find(f, "PacketSendRate") =
        IF RateMissing(lines, o) THEN Saved(o) ELSE Find(lines, "PacketSendRate")
  BY <1>1, CorrectedFacts
<1>3. o.auto /\ (o.only_when_zero => Find(f, "PacketSendRate") <= 0)
  BY <1>1 DEF RateMissing
<1>4. RateMissing(lines, o)
  BY <1>2, <1>3 DEF RateMissing
<1>5. Saved(o) \in Nat
  BY OptionTypes
<1> QED
  BY <1>1, <1>2, <1>3, <1>4, <1>5

\* ResultMatchesFile, for the text that was read and the one that is left.
Matches(f, o, r) ==
    IF Conflicts(PortIn(f, o), WebPortIn(f))
    THEN r.kind = "conflict"
    ELSE /\ r.kind = "ok" /\ r.port = PortIn(f, o) /\ r.web_port = WebPortIn(f)
         /\ o.auto => Clamp(Find(f, "PacketSendRate")) = r.rate

LEMMA FailedFacts ==
    ASSUME NEW kind
    PROVE  Failed(kind).kind = kind /\ Failed(kind).mutated = FALSE
  BY DEF Failed, NoResult

LEMMA ReturnedMatches ==
    ASSUME NEW lines \in Seq(Lines), NEW o \in Options
    PROVE  Matches(Corrected(lines, o), o, Returned(lines, o))
<1>1. PICK f, r : f = Corrected(lines, o) /\ r = Returned(lines, o)
  OBVIOUS
<1>2. IF Conflicts(PortIn(f, o), WebPortIn(f))
      THEN r = Failed("conflict")
      ELSE /\ r.kind = "ok" /\ r.port = PortIn(f, o) /\ r.web_port = WebPortIn(f)
           /\ r.rate = Clamp(IF Find(f, "PacketSendRate") = None THEN o.rate
                             ELSE Find(f, "PacketSendRate"))
  BY <1>1, ReturnedFacts
<1>3. o.auto => Find(f, "PacketSendRate") # None
  <2>1. Find(f, "PacketSendRate") =
          IF RateMissing(lines, o) THEN Saved(o) ELSE Find(lines, "PacketSendRate")
    BY <1>1, CorrectedFacts
  <2>2. Saved(o) # None
    BY OptionTypes DEF None
  <2>3. ASSUME Find(lines, "PacketSendRate") = None PROVE Find(lines, "PacketSendRate") <= 0
    BY <2>3 DEF None
  <2> QED
    BY <2>1, <2>2, <2>3 DEF RateMissing
<1> QED
  BY <1>1, <1>2, <1>3, FailedFacts DEF Matches

\* RerunAgrees, for a run on the text that the run before left.
Agrees(o, before, now) ==
    /\ Answer(now) = Answer(before)
    /\ now.mutated => /\ o.auto
                      /\ o.only_when_zero => now.rate = 0

LEMMA ReturnedAgrees ==
    ASSUME NEW lines \in Seq(Lines), NEW o \in Options,
           NEW f \in Seq(Lines), f = Corrected(lines, o)
    PROVE  Agrees(o, Returned(lines, o), Returned(f, o))
<1>1. PICK g, r, s : g = Corrected(f, o) /\ r = Returned(lines, o) /\ s = Returned(f, o)
  OBVIOUS
<1>4. ~PortMissing(f, o)
  BY PortStays
<1>5. /\ Find(g, "WebPort") = Find(f, "WebPort") /\ Find(g, "Port") = Find(f, "Port")
      /\ Find(g, "PacketSendRate") =
           IF RateMissing(f, o) THEN Saved(o) ELSE Find(f, "PacketSendRate")
  BY <1>1, <1>4, CorrectedFacts
<1>p. PortIn(g, o) = PortIn(f, o) /\ WebPortIn(g) = WebPortIn(f)
  BY <1>5 DEF PortIn, WebPortIn
<1>c. CASE Conflicts(PortIn(f, o), WebPortIn(f))
  <2>1. r = Failed("conflict") /\ s = Failed("conflict")
    BY <1>1, <1>c, <1>p, ReturnedFacts
  <2> QED
    BY <1>1, <2>1, FailedFacts DEF Agrees
<1> SUFFICES ASSUME ~Conflicts(PortIn(f, o), WebPortIn(f))
             PROVE  Agrees(o, Returned(lines, o), Returned(f, o))
  BY <1>c
<1>2. /\ r.kind = "ok" /\ r.port = PortIn(f, o) /\ r.web_port = WebPortIn(f)
      /\ r.rate = Clamp(IF Find(f, "PacketSendRate") = None THEN o.rate
                        ELSE Find(f, "PacketSendRate"))
  BY <1>1, ReturnedFacts
<1>3. /\ s.kind = "ok" /\ s.port = PortIn(g, o) /\ s.web_port = WebPortIn(g)
      /\ s.rate = Clamp(IF Find(g, "PacketSendRate") = None THEN o.rate
                        ELSE Find(g, "PacketSendRate"))
      /\ s.mutated = Mutated(f, o)
  BY <1>1, <1>p, ReturnedFacts
<1>6. RateMissing(f, o) => /\ o.auto /\ Find(f, "PacketSendRate") = Saved(o)
                           /\ o.only_when_zero => Saved(o) = 0
  BY RateSavedBefore
<1>7. Find(g, "PacketSendRate") = Find(f, "PacketSendRate")
  BY <1>5, <1>6
<1>8. r.kind = s.kind /\ r.port = s.port /\ r.web_port = s.web_port /\ r.rate = s.rate
  BY <1>2, <1>3, <1>p, <1>7
<1>9. Answer(s) = Answer(r)
  BY <1>8 DEF Answer
<1>10. ASSUME s.mutated PROVE o.auto /\ (o.only_when_zero => s.rate = 0)
  <2>1. RateMissing(f, o)
    BY <1>3, <1>4, <1>10 DEF Mutated
  <2>2. Saved(o) \in Nat /\ Saved(o) # None
    BY OptionTypes DEF None
  <2>3. s.rate = Clamp(Saved(o))
    BY <1>3, <1>5, <2>1, <2>2
  <2>4. Clamp(0) = 0
    BY IniAssumption DEF Clamp, Least
  <2> QED
    BY <1>6, <2>1, <2>3, <2>4
<1> QED
  BY <1>1, <1>9, <1>10 DEF Agrees

-----------------------------------------------------------------------------
(***************************************************************************)
(* Types, who has begun, and where the file must exist.                     *)
(***************************************************************************)
Places == {"idle", "exists", "create", "template", "read", "write", "fill", "dead"}

Texts == {Absent} \cup Seq(Lines)

TypeInv ==
    /\ pc \in [Clients -> Places]
    /\ opts \in [Clients -> Options]
    /\ file \in Texts /\ initial \in Texts
    /\ seen \in [Clients -> Seq(Lines)]
    /\ runs \in [Clients -> Nat]
    /\ DOMAIN result = Clients /\ DOMAIN previous = Clients
    /\ torn \in BOOLEAN
    /\ \A c \in Clients : runs[c] = 0 => pc[c] \in {"idle", "dead"}
    /\ \A c \in Clients : pc[c] \in {"template", "read", "write", "fill"} => file # Absent

LEMMA NoTextIsAbsent == \A lines \in Seq(Lines) : lines # Absent
  BY AbsentIsNoText

LEMMA NothingIsText == <<>> \in Seq(Lines)
  OBVIOUS

LEMMA TypeInit == Init => TypeInv
<1> SUFFICES ASSUME Init PROVE TypeInv
  OBVIOUS
<1>1. PICK s \in Starts : /\ file = s.file /\ initial = s.file /\ opts = s.opts
                          /\ pc = [c \in Clients |-> IF c \in s.programs THEN "idle" ELSE "dead"]
  BY DEF Init
<1>2. file \in Texts /\ initial \in Texts /\ opts \in [Clients -> Options]
  BY <1>1, FilesAssumption DEF Texts
<1>3. pc \in [Clients -> Places] /\ \A c \in Clients : pc[c] \in {"idle", "dead"}
  BY <1>1 DEF Places
<1>4. /\ seen \in [Clients -> Seq(Lines)] /\ runs \in [Clients -> Nat]
      /\ DOMAIN result = Clients /\ DOMAIN previous = Clients
  BY NothingIsText DEF Init
<1>5. torn \in BOOLEAN
  BY DEF Init
<1>6. \A c \in Clients : pc[c] \notin {"template", "read", "write", "fill"}
  BY <1>3
<1> QED
  BY <1>2, <1>3, <1>4, <1>5, <1>6 DEF TypeInv

\* A step of one client, seen from it and from the others.
LEMMA TornType == TypeInv /\ Next => torn' \in BOOLEAN
<1> SUFFICES ASSUME TypeInv, NEW c \in Clients, ClientStep(c) PROVE torn' \in BOOLEAN
  BY DEF Next
<1>1. torn \in BOOLEAN
  BY DEF TypeInv
<1>2. (torn \/ OthersMidWrite(c)) \in BOOLEAN /\ (torn \/ MidWrite(c)) \in BOOLEAN
  BY Zenon
<1>3. torn' \in {torn, (torn \/ OthersMidWrite(c)), (torn \/ MidWrite(c))}
  BY Zenon DEF ClientStep, Begins, ChecksExistence, Creates, FillsTemplate, Reads,
               Truncates, Fills, IoFails, Crashes
<1> QED
  BY <1>1, <1>2, <1>3, Zenon

LEMMA TypeStep == TypeInv /\ [Next]_vars => TypeInv'
<1> SUFFICES ASSUME TypeInv, [Next]_vars PROVE TypeInv'
  OBVIOUS
<1>t. torn' \in BOOLEAN
  <2>1. CASE Next
    BY <2>1, TornType
  <2>2. CASE vars' = vars
    <3>1. torn' = torn /\ torn \in BOOLEAN
      BY <2>2 DEF vars, TypeInv
    <3> QED
      BY <3>1
  <2> QED
    BY <2>1, <2>2
<1>1. CASE UNCHANGED vars
  BY <1>1, <1>t DEF vars, TypeInv
<1>2. ASSUME NEW c \in Clients, ClientStep(c) PROVE TypeInv'
  <2>u. /\ opts' = opts /\ initial' = initial
        /\ opts \in [Clients -> Options] /\ initial \in Texts
    BY <1>2 DEF ClientStep, Begins, ChecksExistence, Creates, FillsTemplate, Reads,
                Truncates, Fills, IoFails, Crashes, TypeInv
  <2>p. pc' \in [Clients -> Places]
    BY <1>2 DEF ClientStep, Begins, ChecksExistence, Creates, FillsTemplate, Reads,
                Truncates, Fills, IoFails, Crashes, TypeInv, Moves, Returns, Places
  <2>r. runs' \in [Clients -> Nat] /\ DOMAIN result' = Clients /\ DOMAIN previous' = Clients
    BY <1>2 DEF ClientStep, Begins, ChecksExistence, Creates, FillsTemplate, Reads,
                Truncates, Fills, IoFails, Crashes, TypeInv, Moves, Returns
  <2>0. \A d \in Clients : runs'[d] = 0 => pc'[d] \in {"idle", "dead"}
    <3>1. /\ \A d \in Clients : runs[d] = 0 => pc[d] \in {"idle", "dead"}
          /\ pc \in [Clients -> Places] /\ runs \in [Clients -> Nat]
      BY DEF TypeInv
    <3>2. \A d \in Clients \ {c} : pc'[d] = pc[d]
      BY <1>2, <3>1 DEF ClientStep, Begins, ChecksExistence, Creates, FillsTemplate, Reads,
                        Truncates, Fills, IoFails, Crashes, Moves, Returns
    <3>3. CASE Begins(c)
      <4>1. runs' = [runs EXCEPT ![c] = runs[c] + 1]
        BY <3>3 DEF Begins
      <4>2. runs'[c] # 0 /\ \A d \in Clients \ {c} : runs'[d] = runs[d]
        BY <3>1, <4>1
      <4> QED
        BY <3>1, <3>2, <4>2
    <3>4. CASE ~Begins(c)
      <4>1. runs' = runs
        BY <1>2, <3>4 DEF ClientStep, ChecksExistence, Creates, FillsTemplate, Reads,
                          Truncates, Fills, IoFails, Crashes
      <4>2. pc[c] \notin {"idle", "dead"}
        BY <1>2, <3>4 DEF ClientStep, ChecksExistence, Creates, FillsTemplate, Reads,
                          Truncates, Fills, IoFails, Crashes, Moves
      <4> QED
        BY <3>1, <3>2, <4>1, <4>2
    <3> QED
      BY <3>3, <3>4
  <2>s. seen' \in [Clients -> Seq(Lines)]
    <3>1. CASE Reads(c)
      <4>1. file \in Seq(Lines)
        BY <3>1 DEF Reads, TypeInv, Texts
      <4> QED
        BY <3>1, <4>1 DEF Reads, TypeInv
    <3>2. CASE ~Reads(c)
      BY <1>2, <3>2 DEF ClientStep, Begins, ChecksExistence, Creates, FillsTemplate,
                        Truncates, Fills, IoFails, Crashes, TypeInv
    <3> QED
      BY <3>1, <3>2
  <2>f. file' \in Texts /\ (file' = file \/ file' \in Seq(Lines))
    <3>1. CASE Fills(c)
      <4>1. seen[c] \in Seq(Lines) /\ opts[c] \in Options
        BY DEF TypeInv
      <4>2. Corrected(seen[c], opts[c]) \in Seq(Lines)
        BY <4>1, CorrectedFacts
      <4> QED
        BY <3>1, <4>2 DEF Fills, Texts
    <3>2. CASE ~Fills(c)
      <4>1. file' \in {file, <<>>, Template}
        BY <1>2, <3>2 DEF ClientStep, Begins, ChecksExistence, Creates, FillsTemplate,
                          Reads, Truncates, IoFails, Crashes
      <4> QED
        BY <4>1, FilesAssumption, NothingIsText DEF TypeInv, Texts
    <3> QED
      BY <3>1, <3>2
  <2>a. \A d \in Clients : pc'[d] \in {"template", "read", "write", "fill"} => file' # Absent
    <3> SUFFICES ASSUME file' = file, NEW d \in Clients, file = Absent,
                        pc'[d] \in {"template", "read", "write", "fill"}
                 PROVE  FALSE
      BY <2>f, NoTextIsAbsent
    <3>1. \A e \in Clients : pc[e] \notin {"template", "read", "write", "fill"}
      BY DEF TypeInv
    <3>2. CASE Creates(c)
      BY <3>2, NothingIsText, NoTextIsAbsent DEF Creates
    <3> QED
      BY <1>2, <3>1, <3>2 DEF ClientStep, Begins, ChecksExistence, FillsTemplate, Reads,
                         Truncates, Fills, IoFails, Crashes, TypeInv, Moves, Returns
  <2> QED
    BY <1>t, <2>u, <2>p, <2>r, <2>0, <2>s, <2>f, <2>a DEF TypeInv
<1> QED
  BY <1>1, <1>2 DEF Next

-----------------------------------------------------------------------------
(***************************************************************************)
(* Unless a write was seen half way, every text in the file, and every text *)
(* that a program has read and is about to correct, has the user's port and *)
(* comments.                                                                *)
(***************************************************************************)
Good(lines, first) ==
    /\ Others(lines) = Others(first)
    /\ Find(first, "Port") \notin {None, 0} => Find(lines, "Port") = Find(first, "Port")

OneWrites == \A c, d \in Clients : MidWrite(c) /\ MidWrite(d) => c = d

TornInv ==
    /\ file = Absent => initial = Absent
    /\ \A c \in Clients : pc[c] \in {"create", "template"} => initial = Absent
    /\ ~torn => /\ OneWrites
                /\ (Settled /\ file # Absent) => Good(file, AtFirst)
                /\ \A c \in Clients : pc[c] \in {"write", "fill"} => Good(seen[c], AtFirst)

LEMMA CorrectionIsGood ==
    ASSUME NEW lines \in Seq(Lines), NEW o \in Options, NEW first, Good(lines, first)
    PROVE  Good(Corrected(lines, o), first)
<1>1. Others(Corrected(lines, o)) = Others(first)
  BY CorrectedFacts DEF Good
<1>2. ASSUME Find(first, "Port") \notin {None, 0}
      PROVE  Find(Corrected(lines, o), "Port") = Find(first, "Port")
  <2>1. Find(lines, "Port") = Find(first, "Port")
    BY <1>2 DEF Good
  <2>2. ~PortMissing(lines, o)
    BY <1>2, <2>1 DEF PortMissing
  <2> QED
    BY <2>1, <2>2, CorrectedFacts
<1> QED
  BY <1>1, <1>2 DEF Good

LEMMA TornInit == Init => TornInv
<1> SUFFICES ASSUME Init PROVE TornInv
  OBVIOUS
<1>1. PICK s \in Starts : /\ file = s.file /\ initial = s.file
                          /\ pc = [c \in Clients |-> IF c \in s.programs THEN "idle" ELSE "dead"]
  BY DEF Init
<1>2. \A c \in Clients : pc[c] \in {"idle", "dead"}
  BY <1>1
<1>3. file = initial
  BY <1>1
<1>4. file # Absent => Good(file, AtFirst)
  BY <1>3 DEF Good, AtFirst
<1>5. OneWrites
  BY <1>2 DEF OneWrites, MidWrite
<1> QED
  BY <1>2, <1>3, <1>4, <1>5 DEF TornInv

\* The steps that leave the file alone and write nothing.
LEMMA TornQuietStep ==
    ASSUME TypeInv, TornInv, NEW c \in Clients,
           file' = file, initial' = initial, seen' = seen, torn' = torn,
           pc' = [pc EXCEPT ![c] = pc'[c]],
           ~MidWrite(c), pc'[c] \notin {"template", "write", "fill"},
           pc'[c] = "create" => file = Absent
    PROVE  TornInv'
<1>1. /\ pc \in [Clients -> Places]
      /\ \A d \in Clients \ {c} : pc'[d] = pc[d]
  BY DEF TypeInv
<1>2. \A d \in Clients : MidWrite(d)' <=> MidWrite(d)
  BY <1>1 DEF MidWrite
<1>3. Settled' <=> Settled
  BY <1>2 DEF Settled
<1>4. AtFirst' = AtFirst
  BY DEF AtFirst
<1>5. OneWrites => OneWrites'
  BY <1>2 DEF OneWrites
<1>6. \A d \in Clients : pc'[d] \in {"create", "template"} => initial' = Absent
  BY <1>1 DEF TornInv
<1>7. \A d \in Clients : pc'[d] \in {"write", "fill"} => pc[d] \in {"write", "fill"}
  BY <1>1
<1>8. ASSUME ~torn'
      PROVE  /\ OneWrites'
             /\ (Settled' /\ file' # Absent) => Good(file', AtFirst')
             /\ \A d \in Clients : pc'[d] \in {"write", "fill"} => Good(seen'[d], AtFirst')
  <2>1. ~torn
    BY <1>8
  <2> QED
    BY <1>3, <1>4, <1>5, <1>7, <2>1 DEF TornInv
<1> QED
  BY <1>6, <1>8 DEF TornInv

LEMMA TornStep == TypeInv /\ TornInv /\ [Next]_vars => TornInv'
<1> SUFFICES ASSUME TypeInv, TornInv, [Next]_vars PROVE TornInv'
  OBVIOUS
<1>t. pc \in [Clients -> Places] /\ opts \in [Clients -> Options] /\ seen \in [Clients -> Seq(Lines)]
  BY DEF TypeInv
<1>1. CASE UNCHANGED vars
  <2>1. AtFirst' = AtFirst /\ (Settled' <=> Settled) /\ (OneWrites' <=> OneWrites)
    BY <1>1 DEF vars, AtFirst, Settled, OneWrites, MidWrite
  <2> QED
    BY <1>1, <2>1 DEF vars, TornInv
<1>2. ASSUME NEW c \in Clients, ClientStep(c) PROVE TornInv'
  <2>i. initial' = initial /\ AtFirst' = AtFirst
    BY <1>2 DEF ClientStep, Begins, ChecksExistence, Creates, FillsTemplate, Reads,
                Truncates, Fills, IoFails, Crashes, AtFirst
  <2>p. \A d \in Clients \ {c} : pc'[d] = pc[d]
    BY <1>2, <1>t DEF ClientStep, Begins, ChecksExistence, Creates, FillsTemplate, Reads,
                      Truncates, Fills, IoFails, Crashes, Moves, Returns
  <2>1. CASE Begins(c)
    <3>1. CASE opts[c].ini
      <4>1. pc[c] = "idle" /\ pc' = [pc EXCEPT ![c] = "exists"]
        BY <2>1, <3>1 DEF Begins
      <4> QED
        BY <1>t, <2>1, <2>i, <4>1, TornQuietStep DEF Begins, MidWrite
    <3>2. CASE ~opts[c].ini
      <4>1. pc[c] = "idle" /\ pc' = [pc EXCEPT ![c] = "idle"]
        BY <2>1, <3>2 DEF Begins, Returns
      <4> QED
        BY <1>t, <2>1, <2>i, <4>1, TornQuietStep DEF Begins, MidWrite
    <3> QED
      BY <3>1, <3>2
  <2>2. CASE ChecksExistence(c)
    <3>1. PICK there : /\ there = IF file = Absent THEN "create" ELSE "read"
                       /\ pc[c] = "exists" /\ pc' = [pc EXCEPT ![c] = there]
      BY <2>2 DEF ChecksExistence, Moves
    <3>2. pc'[c] = there
      BY <1>t, <3>1
    <3>3. file' = file /\ seen' = seen /\ torn' = torn
      BY <2>2 DEF ChecksExistence
    <3>4. pc' = [pc EXCEPT ![c] = pc'[c]]
      BY <3>1, <3>2
    <3>5. /\ ~MidWrite(c) /\ pc'[c] \notin {"template", "write", "fill"}
          /\ pc'[c] = "create" => file = Absent
      BY <3>1, <3>2 DEF MidWrite
    <3> QED
      BY <2>i, <3>3, <3>4, <3>5, TornQuietStep
  <2>3. ASSUME Creates(c) \/ Truncates(c) PROVE TornInv'
    <3>1. /\ pc[c] \in {"create", "write"}
          /\ pc'[c] = IF pc[c] = "create" THEN "template" ELSE "fill"
          /\ file' = <<>> /\ seen' = seen
      BY <1>t, <2>3 DEF Creates, Truncates, Moves
    <3>2. torn' = (torn \/ OthersMidWrite(c))
      BY <2>3 DEF Creates, Truncates
    <3>3. file' # Absent /\ ~Settled'
      BY <3>1, NothingIsText, NoTextIsAbsent DEF Settled, MidWrite
    <3>4. \A d \in Clients : pc'[d] \in {"create", "template"} => initial' = Absent
      BY <2>i, <2>p, <3>1 DEF TornInv
    <3>5. ASSUME ~torn'
          PROVE  OneWrites' /\ \A d \in Clients : pc'[d] \in {"write", "fill"} =>
                                                    Good(seen'[d], AtFirst')
      <4>1. ~torn /\ ~OthersMidWrite(c)
        BY <3>2, <3>5, Zenon
      <4>2. \A d \in Clients : MidWrite(d)' => d = c
        BY <2>p, <4>1 DEF OthersMidWrite, MidWrite
      <4>3. OneWrites'
        BY <4>2 DEF OneWrites
      <4>4. \A d \in Clients : pc'[d] \in {"write", "fill"} => pc[d] \in {"write", "fill"}
        BY <2>p, <3>1
      <4> QED
        BY <2>i, <3>1, <4>1, <4>3, <4>4 DEF TornInv
    <3> QED
      BY <3>3, <3>4, <3>5 DEF TornInv
  <2>4. CASE FillsTemplate(c)
    <3>1. /\ pc[c] = "template" /\ pc'[c] = "read" /\ file' = Template
          /\ seen' = seen /\ torn' = torn
      BY <1>t, <2>4 DEF FillsTemplate, Moves
    <3>2. file' # Absent /\ initial = Absent /\ AtFirst = Template
      BY <3>1, FilesAssumption, NoTextIsAbsent DEF TornInv, AtFirst
    <3>3. \A d \in Clients : pc'[d] \in {"create", "template"} => initial' = Absent
      BY <2>i, <3>2
    <3>4. ASSUME ~torn'
          PROVE  /\ OneWrites' /\ Good(file', AtFirst')
                 /\ \A d \in Clients : pc'[d] \in {"write", "fill"} => Good(seen'[d], AtFirst')
      <4>1. ~torn
        BY <3>1, <3>4
      <4>2. \A d \in Clients : MidWrite(d)' => MidWrite(d)
        BY <2>p, <3>1 DEF MidWrite
      <4>3. OneWrites'
        BY <4>1, <4>2 DEF OneWrites, TornInv
      <4>4. \A d \in Clients : pc'[d] \in {"write", "fill"} => pc[d] \in {"write", "fill"}
        BY <2>p, <3>1
      <4>5. Good(file', AtFirst')
        BY <2>i, <3>1, <3>2 DEF Good
      <4> QED
        BY <2>i, <3>1, <4>1, <4>3, <4>4, <4>5 DEF TornInv
    <3> QED
      BY <3>2, <3>3, <3>4 DEF TornInv
  <2>5. CASE Reads(c)
    <3>1. /\ pc[c] = "read" /\ pc'[c] \in {"write", "idle"} /\ file' = file
          /\ seen' = [seen EXCEPT ![c] = file] /\ file # Absent
      BY <1>t, <2>5 DEF Reads, Returns, TypeInv
    <3>2. torn' = (torn \/ OthersMidWrite(c))
      BY <2>5 DEF Reads
    <3>3. \A d \in Clients : pc'[d] \in {"create", "template"} => initial' = Absent
      BY <2>i, <2>p, <3>1 DEF TornInv
    <3>4. ASSUME ~torn'
          PROVE  /\ OneWrites' /\ Good(file', AtFirst')
                 /\ \A d \in Clients : pc'[d] \in {"write", "fill"} => Good(seen'[d], AtFirst')
      <4>1. ~torn /\ ~OthersMidWrite(c)
        BY <3>2, <3>4, Zenon
      <4>2. \A d \in Clients : ~MidWrite(d)
        BY <3>1, <4>1 DEF OthersMidWrite, MidWrite
      <4>3. Good(file, AtFirst)
        BY <3>1, <4>1, <4>2 DEF TornInv, Settled
      <4>4. \A d \in Clients : ~MidWrite(d)'
        BY <2>p, <3>1, <4>2 DEF MidWrite
      <4>5. OneWrites'
        BY <4>4 DEF OneWrites
      <4>6. ASSUME NEW d \in Clients, pc'[d] \in {"write", "fill"}
            PROVE  Good(seen'[d], AtFirst')
        <5>1. CASE d = c
          BY <1>t, <2>i, <3>1, <4>3, <5>1
        <5>2. CASE d # c
          <6>1. pc[d] \in {"write", "fill"} /\ seen'[d] = seen[d]
            BY <1>t, <2>p, <3>1, <4>6, <5>2
          <6> QED
            BY <2>i, <4>1, <6>1 DEF TornInv
        <5> QED
          BY <5>1, <5>2
      <4> QED
        BY <2>i, <3>1, <4>3, <4>5, <4>6
    <3> QED
      BY <3>1, <3>3, <3>4 DEF TornInv
  <2>6. CASE Fills(c)
    <3>1. /\ pc[c] = "fill" /\ pc'[c] = "idle" /\ file' = Corrected(seen[c], opts[c])
          /\ seen' = seen /\ torn' = torn
      BY <1>t, <2>6 DEF Fills, Returns
    <3>2. file' # Absent
      <4>1. seen[c] \in Seq(Lines) /\ opts[c] \in Options
        BY <1>t
      <4> QED
        BY <3>1, <4>1, CorrectedFacts, NoTextIsAbsent
    <3>3. \A d \in Clients : pc'[d] \in {"create", "template"} => initial' = Absent
      BY <2>i, <2>p, <3>1 DEF TornInv
    <3>4. ASSUME ~torn'
          PROVE  /\ OneWrites' /\ Good(file', AtFirst')
                 /\ \A d \in Clients : pc'[d] \in {"write", "fill"} => Good(seen'[d], AtFirst')
      <4>1. ~torn
        BY <3>1, <3>4
      <4>2. \A d \in Clients : MidWrite(d)' => MidWrite(d)
        BY <2>p, <3>1 DEF MidWrite
      <4>3. OneWrites'
        BY <4>1, <4>2 DEF OneWrites, TornInv
      <4>4. \A d \in Clients : pc'[d] \in {"write", "fill"} => pc[d] \in {"write", "fill"}
        BY <2>p, <3>1
      <4>5. Good(seen[c], AtFirst) /\ seen[c] \in Seq(Lines) /\ opts[c] \in Options
        BY <1>t, <3>1, <4>1 DEF TornInv
      <4>6. Good(file', AtFirst')
        BY <2>i, <3>1, <4>5, CorrectionIsGood
      <4> QED
        BY <2>i, <3>1, <4>1, <4>3, <4>4, <4>6 DEF TornInv
    <3> QED
      BY <3>2, <3>3, <3>4 DEF TornInv
  <2>7. ASSUME IoFails(c) \/ Crashes(c) PROVE TornInv'
    <3>1. pc'[c] \in {"idle", "dead"} /\ file' = file /\ seen' = seen
      BY <1>t, <2>7 DEF IoFails, Crashes, Returns
    <3>2. torn' = (torn \/ MidWrite(c))
      BY <2>7 DEF IoFails, Crashes
    <3>3. \A d \in Clients : pc'[d] \in {"create", "template"} => initial' = Absent
      BY <2>i, <2>p, <3>1 DEF TornInv
    <3>4. ASSUME ~torn'
          PROVE  /\ OneWrites'
                 /\ (Settled' /\ file' # Absent) => Good(file', AtFirst')
                 /\ \A d \in Clients : pc'[d] \in {"write", "fill"} => Good(seen'[d], AtFirst')
      <4>1. ~torn /\ ~MidWrite(c)
        BY <3>2, <3>4, Zenon
      <4>2. \A d \in Clients : MidWrite(d)' <=> MidWrite(d)
        BY <2>p, <3>1, <4>1 DEF MidWrite
      <4>3. OneWrites' /\ (Settled' <=> Settled)
        BY <4>1, <4>2 DEF OneWrites, TornInv, Settled
      <4>4. \A d \in Clients : pc'[d] \in {"write", "fill"} => pc[d] \in {"write", "fill"}
        BY <2>p, <3>1
      <4> QED
        BY <2>i, <3>1, <4>1, <4>3, <4>4 DEF TornInv
    <3> QED
      BY <2>i, <3>1, <3>3, <3>4 DEF TornInv
  <2> QED
    BY <1>2, <2>1, <2>2, <2>3, <2>4, <2>5, <2>6, <2>7 DEF ClientStep
<1> QED
  BY <1>1, <1>2 DEF Next

-----------------------------------------------------------------------------
(***************************************************************************)
(* A program that has the file to itself: what the file holds is what its   *)
(* last run that answered left there, from before it begins again until it  *)
(* writes.                                                                  *)
(***************************************************************************)
LeftBy(f, o, r) == \E lines \in Seq(Lines) : f = Corrected(lines, o) /\ r = Returned(lines, o)

Rests(c) == pc[c] = "idle" /\ result[c].kind \in Answers

Before(c) == pc[c] \in {"exists", "create", "template", "read"} /\ previous[c].kind \in Answers

Within(c) == pc[c] \in {"write", "fill"} /\ previous[c].kind \in Answers

LeavesText(c) ==
    /\ Rests(c) =>
         /\ LeftBy(file, opts[c], result[c])
         /\ previous[c].kind \in Answers => Agrees(opts[c], previous[c], result[c])
    /\ Before(c) => pc[c] \in {"exists", "read"} /\ LeftBy(file, opts[c], previous[c])
    /\ Within(c) => LeftBy(seen[c], opts[c], previous[c])

AloneInv == \A c \in Clients : (Alone(c) /\ opts[c].ini) => LeavesText(c)

LEMMA LeftTextExists ==
    ASSUME NEW f, NEW o \in Options, NEW r, LeftBy(f, o, r)
    PROVE  f \in Seq(Lines) /\ f # Absent
  BY CorrectedFacts, NoTextIsAbsent DEF LeftBy

\* What a run returns that reads the text of the run before.
LEMMA NextRunAgrees ==
    ASSUME NEW f \in Seq(Lines), NEW o \in Options, NEW r, LeftBy(f, o, r)
    PROVE  Agrees(o, r, Returned(f, o))
<1>1. PICK lines \in Seq(Lines) : f = Corrected(lines, o) /\ r = Returned(lines, o)
  BY DEF LeftBy
<1> QED
  BY <1>1, ReturnedAgrees

LEMMA AloneInit == Init => AloneInv
<1> SUFFICES ASSUME Init, NEW c \in Clients PROVE LeavesText(c)
  BY DEF AloneInv
<1>1. NoResult.kind \notin Answers
  BY DEF NoResult, Answers
<1>2. result[c].kind \notin Answers /\ previous[c].kind \notin Answers
  BY <1>1 DEF Init
<1> QED
  BY <1>2 DEF LeavesText, Rests, Before, Within

\* While a program has the file to itself, it is the one that steps.
LEMMA AloneStep ==
    ASSUME TypeInv, NEW c \in Clients, NEW d \in Clients, ClientStep(d), Alone(c)'
    PROVE  d = c /\ Alone(c)
<1>1. /\ runs \in [Clients -> Nat] /\ \A e \in Clients : runs[e] = 0 => pc[e] \in {"idle", "dead"}
  BY DEF TypeInv
<1>2. \A e \in Clients \ {c} : runs'[e] = 0
  BY DEF Alone
<1>3. CASE Begins(d)
  <2>1. runs' = [runs EXCEPT ![d] = runs[d] + 1]
    BY <1>3 DEF Begins
  <2>2. runs'[d] # 0 /\ \A e \in Clients \ {d} : runs'[e] = runs[e]
    BY <1>1, <2>1
  <2> QED
    BY <1>2, <2>2 DEF Alone
<1>4. CASE ~Begins(d)
  <2>1. runs' = runs /\ pc[d] \notin {"idle", "dead"}
    BY <1>4 DEF ClientStep, ChecksExistence, Creates, FillsTemplate, Reads,
                Truncates, Fills, IoFails, Crashes, Moves
  <2> QED
    BY <1>1, <1>2, <2>1 DEF Alone
<1> QED
  BY <1>3, <1>4

LEMMA LeavesTextStep ==
    ASSUME TypeInv, NEW c \in Clients, opts[c].ini, LeavesText(c), ClientStep(c)
    PROVE  LeavesText(c)'
<1>t. /\ pc \in [Clients -> Places] /\ opts[c] \in Options /\ seen \in [Clients -> Seq(Lines)]
      /\ DOMAIN result = Clients /\ DOMAIN previous = Clients
  BY DEF TypeInv
<1>o. opts' = opts
  BY DEF ClientStep, Begins, ChecksExistence, Creates, FillsTemplate, Reads,
         Truncates, Fills, IoFails, Crashes
<1>1. CASE Begins(c)
  <2>1. /\ pc[c] = "idle" /\ pc'[c] = "exists" /\ file' = file
        /\ previous'[c] = result[c]
    BY <1>t, <1>1 DEF Begins
  <2>2. Before(c)' => Rests(c)
    BY <2>1 DEF Before, Rests
  <2> QED
    BY <1>o, <2>1, <2>2 DEF LeavesText, Rests, Within
<1>2. CASE ChecksExistence(c)
  <2>1. /\ pc[c] = "exists" /\ pc'[c] = (IF file = Absent THEN "create" ELSE "read")
        /\ file' = file /\ previous' = previous
    BY <1>t, <1>2 DEF ChecksExistence, Moves
  <2>2. ASSUME Before(c)' PROVE pc'[c] = "read" /\ LeftBy(file, opts[c], previous[c])
    <3>1. LeftBy(file, opts[c], previous[c])
      BY <2>1, <2>2 DEF Before, LeavesText
    <3>2. file # Absent
      BY <1>t, <3>1, LeftTextExists
    <3> QED
      BY <2>1, <3>1, <3>2
  <2>3. ~Rests(c)' /\ ~Within(c)'
    BY <2>1 DEF Rests, Within
  <2> QED
    BY <1>o, <2>1, <2>2, <2>3 DEF LeavesText
<1>3. CASE Creates(c) \/ FillsTemplate(c)
  <2>1. /\ pc[c] \in {"create", "template"} /\ pc'[c] \in {"template", "read"}
        /\ previous' = previous
    BY <1>t, <1>3 DEF Creates, FillsTemplate, Moves
  <2>2. previous[c].kind \notin Answers
    BY <2>1 DEF LeavesText, Before
  <2>3. ~Before(c)' /\ ~Within(c)' /\ ~Rests(c)'
    BY <2>1, <2>2 DEF Before, Within, Rests
  <2> QED
    BY <2>3 DEF LeavesText
<1>4. CASE Reads(c)
  <2>1. /\ pc[c] = "read" /\ file' = file /\ previous' = previous /\ seen'[c] = file
        /\ file \in Seq(Lines)
    BY <1>t, <1>4 DEF Reads, TypeInv, Texts
  <2>2. previous[c].kind \in Answers => LeftBy(file, opts[c], previous[c])
    BY <2>1 DEF LeavesText, Before
  <2>3. CASE Mutated(file, opts[c])
    <3>1. pc'[c] = "write"
      BY <1>t, <1>4, <2>3 DEF Reads
    <3>2. ~Before(c)' /\ ~Rests(c)'
      BY <3>1 DEF Before, Rests
    <3> QED
      BY <1>o, <2>1, <2>2, <3>2 DEF LeavesText, Within
  <2>4. CASE ~Mutated(file, opts[c])
    <3>1. pc'[c] = "idle" /\ result'[c] = Returned(file, opts[c])
      BY <1>t, <1>4, <2>4 DEF Reads, Returns
    <3>2. ~Before(c)' /\ ~Within(c)'
      BY <3>1 DEF Before, Within
    <3>3. LeftBy(file, opts[c], result'[c])
      BY <1>t, <2>1, <2>4, <3>1, CorrectedFacts DEF LeftBy
    <3>4. ASSUME Rests(c)', previous'[c].kind \in Answers
          PROVE  Agrees(opts[c], previous[c], result'[c])
      BY <1>t, <2>1, <2>2, <3>1, <3>4, NextRunAgrees DEF Rests
    <3> QED
      BY <1>o, <2>1, <3>2, <3>3, <3>4 DEF LeavesText
  <2> QED
    BY <2>3, <2>4
<1>5. CASE Truncates(c)
  <2>1. /\ pc[c] = "write" /\ pc'[c] = "fill" /\ seen' = seen /\ previous' = previous
    BY <1>t, <1>5 DEF Truncates, Moves
  <2>2. ~Before(c)' /\ ~Rests(c)' /\ (Within(c)' => Within(c))
    BY <2>1 DEF Before, Rests, Within
  <2> QED
    BY <1>o, <2>1, <2>2 DEF LeavesText
<1>6. CASE Fills(c)
  <2>1. /\ pc[c] = "fill" /\ pc'[c] = "idle" /\ previous' = previous
        /\ file' = Corrected(seen[c], opts[c]) /\ result'[c] = Returned(seen[c], opts[c])
    BY <1>t, <1>6 DEF Fills, Returns
  <2>2. ~Before(c)' /\ ~Within(c)'
    BY <2>1 DEF Before, Within
  <2>3. LeftBy(file', opts[c], result'[c])
    BY <1>t, <2>1 DEF LeftBy
  <2>4. ASSUME Rests(c)', previous'[c].kind \in Answers
        PROVE  Agrees(opts[c], previous[c], result'[c])
    <3>1. LeftBy(seen[c], opts[c], previous[c])
      BY <2>1, <2>4 DEF LeavesText, Within
    <3> QED
      BY <1>t, <2>1, <2>4, <3>1, NextRunAgrees DEF Rests
  <2> QED
    BY <1>o, <2>1, <2>2, <2>3, <2>4 DEF LeavesText
<1>7. CASE IoFails(c)
  <2>1. pc'[c] = "idle" /\ result'[c] = Failed("io")
    BY <1>t, <1>7 DEF IoFails, Returns
  <2>2. Failed("io").kind \notin Answers
    BY DEF Failed, NoResult, Answers
  <2>3. ~Before(c)' /\ ~Within(c)' /\ ~Rests(c)'
    BY <2>1, <2>2 DEF Before, Within, Rests
  <2> QED
    BY <2>3 DEF LeavesText
<1>8. CASE Crashes(c)
  <2>1. pc'[c] = "dead"
    BY <1>t, <1>8 DEF Crashes
  <2>2. ~Before(c)' /\ ~Within(c)' /\ ~Rests(c)'
    BY <2>1 DEF Before, Within, Rests
  <2> QED
    BY <2>2 DEF LeavesText
<1> QED
  BY <1>1, <1>2, <1>3, <1>4, <1>5, <1>6, <1>7, <1>8 DEF ClientStep

LEMMA AloneInvStep == TypeInv /\ AloneInv /\ [Next]_vars => AloneInv'
<1> SUFFICES ASSUME TypeInv, AloneInv, [Next]_vars, NEW c \in Clients,
                    Alone(c)', opts'[c].ini
             PROVE  LeavesText(c)'
  BY DEF AloneInv
<1>1. CASE UNCHANGED vars
  <2>1. Alone(c) /\ opts[c].ini
    BY <1>1 DEF vars, Alone
  <2>2. LeavesText(c)
    BY <2>1 DEF AloneInv
  <2> QED
    BY <1>1, <2>2 DEF vars, LeavesText, Rests, Before, Within
<1>2. ASSUME NEW d \in Clients, ClientStep(d) PROVE LeavesText(c)'
  <2>1. d = c /\ Alone(c)
    BY <1>2, AloneStep
  <2>2. opts' = opts
    BY <1>2 DEF ClientStep, Begins, ChecksExistence, Creates, FillsTemplate, Reads,
                Truncates, Fills, IoFails, Crashes
  <2> QED
    BY <1>2, <2>1, <2>2, LeavesTextStep DEF AloneInv
<1> QED
  BY <1>1, <1>2 DEF Next

-----------------------------------------------------------------------------
IniInv == TypeInv /\ TornInv /\ AloneInv

\* The types, where the file exists, what it holds while no write was seen half
\* way, and what a program that has it to itself left in it.
THEOREM IniInvHolds == Spec => []IniInv
<1>1. Init => IniInv
  BY TypeInit, TornInit, AloneInit DEF IniInv
<1>2. IniInv /\ [Next]_vars => IniInv'
  BY TypeStep, TornStep, AloneInvStep DEF IniInv
<1> QED
  BY <1>1, <1>2, PTL DEF Spec

\* What prepare_connection_config returns to a program that has the file to itself
\* is what it leaves in the file: the port, the web port and the packet rate.
THEOREM ResultIsInFile == Spec => []ResultMatchesFile
<1>1. IniInv => ResultMatchesFile
  <2> SUFFICES ASSUME IniInv, NEW c \in Clients, Prepared(c), opts[c].ini, Alone(c)
               PROVE  Matches(file, opts[c], result[c])
    BY DEF ResultMatchesFile, Matches
  <2>1. LeavesText(c) /\ opts[c] \in Options
    BY DEF IniInv, AloneInv, TypeInv
  <2>2. LeftBy(file, opts[c], result[c])
    BY <2>1 DEF LeavesText, Rests, Prepared
  <2>3. PICK lines \in Seq(Lines) : /\ file = Corrected(lines, opts[c])
                                    /\ result[c] = Returned(lines, opts[c])
    BY <2>2 DEF LeftBy
  <2> QED
    BY <2>1, <2>2, <2>3, ReturnedMatches
<1> QED
  BY <1>1, IniInvHolds, PTL

\* Preparing the connection once more gives the same answer, and writes the file
\* again only when the options ask for it or for a rate of 0.
THEOREM SecondRunAgrees == Spec => []RerunAgrees
<1>1. IniInv => RerunAgrees
  <2> SUFFICES ASSUME IniInv, NEW c \in Clients, Prepared(c), opts[c].ini, Alone(c),
                      previous[c].kind \in Answers
               PROVE  Agrees(opts[c], previous[c], result[c])
    BY DEF RerunAgrees, Agrees
  <2>1. LeavesText(c)
    BY DEF IniInv, AloneInv
  <2> QED
    BY <2>1 DEF LeavesText, Rests, Prepared
<1> QED
  BY <1>1, IniInvHolds, PTL

\* Any number of programs that correct the file with whatever options lose neither
\* the user's port nor a comment, unless a write was seen half done, cut short or
\* crossed by another.
THEOREM WholeWritesLoseNothing == Spec => []OnlyTornWritesLose
<1>1. IniInv => OnlyTornWritesLose
  BY DEF IniInv, TornInv, OnlyTornWritesLose, Good
<1> QED
  BY <1>1, IniInvHolds, PTL

=============================================================================
