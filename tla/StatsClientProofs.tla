-------------------------- MODULE StatsClientProofs --------------------------
(***************************************************************************)
(* Proofs about StatsClient, for every number of attempts, connections and  *)
(* cells.                                                                   *)
(***************************************************************************)
EXTENDS StatsClient, DataLemmas

\* A slice of a sequence of cells: its type, length and elements.
LEMMA Slice ==
    ASSUME NEW b \in Seq(Cell), NEW m \in 1..(Len(b) + 1), NEW n \in (m - 1)..Len(b)
    PROVE  /\ SubSeq(b, m, n) \in Seq(Cell)
           /\ Len(SubSeq(b, m, n)) = n - m + 1
           /\ \A i \in 1..(n - m + 1) : SubSeq(b, m, n)[i] = b[m + i - 1]
<1>1. \A i \in m..n : b[i] \in Cell
  OBVIOUS
<1> QED
  BY <1>1, SubSeqProperties

\* The lengths and counters are numbers.
LEMMA Sizes ==
    ASSUME TypeOK
    PROVE  /\ consumed \in Nat /\ conn \in Nat
           /\ Len(buffer) \in Nat /\ DOMAIN buffer = 1..Len(buffer)
           /\ Len(wire) \in Nat /\ DOMAIN wire = 1..Len(wire)
           /\ Len(script) \in Nat /\ DOMAIN script = 1..Len(script)
           /\ Len(taken) \in Nat /\ DOMAIN taken = 1..Len(taken)
  BY LenProperties DEF TypeOK

\* Draining removes a prefix of the buffer and counts it in consumed.
LEMMA DrainFacts ==
    ASSUME TypeOK, NEW n \in 0..Len(buffer), Drain(n)
    PROVE  /\ buffer' \in Seq(Cell) /\ Len(buffer') = Len(buffer) - n
           /\ \A i \in 1..(Len(buffer) - n) : buffer'[i] = buffer[n + i]
           /\ consumed' = consumed + n /\ consumed' \in Nat
<1>1. /\ n + 1 \in 1..(Len(buffer) + 1) /\ Len(buffer) \in ((n + 1) - 1)..Len(buffer)
      /\ Len(buffer) - (n + 1) + 1 = Len(buffer) - n /\ n \in Nat
  BY Sizes
<1>2. \A i \in 1..(Len(buffer) - n) : (n + 1) + i - 1 = n + i
  BY Sizes
<1>3. buffer' = SubSeq(buffer, n + 1, Len(buffer)) /\ consumed' = consumed + n
  BY DEF Drain
<1>4. consumed' \in Nat
  BY <1>1, <1>3, Sizes
<1>5. /\ SubSeq(buffer, n + 1, Len(buffer)) \in Seq(Cell)
      /\ Len(SubSeq(buffer, n + 1, Len(buffer))) = Len(buffer) - (n + 1) + 1
      /\ \A i \in 1..(Len(buffer) - (n + 1) + 1) :
            SubSeq(buffer, n + 1, Len(buffer))[i] = buffer[(n + 1) + i - 1]
  BY <1>1, Slice DEF TypeOK
<1>6. buffer' \in Seq(Cell) /\ Len(buffer') = Len(buffer) - n
  BY <1>1, <1>3, <1>5
<1>7. \A i \in 1..(Len(buffer) - n) : buffer'[i] = buffer[n + i]
  BY <1>1, <1>2, <1>3, <1>5
<1> QED
  BY <1>3, <1>4, <1>6, <1>7

\* What the parse of the buffer does when n cells of whitespace lead it.
Parses(n) ==
    /\ BlankRun(n)
    /\ TakeValue(n) \/ ReportSyntaxError(n) \/ WantMore(n) \/ ReportClosed(n)

\* A parse drains the whitespace, or the whitespace and one value.
LEMMA ParseDrains ==
    ASSUME TypeOK, NEW n \in 0..Len(buffer), Parses(n)
    PROVE  \/ /\ TakeValue(n) /\ n + 2 \in 0..Len(buffer) /\ Drain(n + 2)
              /\ n + 1 \in DOMAIN buffer /\ n + 2 \in DOMAIN buffer
           \/ /\ ReportSyntaxError(n) \/ WantMore(n) \/ ReportClosed(n)
              /\ Drain(n)
<1>1. CASE TakeValue(n)
  <2>1. Len(buffer) > n + 1 /\ Drain(n + 2)
    BY <1>1 DEF TakeValue, ValueAt
  <2>2. n + 1 \in 1..Len(buffer) /\ n + 2 \in 1..Len(buffer) /\ n + 2 \in 0..Len(buffer)
    BY <2>1, Sizes
  <2> QED
    BY <1>1, <2>1, <2>2, Sizes
<1>2. CASE ReportSyntaxError(n) \/ WantMore(n) \/ ReportClosed(n)
  BY <1>2 DEF ReportSyntaxError, WantMore, ReportClosed
<1> QED
  BY <1>1, <1>2 DEF Parses

\* The outcomes of a parse keep the types.
LEMMA ParseKeepsTypes ==
    ASSUME TypeOK, NEW n \in 0..Len(buffer), Parses(n)
    PROVE  /\ buffer' \in Seq(Cell)
           /\ consumed' \in Nat
           /\ taken' \in Seq(Cell)
           /\ call' \in {"idle", "parse", "read", "closed"}
           /\ result' \in {result, "event", "decode", "syntax", "closed"}
<1>1. CASE TakeValue(n) /\ n + 2 \in 0..Len(buffer) /\ Drain(n + 2) /\ n + 2 \in DOMAIN buffer
  <2>1. buffer' \in Seq(Cell) /\ consumed' \in Nat
    BY <1>1, DrainFacts
  <2>2. buffer[n + 2] \in Cell
    BY <1>1 DEF TypeOK
  <2>3. taken' \in Seq(Cell)
    BY <1>1, <2>2, AppendProperties DEF TakeValue, TypeOK
  <2>4. call' \in {"idle", "parse"} /\ result' \in {result, "decode", "event"}
    BY <1>1 DEF TakeValue
  <2> QED
    BY <2>1, <2>3, <2>4
<1>2. CASE (ReportSyntaxError(n) \/ WantMore(n) \/ ReportClosed(n)) /\ Drain(n)
  <2>1. buffer' \in Seq(Cell) /\ consumed' \in Nat
    BY <1>2, DrainFacts
  <2>2. /\ call' \in {"idle", "read", "closed"} /\ taken' = taken
        /\ result' \in {result, "syntax", "closed"}
    BY <1>2 DEF ReportSyntaxError, WantMore, ReportClosed
  <2> QED
    BY <2>1, <2>2 DEF TypeOK
<1> QED
  BY <1>1, <1>2, ParseDrains

\* ParseBuffer and ReadEof parse the buffer and leave the connection alone.
LEMMA ParseActions ==
    ASSUME ParseBuffer \/ ReadEof
    PROVE  /\ \E n \in 0..Len(buffer) : Parses(n)
           /\ UNCHANGED <<conn, peer, script, wire, filtered, streaming, attempt, outbox>>
  BY DEF ParseBuffer, ReadEof, Parses, netVars, callVars

LEMMA AttemptsPositive == Attempts \in Nat /\ Attempts > 0
  BY MaxAttemptsAssumption DEF Attempts

LEMMA TypeStep ==
    ASSUME TypeOK, [Next]_vars
    PROVE  TypeOK'
<1> USE DEF netVars, callVars
<1>1. ASSUME NEW k \in Kinds, GameWrites(k)
      PROVE  TypeOK'
  <2>1. [conn |-> conn, pos |-> Len(script) + 1, kind |-> k] \in Cell
    BY DEF TypeOK, Cell
  <2> QED
    BY <1>1, <2>1, AppendProperties DEF GameWrites, TypeOK
<1>2. CASE GameCloses
  BY <1>2 DEF GameCloses, TypeOK
<1>3. CASE GameResets
  BY <1>3 DEF GameResets, TypeOK
<1>4. CASE ConnectSucceeds
  BY <1>4, AttemptsPositive DEF ConnectSucceeds, NewConnection, TypeOK
<1>5. CASE ConnectFails
  <2>1. /\ attempt' \in 0..(Attempts - 1)
        /\ call' \in {"failed", call}
    BY <1>5, AttemptsPositive DEF ConnectFails, TypeOK
  <2> QED
    BY <1>5, <2>1 DEF ConnectFails, TypeOK
<1>6. CASE ReconnectSucceeds
  BY <1>6 DEF ReconnectSucceeds, NewConnection, TypeOK
<1>7. CASE ReconnectFails \/ UNCHANGED vars
  BY <1>7 DEF ReconnectFails, vars, TypeOK
<1>8. ASSUME NEW f \in BOOLEAN, StartCall(f)
      PROVE  TypeOK'
  BY <1>8 DEF StartCall, TypeOK
<1>9. CASE ParseBuffer \/ ReadEof
  <2>1. /\ buffer' \in Seq(Cell)
        /\ consumed' \in Nat
        /\ taken' \in Seq(Cell)
        /\ call' \in {"idle", "parse", "read", "closed"}
        /\ result' \in {result, "event", "decode", "syntax", "closed"}
        /\ UNCHANGED <<conn, peer, script, wire, filtered, streaming, attempt, outbox>>
    BY <1>9, ParseActions, ParseKeepsTypes
  <2> QED
    BY <2>1 DEF TypeOK
<1>10. CASE ReadBytes
  <2>1. PICK n \in 1..Len(wire) :
          /\ buffer' = buffer \o SubSeq(wire, 1, n)
          /\ wire' = SubSeq(wire, n + 1, Len(wire))
    BY <1>10 DEF ReadBytes
  <2>2. SubSeq(wire, 1, n) \in Seq(Cell) /\ wire' \in Seq(Cell)
    BY <2>1, Slice DEF TypeOK
  <2>3. buffer' \in Seq(Cell)
    BY <2>1, <2>2, ConcatProperties DEF TypeOK
  <2> QED
    BY <1>10, <2>2, <2>3 DEF ReadBytes, TypeOK
<1>11. CASE ReadFails
  BY <1>11 DEF ReadFails, TypeOK
<1>12. CASE CancelCall
  BY <1>12 DEF CancelCall, TypeOK
<1>13. ASSUME NEW f \in BOOLEAN, IntoStream(f)
       PROVE  TypeOK'
  BY <1>13 DEF IntoStream, TypeOK
<1>14. ASSUME NEW valid \in BOOLEAN, SendCommand(valid)
       PROVE  TypeOK'
  BY <1>14 DEF SendCommand, TypeOK
<1>15. CASE CloseClient
  BY <1>15 DEF CloseClient, TypeOK
<1> QED
  BY <1>1, <1>2, <1>3, <1>4, <1>5, <1>6, <1>7, <1>8, <1>9, <1>10, <1>11,
     <1>12, <1>13, <1>14, <1>15 DEF Next

\* Every reachable state has the types TypeOK names.
THEOREM TypeCorrect == Spec => []TypeOK
<1>1. Init => TypeOK
  <2>1. <<>> \in Seq(Cell) /\ <<>> \in Seq(Kinds)
    OBVIOUS
  <2>2. Init => filtered \in BOOLEAN /\ streaming \in BOOLEAN
    BY DEF Init
  <2>3. Init => wire \in Seq(Cell) /\ buffer \in Seq(Cell) /\ taken \in Seq(Cell)
                /\ script \in Seq(Kinds)
    BY <2>1 DEF Init
  <2>4. Init => /\ conn \in Nat /\ consumed \in Nat /\ outbox \in Nat
                /\ attempt \in 0..(Attempts - 1)
                /\ peer = "fin" /\ call = "connecting" /\ result = "none"
    BY AttemptsPositive DEF Init
  <2> QED
    BY <2>2, <2>3, <2>4 DEF TypeOK
<1> QED
  BY <1>1, TypeStep, PTL DEF Spec

-----------------------------------------------------------------------------
(***************************************************************************)
(* No byte is lost, repeated or carried over: Contiguous is inductive given *)
(* TypeOK.                                                                  *)
(***************************************************************************)

LEMMA ContiguousStep ==
    ASSUME TypeOK, Contiguous, [Next]_vars
    PROVE  Contiguous'
<1> USE DEF netVars, callVars
<1>1. ASSUME NEW k \in Kinds, GameWrites(k)
      PROVE  Contiguous'
  <2> DEFINE cell == [conn |-> conn, pos |-> Len(script) + 1, kind |-> k]
  <2>1. /\ script' \in Seq(Kinds) /\ Len(script') = Len(script) + 1
        /\ \A i \in 1..Len(script) : script'[i] = script[i]
        /\ script'[Len(script) + 1] = k
    BY <1>1, AppendProperties DEF GameWrites, TypeOK
  <2>2. /\ wire' \in Seq(Cell) /\ Len(wire') = Len(wire) + 1
        /\ \A i \in 1..Len(wire) : wire'[i] = wire[i]
        /\ wire'[Len(wire) + 1] = cell
    <3>1. cell \in Cell
      BY DEF Cell, TypeOK
    <3> QED
      BY <1>1, <3>1, AppendProperties DEF GameWrites, TypeOK
  <2>3. consumed + Len(buffer) + Len(wire) = Len(script)
    BY <1>1 DEF GameWrites, Contiguous
  <2>4. UNCHANGED <<conn, consumed, buffer>>
    BY <1>1 DEF GameWrites
  <2>5. consumed + Len(buffer) + Len(wire') = Len(script')
    <3>1. consumed \in Nat /\ Len(buffer) \in Nat /\ Len(wire) \in Nat /\ Len(script) \in Nat
      BY Sizes
    <3>2. Len(wire') = Len(wire) + 1 /\ Len(script') = Len(script) + 1
      BY <2>1, <2>2
    <3> QED
      BY <2>3, <3>1, <3>2
  <2>6. ASSUME NEW i \in DOMAIN buffer
        PROVE  buffer[i] = [conn |-> conn, pos |-> consumed + i, kind |-> script'[consumed + i]]
    <3>1. consumed + i \in 1..Len(script)
      BY <2>3, Sizes
    <3> QED
      BY <2>1, <3>1 DEF Contiguous
  <2>7. ASSUME NEW i \in DOMAIN wire'
        PROVE  wire'[i] = [conn |-> conn, pos |-> consumed + Len(buffer) + i,
                           kind |-> script'[consumed + Len(buffer) + i]]
    <3>1. CASE i = Len(wire) + 1
      <4>1. consumed + Len(buffer) + i = Len(script) + 1
        BY <2>3, <3>1, Sizes
      <4> QED
        BY <2>1, <2>2, <3>1, <4>1
    <3>2. CASE i # Len(wire) + 1
      <4>1. i \in DOMAIN wire /\ consumed + Len(buffer) + i \in 1..Len(script)
        BY <2>2, <2>3, <3>2, Sizes
      <4>2. wire[i] = [conn |-> conn, pos |-> consumed + Len(buffer) + i,
                       kind |-> script[consumed + Len(buffer) + i]]
        BY <4>1 DEF Contiguous
      <4>3. wire'[i] = wire[i]
        BY <2>2, <4>1, Sizes
      <4>4. script'[consumed + Len(buffer) + i] = script[consumed + Len(buffer) + i]
        BY <2>1, <4>1
      <4> QED
        BY <4>2, <4>3, <4>4
    <3> QED
      BY <3>1, <3>2
  <2> QED
    BY <2>4, <2>5, <2>6, <2>7 DEF Contiguous, TypeOK
<1>2. CASE GameCloses
  BY <1>2 DEF GameCloses, Contiguous, TypeOK
<1>3. CASE GameResets
  BY <1>3 DEF GameResets, Contiguous, TypeOK
<1>4. CASE ConnectSucceeds \/ ReconnectSucceeds
  BY <1>4 DEF ConnectSucceeds, ReconnectSucceeds, NewConnection, Contiguous, TypeOK
<1>5. CASE ConnectFails
  BY <1>5 DEF ConnectFails, Contiguous
<1>6. CASE ReconnectFails \/ UNCHANGED vars
  BY <1>6 DEF ReconnectFails, vars, Contiguous
<1>7. ASSUME NEW f \in BOOLEAN, StartCall(f) \/ IntoStream(f)
      PROVE  Contiguous'
  BY <1>7 DEF StartCall, IntoStream, Contiguous
<1>8. CASE ParseBuffer \/ ReadEof
  <2>1. PICK d \in 0..Len(buffer) : Drain(d)
    BY <1>8, ParseActions, ParseDrains
  <2>2. UNCHANGED <<conn, peer, script, wire>>
    BY <1>8, ParseActions
  <2>3. /\ buffer' \in Seq(Cell) /\ Len(buffer') = Len(buffer) - d
        /\ \A i \in 1..(Len(buffer) - d) : buffer'[i] = buffer[d + i]
        /\ consumed' = consumed + d /\ consumed' \in Nat
    BY <2>1, DrainFacts
  <2>4. consumed \in Nat /\ d \in Nat /\ Len(buffer) \in Nat /\ DOMAIN buffer = 1..Len(buffer)
    BY Sizes
  <2>5. consumed' + Len(buffer') = consumed + Len(buffer)
    BY <2>3, <2>4
  <2>6. ASSUME NEW i \in DOMAIN buffer'
        PROVE  buffer'[i] = [conn |-> conn, pos |-> consumed' + i, kind |-> script[consumed' + i]]
    <3>1. i \in 1..(Len(buffer) - d)
      BY <2>3
    <3>2. d + i \in DOMAIN buffer /\ consumed' + i = consumed + (d + i)
      BY <2>3, <2>4, <3>1
    <3>3. buffer'[i] = buffer[d + i]
      BY <2>3, <3>1
    <3> QED
      BY <3>2, <3>3 DEF Contiguous
  <2> QED
    BY <2>2, <2>5, <2>6 DEF Contiguous
<1>9. CASE ReadBytes
  <2>1. PICK n \in 1..Len(wire) :
          /\ buffer' = buffer \o SubSeq(wire, 1, n)
          /\ wire' = SubSeq(wire, n + 1, Len(wire))
    BY <1>9 DEF ReadBytes
  <2>2. /\ SubSeq(wire, 1, n) \in Seq(Cell) /\ Len(SubSeq(wire, 1, n)) = n
        /\ \A i \in 1..n : SubSeq(wire, 1, n)[i] = wire[i]
    BY Slice DEF TypeOK
  <2>3. /\ wire' \in Seq(Cell) /\ Len(wire') = Len(wire) - n
        /\ \A i \in 1..(Len(wire) - n) : wire'[i] = wire[n + i]
    <3>1. n + 1 \in 1..(Len(wire) + 1) /\ Len(wire) \in n..Len(wire)
      BY Sizes
    <3> QED
      BY <2>1, <3>1, Slice DEF TypeOK
  <2>4. /\ buffer' \in Seq(Cell) /\ Len(buffer') = Len(buffer) + n
        /\ \A i \in 1..(Len(buffer) + n) :
              buffer'[i] = IF i <= Len(buffer) THEN buffer[i] ELSE wire[i - Len(buffer)]
    BY <2>1, <2>2, ConcatProperties DEF TypeOK
  <2>5. UNCHANGED <<conn, peer, script, consumed>>
    BY <1>9 DEF ReadBytes
  <2>6. /\ consumed \in Nat /\ Len(buffer) \in Nat /\ Len(wire) \in Nat /\ n \in Nat
        /\ DOMAIN wire = 1..Len(wire)
    BY Sizes
  <2>7. Len(buffer') = Len(buffer) + n /\ Len(wire') = Len(wire) - n
    BY <2>3, <2>4
  <2>8. consumed + Len(buffer') + Len(wire') = consumed + Len(buffer) + Len(wire)
    BY <2>6, <2>7
  <2>9. ASSUME NEW i \in DOMAIN buffer'
        PROVE  buffer'[i] = [conn |-> conn, pos |-> consumed + i, kind |-> script[consumed + i]]
    <3>1. i \in 1..(Len(buffer) + n)
      BY <2>4
    <3>2. CASE i <= Len(buffer)
      <4>1. i \in DOMAIN buffer /\ buffer'[i] = buffer[i]
        BY <2>4, <3>1, <3>2, Sizes
      <4> QED
        BY <4>1 DEF Contiguous
    <3>3. CASE i > Len(buffer)
      <4> DEFINE j == i - Len(buffer)
      <4>1. j \in 1..n /\ j \in DOMAIN wire /\ consumed + Len(buffer) + j = consumed + i
        BY <2>6, <3>1, <3>3
      <4>2. buffer'[i] = wire[j]
        BY <2>4, <2>6, <3>1, <3>3
      <4> HIDE DEF j
      <4> QED
        BY <4>1, <4>2 DEF Contiguous
    <3> QED
      BY <3>1, <3>2, <3>3, Sizes
  <2>10. ASSUME NEW i \in DOMAIN wire'
        PROVE  wire'[i] = [conn |-> conn, pos |-> consumed + Len(buffer') + i,
                           kind |-> script[consumed + Len(buffer') + i]]
    <3>1. i \in 1..(Len(wire) - n)
      BY <2>3
    <3>2. n + i \in DOMAIN wire /\ wire'[i] = wire[n + i]
      BY <2>3, <2>6, <3>1
    <3>3. consumed + Len(buffer) + (n + i) = consumed + Len(buffer') + i
      BY <2>6, <2>7, <3>1
    <3> QED
      BY <3>2, <3>3 DEF Contiguous
  <2> QED
    BY <2>5, <2>8, <2>9, <2>10 DEF Contiguous
<1>10. CASE ReadFails \/ CancelCall \/ CloseClient
  BY <1>10 DEF ReadFails, CancelCall, CloseClient, Contiguous
<1>11. ASSUME NEW valid \in BOOLEAN, SendCommand(valid)
       PROVE  Contiguous'
  BY <1>11 DEF SendCommand, Contiguous
<1> QED
  BY <1>1, <1>2, <1>3, <1>4, <1>5, <1>6, <1>7, <1>8, <1>9, <1>10, <1>11 DEF Next

\* The buffer and the socket hold exactly the bytes of the current connection
\* that follow the drained ones.
THEOREM BufferIsContiguous == Spec => []Contiguous
<1>1. Init => Contiguous
  BY DEF Init, Contiguous
<1> QED
  BY <1>1, ContiguousStep, TypeCorrect, PTL DEF Spec

-----------------------------------------------------------------------------
(***************************************************************************)
(* Every value is taken once and in order.  ExactlyOnceInOrder needs one    *)
(* more fact: nothing taken comes from a connection not made yet.           *)
(***************************************************************************)
TakenFromThePast == \A i \in DOMAIN taken : taken[i].conn <= conn

\* A parse drains no complete value, or one: the last of what it drains.
LEMMA ParseAccounts ==
    ASSUME TypeOK, Contiguous, NEW n \in 0..Len(buffer), Parses(n)
    PROVE  \/ /\ taken' = taken
              /\ consumed' = consumed + n
              /\ \A p \in (consumed + 1)..consumed' : script[p] \notin Ends
           \/ \E v \in Cell :
                 /\ taken' = Append(taken, v)
                 /\ consumed' = consumed + (n + 2)
                 /\ consumed' \in DOMAIN script
                 /\ v.conn = conn /\ v.pos = consumed'
                 /\ script[consumed'] \in Ends
                 /\ \A p \in (consumed + 1)..(consumed' - 1) : script[p] \notin Ends
<1>1. \A i \in DOMAIN buffer : script[consumed + i] = buffer[i].kind
  BY DEF Contiguous
<1>2. \A p \in (consumed + 1)..(consumed + n) : script[p] \notin Ends
  <2> SUFFICES ASSUME NEW p \in (consumed + 1)..(consumed + n)
               PROVE  script[p] \notin Ends
    OBVIOUS
  <2> DEFINE i == p - consumed
  <2>1. i \in 1..n /\ i \in DOMAIN buffer /\ p = consumed + i
    BY Sizes
  <2>2. buffer[i].kind = "ws"
    BY <2>1 DEF Parses, BlankRun
  <2> HIDE DEF i
  <2> QED
    BY <1>1, <2>1, <2>2 DEF Ends
<1>3. CASE /\ TakeValue(n) /\ n + 2 \in 0..Len(buffer) /\ Drain(n + 2)
           /\ n + 1 \in DOMAIN buffer /\ n + 2 \in DOMAIN buffer
  <2>1. /\ buffer[n + 1].kind = "open" /\ buffer[n + 2].kind \in Ends
        /\ taken' = Append(taken, buffer[n + 2])
    BY <1>3 DEF TakeValue, ValueAt
  <2>2. consumed' = consumed + (n + 2) /\ consumed' \in Nat
    BY <1>3, DrainFacts
  <2>3. n \in Nat /\ consumed \in Nat
    BY Sizes
  <2>4. consumed' - 1 = consumed + (n + 1)
    BY <2>2, <2>3
  <2>5. script[consumed'] \in Ends /\ script[consumed' - 1] = "open"
    BY <1>1, <1>3, <2>1, <2>2, <2>4
  <2>6. /\ buffer[n + 2] \in Cell
        /\ buffer[n + 2].conn = conn /\ buffer[n + 2].pos = consumed'
    <3>1. buffer[n + 2] \in Cell
      BY <1>3 DEF TypeOK
    <3>2. buffer[n + 2] = [conn |-> conn, pos |-> consumed + (n + 2),
                           kind |-> script[consumed + (n + 2)]]
      BY <1>3 DEF Contiguous
    <3> QED
      BY <2>2, <3>1, <3>2
  <2>7. consumed' \in DOMAIN script
    <3>1. consumed + Len(buffer) + Len(wire) <= Len(script) /\ n + 2 <= Len(buffer)
      BY <1>3 DEF Contiguous
    <3> QED
      BY <2>2, <2>3, <3>1, Sizes
  <2>8. ASSUME NEW p \in (consumed + 1)..(consumed' - 1)
        PROVE  script[p] \notin Ends
    <3>1. p \in (consumed + 1)..(consumed + n) \/ p = consumed' - 1
      BY <2>3, <2>4
    <3> QED
      BY <1>2, <2>5, <3>1 DEF Ends
  <2> QED
    BY <2>1, <2>2, <2>5, <2>6, <2>7, <2>8
<1>4. CASE (ReportSyntaxError(n) \/ WantMore(n) \/ ReportClosed(n)) /\ Drain(n)
  <2>1. taken' = taken /\ consumed' = consumed + n
    BY <1>4, DrainFacts DEF ReportSyntaxError, WantMore, ReportClosed
  <2> QED
    BY <1>2, <2>1
<1> QED
  BY <1>3, <1>4, ParseDrains

LEMMA TakenTypes ==
    ASSUME TypeOK, NEW i \in DOMAIN taken
    PROVE  taken[i].conn \in Nat /\ taken[i].pos \in Nat
<1>1. taken[i] \in Cell
  BY DEF TypeOK
<1> QED
  BY <1>1 DEF Cell

OnceIInv == TypeOK /\ Contiguous /\ ExactlyOnceInOrder /\ TakenFromThePast

LEMMA ExactlyOnceStep ==
    ASSUME OnceIInv, [Next]_vars
    PROVE  (ExactlyOnceInOrder /\ TakenFromThePast)'
<1> USE DEF netVars, callVars
<1>1. ASSUME NEW k \in Kinds, GameWrites(k)
      PROVE  (ExactlyOnceInOrder /\ TakenFromThePast)'
  <2>1. /\ \A i \in 1..Len(script) : script'[i] = script[i]
        /\ UNCHANGED <<conn, consumed, taken>>
    BY <1>1, AppendProperties DEF GameWrites, OnceIInv, TypeOK
  <2>2. \A p \in 1..consumed : p \in 1..Len(script)
    BY DEF OnceIInv, Contiguous, TypeOK
  <2>3. {p \in 1..consumed : script'[p] \in Ends} = {p \in 1..consumed : script[p] \in Ends}
    BY <2>1, <2>2
  <2> QED
    BY <2>1, <2>3 DEF OnceIInv, ExactlyOnceInOrder, TakenFromThePast, Before
<1>2. CASE ConnectSucceeds \/ ReconnectSucceeds
  <2>1. conn' = conn + 1 /\ taken' = taken /\ consumed' = 0
    BY <1>2 DEF ConnectSucceeds, ReconnectSucceeds, NewConnection
  <2>2. \A i \in DOMAIN taken : taken[i].conn # conn' /\ taken[i].conn <= conn'
    <3>1. conn \in Nat /\ \A i \in DOMAIN taken : taken[i].conn \in Nat /\ taken[i].conn <= conn
      BY TakenTypes DEF OnceIInv, TakenFromThePast, TypeOK
    <3> QED
      BY <2>1, <3>1
  <2>3. {taken[i].pos : i \in {j \in DOMAIN taken : taken[j].conn = conn'}} = {}
    BY <2>2
  <2>4. {p \in 1..0 : script'[p] \in Ends} = {}
    OBVIOUS
  <2> QED
    BY <2>1, <2>2, <2>3, <2>4 DEF OnceIInv, ExactlyOnceInOrder, TakenFromThePast, Before
<1>3. CASE ParseBuffer \/ ReadEof
  <2>1. UNCHANGED <<conn, script>>
    BY <1>3, ParseActions
  <2>2. PICK n \in 0..Len(buffer) :
          \/ /\ taken' = taken
             /\ consumed' = consumed + n
             /\ \A p \in (consumed + 1)..consumed' : script[p] \notin Ends
          \/ \E v \in Cell :
                /\ taken' = Append(taken, v)
                /\ consumed' = consumed + (n + 2)
                /\ consumed' \in DOMAIN script
                /\ v.conn = conn /\ v.pos = consumed'
                /\ script[consumed'] \in Ends
                /\ \A p \in (consumed + 1)..(consumed' - 1) : script[p] \notin Ends
    BY <1>3, ParseActions, ParseAccounts DEF OnceIInv
  <2>3. CASE /\ taken' = taken
             /\ consumed' = consumed + n
             /\ \A p \in (consumed + 1)..consumed' : script[p] \notin Ends
    <3>1. {p \in 1..consumed' : script[p] \in Ends} = {p \in 1..consumed : script[p] \in Ends}
      BY <2>3, Sizes DEF OnceIInv
    <3> QED
      BY <2>1, <2>3, <3>1 DEF OnceIInv, ExactlyOnceInOrder, TakenFromThePast, Before
  <2>4. ASSUME NEW v \in Cell,
               taken' = Append(taken, v),
               consumed' = consumed + (n + 2),
               consumed' \in DOMAIN script,
               v.conn = conn, v.pos = consumed',
               script[consumed'] \in Ends,
               \A p \in (consumed + 1)..(consumed' - 1) : script[p] \notin Ends
        PROVE  (ExactlyOnceInOrder /\ TakenFromThePast)'
    <3> DEFINE last == Len(taken) + 1
    <3>1. /\ DOMAIN taken = 1..Len(taken) /\ DOMAIN taken' = 1..last
          /\ \A i \in 1..Len(taken) : taken'[i] = taken[i]
          /\ taken'[last] = v
          /\ Len(taken) \in Nat
      BY <2>4, AppendProperties, LenProperties DEF OnceIInv, TypeOK
    <3>2. \A i \in 1..Len(taken) : taken[i].conn <= conn
      BY <3>1 DEF OnceIInv, TakenFromThePast
    <3>3. TakenFromThePast'
      BY <2>1, <2>4, <3>1, <3>2 DEF OnceIInv, TakenFromThePast, TypeOK
    <3>4. \A i \in 1..Len(taken) : taken[i].conn = conn => taken[i].pos <= consumed
      <4>1. \A i \in DOMAIN taken : taken[i].conn = conn => taken[i].pos \in 1..consumed
        BY DEF OnceIInv, ExactlyOnceInOrder
      <4> QED
        BY <3>1, <4>1, Sizes DEF OnceIInv
    <3>5. \A i \in 1..Len(taken) : Before(taken[i], v)
      <4>1. ASSUME NEW i \in 1..Len(taken)
            PROVE  Before(taken[i], v)
        <5>1. taken[i].conn \in Nat /\ taken[i].pos \in Nat /\ taken[i].conn <= conn
          BY <3>1, <3>2, TakenTypes DEF OnceIInv
        <5>2. CASE taken[i].conn = conn
          <6>1. taken[i].pos <= consumed /\ consumed < consumed'
            BY <2>4, <3>4, <5>2, Sizes DEF OnceIInv
          <6> QED
            BY <2>4, <5>1, <5>2, <6>1, Sizes DEF Before, OnceIInv
        <5>3. CASE taken[i].conn # conn
          BY <2>4, <5>1, <5>3, Sizes DEF Before, OnceIInv
        <5> QED
          BY <5>2, <5>3
      <4> QED
        BY <4>1
    <3>6. \A i, j \in DOMAIN taken' : i < j => Before(taken'[i], taken'[j])
      <4>1. ASSUME NEW i \in 1..last, NEW j \in 1..last, i < j
            PROVE  Before(taken'[i], taken'[j])
        <5>1. i \in 1..Len(taken)
          BY <3>1, <4>1
        <5>2. CASE j = last
          BY <3>1, <3>5, <5>1, <5>2
        <5>3. CASE j # last
          <6>1. j \in 1..Len(taken)
            BY <3>1, <5>3
          <6> QED
            BY <3>1, <4>1, <5>1, <6>1 DEF OnceIInv, ExactlyOnceInOrder
        <5> QED
          BY <5>2, <5>3
      <4> QED
        BY <3>1, <4>1
    <3>7. {taken'[i].pos : i \in {j \in DOMAIN taken' : taken'[j].conn = conn}}
            = {taken[i].pos : i \in {j \in DOMAIN taken : taken[j].conn = conn}} \cup {consumed'}
      <4>1. \A i \in 1..last : i = last \/ i \in 1..Len(taken)
        BY <3>1
      <4>2. last \in 1..last /\ \A i \in 1..Len(taken) : i \in 1..last
        BY <3>1
      <4> HIDE DEF last
      <4> QED
        BY <2>4, <3>1, <4>1, <4>2
    <3>8. {p \in 1..consumed' : script[p] \in Ends}
            = {p \in 1..consumed : script[p] \in Ends} \cup {consumed'}
      <4>1. \A p \in 1..consumed' : \/ p \in 1..consumed \/ p = consumed'
                                    \/ p \in (consumed + 1)..(consumed' - 1)
        BY <2>4, Sizes DEF OnceIInv
      <4>2. consumed' \in 1..consumed' /\ \A p \in 1..consumed : p \in 1..consumed'
        BY <2>4, Sizes DEF OnceIInv
      <4> QED
        BY <2>4, <4>1, <4>2
    <3> QED
      BY <2>1, <3>3, <3>6, <3>7, <3>8 DEF OnceIInv, ExactlyOnceInOrder, Before
  <2> QED
    BY <2>2, <2>3, <2>4
<1>4. CASE \/ GameCloses \/ GameResets \/ ConnectFails \/ ReconnectFails
           \/ ReadBytes \/ ReadFails \/ CancelCall \/ CloseClient
           \/ UNCHANGED vars
  <2>1. UNCHANGED <<conn, script, consumed, taken>>
    BY <1>4 DEF GameCloses, GameResets, ConnectFails, ReconnectFails, ReadBytes,
                ReadFails, CancelCall, CloseClient, vars
  <2> QED
    BY <2>1 DEF OnceIInv, ExactlyOnceInOrder, TakenFromThePast, Before
<1>5. ASSUME NEW b \in BOOLEAN, StartCall(b) \/ IntoStream(b) \/ SendCommand(b)
      PROVE  (ExactlyOnceInOrder /\ TakenFromThePast)'
  <2>1. UNCHANGED <<conn, script, consumed, taken>>
    BY <1>5 DEF StartCall, IntoStream, SendCommand
  <2> QED
    BY <2>1 DEF OnceIInv, ExactlyOnceInOrder, TakenFromThePast, Before
<1> QED
  BY <1>1, <1>2, <1>3, <1>4, <1>5 DEF Next

\* Each value of the drained bytes is taken exactly once, in the order the
\* game wrote them, on every connection.
THEOREM ValuesExactlyOnce == Spec => []ExactlyOnceInOrder
<1>1. Init => ExactlyOnceInOrder /\ TakenFromThePast
  BY DEF Init, ExactlyOnceInOrder, TakenFromThePast
<1>2. TypeOK /\ Contiguous /\ (ExactlyOnceInOrder /\ TakenFromThePast) /\ [Next]_vars
        => (ExactlyOnceInOrder /\ TakenFromThePast)'
  BY ExactlyOnceStep DEF OnceIInv
<1> QED
  BY <1>1, <1>2, TypeCorrect, BufferIsContiguous, PTL DEF Spec

-----------------------------------------------------------------------------
(***************************************************************************)
(* Ok(None) is honest, and a syntax error is final.                         *)
(***************************************************************************)
ClosedMeansEnded == result = "closed" => peer # "open"

\* A parse that ends a call at end of file leaves no complete value.
LEMMA EofLeavesNoValue ==
    ASSUME TypeOK, Contiguous, peer = "fin", wire = <<>>,
           NEW n \in 0..Len(buffer), ReportClosed(n)
    PROVE  \A p \in DOMAIN script : script[p] \in Ends => p <= consumed'
<1>1. /\ consumed' = consumed + n /\ Unfinished(n)
      /\ consumed \in Nat /\ n \in Nat /\ Len(buffer) \in Nat
  <2>1. Drain(n) /\ Unfinished(n)
    BY DEF ReportClosed
  <2>2. consumed \in Nat /\ n \in Nat /\ Len(buffer) \in Nat
    BY Sizes
  <2> QED
    BY <2>1, <2>2, DrainFacts
<1>2. consumed + Len(buffer) = Len(script)
  <2>1. Len(wire) = 0
    OBVIOUS
  <2> QED
    BY <2>1, Sizes DEF Contiguous
<1>3. ASSUME NEW p \in DOMAIN script, ~(p <= consumed')
      PROVE  script[p] = "open"
  <2>1. p \in Nat /\ p > consumed + n /\ p <= consumed + Len(buffer)
    BY <1>1, <1>2, <1>3, Sizes
  <2>2. Len(buffer) = n + 1 /\ buffer[n + 1].kind = "open"
    BY <1>1, <2>1 DEF Unfinished
  <2>3. p = consumed + (n + 1) /\ n + 1 \in DOMAIN buffer
    BY <1>1, <2>1, <2>2, Sizes
  <2>4. buffer[n + 1].kind = script[consumed + (n + 1)]
    BY <2>3 DEF Contiguous
  <2> QED
    BY <2>2, <2>3, <2>4
<1> QED
  BY <1>3 DEF Ends

LEMMA HonestStep ==
    ASSUME TypeOK, Contiguous, ClosedMeansEnded, EndOfFeedIsHonest, [Next]_vars
    PROVE  (ClosedMeansEnded /\ EndOfFeedIsHonest)'
<1> USE DEF netVars, callVars
<1>1. ASSUME NEW k \in Kinds, GameWrites(k)
      PROVE  (ClosedMeansEnded /\ EndOfFeedIsHonest)'
  BY <1>1 DEF GameWrites, ClosedMeansEnded, EndOfFeedIsHonest
<1>2. CASE ConnectSucceeds \/ ReconnectSucceeds \/ ReadFails
  BY <1>2 DEF ConnectSucceeds, ReconnectSucceeds, NewConnection, ReadFails,
              ClosedMeansEnded, EndOfFeedIsHonest
<1>3. CASE ParseBuffer \/ ReadEof
  <2>1. UNCHANGED <<peer, script>>
    BY <1>3, ParseActions
  <2>2. PICK n \in 0..Len(buffer) :
          /\ BlankRun(n)
          /\ \/ TakeValue(n) \/ ReportSyntaxError(n) \/ WantMore(n)
             \/ peer = "fin" /\ wire = <<>> /\ ReportClosed(n)
    BY <1>3 DEF ParseBuffer, ReadEof
  <2>3. CASE TakeValue(n) \/ ReportSyntaxError(n) \/ WantMore(n)
    <3>1. result' = "closed" => result = "closed"
      BY <2>3 DEF TakeValue, ReportSyntaxError, WantMore
    <3>2. Drain(n) \/ (Drain(n + 2) /\ n + 2 \in 0..Len(buffer))
      BY <2>2, <2>3, ParseDrains DEF Parses
    <3>3. consumed' = consumed + n \/ consumed' = consumed + (n + 2)
      BY <3>2, DrainFacts
    <3>4. consumed \in Nat /\ n \in Nat
      BY Sizes
    <3>5. consumed' \in Nat /\ consumed <= consumed'
      BY <3>3, <3>4
    <3> QED
      BY <2>1, <3>1, <3>4, <3>5, Sizes DEF ClosedMeansEnded, EndOfFeedIsHonest
  <2>4. CASE peer = "fin" /\ wire = <<>> /\ ReportClosed(n)
    BY <2>1, <2>4, EofLeavesNoValue DEF ClosedMeansEnded, EndOfFeedIsHonest
  <2> QED
    BY <2>2, <2>3, <2>4
<1>4. CASE GameCloses \/ GameResets
  BY <1>4 DEF GameCloses, GameResets, ClosedMeansEnded, EndOfFeedIsHonest
<1>5. CASE \/ ConnectFails \/ ReconnectFails \/ ReadBytes \/ CancelCall
           \/ CloseClient \/ UNCHANGED vars
  BY <1>5 DEF ConnectFails, ReconnectFails, ReadBytes, CancelCall, CloseClient, vars,
              ClosedMeansEnded, EndOfFeedIsHonest
<1>6. ASSUME NEW b \in BOOLEAN, StartCall(b) \/ IntoStream(b) \/ SendCommand(b)
      PROVE  (ClosedMeansEnded /\ EndOfFeedIsHonest)'
  BY <1>6 DEF StartCall, IntoStream, SendCommand, ClosedMeansEnded, EndOfFeedIsHonest
<1> QED
  BY <1>1, <1>2, <1>3, <1>4, <1>5, <1>6 DEF Next

\* When next_event answers Ok(None), every complete value was taken before.
THEOREM ClosedIsHonest == Spec => []EndOfFeedIsHonest
<1>1. Init => ClosedMeansEnded /\ EndOfFeedIsHonest
  BY DEF Init, ClosedMeansEnded, EndOfFeedIsHonest
<1>2. TypeOK /\ Contiguous /\ (ClosedMeansEnded /\ EndOfFeedIsHonest) /\ [Next]_vars
        => (ClosedMeansEnded /\ EndOfFeedIsHonest)'
  BY HonestStep
<1> QED
  BY <1>1, <1>2, TypeCorrect, BufferIsContiguous, PTL DEF Spec

\* After a syntax error the malformed text is at the front of the buffer.
Poisoned ==
    result = "syntax" => call # "read" /\ BlankRun(0) /\ SyntaxErrorAt(0)

\* Dropping no cell leaves the buffer as it is.
LEMMA DrainNothing == ASSUME TypeOK, Drain(0) PROVE buffer' = buffer
  BY SubSeqFull DEF Drain, TypeOK

LEMMA SyntaxErrorIsFinal ==
    ASSUME TypeOK, Poisoned, result = "syntax", ParseBuffer \/ ReadEof
    PROVE  /\ ReportSyntaxError(0)
           /\ result' = "syntax" /\ UNCHANGED <<buffer, taken>>
<1>1. PICK n \in 0..Len(buffer) : Parses(n)
  BY ParseActions
<1>2. SyntaxErrorAt(0) /\ BlankRun(0)
  BY DEF Poisoned
<1>3. n = 0
  <2>1. SUFFICES ASSUME n # 0 PROVE FALSE
    OBVIOUS
  <2>2. 0 < Len(buffer) /\ 1 \in 1..n
    BY <2>1, Sizes
  <2> QED
    BY <1>1, <1>2, <2>2 DEF Parses, BlankRun
<1>4. ReportSyntaxError(0)
  BY <1>1, <1>2, <1>3 DEF Parses, TakeValue, WantMore, ReportClosed, SyntaxErrorAt
<1> QED
  BY <1>4, DrainNothing DEF ReportSyntaxError

\* A syntax error leaves the malformed text at the front.
LEMMA ReportPoisons ==
    ASSUME TypeOK, NEW n \in 0..Len(buffer), BlankRun(n), ReportSyntaxError(n)
    PROVE  Poisoned'
<1>1. /\ SyntaxErrorAt(n) /\ call' = "idle" /\ n \in Nat /\ Len(buffer) \in Nat
      /\ buffer' \in Seq(Cell) /\ Len(buffer') = Len(buffer) - n
      /\ \A i \in 1..(Len(buffer) - n) : buffer'[i] = buffer[n + i]
  <2>1. Drain(n) /\ SyntaxErrorAt(n) /\ call' = "idle"
    BY DEF ReportSyntaxError
  <2>2. n \in Nat /\ Len(buffer) \in Nat
    BY Sizes
  <2> QED
    BY <2>1, <2>2, DrainFacts
<1>2. Len(buffer) > n
  BY <1>1 DEF SyntaxErrorAt, Unfinished
<1>3. buffer'[1] = buffer[n + 1]
  BY <1>1, <1>2
<1>4. BlankRun(0)'
  BY <1>2, <1>3 DEF BlankRun
<1>5. ~Unfinished(0)'
  BY <1>1, <1>2, <1>3 DEF SyntaxErrorAt, Unfinished
<1>6. ~ValueAt(0)'
  <2>1. CASE Len(buffer) > n + 1
    <3>1. buffer'[2] = buffer[n + 2]
      BY <1>1, <2>1
    <3> QED
      BY <1>1, <1>3, <2>1, <3>1 DEF SyntaxErrorAt, ValueAt
  <2>2. CASE ~(Len(buffer) > n + 1)
    <3>1. ~(Len(buffer') > 1)
      BY <1>1, <2>2
    <3> QED
      BY <3>1 DEF ValueAt
  <2> QED
    BY <2>1, <2>2
<1> QED
  BY <1>1, <1>4, <1>5, <1>6 DEF Poisoned, SyntaxErrorAt

LEMMA PoisonedStep ==
    ASSUME TypeOK, Poisoned, [Next]_vars
    PROVE  /\ Poisoned'
           /\ result = "syntax" /\ conn' = conn
                => result' = "syntax" /\ buffer' = buffer /\ taken' = taken
<1> USE DEF netVars, callVars
<1> DEFINE Sticks == result = "syntax" /\ conn' = conn
                       => result' = "syntax" /\ buffer' = buffer /\ taken' = taken
<1>1. CASE ConnectSucceeds \/ ReconnectSucceeds
  BY <1>1 DEF ConnectSucceeds, ReconnectSucceeds, NewConnection, Poisoned, TypeOK
<1>2. CASE ParseBuffer \/ ReadEof
  <2>1. Sticks
    BY <1>2, SyntaxErrorIsFinal
  <2>2. PICK n \in 0..Len(buffer) : Parses(n)
    BY <1>2, ParseActions
  <2>3. CASE ReportSyntaxError(n)
    BY <2>1, <2>2, <2>3, ReportPoisons DEF Parses
  <2>4. CASE ~ReportSyntaxError(n) /\ result # "syntax"
    <3>1. result' # "syntax"
      BY <2>2, <2>4 DEF Parses, TakeValue, WantMore, ReportClosed
    <3> QED
      BY <2>1, <3>1 DEF Poisoned
  <2>5. CASE result = "syntax"
    <3>1. ReportSyntaxError(0) /\ BlankRun(0) /\ 0 \in 0..Len(buffer)
      BY <1>2, <2>5, SyntaxErrorIsFinal, Sizes DEF Poisoned
    <3> QED
      BY <2>1, <3>1, ReportPoisons
  <2> QED
    BY <2>3, <2>4, <2>5
<1>3. CASE ReadBytes
  BY <1>3 DEF ReadBytes, Poisoned
<1>4. CASE ReadFails
  BY <1>4 DEF ReadFails, Poisoned
<1>5. CASE \/ GameCloses \/ GameResets \/ ConnectFails \/ ReconnectFails
           \/ CancelCall \/ CloseClient \/ UNCHANGED vars
  BY <1>5 DEF GameCloses, GameResets, ConnectFails, ReconnectFails, CancelCall,
              CloseClient, vars, Poisoned, BlankRun, SyntaxErrorAt, Unfinished, ValueAt
<1>6. ASSUME NEW b \in BOOLEAN, StartCall(b) \/ IntoStream(b) \/ SendCommand(b)
      PROVE  Poisoned' /\ Sticks
  BY <1>6 DEF StartCall, IntoStream, SendCommand, Poisoned, BlankRun, SyntaxErrorAt, Unfinished, ValueAt
<1>7. ASSUME NEW k \in Kinds, GameWrites(k)
      PROVE  Poisoned' /\ Sticks
  BY <1>7 DEF GameWrites, Poisoned, BlankRun, SyntaxErrorAt, Unfinished, ValueAt
<1> QED
  BY <1>1, <1>2, <1>3, <1>4, <1>5, <1>6, <1>7 DEF Next

\* A JSON syntax error repeats on every call until the client reconnects, and
\* nothing is handed over meanwhile.
THEOREM SyntaxErrorsStick == Spec => SyntaxErrorSticks
<1>1. Init => Poisoned
  BY DEF Init, Poisoned
<1>2. TypeOK /\ Poisoned /\ [Next]_vars => Poisoned'
  BY PoisonedStep
<1>3. TypeOK /\ Poisoned /\ [Next]_vars
        => [result = "syntax" /\ conn' = conn
              => result' = "syntax" /\ buffer' = buffer /\ taken' = taken]_vars
  BY PoisonedStep
<1> QED
  BY <1>1, <1>2, <1>3, TypeCorrect, PTL DEF Spec, SyntaxErrorSticks

-----------------------------------------------------------------------------
(***************************************************************************)
(* The client implements EventFeed.  Besides TypeOK and Contiguous the      *)
(* mapping needs what the game can write after what, that nothing malformed *)
(* was ever drained, and that a call that reads has no value in its buffer. *)
(***************************************************************************)
ScriptGrammar ==
    \A p \in DOMAIN script :
       /\ script[p] \in Ends => p > 1 /\ script[p - 1] = "open"
       /\ p > 1 /\ script[p - 1] = "open" => script[p] \in Ends \cup {"bad"}

DrainedClean ==
    /\ \A p \in 1..consumed : script[p] # "bad"
    /\ consumed > 0 => script[consumed] # "open"

WithinBounds ==
    /\ conn <= MaxConnections
    /\ IF conn = 0 THEN script = <<>> ELSE Len(script) <= MaxCells[conn]

ReadWaits == call = "read" => Unfinished(0)

FeedInv ==
    /\ ScriptGrammar /\ DrainedClean /\ WithinBounds /\ ReadWaits
    /\ peer = "reset" => wire = <<>>

\* What a parse finds in the buffer, told by what the game wrote.
LEMMA ParseSees ==
    ASSUME TypeOK, Contiguous, NEW n \in 0..Len(buffer), BlankRun(n)
    PROVE  /\ \A p \in (consumed + 1)..(consumed + n) : script[p] = "ws"
           /\ \A i \in DOMAIN buffer : /\ script[consumed + i] = buffer[i].kind
                                       /\ consumed + i \in DOMAIN script
<1>1. \A i \in DOMAIN buffer : script[consumed + i] = buffer[i].kind
  BY DEF Contiguous
<1>2. ASSUME NEW i \in DOMAIN buffer PROVE consumed + i \in DOMAIN script
  BY <1>2, Sizes DEF Contiguous
<1>3. ASSUME NEW p \in (consumed + 1)..(consumed + n) PROVE script[p] = "ws"
  <2>1. PICK i : i = p - consumed
    OBVIOUS
  <2>2. i \in 1..n /\ i \in DOMAIN buffer /\ p = consumed + i
    BY <1>3, <2>1, Sizes
  <2>3. buffer[i].kind = "ws"
    BY <2>2 DEF BlankRun
  <2> QED
    BY <1>1, <2>2, <2>3
<1> QED
  BY <1>1, <1>2, <1>3

LEMMA ParseKeepsClean ==
    ASSUME TypeOK, Contiguous, DrainedClean, NEW n \in 0..Len(buffer), Parses(n),
           script' = script
    PROVE  DrainedClean'
<1>1. /\ consumed \in Nat /\ n \in Nat /\ Len(buffer) \in Nat /\ DOMAIN buffer = 1..Len(buffer)
      /\ \A p \in (consumed + 1)..(consumed + n) : script[p] = "ws"
      /\ \A i \in DOMAIN buffer : script[consumed + i] = buffer[i].kind
  BY Sizes, ParseSees DEF Parses
<1>2. CASE /\ TakeValue(n) /\ n + 2 \in 0..Len(buffer) /\ Drain(n + 2)
           /\ n + 1 \in DOMAIN buffer /\ n + 2 \in DOMAIN buffer
  <2>1. consumed' = consumed + (n + 2)
    BY <1>2, DrainFacts
  <2>2. script[consumed + (n + 1)] = "open" /\ script[consumed + (n + 2)] \in Ends
    BY <1>1, <1>2 DEF TakeValue, ValueAt
  <2>3. ASSUME NEW p \in 1..consumed' PROVE script[p] # "bad"
    <3>1. \/ p \in 1..consumed \/ p \in (consumed + 1)..(consumed + n)
          \/ p = consumed + (n + 1) \/ p = consumed + (n + 2)
      BY <1>1, <2>1
    <3> QED
      BY <1>1, <2>2, <3>1 DEF DrainedClean, Ends
  <2> QED
    BY <2>1, <2>2, <2>3 DEF DrainedClean, Ends
<1>3. CASE (ReportSyntaxError(n) \/ WantMore(n) \/ ReportClosed(n)) /\ Drain(n)
  <2>1. consumed' = consumed + n
    BY <1>3, DrainFacts
  <2>2. ASSUME NEW p \in 1..consumed' PROVE script[p] # "bad"
    <3>1. p \in 1..consumed \/ p \in (consumed + 1)..(consumed + n)
      BY <1>1, <2>1
    <3> QED
      BY <1>1, <3>1 DEF DrainedClean
  <2>3. consumed' > 0 => script[consumed'] # "open"
    <3>1. n = 0 \/ consumed + n \in (consumed + 1)..(consumed + n)
      BY <1>1
    <3>2. n = 0 => consumed' = consumed
      BY <1>1, <2>1
    <3> QED
      BY <1>1, <2>1, <3>1, <3>2 DEF DrainedClean
  <2> QED
    BY <2>2, <2>3 DEF DrainedClean
<1> QED
  BY <1>2, <1>3, ParseDrains

\* Only a parse that wants more goes on to read.
LEMMA ParseKeepsWaiting ==
    ASSUME TypeOK, NEW n \in 0..Len(buffer), Parses(n), call' = "read"
    PROVE  ReadWaits'
<1>1. WantMore(n) /\ Drain(n) /\ Unfinished(n)
  <2>1. WantMore(n)
    BY DEF Parses, TakeValue, ReportSyntaxError, ReportClosed
  <2> QED
    BY <2>1 DEF WantMore
<1>s. Len(buffer) \in Nat /\ n \in Nat
  BY Sizes
<1>2. /\ Len(buffer') = Len(buffer) - n /\ n \in Nat /\ Len(buffer) \in Nat
      /\ \A i \in 1..(Len(buffer) - n) : buffer'[i] = buffer[n + i]
  BY <1>1, <1>s, DrainFacts
<1>3. CASE Len(buffer) = n
  BY <1>2, <1>3 DEF ReadWaits, Unfinished
<1>4. CASE Len(buffer) = n + 1 /\ buffer[n + 1].kind = "open"
  <2>1. Len(buffer') = 1 /\ buffer'[1] = buffer[n + 1]
    BY <1>2, <1>4
  <2>2. Len(buffer') = 0 + 1 /\ buffer'[0 + 1].kind = "open"
    BY <1>4, <2>1
  <2> QED
    BY <2>2 DEF ReadWaits, Unfinished
<1> QED
  BY <1>1, <1>3, <1>4 DEF Unfinished

LEMMA FeedInvStep ==
    ASSUME TypeOK, Contiguous, FeedInv, [Next]_vars
    PROVE  FeedInv'
<1> USE DEF netVars, callVars
<1>1. ASSUME NEW k \in Kinds, GameWrites(k)
      PROVE  FeedInv'
  <2>1. /\ Len(script') = Len(script) + 1 /\ Len(script) \in Nat
        /\ DOMAIN script = 1..Len(script) /\ DOMAIN script' = 1..(Len(script) + 1)
        /\ \A i \in 1..Len(script) : script'[i] = script[i]
        /\ script'[Len(script) + 1] = k
    BY <1>1, AppendProperties, LenProperties DEF GameWrites, TypeOK
  <2>2. /\ conn > 0 /\ peer = "open" /\ Len(script) < MaxCells[conn]
        /\ UNCHANGED <<conn, peer, buffer, consumed, call>>
        /\ k \in IF MidValue THEN Ends \cup {"bad"} ELSE {"open", "ws", "bad"}
    BY <1>1 DEF GameWrites
  <2>3. consumed \in Nat /\ consumed <= Len(script)
    BY Sizes DEF Contiguous
  <2>4. ASSUME NEW p \in DOMAIN script'
        PROVE  /\ script'[p] \in Ends => p > 1 /\ script'[p - 1] = "open"
               /\ p > 1 /\ script'[p - 1] = "open" => script'[p] \in Ends \cup {"bad"}
    <3>1. p > 1 => p - 1 \in DOMAIN script /\ script'[p - 1] = script[p - 1]
      BY <2>1, <2>4
    <3>2. CASE p \in DOMAIN script
      <4>1. script'[p] = script[p]
        BY <2>1, <3>2
      <4> QED
        BY <3>1, <3>2, <4>1 DEF FeedInv, ScriptGrammar
    <3>3. CASE p = Len(script) + 1
      <4>1. script'[p] = k /\ p - 1 = Len(script)
        BY <2>1, <3>3
      <4>2. CASE MidValue
        <5>1. p > 1 /\ script[p - 1] = "open"
          <6>1. script # <<>> /\ script[Len(script)] = "open"
            BY <4>2 DEF MidValue
          <6>2. Len(script) # 0
            BY <6>1, EmptySeq DEF TypeOK
          <6> QED
            BY <2>1, <3>3, <4>1, <6>1, <6>2
        <5> QED
          BY <2>2, <3>1, <4>1, <4>2, <5>1
      <4>3. CASE ~MidValue
        <5>1. p > 1 => script[p - 1] # "open"
          <6>1. p > 1 => script # <<>>
            BY <2>1, <3>3
          <6> QED
            BY <4>1, <4>3, <6>1 DEF MidValue
        <5> QED
          BY <2>2, <3>1, <4>1, <4>3, <5>1 DEF Ends
      <4> QED
        BY <4>2, <4>3
    <3> QED
      BY <2>1, <2>4, <3>2, <3>3
  <2>5. ScriptGrammar'
    BY <2>4 DEF ScriptGrammar
  <2>6. DrainedClean'
    <3>1. \A p \in 1..consumed : p \in 1..Len(script)
      BY <2>1, <2>3
    <3>2. consumed > 0 => consumed \in 1..Len(script)
      BY <2>3
    <3> QED
      BY <2>1, <2>2, <3>1, <3>2 DEF FeedInv, DrainedClean
  <2>7. WithinBounds'
    <3>1. MaxCells[conn] \in Nat
      BY <2>2, Sizes, BoundsAssumption DEF FeedInv, WithinBounds
    <3> QED
      BY <2>1, <2>2, <3>1 DEF FeedInv, WithinBounds
  <2> QED
    BY <2>2, <2>5, <2>6, <2>7 DEF FeedInv, ReadWaits, Unfinished
<1>2. CASE ConnectSucceeds \/ ReconnectSucceeds
  <2>1. NewConnection /\ call' = "idle"
    BY <1>2 DEF ConnectSucceeds, ReconnectSucceeds
  <2>2. /\ conn' = conn + 1 /\ conn < MaxConnections /\ script' = <<>> /\ consumed' = 0
        /\ peer' = "open"
    BY <2>1 DEF NewConnection
  <2>3. conn' \in 1..MaxConnections /\ MaxCells[conn'] \in Nat /\ Len(<<>>) = 0
    BY <2>2, BoundsAssumption DEF TypeOK
  <2> QED
    BY <2>1, <2>2, <2>3, BoundsAssumption DEF FeedInv, ScriptGrammar, DrainedClean, WithinBounds, ReadWaits
<1>3. CASE ParseBuffer \/ ReadEof
  <2>1. PICK n \in 0..Len(buffer) : Parses(n)
    BY <1>3, ParseActions
  <2>2. UNCHANGED <<conn, peer, script, wire>>
    BY <1>3, ParseActions
  <2>3. DrainedClean'
    BY <2>1, <2>2, ParseKeepsClean DEF FeedInv
  <2>4. ReadWaits'
    <3>1. CASE call' = "read"
      BY <2>1, <3>1, ParseKeepsWaiting
    <3>2. CASE call' # "read"
      BY <3>2 DEF ReadWaits
    <3> QED
      BY <3>1, <3>2
  <2> QED
    BY <2>2, <2>3, <2>4 DEF FeedInv, ScriptGrammar, WithinBounds
<1>4. CASE ReadBytes
  BY <1>4 DEF ReadBytes, FeedInv, ScriptGrammar, DrainedClean, WithinBounds, ReadWaits
<1>5. CASE GameCloses \/ GameResets \/ UNCHANGED vars \/ ReconnectFails
  BY <1>5 DEF GameCloses, GameResets, ReconnectFails, vars, FeedInv, ScriptGrammar,
              DrainedClean, WithinBounds, ReadWaits, Unfinished
<1>6. CASE ConnectFails \/ ReadFails \/ CancelCall \/ CloseClient
  <2>1. call' # "read" /\ UNCHANGED <<conn, peer, script, wire, consumed>>
    BY <1>6 DEF ConnectFails, ReadFails, CancelCall, CloseClient
  <2> QED
    BY <2>1 DEF FeedInv, ScriptGrammar, DrainedClean, WithinBounds, ReadWaits
<1>7. ASSUME NEW b \in BOOLEAN, StartCall(b) \/ IntoStream(b) \/ SendCommand(b)
      PROVE  FeedInv'
  <2>1. call' # "read" /\ UNCHANGED <<conn, peer, script, wire, consumed>>
    BY <1>7 DEF StartCall, IntoStream, SendCommand
  <2> QED
    BY <2>1 DEF FeedInv, ScriptGrammar, DrainedClean, WithinBounds, ReadWaits
<1> QED
  BY <1>1, <1>2, <1>3, <1>4, <1>5, <1>6, <1>7 DEF Next

LEMMA FeedInvHolds == Spec => []FeedInv
<1>1. Init => FeedInv
  BY BoundsAssumption DEF Init, FeedInv, ScriptGrammar, DrainedClean, WithinBounds, ReadWaits
<1>2. TypeOK /\ Contiguous /\ FeedInv /\ [Next]_vars => FeedInv'
  BY FeedInvStep
<1> QED
  BY <1>1, <1>2, TypeCorrect, BufferIsContiguous, PTL DEF Spec

\* The cells on the way to the program, by their place behind the drained ones.
LEMMA OnTheWay ==
    ASSUME TypeOK, Contiguous
    PROVE  /\ buffer \o wire \in Seq(Cell) /\ Len(buffer \o wire) = Len(buffer) + Len(wire)
           /\ \A i \in 1..(Len(buffer) + Len(wire)) :
                 /\ consumed + i \in DOMAIN script
                 /\ (buffer \o wire)[i].pos = consumed + i
                 /\ (buffer \o wire)[i].kind = script[consumed + i]
<1>1. /\ Len(buffer) \in Nat /\ Len(wire) \in Nat /\ consumed \in Nat /\ Len(script) \in Nat
      /\ DOMAIN buffer = 1..Len(buffer) /\ DOMAIN wire = 1..Len(wire)
      /\ DOMAIN script = 1..Len(script)
  BY Sizes
<1>2. /\ buffer \o wire \in Seq(Cell) /\ Len(buffer \o wire) = Len(buffer) + Len(wire)
      /\ \A i \in 1..(Len(buffer) + Len(wire)) :
             (buffer \o wire)[i] = IF i <= Len(buffer) THEN buffer[i] ELSE wire[i - Len(buffer)]
  BY ConcatProperties DEF TypeOK
<1>3. ASSUME NEW i \in 1..(Len(buffer) + Len(wire))
      PROVE  /\ consumed + i \in DOMAIN script
             /\ (buffer \o wire)[i].pos = consumed + i
             /\ (buffer \o wire)[i].kind = script[consumed + i]
  <2>1. consumed + i \in DOMAIN script
    <3>1. consumed + Len(buffer) + Len(wire) <= Len(script)
      BY DEF Contiguous
    <3> QED
      BY <1>1, <1>3, <3>1
  <2>2. CASE i <= Len(buffer)
    <3>1. i \in DOMAIN buffer /\ (buffer \o wire)[i] = buffer[i]
      BY <1>1, <1>2, <1>3, <2>2
    <3>2. buffer[i] = [conn |-> conn, pos |-> consumed + i, kind |-> script[consumed + i]]
      BY <3>1 DEF Contiguous
    <3> QED
      BY <2>1, <3>1, <3>2
  <2>3. CASE ~(i <= Len(buffer))
    <3>1. PICK j : j = i - Len(buffer)
      OBVIOUS
    <3>2. /\ j \in DOMAIN wire /\ (buffer \o wire)[i] = wire[j]
          /\ consumed + Len(buffer) + j = consumed + i
      BY <1>1, <1>2, <1>3, <2>3, <3>1
    <3>3. wire[j] = [conn |-> conn, pos |-> consumed + Len(buffer) + j,
                     kind |-> script[consumed + Len(buffer) + j]]
      BY <3>2 DEF Contiguous
    <3> QED
      BY <2>1, <3>2, <3>3
  <2> QED
    BY <2>2, <2>3
<1> QED
  BY <1>2, <1>3

LEMMA ReachableType ==
    ASSUME TypeOK
    PROVE  Reachable \in Seq(Cell) /\ buffer \o wire \in Seq(Cell)
<1>1. buffer \o wire \in Seq(Cell)
  BY ConcatProperties DEF TypeOK
<1> QED
  BY <1>1, KeepType DEF Reachable

\* Nothing can still be read when every value on the way has malformed text
\* before it.
LEMMA NothingReachable ==
    ASSUME TypeOK, Contiguous,
           \A p \in (consumed + 1)..(consumed + (Len(buffer) + Len(wire))) :
               script[p] \in Ends => \E q \in 1..p : script[q] = "bad"
    PROVE  Reachable = <<>>
<1>1. consumed \in Nat /\ Len(buffer) \in Nat /\ Len(wire) \in Nat
  BY Sizes
<1>2. ASSUME NEW i \in 1..Len(buffer \o wire)
      PROVE  (buffer \o wire)[i] \notin Readable
  <2>1. /\ i \in 1..(Len(buffer) + Len(wire))
        /\ (buffer \o wire)[i].pos = consumed + i
        /\ (buffer \o wire)[i].kind = script[consumed + i]
    BY OnTheWay
  <2>2. consumed + i \in (consumed + 1)..(consumed + (Len(buffer) + Len(wire)))
    BY <1>1, <2>1
  <2> QED
    BY <2>1, <2>2 DEF Readable
<1>3. Len(buffer \o wire) \in Nat
  BY <1>1, OnTheWay
<1> QED
  BY <1>2, <1>3, KeepNothing DEF Reachable

\* Draining takes its part off what can be read, in front.
LEMMA DrainTakesFront ==
    ASSUME TypeOK, NEW n \in 0..Len(buffer), Drain(n), UNCHANGED <<script, wire>>
    PROVE  /\ SubSeq(buffer, 1, n) \in Seq(Cell) /\ Len(SubSeq(buffer, 1, n)) = n
           /\ \A i \in 1..n : SubSeq(buffer, 1, n)[i] = buffer[i]
           /\ Reachable' \in Seq(Cell)
           /\ Reachable = Keep(SubSeq(buffer, 1, n), Readable) \o Reachable'
<1>f. PICK front : front = SubSeq(buffer, 1, n)
  OBVIOUS
<1>0. Len(buffer) \in Nat /\ n \in Nat /\ n \in (1 - 1)..Len(buffer) /\ 1 \in 1..(Len(buffer) + 1)
      /\ n - 1 + 1 = n
  BY Sizes
<1>1. /\ SubSeq(buffer, 1, n) \in Seq(Cell) /\ Len(SubSeq(buffer, 1, n)) = n - 1 + 1
      /\ \A i \in 1..(n - 1 + 1) : SubSeq(buffer, 1, n)[i] = buffer[1 + i - 1]
  BY <1>0, Slice DEF TypeOK
<1>2. \A i \in 1..n : 1 + i - 1 = i
  BY <1>0
<1>3. buffer' = SubSeq(buffer, n + 1, Len(buffer)) /\ buffer' \in Seq(Cell)
  BY DrainFacts DEF Drain
<1>4. front \o buffer' = buffer
  <2>1. SubSeq(buffer, 1, n) \o SubSeq(buffer, n + 1, Len(buffer)) = SubSeq(buffer, 1, Len(buffer))
    <3>1. buffer \in Seq(Cell) /\ Len(buffer) \in n..Len(buffer)
      BY <1>0 DEF TypeOK
    <3> QED
      BY <1>0, <3>1, ConcatAdjacentSubSeq
  <2>2. SubSeq(buffer, 1, Len(buffer)) = buffer
    BY SubSeqFull DEF TypeOK
  <2> QED
    BY <1>3, <1>f, <2>1, <2>2
<1>5. front \in Seq(Cell) /\ wire \in Seq(Cell)
  BY <1>1, <1>f DEF TypeOK
<1>r. PICK rest : rest = buffer'
  OBVIOUS
<1>b. PICK behind : behind = rest \o wire
  OBVIOUS
<1>6. buffer \o wire = front \o behind /\ behind \in Seq(Cell)
  <2>1. rest \in Seq(Cell) /\ front \o rest = buffer
    BY <1>3, <1>4, <1>r
  <2>2. (front \o rest) \o wire = front \o (rest \o wire)
    <3>1. front \in Seq(Cell) /\ rest \in Seq(Cell) /\ wire \in Seq(Cell)
      BY <1>5, <2>1
    <3> QED
      BY <3>1, ConcatAssociative
  <2>3. rest \o wire \in Seq(Cell)
    BY <1>5, <2>1, ConcatProperties
  <2> QED
    BY <1>b, <2>1, <2>2, <2>3
<1>7. Keep(front \o behind, Readable) = Keep(front, Readable) \o Keep(behind, Readable)
  BY <1>5, <1>6, KeepConcat
<1>8. Readable' = Readable /\ Reachable' = Keep(behind, Readable)
  BY <1>r, <1>b DEF Readable, Reachable
<1>9. Keep(behind, Readable) \in Seq(Cell)
  BY <1>6, KeepType
<1> QED
  BY <1>0, <1>1, <1>2, <1>6, <1>7, <1>8, <1>9, <1>f DEF Reachable

\* What the program sees of the feed, as long as none of it changes.
LEMMA Stutters ==
    ASSUME UNCHANGED <<conn, peer, script, buffer, wire, taken, result>>
    PROVE  UNCHANGED Feed!feedVars
  BY DEF Feed!feedVars, Ending, Reachable, Readable, Answer

\* A parse that finds no value leaves what can be read as it was.
LEMMA BlanksGo ==
    ASSUME TypeOK, Contiguous, NEW n \in 0..Len(buffer), BlankRun(n), Drain(n),
           UNCHANGED <<script, wire>>
    PROVE  Reachable' = Reachable
<1>1. PICK front : front = SubSeq(buffer, 1, n)
  OBVIOUS
<1>2. /\ front \in Seq(Cell) /\ Len(front) = n /\ n \in Nat
      /\ \A i \in 1..n : front[i] = buffer[i]
      /\ Reachable' \in Seq(Cell) /\ Reachable = Keep(front, Readable) \o Reachable'
  BY <1>1, DrainTakesFront, Sizes
<1>3. \A i \in 1..n : front[i] \notin Readable
  BY <1>2 DEF BlankRun, Readable, Ends
<1>4. Keep(front, Readable) = <<>>
  BY <1>2, <1>3, KeepNothing
<1> QED
  BY <1>2, <1>4, ConcatEmptySeq

\* The value taken was the first that could be read.
LEMMA TakesFirst ==
    ASSUME TypeOK, Contiguous, FeedInv, NEW n \in 0..Len(buffer), BlankRun(n), TakeValue(n),
           UNCHANGED <<conn, script, wire>>
    PROVE  /\ Reachable # <<>> /\ Head(Reachable) = buffer[n + 2]
           /\ Tail(Reachable) = Reachable'
           /\ buffer[n + 2].kind \in Ends /\ buffer[n + 2].conn = conn
           /\ buffer[n + 2] \in Values
<1>1. Parses(n)
  BY DEF Parses
<1>2. /\ n + 2 \in 0..Len(buffer) /\ Drain(n + 2)
      /\ n + 1 \in DOMAIN buffer /\ n + 2 \in DOMAIN buffer
      /\ buffer[n + 1].kind = "open" /\ buffer[n + 2].kind \in Ends
  BY <1>1, ParseDrains DEF TakeValue, ValueAt, ReportSyntaxError, SyntaxErrorAt, WantMore,
                           ReportClosed, Unfinished
<1>3. /\ consumed \in Nat /\ n \in Nat /\ Len(buffer) \in Nat /\ DOMAIN buffer = 1..Len(buffer)
      /\ consumed' = consumed + (n + 2)
  <2>1. consumed' = consumed + (n + 2)
    BY <1>2, DrainFacts
  <2> QED
    BY <2>1, Sizes
<1>4. PICK v : v = buffer[n + 2]
  OBVIOUS
<1>5. /\ v \in Cell /\ v.conn = conn /\ v.pos = consumed + (n + 2) /\ v.kind \in Ends
      /\ v.kind = script[consumed + (n + 2)] /\ consumed + (n + 2) \in DOMAIN script
  <2>1. buffer[n + 2] = [conn |-> conn, pos |-> consumed + (n + 2),
                         kind |-> script[consumed + (n + 2)]]
    BY <1>2 DEF Contiguous
  <2>2. buffer[n + 2] \in Cell
    BY <1>2 DEF TypeOK
  <2>3. consumed + (n + 2) \in DOMAIN script
    BY <1>2, <1>1, ParseSees DEF Parses
  <2> QED
    BY <1>2, <1>4, <2>1, <2>2, <2>3
<1>6. v \in Readable
  <2>1. DrainedClean'
    BY <1>1, ParseKeepsClean DEF FeedInv
  <2> QED
    BY <1>3, <1>5, <2>1 DEF DrainedClean, Readable
<1>7. PICK front : front = SubSeq(buffer, 1, n + 2)
  OBVIOUS
<1>8. /\ front \in Seq(Cell) /\ Len(front) = n + 2
      /\ \A i \in 1..(n + 2) : front[i] = buffer[i]
      /\ Reachable' \in Seq(Cell) /\ Reachable = Keep(front, Readable) \o Reachable'
  BY <1>2, <1>7, DrainTakesFront
<1>9. Keep(front, Readable) = <<v>>
  <2>1. PICK blank : blank = SubSeq(front, 1, n + 1)
    OBVIOUS
  <2>2. front = blank \o <<v>>
    <3>1. 1 \in 1..Len(front) /\ n + 2 \in 1..Len(front) /\ (n + 2) - 1 = n + 1
      BY <1>3, <1>8
    <3>2. SubSeq(front, 1, n + 2) = SubSeq(front, 1, (n + 2) - 1) \o <<front[n + 2]>>
      BY <1>8, <3>1, SubSeqRecursiveSecond
    <3>3. SubSeq(front, 1, Len(front)) = front
      BY <1>8, SubSeqFull
    <3>4. front[n + 2] = v
      BY <1>3, <1>4, <1>8
    <3> QED
      BY <1>8, <2>1, <3>1, <3>2, <3>3, <3>4
  <2>3. /\ blank \in Seq(Cell) /\ Len(blank) = n + 1
        /\ \A i \in 1..(n + 1) : blank[i] = buffer[i]
    <3>1. /\ 1 \in 1..(Len(front) + 1) /\ n + 1 \in (1 - 1)..Len(front) /\ (n + 1) - 1 + 1 = n + 1
          /\ \A i \in 1..(n + 1) : 1 + i - 1 = i /\ i \in 1..(n + 2)
      BY <1>3, <1>8
    <3>2. /\ SubSeq(front, 1, n + 1) \in Seq(Cell)
          /\ Len(SubSeq(front, 1, n + 1)) = (n + 1) - 1 + 1
          /\ \A i \in 1..((n + 1) - 1 + 1) : SubSeq(front, 1, n + 1)[i] = front[1 + i - 1]
      BY <1>8, <3>1, Slice
    <3> QED
      BY <1>8, <2>1, <3>1, <3>2
  <2>4. ASSUME NEW i \in 1..(n + 1) PROVE blank[i] \notin Readable
    <3>1. i \in 1..n \/ i = n + 1
      BY <1>3
    <3>2. buffer[i].kind \notin Ends
      BY <1>2, <3>1 DEF BlankRun, Ends
    <3> QED
      BY <2>3, <3>2 DEF Readable
  <2>5. Keep(blank, Readable) = <<>>
    BY <1>3, <2>3, <2>4, KeepNothing
  <2>6. Keep(<<v>>, Readable) = <<v>>
    BY <1>6, KeepOne
  <2>7. PICK one : one = <<v>>
    OBVIOUS
  <2>8. one \in Seq(Cell)
    BY <1>5, <2>7
  <2>9. Keep(blank \o one, Readable) = Keep(blank, Readable) \o Keep(one, Readable)
    BY <2>3, <2>8, KeepConcat
  <2>10. <<>> \o one = one
    BY <2>8, ConcatEmptySeq
  <2> QED
    BY <2>2, <2>5, <2>6, <2>7, <2>9, <2>10
<1>10. Reachable # <<>> /\ Head(Reachable) = v /\ Tail(Reachable) = Reachable'
  <2>1. PICK rest : rest = Reachable'
    OBVIOUS
  <2>2. rest \in Seq(Cell) /\ v \in Cell
    BY <1>5, <1>8, <2>1
  <2>3. <<v>> \o rest # <<>> /\ Head(<<v>> \o rest) = v /\ Tail(<<v>> \o rest) = rest
    BY <2>2, HeadAndRest
  <2>4. Reachable = <<v>> \o rest
    BY <1>8, <1>9, <2>1
  <2> QED
    BY <2>1, <2>3, <2>4
<1>11. v \in Values
  <2>0. conn # 0
    <3>1. Len(script) # 0
      BY <1>5, Sizes
    <3> QED
      BY <3>1 DEF FeedInv, WithinBounds
  <2>1. conn \in 1..MaxConnections /\ Len(script) <= MaxCells[conn]
    BY <2>0, BoundsAssumption, Sizes DEF FeedInv, WithinBounds
  <2>2. MaxCells[conn] \in Nat
    BY <2>1, BoundsAssumption
  <2>3. v.pos \in 1..MaxCells[conn]
    BY <1>3, <1>5, <2>1, <2>2, Sizes
  <2>4. v = [conn |-> v.conn, pos |-> v.pos, kind |-> v.kind]
    BY <1>5 DEF Cell
  <2>5. v \in [conn : {conn}, pos : 1..MaxCells[conn], kind : Ends]
    BY <1>5, <2>3, <2>4
  <2> QED
    BY <2>1, <2>5 DEF Values
<1> QED
  BY <1>2, <1>4, <1>5, <1>10, <1>11

HasBad == \E p \in DOMAIN script : script[p] = "bad"

\* What the game writes is the newest value, or malformed text that ends the
\* feed, or does not show.
LEMMA WritesMap ==
    ASSUME TypeOK, Contiguous, FeedInv, NEW k \in Kinds, GameWrites(k)
    PROVE  [Feed!Next]_(Feed!feedVars)
<1>c. PICK c : c = [conn |-> conn, pos |-> Len(script) + 1, kind |-> k]
  OBVIOUS
<1>o. PICK old : old = buffer \o wire
  OBVIOUS
<1>1. /\ conn > 0 /\ peer = "open" /\ Len(script) < MaxCells[conn]
      /\ script' = Append(script, k) /\ wire' = Append(wire, c)
      /\ UNCHANGED <<conn, peer, buffer, consumed, call, result, taken, outbox>>
      /\ k \in Ends \cup {"open", "ws", "bad"}
  BY <1>c DEF GameWrites
<1>2. /\ Len(script') = Len(script) + 1 /\ Len(script) \in Nat /\ consumed \in Nat
      /\ DOMAIN script = 1..Len(script) /\ DOMAIN script' = 1..(Len(script) + 1)
      /\ \A i \in 1..Len(script) : script'[i] = script[i]
      /\ script'[Len(script) + 1] = k
  BY <1>1, AppendProperties, LenProperties, Sizes DEF TypeOK
<1>3. c \in Cell /\ c.pos = Len(script) + 1 /\ c.kind = k
  BY <1>c DEF TypeOK, Cell
<1>4. c \in Readable' <=> k \in Ends /\ ~HasBad
  <2>1. \A p \in 1..(Len(script) + 1) : p \in 1..Len(script) \/ p = Len(script) + 1
    BY <1>2
  <2>2. \A p \in 1..Len(script) : p \in 1..(Len(script) + 1)
    BY <1>2
  <2> QED
    BY <1>2, <1>3, <2>1, <2>2 DEF Readable, HasBad, Ends
<1>5. Keep(old, Readable') = Reachable
  <2>1. /\ old \in Seq(Cell) /\ Len(old) \in Nat /\ Len(old) = Len(buffer) + Len(wire)
    BY <1>o, OnTheWay, Sizes
  <2>2. ASSUME NEW i \in 1..Len(old) PROVE old[i] \in Readable' <=> old[i] \in Readable
    <3>1. old[i].pos = consumed + i /\ consumed + i \in 1..Len(script)
      BY <1>2, <1>o, <2>1, OnTheWay
    <3>2. \A p \in 1..old[i].pos : script'[p] = script[p]
      BY <1>2, <3>1
    <3> QED
      BY <3>2 DEF Readable
  <2>3. Keep(old, Readable') = Keep(old, Readable)
    <3>1. PICK R : R = Readable'
      OBVIOUS
    <3>2. \A i \in 1..Len(old) : old[i] \in R <=> old[i] \in Readable
      BY <2>2, <3>1
    <3>3. Keep(old, R) = Keep(old, Readable)
      BY <2>1, <3>2, KeepAgree
    <3> QED
      BY <3>1, <3>3
  <2> QED
    BY <1>o, <2>3 DEF Reachable
<1>6. Reachable' = IF k \in Ends /\ ~HasBad THEN Append(Reachable, c) ELSE Reachable
  <2>1. buffer \o Append(wire, c) = Append(buffer \o wire, c)
    <3>1. buffer \in Seq(Cell) /\ wire \in Seq(Cell)
      BY DEF TypeOK
    <3> QED
      BY <1>3, <3>1, AppendToConcat
  <2>2. PICK R : R = Readable'
    OBVIOUS
  <2>3. old \in Seq(Cell)
    BY <1>o, OnTheWay
  <2>4. Keep(Append(old, c), R) = IF c \in R THEN Append(Keep(old, R), c) ELSE Keep(old, R)
    BY <1>3, <2>3, KeepAppend
  <2>5. Reachable' = Keep(Append(old, c), R)
    BY <1>1, <1>o, <2>1, <2>2 DEF Reachable
  <2> QED
    BY <1>4, <1>5, <2>2, <2>4, <2>5
<1>7. UNCHANGED <<conn, taken, Answer>>
  BY <1>1 DEF Answer
<1>8. /\ Ending = IF HasBad THEN "bad" ELSE "open"
      /\ Ending' = IF HasBad \/ k = "bad" THEN "bad" ELSE "open"
  <2>1. Ending = IF HasBad THEN "bad" ELSE "open"
    BY <1>1 DEF Ending, HasBad
  <2>2. HasBad' <=> HasBad \/ k = "bad"
    <3>1. \A p \in 1..(Len(script) + 1) : p \in 1..Len(script) \/ p = Len(script) + 1
      BY <1>2
    <3>2. Len(script) + 1 \in 1..(Len(script) + 1)
          /\ \A p \in 1..Len(script) : p \in 1..(Len(script) + 1)
      BY <1>2
    <3> QED
      BY <1>2, <3>1, <3>2 DEF HasBad
  <2>3. Ending' = IF HasBad' THEN "bad" ELSE "open"
    BY <1>1 DEF Ending, HasBad
  <2> QED
    BY <2>1, <2>2, <2>3
<1>9. CASE k \in Ends /\ ~HasBad
  <2>1. k # "bad"
    BY <1>9 DEF Ends
  <2>2. c \in Values
    <3>1. conn \in 1..MaxConnections
      BY <1>1, BoundsAssumption DEF FeedInv, WithinBounds, TypeOK
    <3>2. MaxCells[conn] \in Nat
      BY <3>1, BoundsAssumption
    <3>3. Len(script) + 1 \in 1..MaxCells[conn]
      BY <1>1, <1>2, <3>2
    <3>4. c \in [conn : {conn}, pos : 1..MaxCells[conn], kind : Ends]
      BY <1>9, <1>c, <3>3
    <3> QED
      BY <3>1, <3>4 DEF Values
  <2>3. Feed!Write(c)
    BY <1>1, <1>6, <1>7, <1>8, <1>9, <2>1 DEF Feed!Write
  <2> QED
    BY <2>2, <2>3 DEF Feed!Next, Feed!Game
<1>10. CASE k = "bad" /\ ~HasBad
  <2>1. Feed!Ends("bad")
    BY <1>1, <1>6, <1>7, <1>8, <1>10 DEF Feed!Ends, Ends
  <2> QED
    BY <2>1 DEF Feed!Next, Feed!Game
<1>11. CASE HasBad \/ k \notin Ends \cup {"bad"}
  BY <1>6, <1>7, <1>8, <1>11 DEF Feed!feedVars
<1> QED
  BY <1>9, <1>10, <1>11

\* The ends of the connection and a new one.
LEMMA ConnectionMaps ==
    ASSUME TypeOK, Contiguous, FeedInv,
           GameCloses \/ GameResets \/ ConnectSucceeds \/ ReconnectSucceeds
    PROVE  [Feed!Next]_(Feed!feedVars)
<1>1. CASE GameCloses
  <2>1. conn > 0 /\ peer = "open" /\ peer' = "fin"
        /\ UNCHANGED <<conn, script, wire, buffer, result, taken>>
    BY <1>1 DEF GameCloses
  <2>2. UNCHANGED <<conn, taken, Answer, Reachable>>
    BY <2>1 DEF Answer, Reachable, Readable
  <2>3. CASE HasBad
    BY <2>1, <2>2, <2>3 DEF Ending, HasBad, Feed!feedVars
  <2>4. CASE ~HasBad
    <3>1. Ending = "open" /\ Ending' = "closed"
      BY <2>1, <2>4 DEF Ending, HasBad
    <3>2. Feed!Ends("closed")
      BY <2>1, <2>2, <3>1 DEF Feed!Ends
    <3> QED
      BY <3>2 DEF Feed!Next, Feed!Game
  <2> QED
    BY <2>3, <2>4
<1>2. CASE GameResets
  <2>1. conn > 0 /\ peer # "reset" /\ peer' = "reset" /\ wire' = <<>>
        /\ UNCHANGED <<conn, script, buffer, result, taken>>
    BY <1>2 DEF GameResets
  <2>2. UNCHANGED <<conn, taken, Answer>>
    BY <2>1 DEF Answer
  <2>3. Ending # "reset" /\ Ending' = "reset"
    BY <2>1 DEF Ending
  <2>4. buffer \in Seq(Cell) /\ wire \in Seq(Cell)
    BY DEF TypeOK
  <2>5. Reachable = Keep(buffer, Readable) \o Keep(wire, Readable)
    BY <2>4, KeepConcat DEF Reachable
  <2>6. Reachable' = Keep(buffer, Readable)
    <3>1. buffer \o <<>> = buffer
      BY <2>4, ConcatEmptySeq
    <3> QED
      BY <2>1, <3>1 DEF Reachable, Readable
  <2>7. \E n \in 0..Len(Reachable) : Reachable' = SubSeq(Reachable, 1, n)
    <3>1. PICK s, t : s = Keep(buffer, Readable) /\ t = Keep(wire, Readable)
      OBVIOUS
    <3>2. s \in Seq(Cell) /\ t \in Seq(Cell)
      BY <2>4, <3>1, KeepType
    <3>3. SubSeq(s \o t, 1, Len(s)) = s /\ Len(s) \in 0..Len(s \o t)
      BY <3>2, FirstPart
    <3> QED
      BY <2>5, <2>6, <3>1, <3>3
  <2>8. Feed!Resets
    BY <2>1, <2>2, <2>3, <2>7 DEF Feed!Resets
  <2> QED
    BY <2>8 DEF Feed!Next, Feed!Game
<1>3. CASE ConnectSucceeds \/ ReconnectSucceeds
  <2>1. /\ conn' = conn + 1 /\ peer' = "open" /\ script' = <<>> /\ wire' = <<>>
        /\ buffer' = <<>> /\ result' = "none" /\ taken' = taken
    BY <1>3 DEF ConnectSucceeds, ReconnectSucceeds, NewConnection
  <2>2. Reachable' = <<>>
    <3>1. <<>> \o <<>> = <<>>
      OBVIOUS
    <3> QED
      BY <2>1, <3>1, KeepEmpty DEF Reachable
  <2>3. Ending' = "open" /\ Answer' = "none"
    BY <2>1 DEF Ending, Answer
  <2>4. Feed!Renew
    BY <2>1, <2>2, <2>3 DEF Feed!Renew
  <2> QED
    BY <2>4 DEF Feed!Next
<1> QED
  BY <1>1, <1>2, <1>3

\* Where the parser stops, the game wrote malformed text, and no value between
\* the drained cells and it.
LEMMA SyntaxErrorIsBad ==
    ASSUME TypeOK, Contiguous, FeedInv, NEW n \in 0..Len(buffer), BlankRun(n), SyntaxErrorAt(n)
    PROVE  \E q \in DOMAIN script :
              /\ script[q] = "bad"
              /\ \A p \in (consumed + 1)..(q - 1) : script[p] \notin Ends
<1>1. /\ consumed \in Nat /\ n \in Nat /\ Len(buffer) \in Nat /\ DOMAIN buffer = 1..Len(buffer)
      /\ DOMAIN script = 1..Len(script) /\ Len(script) \in Nat
      /\ \A p \in (consumed + 1)..(consumed + n) : script[p] = "ws"
      /\ \A i \in DOMAIN buffer : /\ script[consumed + i] = buffer[i].kind
                                  /\ consumed + i \in DOMAIN script
  BY Sizes, ParseSees
<1>0. n \in 0..Len(buffer) /\ n \in Nat /\ Len(buffer) \in Nat
  BY <1>1
<1>2. n + 1 \in DOMAIN buffer
  <2>1. Len(buffer) # n
    BY DEF SyntaxErrorAt, Unfinished
  <2>2. n + 1 \in 1..Len(buffer)
    BY <1>0, <2>1
  <2> QED
    BY <1>1, <2>2
<1>3. PICK q : q = consumed + (n + 1)
  OBVIOUS
<1>4. /\ q \in DOMAIN script /\ script[q] = buffer[n + 1].kind /\ script[q] \in Kinds
      /\ script[q] # "ws"
  <2>1. q \in DOMAIN script /\ script[q] = buffer[n + 1].kind
    BY <1>1, <1>2, <1>3
  <2>2. n < Len(buffer)
    BY <1>1, <1>2
  <2> QED
    BY <2>1, <2>2, ElementOfSeq DEF TypeOK, BlankRun
<1>5. script[q] \notin Ends
  <2>1. SUFFICES ASSUME script[q] \in Ends PROVE FALSE
    OBVIOUS
  <2>2. q > 1 /\ script[q - 1] = "open"
    BY <1>4, <2>1 DEF FeedInv, ScriptGrammar
  <2>3. q - 1 \in (consumed + 1)..(consumed + n) \/ (q - 1 = consumed /\ consumed > 0)
    BY <1>1, <1>3, <2>2
  <2> QED
    BY <1>1, <2>2, <2>3 DEF FeedInv, DrainedClean
<1>6. ASSUME NEW p \in (consumed + 1)..q PROVE script[p] \notin Ends
  <2>1. p \in (consumed + 1)..(consumed + n) \/ p = q
    BY <1>1, <1>3
  <2> QED
    BY <1>1, <1>5, <2>1 DEF Ends
<1>7. CASE script[q] = "bad"
  <2>1. \A p \in (consumed + 1)..(q - 1) : p \in (consumed + 1)..q
    BY <1>1, <1>3
  <2> QED
    BY <1>4, <1>6, <1>7, <2>1
<1>8. CASE script[q] = "open"
  <2>1. n + 2 \in DOMAIN buffer /\ buffer[n + 2].kind \notin Ends
    <3>1. Len(buffer) # n /\ Len(buffer) # n + 1
      BY <1>4, <1>8 DEF SyntaxErrorAt, Unfinished
    <3>2. Len(buffer) > n + 1 /\ n + 2 \in 1..Len(buffer)
      BY <1>0, <3>1
    <3> QED
      BY <1>1, <1>4, <1>8, <3>2 DEF SyntaxErrorAt, ValueAt
  <2>2. PICK r : r = q + 1
    OBVIOUS
  <2>3. r = consumed + (n + 2) /\ r > 1 /\ r - 1 = q
    BY <1>1, <1>3, <2>2
  <2>4. r \in DOMAIN script /\ script[r] = buffer[n + 2].kind
    BY <1>1, <2>1, <2>3
  <2>5. script[r] = "bad"
    BY <1>8, <2>1, <2>3, <2>4 DEF FeedInv, ScriptGrammar
  <2> QED
    BY <1>6, <2>3, <2>4, <2>5
<1> QED
  BY <1>4, <1>5, <1>7, <1>8 DEF Kinds

\* Blanks and the start of a value, and nothing more to come: no value.
LEMMA UnfinishedIsNothing ==
    ASSUME TypeOK, Contiguous, NEW n \in 0..Len(buffer), BlankRun(n), Unfinished(n), wire = <<>>
    PROVE  /\ Reachable = <<>>
           /\ \A p \in (consumed + 1)..(consumed + Len(buffer)) : script[p] \in {"ws", "open"}
<1>1. /\ consumed \in Nat /\ n \in Nat /\ Len(buffer) \in Nat /\ DOMAIN buffer = 1..Len(buffer)
      /\ \A p \in (consumed + 1)..(consumed + n) : script[p] = "ws"
      /\ \A i \in DOMAIN buffer : script[consumed + i] = buffer[i].kind
  BY Sizes, ParseSees
<1>2. ASSUME NEW p \in (consumed + 1)..(consumed + Len(buffer)) PROVE script[p] \in {"ws", "open"}
  <2>1. \/ p \in (consumed + 1)..(consumed + n)
        \/ p = consumed + (n + 1) /\ Len(buffer) = n + 1
    <3>1. Len(buffer) = n \/ Len(buffer) = n + 1
      BY DEF Unfinished
    <3>2. consumed \in Nat /\ n \in Nat
      BY <1>1
    <3> QED
      BY <1>2, <3>1, <3>2
  <2>2. Len(buffer) = n + 1 => n + 1 \in DOMAIN buffer /\ buffer[n + 1].kind = "open"
    BY <1>1 DEF Unfinished
  <2> QED
    BY <1>1, <2>1, <2>2
<1>3. consumed + (Len(buffer) + Len(wire)) = consumed + Len(buffer)
  BY <1>1
<1>4. \A p \in (consumed + 1)..(consumed + (Len(buffer) + Len(wire))) : script[p] \notin Ends
  BY <1>2, <1>3 DEF Ends
<1> QED
  BY <1>2, <1>4, NothingReachable

\* A parse hands over the first value that can be read, or answers when none
\* is left, or does not show.
LEMMA ParseMaps ==
    ASSUME TypeOK, Contiguous, FeedInv, NEW n \in 0..Len(buffer), BlankRun(n),
           UNCHANGED <<conn, peer, script, wire>>,
           \/ TakeValue(n) \/ ReportSyntaxError(n) \/ WantMore(n)
           \/ ReportClosed(n) /\ peer = "fin" /\ wire = <<>>
    PROVE  [Feed!Next]_(Feed!feedVars)
<1>1. Ending' = Ending
  BY DEF Ending
<1>2. CASE TakeValue(n)
  <2>1. /\ Reachable # <<>> /\ Head(Reachable) = buffer[n + 2] /\ Tail(Reachable) = Reachable'
        /\ buffer[n + 2].kind \in Ends /\ buffer[n + 2] \in Values
    BY <1>2, TakesFirst
  <2>2. buffer[n + 2] \in OddValues <=> buffer[n + 2].kind = "odd"
    BY <2>1 DEF OddValues
  <2>3. taken' = Append(taken, Head(Reachable))
    BY <1>2, <2>1 DEF TakeValue
  <2>4. CASE buffer[n + 2].kind = "other" /\ filtered
    <3>1. Answer' = Answer
      BY <1>2, <2>4 DEF TakeValue, Answer
    <3>2. Feed!Skip
      BY <1>1, <2>1, <2>2, <2>3, <2>4, <3>1 DEF Feed!Skip
    <3> QED
      BY <3>2 DEF Feed!Next
  <2>5. CASE ~(buffer[n + 2].kind = "other" /\ filtered)
    <3>1. result' = IF buffer[n + 2].kind = "odd" THEN "decode" ELSE "event"
      BY <1>2, <2>5 DEF TakeValue
    <3>2. Answer' = IF Head(Reachable) \in OddValues THEN "error" ELSE "value"
      BY <2>1, <2>2, <3>1 DEF Answer
    <3>3. Feed!HandOver
      BY <1>1, <2>1, <2>3, <3>2 DEF Feed!HandOver
    <3> QED
      BY <3>3 DEF Feed!Next
  <2> QED
    BY <2>4, <2>5
<1>3. CASE ReportSyntaxError(n)
  <2>1. Drain(n) /\ SyntaxErrorAt(n) /\ result' = "syntax" /\ taken' = taken
    BY <1>3 DEF ReportSyntaxError
  <2>2. PICK q \in DOMAIN script : /\ script[q] = "bad"
                                   /\ \A p \in (consumed + 1)..(q - 1) : script[p] \notin Ends
    BY <2>1, SyntaxErrorIsBad
  <2>3. Reachable = <<>>
    <3>1. ASSUME NEW p \in (consumed + 1)..(consumed + (Len(buffer) + Len(wire))),
                 script[p] \in Ends
          PROVE  \E r \in 1..p : script[r] = "bad"
      <4>1. ~(p <= q - 1)
        BY <2>2, <3>1, Sizes
      <4>2. q \in 1..p
        BY <3>1, <4>1, Sizes
      <4> QED
        BY <2>2, <4>2
    <3> QED
      BY <3>1, NothingReachable
  <2>4. Reachable' = Reachable
    BY <2>1, BlanksGo
  <2>5. Ending \in {"bad", "reset"} /\ Answer' = "error"
    BY <2>1, <2>2 DEF Ending, Answer
  <2>6. Feed!AnswerError
    BY <1>1, <2>1, <2>3, <2>4, <2>5 DEF Feed!AnswerError
  <2> QED
    BY <2>6 DEF Feed!Next
<1>4. CASE WantMore(n)
  <2>1. Drain(n) /\ result' = result /\ taken' = taken
    BY <1>4 DEF WantMore
  <2>2. Reachable' = Reachable /\ Answer' = Answer
    BY <2>1, BlanksGo DEF Answer
  <2> QED
    BY <1>1, <2>1, <2>2 DEF Feed!feedVars
<1>5. CASE ReportClosed(n) /\ peer = "fin" /\ wire = <<>>
  <2>1. Drain(n) /\ Unfinished(n) /\ result' = "closed" /\ taken' = taken
    BY <1>5 DEF ReportClosed
  <2>2. /\ Reachable = <<>>
        /\ \A p \in (consumed + 1)..(consumed + Len(buffer)) : script[p] \in {"ws", "open"}
    BY <1>5, <2>1, UnfinishedIsNothing
  <2>3. ~HasBad
    <3>1. consumed + Len(buffer) = Len(script)
      BY <1>5, Sizes DEF Contiguous
    <3>2. ASSUME NEW p \in DOMAIN script PROVE script[p] # "bad"
      <4>1. p \in 1..consumed \/ p \in (consumed + 1)..(consumed + Len(buffer))
        BY <3>1, <3>2, Sizes
      <4> QED
        BY <2>2, <4>1 DEF FeedInv, DrainedClean
    <3> QED
      BY <3>2 DEF HasBad
  <2>4. Ending = "closed" /\ Answer' = "closed"
    BY <1>5, <2>1, <2>3 DEF Ending, HasBad, Answer
  <2>5. Reachable' = Reachable
    BY <2>1, BlanksGo
  <2>6. Feed!AnswerClosed
    BY <1>1, <2>1, <2>2, <2>4, <2>5 DEF Feed!AnswerClosed
  <2> QED
    BY <2>6 DEF Feed!Next
<1> QED
  BY <1>2, <1>3, <1>4, <1>5

\* Reading moves cells from the socket to the buffer, or finds the connection
\* reset when nothing can be read any more.
LEMMA ReadMaps ==
    ASSUME TypeOK, Contiguous, FeedInv, ReadBytes \/ ReadFails
    PROVE  [Feed!Next]_(Feed!feedVars)
<1> USE DEF netVars
<1>1. CASE ReadBytes
  <2>1. PICK n \in 1..Len(wire) : /\ buffer' = buffer \o SubSeq(wire, 1, n)
                                  /\ wire' = SubSeq(wire, n + 1, Len(wire))
    BY <1>1 DEF ReadBytes
  <2>2. PICK s, t : s = SubSeq(wire, 1, n) /\ t = SubSeq(wire, n + 1, Len(wire))
    OBVIOUS
  <2>3. /\ Len(wire) \in Nat /\ n \in Nat /\ wire \in Seq(Cell)
        /\ 1 \in 1..(Len(wire) + 1) /\ n \in (1 - 1)..Len(wire)
        /\ n + 1 \in 1..(Len(wire) + 1) /\ Len(wire) \in ((n + 1) - 1)..Len(wire)
        /\ Len(wire) \in n..Len(wire)
    BY Sizes DEF TypeOK
  <2>4. s \in Seq(Cell) /\ t \in Seq(Cell)
    BY <2>2, <2>3, Slice
  <2>5. s \o t = wire
    <3>1. SubSeq(wire, 1, n) \o SubSeq(wire, n + 1, Len(wire)) = SubSeq(wire, 1, Len(wire))
      BY <2>3, ConcatAdjacentSubSeq
    <3>2. SubSeq(wire, 1, Len(wire)) = wire
      BY <2>3, SubSeqFull
    <3> QED
      BY <2>2, <3>1, <3>2
  <2>6. (buffer \o s) \o t = buffer \o (s \o t)
    <3>1. buffer \in Seq(Cell) /\ s \in Seq(Cell) /\ t \in Seq(Cell)
      BY <2>4 DEF TypeOK
    <3> QED
      BY <3>1, ConcatAssociative
  <2>7. UNCHANGED <<conn, peer, script, taken, result>>
    BY <1>1 DEF ReadBytes
  <2>8. buffer' \o wire' = buffer \o wire
    BY <2>1, <2>2, <2>5, <2>6
  <2> QED
    BY <2>7, <2>8 DEF Feed!feedVars, Ending, Reachable, Readable, Answer
<1>2. CASE ReadFails
  <2>1. /\ call = "read" /\ peer = "reset" /\ result' = "io"
        /\ UNCHANGED <<conn, peer, script, wire, buffer, taken>>
    BY <1>2 DEF ReadFails
  <2>2. wire = <<>> /\ Unfinished(0) /\ 0 \in 0..Len(buffer)
    BY <2>1, Sizes DEF FeedInv, ReadWaits
  <2>3. BlankRun(0)
    BY <2>2, Sizes DEF BlankRun, Unfinished
  <2>4. Reachable = <<>>
    BY <2>2, <2>3, UnfinishedIsNothing
  <2>5. UNCHANGED <<Ending, Reachable>> /\ Ending = "reset" /\ Answer' = "error"
    BY <2>1 DEF Ending, Reachable, Readable, Answer
  <2>6. Feed!AnswerError
    BY <2>1, <2>4, <2>5 DEF Feed!AnswerError
  <2> QED
    BY <2>6 DEF Feed!Next
<1> QED
  BY <1>1, <1>2

\* The client implements the feed of EventFeed, for every number of
\* connections, of cells on each and of commands: every step of it is a step
\* of the feed or does not show there (next_event, next_filtered_event,
\* fill_buffer, try_parse_next_event and reconnect of src/client.rs).
THEOREM ClientImplementsFeed == Spec => ImplementsEventFeed
<1>1. Init => Feed!Init
  <2>1. SUFFICES ASSUME Init PROVE Feed!Init
    OBVIOUS
  <2>2. Reachable = <<>>
    <3>1. <<>> \o <<>> = <<>>
      OBVIOUS
    <3> QED
      BY <2>1, <3>1, KeepEmpty DEF Init, Reachable
  <2>3. Ending = "closed" /\ Answer = "none"
    BY <2>1 DEF Init, Ending, Answer
  <2> QED
    BY <2>1, <2>2, <2>3 DEF Init, Feed!Init
<1>2. TypeOK /\ Contiguous /\ FeedInv /\ [Next]_vars => [Feed!Next]_(Feed!feedVars)
  <2> SUFFICES ASSUME TypeOK, Contiguous, FeedInv, [Next]_vars
               PROVE  [Feed!Next]_(Feed!feedVars)
    OBVIOUS
  <2> USE DEF netVars, callVars
  <2>1. ASSUME NEW k \in Kinds, GameWrites(k) PROVE [Feed!Next]_(Feed!feedVars)
    BY <2>1, WritesMap
  <2>2. CASE GameCloses \/ GameResets \/ ConnectSucceeds \/ ReconnectSucceeds
    BY <2>2, ConnectionMaps
  <2>3. CASE ParseBuffer \/ ReadEof
    <3>1. PICK n \in 0..Len(buffer) :
             /\ BlankRun(n)
             /\ \/ TakeValue(n) \/ ReportSyntaxError(n) \/ WantMore(n)
                \/ ReportClosed(n) /\ peer = "fin" /\ wire = <<>>
      BY <2>3 DEF ParseBuffer, ReadEof
    <3>2. UNCHANGED <<conn, peer, script, wire>>
      BY <2>3, ParseActions
    <3> QED
      BY <3>1, <3>2, ParseMaps
  <2>4. CASE ReadBytes \/ ReadFails
    BY <2>4, ReadMaps
  <2>5. CASE ConnectFails \/ ReconnectFails \/ CancelCall \/ CloseClient \/ UNCHANGED vars
    <3>1. UNCHANGED <<conn, peer, script, buffer, wire, taken, result>>
      BY <2>5 DEF ConnectFails, ReconnectFails, CancelCall, CloseClient, vars
    <3> QED
      BY <3>1, Stutters
  <2>6. ASSUME NEW b \in BOOLEAN, StartCall(b) \/ IntoStream(b) \/ SendCommand(b)
        PROVE  [Feed!Next]_(Feed!feedVars)
    <3>1. UNCHANGED <<conn, peer, script, buffer, wire, taken, result>>
      BY <2>6 DEF StartCall, IntoStream, SendCommand
    <3> QED
      BY <3>1, Stutters
  <2> QED
    BY <2>1, <2>2, <2>3, <2>4, <2>5, <2>6 DEF Next
<1> QED
  BY <1>1, <1>2, TypeCorrect, BufferIsContiguous, FeedInvHolds, PTL
     DEF Spec, ImplementsEventFeed, Feed!Spec

=============================================================================
