------------------------ MODULE GuiBroadcasterProofs ------------------------
(***************************************************************************)
(* Proofs about GuiBroadcaster, for every finite set of overlays, every     *)
(* number of attempts and every bound on sessions and payloads.             *)
(***************************************************************************)
EXTENDS GuiBroadcaster, DataLemmas, FiniteSetTheorems

Counted == {o \in Overlays : task[o] \in {"entering", "serve", "close"}}

\* While a session exists its count is that of the handlers counted in.
CountIsExact == worker # "none" => count = Cardinality(Counted)

IsKind(i, kind) == i \in DOMAIN events /\ events[i][1] = kind

\* No later event is of that kind.
IsLastOf(i, kind) == IsKind(i, kind) /\ \A j \in DOMAIN events : j > i => ~IsKind(j, kind)

\* What is under way to an open window: nothing without a session, no Stopped
\* from a worker that goes on, and Stopped as the last status of one that ended.
SessionReports ==
    window = "open" =>
        /\ worker = "none" => events = <<>>
        /\ worker # "ended" => ~StoppedReported
        /\ worker = "ended" => \E i \in DOMAIN events :
                                   IsStopped(events[i]) /\ IsLastOf(i, "status")

\* The last total under way is the session's, and one no report is under way
\* for is shown.
RelayReports ==
    /\ \A i \in DOMAIN events : IsLastOf(i, "relayed") => events[i][2] = relayed
    /\ (~\E i \in DOMAIN events : IsKind(i, "relayed")) => relayed_count = relayed

\* The inductive invariants of the two safety properties.
SessionInv == TypeOK /\ CountIsExact /\ SessionReports /\ ShownSessionIsReal
RelayedInv == TypeOK /\ RelayReports /\ RelayedShownIsTrue

-----------------------------------------------------------------------------
(***************************************************************************)
(* The events: one is appended, or all are drained.                         *)
(***************************************************************************)
EventValues == ({"status"} \X {"Running", "Stopped", "Error"})
                   \cup ({"clients", "relayed"} \X Nat)

LEMMA EventTypes ==
    ASSUME events \in Seq(EventValues), NEW i \in DOMAIN events
    PROVE  /\ events[i][1] \in {"status", "clients", "relayed"}
           /\ IF events[i][1] = "status"
              THEN /\ events[i] = <<"status", events[i][2]>>
                   /\ events[i][2] \in {"Running", "Stopped", "Error"}
              ELSE events[i][2] \in Nat /\ ~IsStopped(events[i])
<1>1. events[i] \in EventValues
  BY ElementOfSeq, LenProperties
<1>2. CASE events[i] \in {"status"} \X {"Running", "Stopped", "Error"}
  BY <1>2
<1>3. CASE events[i] \in {"clients", "relayed"} \X Nat
  BY <1>3 DEF IsStopped
<1> QED
  BY <1>1, <1>2, <1>3 DEF EventValues

\* Latest is the value of the last event of its kind, if there is one.
LEMMA LatestIsLast ==
    ASSUME events \in Seq(EventValues), NEW kind, NEW old
    PROVE  \/ Latest(kind, old) = old /\ ~\E i \in DOMAIN events : IsKind(i, kind)
           \/ \E i \in DOMAIN events :
                  IsLastOf(i, kind) /\ Latest(kind, old) = events[i][2]
<1> DEFINE those == {i \in DOMAIN events : events[i][1] = kind}
<1>1. CASE those = {}
  BY <1>1 DEF Latest, IsKind
<1>2. CASE those # {}
  <2>1. Len(events) \in Nat /\ DOMAIN events = 1..Len(events)
    BY LenProperties
  <2>2. those \in SUBSET (1..Len(events))
    BY <2>1
  <2> HIDE DEF those
  <2>3. Max(those) \in those /\ \A i \in those : i <= Max(those)
    BY <1>2, <2>1, <2>2, MaxOfIndices
  <2>4. Latest(kind, old) = events[Max(those)][2]
    BY <1>2 DEF Latest, those
  <2>5. IsLastOf(Max(those), kind)
    <3>1. IsKind(Max(those), kind)
      BY <2>3 DEF IsKind, those
    <3>2. ASSUME NEW j \in DOMAIN events, j > Max(those) PROVE ~IsKind(j, kind)
      <4>1. j \in 1..Len(events) /\ Max(those) \in 1..Len(events)
        <5>1. Max(those) \in DOMAIN events
          BY <3>1 DEF IsKind
        <5> QED
          BY <2>1, <5>1
      <4>2. j \notin those
        BY <2>3, <3>2, <4>1
      <4> QED
        BY <4>2 DEF IsKind, those
    <3> QED
      BY <3>1, <3>2 DEF IsLastOf
  <2>6. Max(those) \in DOMAIN events
    BY <2>3 DEF those
  <2> QED
    BY <2>4, <2>5, <2>6
<1> QED
  BY <1>1, <1>2

\* Two last events of one kind are the same.
LEMMA LastIsUnique ==
    ASSUME events \in Seq(EventValues), NEW kind, NEW i, NEW j,
           IsLastOf(i, kind), IsLastOf(j, kind)
    PROVE  i = j
<1>1. i \in Nat /\ j \in Nat
  BY LenProperties DEF IsLastOf, IsKind
<1> QED
  BY <1>1 DEF IsLastOf, IsKind

\* The events behind a new one are as they were.
LEMMA AppendedEvents ==
    ASSUME events \in Seq(EventValues), NEW e \in EventValues, events' = Append(events, e)
    PROVE  /\ events' \in Seq(EventValues)
           /\ DOMAIN events' = DOMAIN events \cup {Len(events) + 1}
           /\ events'[Len(events) + 1] = e
           /\ \A i \in DOMAIN events : /\ events'[i] = events[i]
                                       /\ i < Len(events) + 1
           /\ DOMAIN events \subseteq Nat /\ Len(events) \in Nat
<1>1. /\ Append(events, e) \in Seq(EventValues)
      /\ Len(Append(events, e)) = Len(events) + 1
      /\ \A i \in 1..Len(events) : Append(events, e)[i] = events[i]
      /\ Append(events, e)[Len(events) + 1] = e
      /\ Len(events) \in Nat
  BY AppendProperties, LenProperties
<1>2. DOMAIN events = 1..Len(events)
  BY LenProperties
<1>3. DOMAIN Append(events, e) = 1..(Len(events) + 1)
  BY <1>1, LenProperties
<1> QED
  BY <1>1, <1>2, <1>3

\* What a step of the worker, of its accept loop or of a handler may do to what
\* the window sees: report nothing, its end, Running, one more payload, or a
\* number of clients.
LEMMA SessionSteps ==
    ASSUME TypeOK, WorkerStep \/ AcceptStep \/ \E o \in Overlays : HandlerStep(o)
    PROVE  /\ UNCHANGED <<window, shown, sessions, stop>>
           /\ worker # "none" /\ worker' # "none"
           /\ \/ events' = events /\ relayed' = relayed /\ (worker' = "ended" <=> worker = "ended")
              \/ /\ \E s \in {"Stopped", "Error"} : events' = Append(events, <<"status", s>>)
                 /\ relayed' = relayed /\ worker # "ended" /\ worker' = "ended"
              \/ /\ events' = Append(events, <<"status", "Running">>)
                 /\ relayed' = relayed /\ worker # "ended" /\ worker' # "ended"
              \/ /\ events' = Append(events, <<"relayed", relayed + 1>>)
                 /\ relayed' = relayed + 1 /\ worker # "ended" /\ worker' # "ended"
              \/ /\ \E n \in Nat : events' = Append(events, <<"clients", n>>)
                 /\ relayed' = relayed /\ worker' = worker
<1>1. CASE WorkerStep
  <2>1. CASE \/ BuildsRuntime \/ Connects \/ ConnectFails \/ SeesStop
             \/ (\E n \in 1..2 : EventArrives(n))
             \/ FeedEnds \/ Reconnects \/ ReconnectFails
    BY <2>1 DEF BuildsRuntime, Connects, ConnectFails, SeesStop, EventArrives, FeedEnds,
                Reconnects, ReconnectFails
  <2>2. CASE BuildFails \/ ConnectEnds \/ BindFails \/ JoinAcceptLoop
    BY <2>2 DEF BuildFails, ConnectEnds, BindFails, JoinAcceptLoop, Ends, Tell
  <2>3. CASE ReconnectEnds
    BY <2>3 DEF ReconnectEnds, Ends, Tell
  <2>4. CASE Binds
    BY <2>4 DEF Binds, Tell
  <2>5. CASE SendPayload
    BY <2>5 DEF SendPayload, Tell
  <2> QED
    BY <1>1, <2>1, <2>2, <2>3, <2>4, <2>5 DEF WorkerStep
<1>2. CASE AcceptStep
  BY <1>2 DEF AcceptStep, Accepts, AcceptFails, BackoffEnds, AcceptLoopStops, session
<1>3. ASSUME NEW o \in Overlays, HandlerStep(o)
      PROVE  /\ UNCHANGED <<window, shown, sessions, stop, session>> /\ worker # "none"
             /\ \/ events' = events
                \/ \E n \in Nat : events' = Append(events, <<"clients", n>>)
  <2>1. CASE CountsIn(o) \/ HandshakeFails(o) \/ LeavesLoop(o) \/ CountsOut(o)
    BY <2>1 DEF CountsIn, HandshakeFails, LeavesLoop, CountsOut, Goto
  <2>2. CASE ReportsIn(o) \/ ReportsOut(o)
    <3>1. announce[o] \in Nat
      BY DEF TypeOK
    <3> QED
      BY <2>2, <3>1 DEF ReportsIn, ReportsOut, Goto, Tell
  <2> QED
    BY <1>3, <2>1, <2>2 DEF HandlerStep
<1> QED
  BY <1>1, <1>2, <1>3 DEF session

-----------------------------------------------------------------------------
(***************************************************************************)
(* Types.                                                                   *)
(***************************************************************************)
LEMMA CountedIsFinite == IsFiniteSet(Counted)
  BY GuiBoundsAssumption, FS_Subset DEF Counted

LEMMA CountStep ==
    ASSUME TypeOK, CountIsExact, Next
    PROVE  CountIsExact' /\ count' \in Nat /\ announce' \in [Overlays -> Nat]
<1>1. ASSUME NEW o \in Overlays, CountsIn(o)
      PROVE  CountIsExact' /\ count' \in Nat /\ announce' \in [Overlays -> Nat]
  <2>1. o \notin Counted /\ Counted' = Counted \cup {o}
    BY <1>1 DEF CountsIn, Goto, Counted, TypeOK
  <2>2. Cardinality(Counted') = Cardinality(Counted) + 1
    BY <2>1, CountedIsFinite, FS_AddElement
  <2>3. count' = count + 1 /\ worker' = worker /\ worker # "none" /\ count \in Nat
    BY <1>1 DEF CountsIn, Goto, session, TypeOK
  <2>4. announce' \in [Overlays -> Nat]
    BY <1>1, <2>3 DEF CountsIn, TypeOK
  <2> QED
    BY <2>2, <2>3, <2>4 DEF CountIsExact
<1>2. ASSUME NEW o \in Overlays, CountsOut(o)
      PROVE  CountIsExact' /\ count' \in Nat /\ announce' \in [Overlays -> Nat]
  <2>1. o \in Counted /\ Counted' = Counted \ {o}
    BY <1>2 DEF CountsOut, Goto, Counted, TypeOK
  <2>2. Cardinality(Counted') = Cardinality(Counted) - 1 /\ Cardinality(Counted') \in Nat
    <3>1. Cardinality(Counted') = Cardinality(Counted) - 1
      BY <2>1, CountedIsFinite, FS_RemoveElement
    <3>2. IsFiniteSet(Counted')
      BY <2>1, CountedIsFinite, FS_RemoveElement
    <3> QED
      BY <3>1, <3>2, FS_CardinalityType
  <2>3. count' = count - 1 /\ worker' = worker /\ worker # "none"
    BY <1>2 DEF CountsOut, Goto, session, TypeOK
  <2>4. count' \in Nat /\ count' = Cardinality(Counted')
    BY <2>2, <2>3 DEF CountIsExact
  <2>5. announce' \in [Overlays -> Nat]
    BY <1>2, <2>3, <2>4 DEF CountsOut, TypeOK
  <2> QED
    BY <2>4, <2>5 DEF CountIsExact
<1>3. CASE Start
  <2>1. count' = 0 /\ announce' = announce /\ task' = Fresh
    BY <1>3 DEF Start
  <2>2. Counted' = {}
    BY <2>1 DEF Counted, Fresh
  <2> QED
    BY <2>1, <2>2, FS_EmptySet DEF CountIsExact, TypeOK
<1>4. CASE DrainEvents \/ Exit
  <2>1. /\ UNCHANGED <<count, announce>>
        /\ worker' = "none" \/ UNCHANGED <<worker, task>>
    BY <1>4 DEF DrainEvents, Exit
  <2> QED
    BY <2>1 DEF CountIsExact, Counted, TypeOK
<1>5. CASE Stop \/ CloseWindow \/ AcceptFails \/ BackoffEnds \/ AcceptLoopStops
  <2>1. UNCHANGED <<count, announce, task, worker>>
    BY <1>5 DEF Stop, CloseWindow, AcceptFails, BackoffEnds, AcceptLoopStops, session, handlers
  <2> QED
    BY <2>1 DEF CountIsExact, Counted, TypeOK
<1>6. CASE WorkerStep
  <2>1. UNCHANGED <<count, announce, task>>
    BY <1>6 DEF WorkerStep, BuildsRuntime, BuildFails, Connects, ConnectFails, ConnectEnds,
                Binds, BindFails, SeesStop, EventArrives, SendPayload, FeedEnds, Reconnects,
                ReconnectFails, ReconnectEnds, JoinAcceptLoop, handlers
  <2>2. worker # "none"
    BY <1>6, SessionSteps
  <2> QED
    BY <2>1, <2>2 DEF CountIsExact, Counted, TypeOK
<1>7. ASSUME NEW o \in Overlays,
             \/ Accepts(o) \/ HandshakeFails(o) \/ ReportsIn(o) \/ LeavesLoop(o)
             \/ ReportsOut(o)
      PROVE  CountIsExact' /\ count' \in Nat /\ announce' \in [Overlays -> Nat]
  <2>1. UNCHANGED <<count, announce, worker>>
    BY <1>7 DEF Accepts, HandshakeFails, ReportsIn, LeavesLoop, ReportsOut, Goto, session
  <2>2. Counted' = Counted
    BY <1>7 DEF Accepts, HandshakeFails, ReportsIn, LeavesLoop, ReportsOut, Goto, Counted, TypeOK
  <2> QED
    BY <2>1, <2>2 DEF CountIsExact, TypeOK
<1> QED
  BY <1>1, <1>2, <1>3, <1>4, <1>5, <1>6, <1>7 DEF Next, WindowStep, AcceptStep, HandlerStep

LEMMA EventsStep ==
    ASSUME TypeOK, Next
    PROVE  events' \in Seq(EventValues)
<1>1. events \in Seq(EventValues)
  BY DEF TypeOK, EventValues
<1>2. CASE WindowStep
  <2>1. events' = events \/ events' = <<>>
    BY <1>2 DEF WindowStep, Start, Stop, DrainEvents, CloseWindow, Exit
  <2>2. <<>> \in Seq(EventValues)
    BY EmptySeq
  <2> QED
    BY <1>1, <2>1, <2>2, Zenon
<1>3. CASE WorkerStep \/ AcceptStep \/ \E o \in Overlays : HandlerStep(o)
  <2>1. events' = events \/ \E e \in EventValues : events' = Append(events, e)
    <3>1. \A s \in {"Running", "Stopped", "Error"} : <<"status", s>> \in EventValues
      BY DEF EventValues
    <3>2. \A n \in Nat : <<"clients", n>> \in EventValues /\ <<"relayed", n>> \in EventValues
      BY DEF EventValues
    <3>3. relayed + 1 \in Nat
      BY DEF TypeOK
    <3> QED
      BY <1>3, <3>1, <3>2, <3>3, SessionSteps
  <2> QED
    BY <1>1, <2>1, AppendedEvents
<1> QED
  BY <1>2, <1>3 DEF Next

LEMMA DrainTypes ==
    ASSUME TypeOK, DrainEvents
    PROVE  /\ status' \in {status, "Running", "Stopped", "Error"}
           /\ client_count' \in Nat /\ relayed_count' \in Nat
<1>1. events \in Seq(EventValues)
  BY DEF TypeOK, EventValues
<1>2. status' \in {status, "Running", "Stopped", "Error"}
  <2>1. status' = Latest("status", status)
    BY DEF DrainEvents
  <2> QED
    BY <1>1, <2>1, LatestIsLast, EventTypes DEF IsLastOf, IsKind
<1>3. client_count' \in Nat
  <2>1. client_count' = Latest("clients", client_count) /\ client_count \in Nat
    BY DEF DrainEvents, TypeOK
  <2> QED
    BY <1>1, <2>1, LatestIsLast, EventTypes DEF IsLastOf, IsKind
<1>4. relayed_count' \in Nat
  <2>1. relayed_count' = Latest("relayed", relayed_count) /\ relayed_count \in Nat
    BY DEF DrainEvents, TypeOK
  <2> QED
    BY <1>1, <2>1, LatestIsLast, EventTypes DEF IsLastOf, IsKind
<1> QED
  BY <1>2, <1>3, <1>4

LEMMA TypeStep ==
    ASSUME TypeOK, CountIsExact, Next
    PROVE  TypeOK'
<1> USE DEF shown, handlers, session
<1>0. /\ count' \in Nat /\ announce' \in [Overlays -> Nat]
      /\ events' \in Seq(({"status"} \X {"Running", "Stopped", "Error"})
                             \cup ({"clients", "relayed"} \X Nat))
  BY CountStep, EventsStep DEF EventValues
<1>f. Fresh \in [Overlays -> {"free", "handshake", "entering", "serve", "close", "leaving", "gone"}]
  BY DEF Fresh
<1>b. running \in BOOLEAN /\ stop \in BOOLEAN /\ flag \in BOOLEAN
  BY Zenon DEF TypeOK
<1>1. CASE Start
  <2>1. running' \in BOOLEAN /\ stop' \in BOOLEAN /\ flag' \in BOOLEAN
    BY <1>1, Zenon DEF Start
  <2>2. sessions' \in 0..MaxSessions
    BY <1>1, GuiBoundsAssumption DEF Start, TypeOK
  <2> QED
    BY <1>0, <1>1, <1>f, <2>1, <2>2 DEF Start, TypeOK
<1>2. CASE Stop \/ CloseWindow
  <2>1. stop' \in {TRUE, stop, stop \/ running} /\ UNCHANGED <<running, flag>>
    BY <1>2 DEF Stop, CloseWindow
  <2>2. running' \in BOOLEAN /\ stop' \in BOOLEAN /\ flag' \in BOOLEAN
    BY <1>b, <2>1, Zenon
  <2>3. /\ window' \in {"open", "closing"} /\ status' \in {"Stopping", status}
        /\ UNCHANGED <<client_count, relayed_count, sessions, events, session, handlers>>
    BY <1>2 DEF Stop, CloseWindow, TypeOK
  <2> QED
    BY <1>0, <2>2, <2>3 DEF TypeOK
<1>3. CASE DrainEvents
  <2>1. running' \in {running, FALSE} /\ UNCHANGED <<stop, flag>>
    BY <1>3 DEF DrainEvents
  <2>2. running' \in BOOLEAN /\ stop' \in BOOLEAN /\ flag' \in BOOLEAN
    BY <1>b, <2>1, Zenon
  <2>3. /\ worker' \in {worker, "none"} /\ task' \in {task, Fresh}
        /\ UNCHANGED <<window, sessions, tries, pending, relayed, accept>>
    BY <1>3 DEF DrainEvents
  <2> QED
    BY <1>0, <1>3, <1>f, <2>2, <2>3, DrainTypes DEF TypeOK
<1>4. CASE Exit
  <2>1. UNCHANGED <<running, stop, flag>>
    BY <1>4 DEF Exit
  <2>2. running' \in BOOLEAN /\ stop' \in BOOLEAN /\ flag' \in BOOLEAN
    BY <1>b, <2>1, Zenon
  <2> QED
    BY <1>0, <1>4, <1>f, <2>2 DEF Exit, TypeOK
<1>5. CASE WorkerStep
  <2> USE DEF WorkerStep, BuildsRuntime, BuildFails, Connects, ConnectFails, ConnectEnds,
              Binds, BindFails, SeesStop, EventArrives, SendPayload, FeedEnds, Reconnects,
              ReconnectFails, ReconnectEnds, JoinAcceptLoop, Ends
  <2>1. UNCHANGED <<window, shown, sessions, stop, handlers>> /\ flag' \in {flag, TRUE}
    BY <1>5
  <2>2. running' \in BOOLEAN /\ stop' \in BOOLEAN /\ flag' \in BOOLEAN
    BY <1>b, <2>1, Zenon
  <2>3. /\ worker' \in {"connect", "bind", "serve", "relay", "reconnect", "join", "ended"}
        /\ accept' \in {accept, "listen"}
    BY <1>5
  <2>4. tries' \in {tries, tries + 1, 0} /\ relayed' \in {relayed, relayed + 1}
    BY <1>5
  <2>5. tries' \in Nat /\ relayed' \in Nat
    BY <2>4 DEF TypeOK
  <2>6. pending' \in 0..2 /\ (worker' = "relay" => pending' > 0)
    <3>1. pending \in 0..2 /\ (worker = "relay" => pending > 0)
      BY DEF TypeOK
    <3>2. CASE SendPayload
      BY <3>1, <3>2
    <3>3. CASE \E n \in 1..2 : EventArrives(n)
      BY <3>3
    <3>4. CASE ~SendPayload /\ ~\E n \in 1..2 : EventArrives(n)
      <4>1. pending' \in {pending} /\ worker' # "relay"
        BY <1>5, <3>4
      <4> QED
        BY <3>1, <4>1
    <3> QED
      BY <3>2, <3>3, <3>4
  <2> QED
    BY <1>0, <2>1, <2>2, <2>3, <2>5, <2>6 DEF TypeOK
<1>6. CASE AcceptStep \/ \E o \in Overlays : HandlerStep(o)
  <2> USE DEF AcceptStep, Accepts, AcceptFails, BackoffEnds, AcceptLoopStops, HandlerStep,
              CountsIn, HandshakeFails, ReportsIn, LeavesLoop, CountsOut, ReportsOut, Goto
  <2>1. UNCHANGED <<window, shown, sessions, stop, worker, tries, pending, relayed, flag>>
    BY <1>6
  <2>2. running' \in BOOLEAN /\ stop' \in BOOLEAN /\ flag' \in BOOLEAN
    BY <1>b, <2>1, Zenon
  <2>3. accept' \in {accept, "listen", "backoff", "done"}
    BY <1>6
  <2>4. task' \in [Overlays -> {"free", "handshake", "entering", "serve", "close",
                                "leaving", "gone"}]
    BY <1>6 DEF TypeOK
  <2> QED
    BY <1>0, <2>1, <2>2, <2>3, <2>4 DEF TypeOK
<1> QED
  BY <1>1, <1>2, <1>3, <1>4, <1>5, <1>6 DEF Next, WindowStep

LEMMA InitTypes == Init => TypeOK /\ CountIsExact
<1> SUFFICES ASSUME Init PROVE TypeOK /\ CountIsExact
  OBVIOUS
<1>1. running \in BOOLEAN /\ stop \in BOOLEAN /\ flag \in BOOLEAN
  BY Zenon DEF Init
<1>2. /\ events \in Seq(({"status"} \X {"Running", "Stopped", "Error"})
                            \cup ({"clients", "relayed"} \X Nat))
      /\ announce \in [Overlays -> Nat]
      /\ task \in [Overlays -> {"free", "handshake", "entering", "serve", "close",
                                "leaving", "gone"}]
  BY DEF Init, Fresh
<1>3. sessions \in 0..MaxSessions /\ pending \in 0..2
  BY GuiBoundsAssumption DEF Init
<1>4. TypeOK
  BY <1>1, <1>2, <1>3 DEF Init, TypeOK
<1> QED
  BY <1>4 DEF Init, CountIsExact

\* The types hold, and while a session exists its client count is the number of
\* overlays counted in (handle_client adds and subtracts one in two places).
THEOREM GuiCountIsExact == Spec => [](TypeOK /\ CountIsExact)
<1>1. TypeOK /\ CountIsExact /\ [Next]_vars => (TypeOK /\ CountIsExact)'
  <2> SUFFICES ASSUME TypeOK, CountIsExact, [Next]_vars PROVE (TypeOK /\ CountIsExact)'
    OBVIOUS
  <2>1. CASE Next
    BY <2>1, CountStep, TypeStep
  <2>2. CASE UNCHANGED vars
    <3>1. UNCHANGED <<worker, count, task>>
      BY <2>2 DEF vars, session, handlers
    <3>2. CountIsExact'
      BY <3>1 DEF CountIsExact, Counted
    <3>3. UNCHANGED <<running, stop, flag>>
      BY <2>2 DEF vars, shown, session
    <3>4. running' \in BOOLEAN /\ stop' \in BOOLEAN /\ flag' \in BOOLEAN
      <4>1. running \in BOOLEAN /\ stop \in BOOLEAN /\ flag \in BOOLEAN
        BY Zenon DEF TypeOK
      <4> QED
        BY <3>3, <4>1, Zenon
    <3>5. TypeOK'
      BY <2>2, <3>4 DEF vars, shown, session, handlers, TypeOK
    <3> QED
      BY <3>2, <3>5
  <2> QED
    BY <2>1, <2>2
<1> QED
  BY <1>1, InitTypes, PTL DEF Spec

-----------------------------------------------------------------------------
(***************************************************************************)
(* What the window shows of the session.                                    *)
(***************************************************************************)
LEMMA SessionStep ==
    ASSUME SessionInv, Next
    PROVE  SessionReports' /\ ShownSessionIsReal'
<1> USE DEF SessionReports, ShownSessionIsReal
<1>0. /\ TypeOK /\ SessionReports /\ ShownSessionIsReal
      /\ events \in Seq(EventValues)
  BY DEF SessionInv, TypeOK, EventValues
<1>1. CASE Start
  BY <1>0, <1>1 DEF Start, StoppedReported
<1>2. CASE Stop
  BY <1>0, <1>2 DEF Stop, StoppedReported, IsLastOf, IsKind, session
<1>3. CASE CloseWindow \/ Exit
  BY <1>3 DEF CloseWindow, Exit
<1>4. CASE DrainEvents
  <2>1. /\ window = "open" /\ window' = "open" /\ events # <<>> /\ events' = <<>>
        /\ status' = Latest("status", status)
        /\ IF StoppedReported THEN running' = FALSE /\ worker' = "none"
                              ELSE UNCHANGED <<running, worker>>
    BY <1>4 DEF DrainEvents
  <2>2. ~StoppedReported'
    BY <2>1 DEF StoppedReported
  <2>3. CASE StoppedReported
    <3>1. PICK i \in DOMAIN events : IsStopped(events[i]) /\ IsLastOf(i, "status")
      BY <1>0, <2>1, <2>3
    <3>2. status' = events[i][2]
      <4>1. PICK k \in DOMAIN events : IsLastOf(k, "status") /\ status' = events[k][2]
        BY <1>0, <2>1, <3>1, LatestIsLast DEF IsLastOf
      <4>2. k = i
        BY <1>0, <3>1, <4>1, LastIsUnique
      <4> QED
        BY <4>1, <4>2
    <3>3. status' \in {"Stopped", "Error"}
      BY <3>1, <3>2 DEF IsStopped
    <3> QED
      BY <2>1, <2>2, <2>3, <3>3
  <2>4. CASE ~StoppedReported
    <3>1. worker # "none" /\ worker # "ended" /\ running
      <4>1. worker # "none"
        BY <1>0, <2>1
      <4>2. worker # "ended"
        BY <1>0, <2>1, <2>4 DEF StoppedReported
      <4> QED
        BY <1>0, <2>1, <4>1, <4>2
    <3>2. status' \in {status, "Running"}
      <4>1. CASE status' = status
        BY <4>1
      <4>2. CASE status' # status
        <5>1. PICK k \in DOMAIN events : IsLastOf(k, "status") /\ status' = events[k][2]
          BY <1>0, <2>1, <4>2, LatestIsLast
        <5>2. ~IsStopped(events[k]) /\ events[k][1] = "status"
          BY <2>4, <5>1 DEF StoppedReported, IsLastOf, IsKind
        <5>3. /\ events[k] = <<"status", events[k][2]>>
              /\ events[k][2] \in {"Running", "Stopped", "Error"}
          BY <1>0, <5>2, EventTypes
        <5> QED
          BY <5>1, <5>2, <5>3 DEF IsStopped
      <4> QED
        BY <4>1, <4>2
    <3>3. status \in {"Starting", "Running", "Stopping"}
      BY <1>0, <2>1, <3>1
    <3>4. running' /\ worker' = worker
      BY <2>1, <2>4, <3>1
    <3> QED
      BY <2>1, <2>2, <3>1, <3>2, <3>3, <3>4
  <2> QED
    BY <2>3, <2>4
<1>5. ASSUME WorkerStep \/ AcceptStep \/ \E o \in Overlays : HandlerStep(o), window = "open"
      PROVE  SessionReports' /\ ShownSessionIsReal'
  <2>1. UNCHANGED <<window, running, status>> /\ worker # "none" /\ worker' # "none"
    BY <1>0, <1>5, SessionSteps DEF shown
  <2>2. ShownSessionIsReal'
    BY <1>0, <1>5, <2>1
  <2>3. CASE events' = events /\ (worker' = "ended" <=> worker = "ended")
    BY <1>0, <1>5, <2>1, <2>2, <2>3 DEF StoppedReported, IsLastOf, IsKind
  <2>4. CASE /\ \E s \in {"Stopped", "Error"} : events' = Append(events, <<"status", s>>)
             /\ worker # "ended" /\ worker' = "ended"
    <3>1. PICK s \in {"Stopped", "Error"} : events' = Append(events, <<"status", s>>)
      BY <2>4
    <3>2. <<"status", s>> \in EventValues /\ IsStopped(<<"status", s>>)
      BY DEF EventValues, IsStopped
    <3>n. PICK n : n = Len(events) + 1
      OBVIOUS
    <3>3. /\ n \in DOMAIN events' /\ events'[n] = <<"status", s>>
          /\ \A j \in DOMAIN events' : ~(j > n)
      BY <1>0, <3>1, <3>2, <3>n, AppendedEvents
    <3>4. IsStopped(events'[n]) /\ IsLastOf(n, "status")'
      BY <3>2, <3>3 DEF IsLastOf, IsKind
    <3> QED
      BY <2>1, <2>2, <2>4, <3>3, <3>4
  <2>5. ASSUME NEW e \in EventValues, events' = Append(events, e), ~IsStopped(e),
               worker' = "ended" <=> worker = "ended",
               worker = "ended" => e[1] # "status"
        PROVE  SessionReports' /\ ShownSessionIsReal'
    <3>1. /\ DOMAIN events' = DOMAIN events \cup {Len(events) + 1}
          /\ events'[Len(events) + 1] = e
          /\ \A i \in DOMAIN events : events'[i] = events[i]
      BY <1>0, <2>5, AppendedEvents
    <3>2. CASE worker # "ended"
      <4>1. ~StoppedReported
        BY <1>0, <1>5, <3>2
      <4>2. ~StoppedReported'
        BY <2>5, <3>1, <4>1 DEF StoppedReported
      <4> QED
        BY <2>1, <2>2, <2>5, <3>2, <4>2
    <3>3. CASE worker = "ended"
      <4>1. PICK i \in DOMAIN events : IsStopped(events[i]) /\ IsLastOf(i, "status")
        BY <1>0, <1>5, <3>3
      <4>2. i \in DOMAIN events' /\ IsStopped(events'[i]) /\ IsLastOf(i, "status")'
        BY <2>5, <3>1, <3>3, <4>1 DEF IsLastOf, IsKind
      <4> QED
        BY <2>1, <2>2, <2>5, <3>3, <4>2
    <3> QED
      BY <3>2, <3>3
  <2>6. CASE /\ events' = Append(events, <<"status", "Running">>)
             /\ worker # "ended" /\ worker' # "ended"
    <3>1. <<"status", "Running">> \in EventValues /\ ~IsStopped(<<"status", "Running">>)
      BY DEF EventValues, IsStopped
    <3> QED
      BY <2>5, <2>6, <3>1
  <2>7. CASE /\ events' = Append(events, <<"relayed", relayed + 1>>)
             /\ worker # "ended" /\ worker' # "ended"
    <3>1. relayed + 1 \in Nat
      BY <1>0 DEF TypeOK
    <3>2. /\ <<"relayed", relayed + 1>> \in EventValues
          /\ ~IsStopped(<<"relayed", relayed + 1>>)
      BY <3>1 DEF EventValues, IsStopped
    <3> QED
      BY <2>5, <2>7, <3>2
  <2>8. CASE /\ \E n \in Nat : events' = Append(events, <<"clients", n>>)
             /\ worker' = worker
    <3>1. PICK n \in Nat : events' = Append(events, <<"clients", n>>)
      BY <2>8
    <3>2. /\ <<"clients", n>> \in EventValues /\ ~IsStopped(<<"clients", n>>)
          /\ <<"clients", n>>[1] # "status"
      BY DEF EventValues, IsStopped
    <3> QED
      BY <2>5, <2>8, <3>1, <3>2
  <2> QED
    BY <1>0, <1>5, <2>3, <2>4, <2>6, <2>7, <2>8, SessionSteps
<1>6. ASSUME WorkerStep \/ AcceptStep \/ \E o \in Overlays : HandlerStep(o), window # "open"
      PROVE  SessionReports' /\ ShownSessionIsReal'
  <2>1. window' = window
    BY <1>0, <1>6, SessionSteps
  <2> QED
    BY <1>6, <2>1
<1> QED
  BY <1>1, <1>2, <1>3, <1>4, <1>5, <1>6 DEF Next, WindowStep

\* The window offers Start exactly when no worker is left, and the status it
\* shows is that of a session under way, or of none: between the Stopped a
\* worker sends last and the frame that drains it nothing else can end up there.
THEOREM GuiShowsRealSession == Spec => []ShownSessionIsReal
<1>1. Init => SessionReports /\ ShownSessionIsReal
  BY DEF Init, SessionReports, ShownSessionIsReal, StoppedReported
<1>2. TypeOK /\ CountIsExact /\ SessionReports /\ ShownSessionIsReal /\ [Next]_vars
          => SessionReports' /\ ShownSessionIsReal'
  <2> SUFFICES ASSUME TypeOK, CountIsExact, SessionReports, ShownSessionIsReal, [Next]_vars
               PROVE  SessionReports' /\ ShownSessionIsReal'
    OBVIOUS
  <2>1. CASE Next
    BY <2>1, SessionStep DEF SessionInv
  <2>2. CASE UNCHANGED vars
    BY <2>2 DEF vars, shown, session, SessionReports, ShownSessionIsReal, StoppedReported,
                IsLastOf, IsKind
  <2> QED
    BY <2>1, <2>2
<1> QED
  BY <1>1, <1>2, GuiCountIsExact, PTL DEF Spec

-----------------------------------------------------------------------------
(***************************************************************************)
(* The total of payloads shown.                                             *)
(***************************************************************************)
LEMMA RelayedStep ==
    ASSUME RelayedInv, Next
    PROVE  RelayReports' /\ RelayedShownIsTrue'
<1>0. /\ TypeOK /\ RelayReports /\ RelayedShownIsTrue
      /\ events \in Seq(EventValues) /\ relayed \in Nat /\ relayed_count \in Nat
  BY DEF RelayedInv, TypeOK, EventValues
<1>1. ASSUME RelayReports', relayed_count' <= relayed'
      PROVE  RelayReports' /\ RelayedShownIsTrue'
  BY <1>1 DEF RelayReports, RelayedShownIsTrue, IsKind
<1>2. CASE Start
  <2>1. relayed_count' = 0 /\ relayed' = 0 /\ events' = <<>>
    BY <1>2 DEF Start
  <2> QED
    BY <1>1, <2>1 DEF RelayReports, IsLastOf, IsKind
<1>3. CASE DrainEvents
  <2>1. /\ events' = <<>> /\ relayed' = relayed
        /\ relayed_count' = Latest("relayed", relayed_count)
    BY <1>3 DEF DrainEvents
  <2>2. relayed_count' = relayed
    BY <1>0, <2>1, LatestIsLast DEF RelayReports
  <2>3. RelayReports'
    BY <2>1, <2>2 DEF RelayReports, IsLastOf, IsKind
  <2>4. relayed_count' <= relayed'
    BY <1>0, <2>1, <2>2
  <2> QED
    BY <1>1, <2>3, <2>4
<1>4. CASE UNCHANGED <<events, relayed, relayed_count>>
  <2>1. RelayReports' /\ relayed_count' <= relayed'
    BY <1>0, <1>4 DEF RelayReports, RelayedShownIsTrue, IsLastOf, IsKind
  <2> QED
    BY <1>1, <2>1
<1>5. ASSUME NEW e \in EventValues, events' = Append(events, e), relayed_count' = relayed_count,
             \/ e[1] # "relayed" /\ relayed' = relayed
             \/ e = <<"relayed", relayed + 1>> /\ relayed' = relayed + 1
      PROVE  RelayReports' /\ RelayedShownIsTrue'
  <2>n. PICK n : n = Len(events) + 1
    OBVIOUS
  <2>1. /\ DOMAIN events' = DOMAIN events \cup {n} /\ events'[n] = e
        /\ \A i \in DOMAIN events : events'[i] = events[i] /\ i < n
    BY <1>0, <1>5, <2>n, AppendedEvents
  <2>2. DOMAIN events \subseteq Nat /\ n \in Nat
    BY <1>0, <2>n, LenProperties
  <2>3. CASE e[1] # "relayed" /\ relayed' = relayed
    <3>1. \A i \in DOMAIN events' : IsKind(i, "relayed")' <=> IsKind(i, "relayed")
      BY <2>1, <2>2, <2>3 DEF IsKind
    <3>2. \A i \in DOMAIN events' : IsLastOf(i, "relayed")' => IsLastOf(i, "relayed")
      BY <2>1, <3>1 DEF IsLastOf, IsKind
    <3>3. \A i \in DOMAIN events' : IsLastOf(i, "relayed")' => events'[i][2] = relayed'
      BY <1>0, <2>1, <2>3, <3>2 DEF RelayReports, IsLastOf, IsKind
    <3>4. RelayReports'
      BY <1>0, <1>5, <2>1, <2>3, <3>1, <3>3 DEF RelayReports
    <3> QED
      BY <1>0, <1>1, <1>5, <2>3, <3>4 DEF RelayedShownIsTrue
  <2>4. CASE e = <<"relayed", relayed + 1>> /\ relayed' = relayed + 1
    <3>1. IsKind(n, "relayed")' /\ events'[n][2] = relayed'
      BY <2>1, <2>4 DEF IsKind
    <3>2. \A i \in DOMAIN events' : IsLastOf(i, "relayed")' => i = n
      BY <2>1, <2>2, <3>1 DEF IsLastOf
    <3>3. RelayReports'
      BY <2>1, <3>1, <3>2 DEF RelayReports
    <3>4. relayed_count' <= relayed'
      BY <1>0, <1>5, <2>4 DEF RelayedShownIsTrue
    <3> QED
      BY <1>1, <3>3, <3>4
  <2> QED
    BY <1>5, <2>3, <2>4
<1>6. CASE WorkerStep \/ AcceptStep \/ \E o \in Overlays : HandlerStep(o)
  <2>1. relayed_count' = relayed_count
    BY <1>0, <1>6, SessionSteps DEF shown
  <2>2. CASE events' = events /\ relayed' = relayed
    BY <1>4, <2>1, <2>2
  <2>3. CASE /\ \E s \in {"Stopped", "Error"} : events' = Append(events, <<"status", s>>)
             /\ relayed' = relayed
    <3>1. PICK s \in {"Stopped", "Error"} : events' = Append(events, <<"status", s>>)
      BY <2>3
    <3>2. <<"status", s>> \in EventValues /\ <<"status", s>>[1] # "relayed"
      BY DEF EventValues
    <3> QED
      BY <1>5, <2>1, <2>3, <3>1, <3>2
  <2>4. CASE events' = Append(events, <<"status", "Running">>) /\ relayed' = relayed
    <3>1. <<"status", "Running">> \in EventValues /\ <<"status", "Running">>[1] # "relayed"
      BY DEF EventValues
    <3> QED
      BY <1>5, <2>1, <2>4, <3>1
  <2>5. CASE events' = Append(events, <<"relayed", relayed + 1>>) /\ relayed' = relayed + 1
    <3>1. <<"relayed", relayed + 1>> \in EventValues
      BY <1>0 DEF EventValues
    <3> QED
      BY <1>5, <2>1, <2>5, <3>1
  <2>6. CASE /\ \E n \in Nat : events' = Append(events, <<"clients", n>>)
             /\ relayed' = relayed
    <3>1. PICK n \in Nat : events' = Append(events, <<"clients", n>>)
      BY <2>6
    <3>2. <<"clients", n>> \in EventValues /\ <<"clients", n>>[1] # "relayed"
      BY DEF EventValues
    <3> QED
      BY <1>5, <2>1, <2>6, <3>1, <3>2
  <2> QED
    BY <1>0, <1>6, <2>2, <2>3, <2>4, <2>5, <2>6, SessionSteps
<1>7. CASE Stop \/ CloseWindow \/ Exit
  <2>1. UNCHANGED <<events, relayed, relayed_count>>
    BY <1>7 DEF Stop, CloseWindow, Exit, session, shown
  <2> QED
    BY <1>4, <2>1
<1> QED
  BY <1>2, <1>3, <1>6, <1>7 DEF Next, WindowStep

\* The relayed total the window shows is one the session has reached, and the
\* latest one when no report of it is under way, from one session to the next.
THEOREM GuiShowsTrueTotal == Spec => []RelayedShownIsTrue
<1>1. Init => RelayReports /\ RelayedShownIsTrue
  BY DEF Init, RelayReports, RelayedShownIsTrue, IsLastOf, IsKind
<1>2. TypeOK /\ RelayReports /\ RelayedShownIsTrue /\ [Next]_vars
          => RelayReports' /\ RelayedShownIsTrue'
  <2> SUFFICES ASSUME TypeOK, RelayReports, RelayedShownIsTrue, [Next]_vars
               PROVE  RelayReports' /\ RelayedShownIsTrue'
    OBVIOUS
  <2>1. CASE Next
    BY <2>1, RelayedStep DEF RelayedInv
  <2>2. CASE UNCHANGED vars
    BY <2>2 DEF vars, shown, session, RelayReports, RelayedShownIsTrue, IsLastOf, IsKind
  <2> QED
    BY <2>1, <2>2
<1> QED
  BY <1>1, <1>2, GuiCountIsExact, PTL DEF Spec

=============================================================================
