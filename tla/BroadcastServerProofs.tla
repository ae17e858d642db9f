----------------------- MODULE BroadcastServerProofs -----------------------
(***************************************************************************)
(* Proofs about BroadcastServer, for every finite set of overlays, every    *)
(* channel capacity and every limit.                                        *)
(***************************************************************************)
EXTENDS BroadcastServer, FiniteSetTheorems, SequenceTheorems, TLAPS

(***************************************************************************)
(* client_count.  The count stays a natural number only because it is       *)
(* exact, so the type invariant and CountIsExact are proved together.       *)
(***************************************************************************)
LEMMA RegisteredIsFinite == IsFiniteSet(Registered)
  BY ChannelAssumption, FS_Subset DEF Registered

\* The steps that change neither client_count nor who is registered.
LEMMA SameRegistered ==
    ASSUME CountIsExact, count' = count, Registered' = Registered
    PROVE  CountIsExact'
  BY DEF CountIsExact

LEMMA CountStep ==
    ASSUME TypeOK, CountIsExact, Next
    PROVE  CountIsExact' /\ count' \in Nat
<1>1. ASSUME NEW h \in Handlers, HandshakeSucceeds(h)
      PROVE  CountIsExact' /\ count' \in Nat
  <2>1. h \notin Registered /\ Registered' = Registered \cup {h}
    BY <1>1 DEF HandshakeSucceeds, Goto, Registered, TypeOK
  <2>2. Cardinality(Registered') = Cardinality(Registered) + 1
    BY <2>1, RegisteredIsFinite, FS_AddElement
  <2> QED
    BY <1>1, <2>2 DEF HandshakeSucceeds, CountIsExact, TypeOK
<1>2. ASSUME NEW h \in Handlers, HandlerEnds(h)
      PROVE  CountIsExact' /\ count' \in Nat
  <2>1. h \in Registered /\ Registered' = Registered \ {h}
    BY <1>2 DEF HandlerEnds, Goto, Registered, TypeOK
  <2>2. Cardinality(Registered') = Cardinality(Registered) - 1
    BY <2>1, RegisteredIsFinite, FS_RemoveElement
  <2>3. Cardinality(Registered') \in Nat
    <3>1. IsFiniteSet(Registered')
      BY <2>1, RegisteredIsFinite, FS_RemoveElement
    <3> QED
      BY <3>1, FS_CardinalityType
  <2>4. count' = count - 1
    BY <1>2 DEF HandlerEnds
  <2> QED
    BY <2>2, <2>3, <2>4 DEF CountIsExact, TypeOK
<1>3. CASE \/ MainStep \/ AcceptFails \/ BackoffEnds \/ AcceptLoopStops
           \/ \E h \in Handlers : Lags(h)
  <2>1. UNCHANGED <<count, task>>
    BY <1>3 DEF MainStep, Connects, ConnectFails, Binds, BindFails, SignalArrives,
                TakeSignal, EventArrives, SendPayload, FeedEnds, Reconnects,
                ReconnectFails, JoinAcceptLoop, ProcessExits, AcceptFails, BackoffEnds,
                AcceptLoopStops, Lags, handlerVars
  <2> QED
    BY <2>1, SameRegistered DEF Registered, TypeOK
<1>4. ASSUME NEW h \in Handlers,
             \/ Accepts(h) \/ HandshakeFails(h) \/ ReceivesPayload(h) \/ ReceivesPing(h)
             \/ WriteSucceeds(h) \/ WriteFails(h) \/ OverlayLeaves(h)
             \/ SeesShutdown(h) \/ SeesChannelClosed(h)
      PROVE  CountIsExact' /\ count' \in Nat
  <2>1. count' = count
    BY <1>4 DEF Accepts, HandshakeFails, ReceivesPayload, ReceivesPing, WriteSucceeds,
                WriteFails, OverlayLeaves, SeesShutdown, SeesChannelClosed
  <2>2. Registered' = Registered
    BY <1>4 DEF Accepts, HandshakeFails, ReceivesPayload, ReceivesPing, WriteSucceeds,
                WriteFails, OverlayLeaves, SeesShutdown, SeesChannelClosed, Goto,
                Registered, TypeOK
  <2> QED
    BY <2>1, <2>2, SameRegistered DEF TypeOK
<1> QED
  BY <1>1, <1>2, <1>3, <1>4 DEF Next, AcceptStep, HandlerStep

LEMMA TypeStep ==
    ASSUME TypeOK, Next, count' \in Nat
    PROVE  TypeOK'
<1> USE DEF mainVars, handlerVars
<1>1. CASE MainStep
  <2>1. UNCHANGED <<count, task, next, holding, from, since, got, skipped>>
    BY <1>1 DEF MainStep, Connects, ConnectFails, Binds, BindFails, SignalArrives,
                TakeSignal, EventArrives, SendPayload, FeedEnds, Reconnects,
                ReconnectFails, JoinAcceptLoop, ProcessExits
  <2> USE DEF MainStep, Connects, ConnectFails, Binds, BindFails, SignalArrives,
              TakeSignal, EventArrives, SendPayload, FeedEnds, Reconnects,
              ReconnectFails, JoinAcceptLoop, ProcessExits
  <2>2. /\ main' \in {"connect", "bind", "serve", "relay", "reconnect", "join", "ok", "err"}
        /\ accept' \in {"off", "listen", "backoff", "done"}
    BY <1>1 DEF TypeOK
  <2>3. (signal' = signal \/ signal' = TRUE) /\ (flag' = flag \/ flag' = TRUE)
        /\ (up' = up \/ up' = FALSE)
    BY <1>1
  <2>4. signal' \in BOOLEAN /\ flag' \in BOOLEAN /\ up' \in BOOLEAN
    BY <2>3, Zenon DEF TypeOK
  <2>5. /\ tries' \in {tries, tries + 1, 0}
        /\ relayed' \in {relayed, relayed + 1}
        /\ tail' \in {tail, tail + 1}
    BY <1>1
  <2>6. tries \in Nat /\ relayed \in Nat /\ tail \in Nat /\ pending \in 0..2
    BY DEF TypeOK
  <2>7. tries' \in Nat /\ relayed' \in Nat /\ tail' \in Nat
    BY <2>5, <2>6
  <2>8. pending' \in 0..2 /\ (main' = "relay" => pending' > 0)
    <3>1. main = "relay" => pending > 0
      BY DEF TypeOK
    <3>2. CASE SendPayload
      BY <2>6, <3>1, <3>2
    <3>3. CASE \E n \in 1..2 : EventArrives(n)
      BY <3>3
    <3>4. CASE ~SendPayload /\ ~\E n \in 1..2 : EventArrives(n)
      <4>1. pending' = pending /\ (main' = "relay" => main = "relay")
        BY <1>1, <3>4
      <4> QED
        BY <2>6, <3>1, <4>1
    <3> QED
      BY <3>2, <3>3, <3>4
  <2> QED
    BY <2>1, <2>2, <2>4, <2>7, <2>8 DEF TypeOK
<1>2. CASE AcceptStep
  <2>1. CASE AcceptFails \/ BackoffEnds \/ AcceptLoopStops
    BY <2>1 DEF AcceptFails, BackoffEnds, AcceptLoopStops, TypeOK
  <2>2. ASSUME NEW h \in Handlers, Accepts(h)
        PROVE  TypeOK'
    BY <2>2 DEF Accepts, TypeOK
  <2> QED
    BY <1>2, <2>1, <2>2 DEF AcceptStep
<1>3. ASSUME NEW h \in Handlers, HandlerStep(h)
      PROVE  TypeOK'
  <2>1. CASE \/ HandshakeSucceeds(h) \/ HandshakeFails(h) \/ ReceivesPing(h)
             \/ WriteFails(h) \/ OverlayLeaves(h) \/ SeesShutdown(h)
             \/ SeesChannelClosed(h) \/ HandlerEnds(h)
    BY <2>1 DEF HandshakeSucceeds, HandshakeFails, ReceivesPing, WriteFails, OverlayLeaves,
                SeesShutdown, SeesChannelClosed, HandlerEnds, Goto, TypeOK
  <2>2. CASE Lags(h)
    <3>1. /\ next[h] \in Nat /\ skipped[h] \in Nat /\ tail \in Nat /\ Capacity \in Nat
          /\ next[h] > 0 /\ next[h] <= tail - Capacity
      BY <2>2, ChannelAssumption DEF Lags, TypeOK
    <3>2. /\ tail - Capacity + 1 \in Nat \ {0}
          /\ skipped[h] + ((tail - Capacity + 1) - next[h]) \in Nat
      BY <3>1
    <3> QED
      BY <2>2, <3>2 DEF Lags, TypeOK
  <2>3. CASE ReceivesPayload(h)
    BY <2>3 DEF ReceivesPayload, Goto, TypeOK
  <2>4. CASE WriteSucceeds(h)
    <3>1. got' \in [Handlers -> Seq(Nat \ {0})]
      <4>1. CASE holding[h] = 0
        BY <2>4, <4>1 DEF WriteSucceeds, TypeOK
      <4>2. CASE holding[h] # 0
        <5>1. Append(got[h], holding[h]) \in Seq(Nat \ {0})
          BY <4>2, AppendProperties DEF TypeOK
        <5> QED
          BY <2>4, <4>2, <5>1 DEF WriteSucceeds, TypeOK
      <4> QED
        BY <4>1, <4>2
    <3> QED
      BY <2>4, <3>1 DEF WriteSucceeds, Goto, TypeOK
  <2> QED
    BY <1>3, <2>1, <2>2, <2>3, <2>4 DEF HandlerStep
<1> QED
  BY <1>1, <1>2, <1>3 DEF Next

\* The types hold, and client_count is the number of registered overlays: no
\* way out of a handler forgets to count it out or counts it out twice.
THEOREM CountIsAlwaysExact == Spec => [](TypeOK /\ CountIsExact)
<1>1. Init => TypeOK /\ CountIsExact
  <2> SUFFICES ASSUME Init PROVE TypeOK /\ CountIsExact
    OBVIOUS
  <2>1. TypeOK
    <3>1. got \in [Handlers -> Seq(Nat \ {0})]
      BY DEF Init
    <3>2. signal \in BOOLEAN /\ flag \in BOOLEAN /\ up \in BOOLEAN
      BY Zenon DEF Init
    <3>3. /\ tries \in Nat /\ relayed \in Nat /\ tail \in Nat /\ count \in Nat
          /\ pending \in 0..2 /\ main # "relay"
      BY DEF Init
    <3>4. /\ task \in [Handlers -> {"free", "handshake", "serve", "write", "close", "gone"}]
          /\ next \in [Handlers -> Nat \ {0}]
          /\ holding \in [Handlers -> Nat]
          /\ from \in [Handlers -> Nat \ {0}]
          /\ since \in [Handlers -> Nat]
          /\ skipped \in [Handlers -> Nat]
      BY DEF Init
    <3>5. /\ main \in {"connect", "bind", "serve", "relay", "reconnect", "join", "ok", "err"}
          /\ accept \in {"off", "listen", "backoff", "done"}
      BY DEF Init
    <3> QED
      BY <3>1, <3>2, <3>3, <3>4, <3>5 DEF TypeOK
  <2>2. Registered = {}
    BY DEF Init, Registered
  <2> QED
    BY <2>1, <2>2, FS_EmptySet DEF Init, CountIsExact
<1>2. TypeOK /\ CountIsExact /\ [Next]_vars => (TypeOK /\ CountIsExact)'
  <2> SUFFICES ASSUME TypeOK, CountIsExact, [Next]_vars
               PROVE  (TypeOK /\ CountIsExact)'
    OBVIOUS
  <2>1. CASE Next
    BY <2>1, CountStep, TypeStep
  <2>2. CASE UNCHANGED vars
    BY <2>2 DEF vars, mainVars, handlerVars, TypeOK, CountIsExact, Registered
  <2> QED
    BY <2>1, <2>2
<1> QED
  BY <1>1, <1>2, PTL DEF Spec

(***************************************************************************)
(* The limit of --max-events.  LimitHolds is not inductive: it needs that a *)
(* run which still relays is below the limit.                               *)
(***************************************************************************)
BelowLimit ==
    HasLimit /\ Limit > 0 =>
        relayed <= Limit /\ (main \notin {"join", "ok", "err"} => relayed < Limit)

\* With a limit of at least one, no payload is relayed beyond it, however many
\* payloads the event that reaches it has.
THEOREM LimitAlwaysHolds == Spec => []LimitHolds
<1>1. Init => BelowLimit
  <2> SUFFICES ASSUME Init PROVE BelowLimit
    OBVIOUS
  <2>1. relayed = 0 /\ Limit \in Nat
    BY LimitAssumption DEF Init
  <2> QED
    BY <2>1 DEF BelowLimit
<1>2. TypeOK /\ BelowLimit /\ [Next]_vars => BelowLimit'
  <2> SUFFICES ASSUME TypeOK, BelowLimit, [Next]_vars, HasLimit, Limit > 0
               PROVE  /\ relayed' <= Limit
                      /\ main' \notin {"join", "ok", "err"} => relayed' < Limit
    BY DEF BelowLimit
  <2>1. relayed \in Nat /\ Limit \in Nat /\ relayed <= Limit
    BY LimitAssumption DEF TypeOK, BelowLimit
  <2>2. main \notin {"join", "ok", "err"} => relayed < Limit
    BY DEF BelowLimit
  <2>3. CASE SendPayload
    <3>1. relayed' = relayed + 1 /\ relayed < Limit
      BY <2>2, <2>3 DEF SendPayload
    <3>2. CASE relayed + 1 >= Limit
      <4>1. main' = "join"
        BY <2>3, <3>2 DEF SendPayload, AtLimit
      <4> QED
        BY <2>1, <3>1, <4>1
    <3>3. CASE ~(relayed + 1 >= Limit)
      BY <2>1, <3>1, <3>3
    <3> QED
      BY <3>2, <3>3
  <2>4. CASE MainStep /\ ~SendPayload
    <3>1. /\ relayed' = relayed
          /\ main \in {"join", "ok", "err"} => main' \in {"join", "ok", "err"}
      BY <2>4 DEF MainStep, Connects, ConnectFails, Binds, BindFails, SignalArrives,
                  TakeSignal, EventArrives, FeedEnds, Reconnects, ReconnectFails,
                  JoinAcceptLoop, ProcessExits, mainVars
    <3> QED
      BY <2>1, <2>2, <3>1
  <2>5. CASE AcceptStep \/ (\E h \in Handlers : HandlerStep(h)) \/ UNCHANGED vars
    <3>1. UNCHANGED <<relayed, main>>
      BY <2>5 DEF AcceptStep, Accepts, AcceptFails, BackoffEnds, AcceptLoopStops,
                  HandlerStep, HandshakeSucceeds, HandshakeFails, Lags, ReceivesPayload,
                  ReceivesPing, WriteSucceeds, WriteFails, OverlayLeaves, SeesShutdown,
                  SeesChannelClosed, HandlerEnds, Goto, mainVars, vars
    <3> QED
      BY <2>1, <2>2, <3>1
  <2> QED
    BY <2>3, <2>4, <2>5 DEF Next
<1>3. BelowLimit => LimitHolds
  BY DEF BelowLimit, LimitHolds
<1> QED
  BY <1>1, <1>2, <1>3, CountIsAlwaysExact, PTL DEF Spec

(***************************************************************************)
(* What an overlay receives.  PayloadsAccountedFor and OnlyOverwrittenMissed *)
(* need that a handler that reads its receiver is writing nothing, and that *)
(* a connection not yet accepted has no history.                            *)
(***************************************************************************)
IdleHoldsNothing(h) == task[h] \in {"handshake", "serve"} => holding[h] = 0

FreeIsFresh(h) ==
    task[h] = "free" =>
        got[h] = <<>> /\ skipped[h] = 0 /\ holding[h] = 0 /\ next[h] = from[h]

HandlerInv(h) ==
    /\ AccountedFor(h) /\ MissedWereOverwritten(h)
    /\ IdleHoldsNothing(h) /\ FreeIsFresh(h)

LEMMA HandlerTypes ==
    ASSUME TypeOK, NEW h \in Handlers
    PROVE  /\ tail \in Nat /\ Capacity \in Nat \ {0}
           /\ next[h] \in Nat \ {0} /\ from[h] \in Nat \ {0}
           /\ holding[h] \in Nat /\ skipped[h] \in Nat
           /\ got[h] \in Seq(Nat \ {0}) /\ Len(got[h]) \in Nat
           /\ DOMAIN got[h] = 1..Len(got[h])
           /\ \A i \in DOMAIN got[h] : got[h][i] \in Nat
<1>1. got[h] \in Seq(Nat \ {0})
  BY DEF TypeOK
<1>2. /\ Len(got[h]) \in Nat /\ DOMAIN got[h] = 1..Len(got[h])
      /\ \A i \in DOMAIN got[h] : got[h][i] \in Nat
  BY <1>1
<1> QED
  BY <1>1, <1>2, ChannelAssumption DEF TypeOK

(***************************************************************************)
(* The arithmetic of a receiver: t payloads stored, the newest c kept, n the *)
(* place read next, f the first place, l payloads written, s skipped.       *)
(***************************************************************************)
LEMMA OverwrittenStays ==
    ASSUME NEW t \in Nat, NEW u \in {t, t + 1}, NEW c \in Nat, NEW q \in Int, q <= t - c
    PROVE  q <= u - c
  OBVIOUS

LEMMA ReadArithmetic ==
    ASSUME NEW t \in Nat, NEW n \in Nat, NEW f \in Nat,
           NEW l \in Nat, NEW s \in Nat, n <= t, n - f = l + s
    PROVE  /\ n + 1 <= t + 1 /\ (n + 1) - f = l + s + 1 /\ n = (n + 1) - 1
           /\ \A q \in f..((n + 1) - 1) : q = n \/ q \in f..(n - 1)
  OBVIOUS

LEMMA WriteArithmetic ==
    ASSUME NEW n \in Nat, NEW f \in Nat, NEW l \in Nat, NEW s \in Nat, n - f = l + s + 1
    PROVE  /\ n - f = (l + 1) + s + 0
           /\ f <= n - 1 /\ n - 1 < n
  OBVIOUS

\* The channel's growth and a change of place leave a handler's history alone.
LEMMA HandlerKept ==
    ASSUME TypeOK, NEW h \in Handlers, HandlerInv(h),
           tail' \in {tail, tail + 1},
           next'[h] = next[h], from'[h] = from[h], holding'[h] = holding[h],
           got'[h] = got[h], skipped'[h] = skipped[h],
           task'[h] = "free" => task[h] = "free",
           task'[h] \in {"handshake", "serve"} => task[h] \in {"handshake", "serve"}
    PROVE  HandlerInv(h)'
<1>1. /\ tail \in Nat /\ Capacity \in Nat /\ next[h] \in Nat /\ from[h] \in Nat
      /\ tail' \in Nat /\ tail <= tail'
  BY HandlerTypes
<1>2. AccountedFor(h)'
  <2>1. next[h] <= tail + 1
    BY DEF HandlerInv, AccountedFor
  <2>2. next'[h] <= tail' + 1
    BY <1>1, <2>1
  <2> QED
    BY <2>2 DEF HandlerInv, AccountedFor
<1>3. MissedWereOverwritten(h)'
  <2> SUFFICES ASSUME NEW p \in from[h]..(next[h] - 1)
               PROVE  \/ p <= tail' - Capacity
                      \/ p = holding[h]
                      \/ \E i \in DOMAIN got[h] : got[h][i] = p
    BY DEF MissedWereOverwritten
  <2>1. \/ p <= tail - Capacity
        \/ p = holding[h]
        \/ \E i \in DOMAIN got[h] : got[h][i] = p
    BY DEF HandlerInv, MissedWereOverwritten
  <2>2. p \in Int
    BY <1>1
  <2>3. p <= tail - Capacity => p <= tail' - Capacity
    BY <1>1, <2>2, OverwrittenStays
  <2> QED
    BY <2>1, <2>3
<1>4. IdleHoldsNothing(h)' /\ FreeIsFresh(h)'
  BY DEF HandlerInv, IdleHoldsNothing, FreeIsFresh
<1> QED
  BY <1>2, <1>3, <1>4 DEF HandlerInv

LEMMA AcceptsKeeps ==
    ASSUME TypeOK, NEW h \in Handlers, HandlerInv(h), Accepts(h)
    PROVE  HandlerInv(h)'
<1>1. /\ got'[h] = <<>> /\ skipped'[h] = 0 /\ holding'[h] = 0
      /\ next'[h] = tail + 1 /\ from'[h] = tail + 1 /\ tail' = tail
      /\ task'[h] = "handshake"
  BY DEF Accepts, HandlerInv, FreeIsFresh, TypeOK, mainVars
<1>2. tail \in Nat
  BY DEF TypeOK
<1>3. /\ next'[h] <= tail' + 1 /\ next'[h] - from'[h] = 0
      /\ from'[h]..(next'[h] - 1) = {}
  BY <1>1, <1>2
<1>4. Len(got'[h]) = 0 /\ DOMAIN got'[h] = {}
  BY <1>1
<1>5. AccountedFor(h)'
  BY <1>1, <1>3, <1>4 DEF AccountedFor
<1>6. MissedWereOverwritten(h)'
  BY <1>3 DEF MissedWereOverwritten
<1> QED
  BY <1>1, <1>5, <1>6 DEF HandlerInv, IdleHoldsNothing, FreeIsFresh

LEMMA LagsKeeps ==
    ASSUME TypeOK, NEW h \in Handlers, HandlerInv(h), Lags(h)
    PROVE  HandlerInv(h)'
<1>1. PICK oldest \in Int : oldest = tail - Capacity + 1
  BY HandlerTypes
<1>2. /\ got'[h] = got[h] /\ holding'[h] = holding[h] /\ holding[h] = 0
      /\ next'[h] = oldest /\ from'[h] = from[h] /\ tail' = tail
      /\ skipped'[h] = skipped[h] + (oldest - next[h])
      /\ task'[h] = task[h] /\ task[h] = "serve"
  <2>1. task[h] = "serve" /\ holding[h] = 0
    BY DEF Lags, HandlerInv, IdleHoldsNothing
  <2>2. UNCHANGED <<got, holding, from, tail, task>>
    BY DEF Lags, mainVars
  <2>3. next \in [Handlers -> Nat \ {0}] /\ skipped \in [Handlers -> Nat]
    BY DEF TypeOK
  <2>4. next'[h] = oldest /\ skipped'[h] = skipped[h] + (oldest - next[h])
    BY <1>1, <2>3 DEF Lags
  <2> QED
    BY <2>1, <2>2, <2>4
<1>3. /\ tail \in Nat /\ Capacity \in Nat \ {0} /\ next[h] \in Nat /\ from[h] \in Nat
      /\ skipped[h] \in Nat /\ Len(got[h]) \in Nat
  BY HandlerTypes
<1>4. AccountedFor(h)'
  <2>1. next[h] - from[h] = Len(got[h]) + skipped[h] + 0
    BY <1>2 DEF HandlerInv, AccountedFor
  <2>2. next[h] <= tail - Capacity
    BY DEF Lags
  <2>3. /\ next[h] < oldest /\ oldest <= tail + 1
        /\ oldest - from[h] = Len(got[h]) + (skipped[h] + (oldest - next[h])) + 0
    <3>1. next[h] < oldest /\ oldest <= tail + 1
      BY <1>1, <1>3, <2>2
    <3>2. PICK n \in Nat, f \in Nat, s \in Nat, l \in Nat :
             n = next[h] /\ f = from[h] /\ s = skipped[h] /\ l = Len(got[h])
      BY <1>3
    <3>3. n - f = l + s + 0
      BY <2>1, <3>2
    <3>4. oldest - f = l + (s + (oldest - n)) + 0
      BY <3>3
    <3> QED
      BY <3>1, <3>2, <3>4
  <2>4. ASSUME NEW i \in DOMAIN got[h]
        PROVE  from[h] <= got[h][i] /\ got[h][i] < oldest
    <3>1. from[h] <= got[h][i] /\ got[h][i] < next[h]
      BY DEF HandlerInv, AccountedFor
    <3>2. got[h][i] \in Nat
      BY HandlerTypes
    <3> QED
      BY <1>1, <1>3, <2>3, <3>1, <3>2
  <2>5. \A i, j \in DOMAIN got[h] : i < j => got[h][i] < got[h][j]
    BY DEF HandlerInv, AccountedFor
  <2> QED
    BY <1>2, <2>3, <2>4, <2>5 DEF AccountedFor
<1>5. MissedWereOverwritten(h)'
  <2> SUFFICES ASSUME NEW p \in from[h]..(oldest - 1)
               PROVE  p <= tail - Capacity \/ \E i \in DOMAIN got[h] : got[h][i] = p
    BY <1>2 DEF MissedWereOverwritten
  <2> QED
    BY <1>1, <1>3
<1>6. IdleHoldsNothing(h)' /\ FreeIsFresh(h)'
  BY <1>2 DEF IdleHoldsNothing, FreeIsFresh
<1> QED
  BY <1>4, <1>5, <1>6 DEF HandlerInv

LEMMA ReceivesPayloadKeeps ==
    ASSUME TypeOK, NEW h \in Handlers, HandlerInv(h), ReceivesPayload(h)
    PROVE  HandlerInv(h)'
<1>1. /\ got'[h] = got[h] /\ holding[h] = 0 /\ holding'[h] = next[h]
      /\ next'[h] = next[h] + 1 /\ from'[h] = from[h] /\ tail' = tail
      /\ skipped'[h] = skipped[h] /\ task'[h] = "write" /\ next[h] <= tail
  BY DEF ReceivesPayload, Goto, HandlerInv, IdleHoldsNothing, TypeOK, mainVars
<1>2. /\ tail \in Nat /\ Capacity \in Nat \ {0} /\ next[h] \in Nat \ {0} /\ from[h] \in Nat
      /\ skipped[h] \in Nat /\ Len(got[h]) \in Nat
      /\ \A i \in DOMAIN got[h] : got[h][i] \in Nat
  BY HandlerTypes
<1>3. next[h] - from[h] = Len(got[h]) + skipped[h]
  <2>1. next[h] - from[h] = Len(got[h]) + skipped[h] + 0
    BY <1>1 DEF HandlerInv, AccountedFor
  <2> QED
    BY <1>2, <2>1
<1>4. AccountedFor(h)'
  <2>1. /\ next[h] + 1 <= tail + 1
        /\ (next[h] + 1) - from[h] = Len(got[h]) + skipped[h] + 1
        /\ next[h] = (next[h] + 1) - 1
    BY <1>1, <1>2, <1>3, ReadArithmetic
  <2>2. /\ next'[h] <= tail' + 1
        /\ next'[h] - from'[h] = Len(got'[h]) + skipped'[h] + 1
        /\ holding'[h] # 0 /\ holding'[h] = next'[h] - 1
    BY <1>1, <1>2, <2>1
  <2>3. ASSUME NEW i \in DOMAIN got'[h]
        PROVE  from'[h] <= got'[h][i] /\ got'[h][i] < next'[h] /\ got'[h][i] < holding'[h]
    <3>1. from[h] <= got[h][i] /\ got[h][i] < next[h]
      BY <1>1 DEF HandlerInv, AccountedFor
    <3>2. got[h][i] \in Nat
      BY <1>1, <1>2
    <3> QED
      BY <1>1, <1>2, <3>1, <3>2
  <2>4. \A i, j \in DOMAIN got'[h] : i < j => got'[h][i] < got'[h][j]
    BY <1>1 DEF HandlerInv, AccountedFor
  <2> QED
    BY <2>2, <2>3, <2>4 DEF AccountedFor
<1>5. MissedWereOverwritten(h)'
  <2> SUFFICES ASSUME NEW p \in from[h]..((next[h] + 1) - 1)
               PROVE  \/ p <= tail - Capacity
                      \/ p = next[h]
                      \/ \E i \in DOMAIN got[h] : got[h][i] = p
    <3>1. from'[h]..(next'[h] - 1) = from[h]..((next[h] + 1) - 1)
      BY <1>1
    <3> QED
      BY <1>1, <3>1 DEF MissedWereOverwritten
  <2>1. p = next[h] \/ p \in from[h]..(next[h] - 1)
    BY <1>1, <1>2, <1>3, ReadArithmetic
  <2>2. from[h] \in Nat \ {0}
    BY HandlerTypes
  <2>3. p # 0
    BY <1>2, <2>2
  <2> QED
    BY <1>1, <2>1, <2>3 DEF HandlerInv, MissedWereOverwritten
<1>6. IdleHoldsNothing(h)' /\ FreeIsFresh(h)'
  BY <1>1 DEF IdleHoldsNothing, FreeIsFresh
<1> QED
  BY <1>4, <1>5, <1>6 DEF HandlerInv

LEMMA WriteSucceedsKeeps ==
    ASSUME TypeOK, NEW h \in Handlers, HandlerInv(h), WriteSucceeds(h)
    PROVE  HandlerInv(h)'
<1>1. /\ holding'[h] = 0 /\ next'[h] = next[h] /\ from'[h] = from[h] /\ tail' = tail
      /\ skipped'[h] = skipped[h] /\ task'[h] = "serve"
  BY DEF WriteSucceeds, Goto, TypeOK, mainVars
<1>2. /\ tail \in Nat /\ Capacity \in Nat \ {0} /\ next[h] \in Nat \ {0} /\ from[h] \in Nat
      /\ skipped[h] \in Nat /\ Len(got[h]) \in Nat /\ holding[h] \in Nat
      /\ got[h] \in Seq(Nat \ {0}) /\ DOMAIN got[h] = 1..Len(got[h])
      /\ \A i \in DOMAIN got[h] : got[h][i] \in Nat
  BY HandlerTypes
<1>3. IdleHoldsNothing(h)' /\ FreeIsFresh(h)'
  BY <1>1 DEF IdleHoldsNothing, FreeIsFresh
<1>4. CASE holding[h] = 0
  <2>1. got'[h] = got[h]
    BY <1>4 DEF WriteSucceeds
  <2>2. AccountedFor(h)' /\ MissedWereOverwritten(h)'
    BY <1>1, <1>4, <2>1 DEF HandlerInv, AccountedFor, MissedWereOverwritten
  <2> QED
    BY <1>3, <2>2 DEF HandlerInv
<1>5. CASE holding[h] # 0
  <2> DEFINE n == Len(got[h])
  <2>1. got'[h] = Append(got[h], holding[h])
    BY <1>5 DEF WriteSucceeds, TypeOK
  <2>2. /\ Len(got'[h]) = n + 1 /\ DOMAIN got'[h] = 1..(n + 1)
        /\ got'[h][n + 1] = holding[h]
        /\ \A i \in 1..n : got'[h][i] = got[h][i]
    BY <1>2, <2>1
  <2>3. /\ next[h] <= tail + 1
        /\ next[h] - from[h] = n + skipped[h] + 1
        /\ holding[h] = next[h] - 1
    BY <1>5 DEF HandlerInv, AccountedFor
  <2>4. \A i \in 1..n : from[h] <= got[h][i] /\ got[h][i] < next[h] /\ got[h][i] < holding[h]
    BY <1>2, <1>5 DEF HandlerInv, AccountedFor
  <2>5. \A i, j \in 1..n : i < j => got[h][i] < got[h][j]
    BY <1>2 DEF HandlerInv, AccountedFor
  <2> HIDE DEF n
  <2>6. n \in Nat
    BY <1>2 DEF n
  <2>7. ASSUME NEW i \in 1..(n + 1)
        PROVE  from'[h] <= got'[h][i] /\ got'[h][i] < next'[h]
    <3>1. CASE i = n + 1
      <4>1. from[h] <= holding[h] /\ holding[h] < next[h]
        BY <1>2, <2>3, <2>6, WriteArithmetic
      <4> QED
        BY <1>1, <2>2, <3>1, <4>1
    <3>2. CASE i # n + 1
      <4>1. i \in 1..n
        BY <2>6, <3>2
      <4> QED
        BY <1>1, <2>2, <2>4, <4>1
    <3> QED
      BY <3>1, <3>2
  <2>8. ASSUME NEW i \in 1..(n + 1), NEW j \in 1..(n + 1), i < j
        PROVE  got'[h][i] < got'[h][j]
    <3>1. i \in 1..n /\ (j = n + 1 \/ j \in 1..n)
      BY <2>6, <2>8
    <3> QED
      BY <2>2, <2>4, <2>5, <2>8, <3>1
  <2>9. /\ next'[h] <= tail' + 1
        /\ next'[h] - from'[h] = Len(got'[h]) + skipped'[h] + 0
    <3>1. next[h] - from[h] = n + skipped[h] + 1
      BY <2>3
    <3>2. next[h] \in Nat /\ from[h] \in Nat /\ skipped[h] \in Nat
      BY <1>2
    <3>3. next[h] - from[h] = (n + 1) + skipped[h] + 0
      BY <2>6, <3>1, <3>2
    <3> QED
      BY <1>1, <2>2, <2>3, <3>3
  <2>10. AccountedFor(h)'
    BY <1>1, <2>2, <2>7, <2>8, <2>9 DEF AccountedFor
  <2>11. MissedWereOverwritten(h)'
    <3> SUFFICES ASSUME NEW p \in from[h]..(next[h] - 1)
                 PROVE  \/ p <= tail - Capacity
                        \/ \E i \in DOMAIN got'[h] : got'[h][i] = p
      BY <1>1 DEF MissedWereOverwritten
    <3>1. \/ p <= tail - Capacity
          \/ p = holding[h]
          \/ \E i \in 1..n : got[h][i] = p
      BY <1>2 DEF HandlerInv, MissedWereOverwritten, n
    <3>2. n + 1 \in DOMAIN got'[h] /\ 1..n \subseteq DOMAIN got'[h]
      BY <2>2, <2>6
    <3> QED
      BY <2>2, <3>1, <3>2
  <2> QED
    BY <1>3, <2>10, <2>11 DEF HandlerInv
<1> QED
  BY <1>4, <1>5

\* A payload is dropped only while nobody is subscribed, and who subscribes
\* starts at the end of the channel.
LEMMA NothingDroppedStep ==
    ASSUME TypeOK, Next, \A h \in Subscribed : NothingDroppedFor(h),
           NEW k \in Subscribed'
    PROVE  NothingDroppedFor(k)'
<1>1. /\ k \in Handlers /\ relayed \in Nat /\ tail \in Nat
      /\ since[k] \in Nat /\ from[k] \in Nat
  BY DEF TypeOK, Subscribed, Registered
<1>2. CASE SendPayload
  <2>1. k \in Subscribed
    BY <1>2 DEF SendPayload, handlerVars, Subscribed, Registered
  <2>2. /\ tail' = tail + 1 /\ relayed' = relayed + 1
        /\ UNCHANGED <<since, from>>
    BY <1>2, <2>1 DEF SendPayload, handlerVars
  <2>3. relayed - since[k] = tail + 1 - from[k]
    BY <2>1 DEF NothingDroppedFor
  <2>4. (relayed + 1) - since[k] = (tail + 1) + 1 - from[k]
    BY <1>1, <2>3
  <2> QED
    BY <2>2, <2>4 DEF NothingDroppedFor
<1>3. CASE Accepts(k)
  <2>1. /\ since'[k] = relayed /\ from'[k] = tail + 1
        /\ relayed' = relayed /\ tail' = tail
    BY <1>1, <1>3 DEF Accepts, mainVars, TypeOK
  <2> QED
    BY <1>1, <2>1 DEF NothingDroppedFor
<1>4. ASSUME NEW h \in Handlers, h # k, Accepts(h)
      PROVE  NothingDroppedFor(k)'
  <2>1. k \in Subscribed
    BY <1>1, <1>4 DEF Accepts, Subscribed, Registered, TypeOK
  <2>2. UNCHANGED <<relayed, tail>> /\ since'[k] = since[k] /\ from'[k] = from[k]
    BY <1>1, <1>4 DEF Accepts, mainVars, TypeOK
  <2> QED
    BY <2>1, <2>2 DEF NothingDroppedFor
<1>5. CASE \/ MainStep /\ ~SendPayload
           \/ AcceptFails \/ BackoffEnds \/ AcceptLoopStops
  <2>1. UNCHANGED <<relayed, tail, since, from, task>>
    BY <1>5 DEF MainStep, Connects, ConnectFails, Binds, BindFails, SignalArrives,
                TakeSignal, EventArrives, FeedEnds, Reconnects, ReconnectFails,
                JoinAcceptLoop, ProcessExits, AcceptFails, BackoffEnds,
                AcceptLoopStops, mainVars, handlerVars
  <2> QED
    BY <2>1 DEF Subscribed, Registered, NothingDroppedFor
<1>6. ASSUME NEW h \in Handlers, HandlerStep(h)
      PROVE  NothingDroppedFor(k)'
  <2>1. UNCHANGED <<relayed, tail, since, from>>
    BY <1>6 DEF HandlerStep, HandshakeSucceeds, HandshakeFails, Lags, ReceivesPayload,
                ReceivesPing, WriteSucceeds, WriteFails, OverlayLeaves, SeesShutdown,
                SeesChannelClosed, HandlerEnds, Goto, mainVars
  <2>2. k \in Subscribed
    BY <1>1, <1>6 DEF HandlerStep, HandshakeSucceeds, HandshakeFails, Lags,
                ReceivesPayload, ReceivesPing, WriteSucceeds, WriteFails, OverlayLeaves,
                SeesShutdown, SeesChannelClosed, HandlerEnds, Goto, Subscribed,
                Registered, TypeOK
  <2> QED
    BY <2>1, <2>2 DEF NothingDroppedFor
<1> QED
  BY <1>1, <1>2, <1>3, <1>4, <1>5, <1>6 DEF Next, AcceptStep

LEMMA NothingDroppedInvariant == Spec => [](\A h \in Subscribed : NothingDroppedFor(h))
<1> DEFINE Inv == \A h \in Subscribed : NothingDroppedFor(h)
<1>1. Init => Inv
  BY DEF Init, Subscribed, Registered
<1>2. TypeOK /\ Inv /\ [Next]_vars => Inv'
  <2>1. CASE Next
    BY <2>1, NothingDroppedStep
  <2>2. CASE UNCHANGED vars
    BY <2>2 DEF vars, mainVars, handlerVars, Subscribed, Registered, NothingDroppedFor
  <2> QED
    BY <2>1, <2>2
<1> QED
  BY <1>1, <1>2, CountIsAlwaysExact, PTL DEF Spec

LEMMA HistoryInvariant ==
    Spec => []((\A h \in Handlers : AccountedFor(h)) /\ OnlyOverwrittenMissed)
<1> DEFINE Inv == \A k \in Handlers : HandlerInv(k)
<1>1. Init => Inv
  <2> SUFFICES ASSUME Init, NEW h \in Handlers PROVE HandlerInv(h)
    OBVIOUS
  <2>1. /\ got[h] = <<>> /\ skipped[h] = 0 /\ holding[h] = 0
        /\ next[h] = 1 /\ from[h] = 1 /\ tail = 0
    BY DEF Init
  <2>2. Len(got[h]) = 0 /\ DOMAIN got[h] = {}
    BY <2>1
  <2>3. AccountedFor(h)
    BY <2>1, <2>2 DEF AccountedFor
  <2>4. MissedWereOverwritten(h)
    BY <2>1 DEF MissedWereOverwritten
  <2> QED
    BY <2>1, <2>3, <2>4 DEF HandlerInv, IdleHoldsNothing, FreeIsFresh
<1>2. TypeOK /\ Inv /\ [Next]_vars => Inv'
  <2> SUFFICES ASSUME TypeOK, Inv, [Next]_vars, NEW k \in Handlers PROVE HandlerInv(k)'
    OBVIOUS
  <2>1. HandlerInv(k)
    OBVIOUS
  <2> HIDE DEF Inv
  <2>2. CASE MainStep \/ AcceptFails \/ BackoffEnds \/ AcceptLoopStops \/ UNCHANGED vars
    <3>1. UNCHANGED <<task, next, from, holding, got, skipped>>
      BY <2>2 DEF MainStep, Connects, ConnectFails, Binds, BindFails, SignalArrives,
                  TakeSignal, EventArrives, SendPayload, FeedEnds, Reconnects,
                  ReconnectFails, JoinAcceptLoop, ProcessExits, AcceptFails, BackoffEnds,
                  AcceptLoopStops, handlerVars, vars
    <3>2. tail' \in {tail, tail + 1}
      BY <2>2 DEF MainStep, Connects, ConnectFails, Binds, BindFails, SignalArrives,
                  TakeSignal, EventArrives, SendPayload, FeedEnds, Reconnects,
                  ReconnectFails, JoinAcceptLoop, ProcessExits, AcceptFails, BackoffEnds,
                  AcceptLoopStops, mainVars, vars
    <3> QED
      BY <2>1, <3>1, <3>2, HandlerKept
  <2>3. ASSUME NEW h \in Handlers, h # k, Accepts(h) \/ HandlerStep(h)
        PROVE  HandlerInv(k)'
    <3>1. /\ tail' = tail /\ task'[k] = task[k] /\ next'[k] = next[k] /\ from'[k] = from[k]
          /\ holding'[k] = holding[k] /\ got'[k] = got[k] /\ skipped'[k] = skipped[k]
      BY <2>3 DEF Accepts, HandlerStep, HandshakeSucceeds, HandshakeFails, Lags,
                  ReceivesPayload, ReceivesPing, WriteSucceeds, WriteFails, OverlayLeaves,
                  SeesShutdown, SeesChannelClosed, HandlerEnds, Goto, mainVars, TypeOK
    <3> QED
      BY <2>1, <3>1, HandlerKept
  <2>4. CASE \/ HandshakeSucceeds(k) \/ HandshakeFails(k) \/ ReceivesPing(k)
             \/ WriteFails(k) \/ OverlayLeaves(k) \/ SeesShutdown(k)
             \/ SeesChannelClosed(k) \/ HandlerEnds(k)
    <3>1. /\ UNCHANGED <<tail, next, from, holding, got, skipped>>
          /\ task'[k] # "free"
          /\ task'[k] \in {"handshake", "serve"} => task[k] \in {"handshake", "serve"}
      BY <2>4 DEF HandshakeSucceeds, HandshakeFails, ReceivesPing, WriteFails,
                  OverlayLeaves, SeesShutdown, SeesChannelClosed, HandlerEnds, Goto,
                  mainVars, TypeOK
    <3> QED
      BY <2>1, <3>1, HandlerKept
  <2>5. CASE Accepts(k) \/ Lags(k) \/ ReceivesPayload(k) \/ WriteSucceeds(k)
    BY <2>1, <2>5, AcceptsKeeps, LagsKeeps, ReceivesPayloadKeeps, WriteSucceedsKeeps
  <2> QED
    BY <2>2, <2>3, <2>4, <2>5 DEF Next, AcceptStep, HandlerStep
<1>3. Inv => (\A h \in Handlers : AccountedFor(h)) /\ OnlyOverwrittenMissed
  BY DEF HandlerInv, OnlyOverwrittenMissed
<1> QED
  BY <1>1, <1>2, <1>3, CountIsAlwaysExact, PTL DEF Spec

\* Every overlay's history is exact: what it was sent, once and in order, what
\* it is being sent and what was reported as lagged are together all payloads
\* since its handler subscribed, and no payload was dropped while it was
\* connected.
THEOREM HistoryIsExact == Spec => []PayloadsAccountedFor
<1>1. (\A h \in Handlers : AccountedFor(h)) /\ (\A h \in Subscribed : NothingDroppedFor(h))
        => PayloadsAccountedFor
  BY DEF PayloadsAccountedFor
<1> QED
  BY <1>1, HistoryInvariant, NothingDroppedInvariant, PTL

\* An overlay misses nothing the channel still kept when its handler read it.
THEOREM MissedOnlyOverwritten == Spec => []OnlyOverwrittenMissed
  BY HistoryInvariant, PTL

=============================================================================
