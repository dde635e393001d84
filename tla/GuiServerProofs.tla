--------------------------- MODULE GuiServerProofs ---------------------------
(***************************************************************************)
(* Theorems about GuiServer for any clients and any numbers of symbols,    *)
(* orders, bars and ticks.                                                 *)
(***************************************************************************)
EXTENDS GuiServer, SequenceLemmas, FiniteSetTheorems

BarList == Seq(Symbol \X (1..MaxBars))
OrderList == Seq(1..MaxOrders)

Starting == {"snapshot", "merge", "add_orders", "get_info", "add_info"}
Looping == {"bars", "orders", "info", "ticks", "wait", "blocked"}
Ended == {"set", "abort", "end", "destroy", "done"}

EngineTypes ==
  /\ announced \in [Symbol -> 0..MaxOrders] /\ saved \in [Symbol -> 0..MaxOrders]
  /\ collected \in [Symbol -> 0..MaxBars]   /\ passed \in [Symbol -> 0..MaxBars]
  /\ given \in [Symbol -> 0..MaxTicks] /\ told \in [Symbol -> 0..MaxTicks]
  /\ saved_info \in [Symbol -> 0..MaxTicks]
  /\ order_worker \in [Symbol -> {"idle", "add", "save"}]
  /\ data_worker \in [Symbol -> {"idle", "bar", "tick", "info", "save"}]
  /\ \A s \in Symbol :
       /\ saved[s] = announced[s] - (IF order_worker[s] = "save" THEN 1 ELSE 0)
       /\ passed[s] = collected[s] - (IF data_worker[s] = "bar" THEN 1 ELSE 0)
       /\ saved_info[s] <= told[s] /\ told[s] <= given[s]
       /\ order_worker[s] = "add" => announced[s] < MaxOrders
       /\ data_worker[s] = "tick" => given[s] < MaxTicks
       /\ data_worker[s] = "info" => given[s] > 0

ServerTypes ==
  /\ context \in [Client -> {"new", "listed", "dying", "canceled", "gone"}]
  /\ cleanup \in {"loop", "wait", "scan", "join", "done"}
  /\ abort_event_ \in BOOLEAN /\ shutdown_ \in BOOLEAN
  /\ exit \in {"no", "registry", "signal", "server", "join", "destroy", "gone"}
  /\ registered \subseteq Symbol /\ holds \in [Client -> SUBSET Symbol]
  /\ life \in [Symbol -> {"alive", "orders", "data", "gone"}]

ThreadTypes ==
  /\ aborted_ \in [Client -> BOOLEAN] /\ data_event_ \in [Client -> BOOLEAN]
  /\ bars_sent \in [Client -> BOOLEAN]
  /\ sender \in [Client -> {"off", "start"} \cup Starting \cup Looping \cup Ended]
  /\ receiver \in [Client -> {"off", "run", "set", "abort", "done"}]
  /\ at \in [Client -> Symbol] /\ snapshot \in [Client -> Nat]
  /\ \A c \in Client :
       /\ snapshot[c] <= MaxBars \/ snapshot[c] <= MaxTicks
       /\ sender[c] = "merge" => snapshot[c] <= collected[at[c]]
       /\ sender[c] = "add_info" => snapshot[c] <= saved_info[at[c]]

ListTypes ==
  /\ bars_ \in [Client -> [Symbol -> BarList]]
  /\ got_bars \in [Client -> [Symbol -> BarList]]
  /\ orders_ \in [Client -> [Symbol -> OrderList]]
  /\ got_orders \in [Client -> [Symbol -> OrderList]]

LatestTypes ==
  /\ ticks_ \in [Client -> [Symbol -> 0..MaxTicks]]
  /\ got_tick \in [Client -> [Symbol -> 0..MaxTicks]]
  /\ info_ \in [Client -> [Symbol -> 0..MaxTicks]]
  /\ got_info \in [Client -> [Symbol -> 0..MaxTicks]]
  /\ joined \in [Client -> [Symbol -> 0..MaxTicks]]

Types == EngineTypes /\ ServerTypes /\ ThreadTypes /\ ListTypes /\ LatestTypes

LEMMA Bounds ==
  /\ Symbols \in Nat \ {0} /\ MaxOrders \in Nat /\ MaxBars \in Nat /\ MaxTicks \in Nat
  /\ 1 \in Symbol
BY BoundsAssumption DEF Symbol

LEMMA InitTypes == Init => Types
<1> USE DEF Types, Init, Zero, None, Nothing
<1> SUFFICES ASSUME Init PROVE Types
  OBVIOUS
<1>1. EngineTypes
  BY Bounds DEF EngineTypes
<1>2. ServerTypes
  BY DEF ServerTypes
<1>3. ThreadTypes
  BY Bounds DEF ThreadTypes
<1>4. ListTypes
  <2>1. <<>> \in BarList /\ <<>> \in OrderList
    <3>1. \A S : <<>> \in Seq(S)
      BY EmptySeq
    <3>2. QED
      BY <3>1 DEF BarList, OrderList
  <2>2. QED
    BY <2>1 DEF ListTypes
<1>5. LatestTypes
  BY Bounds DEF LatestTypes
<1>6. QED
  BY <1>1, <1>2, <1>3, <1>4, <1>5

\* the workers between two events, and the end of the engines
Working(s) == TakeOrder(s) \/ TakeTick(s) \/ DestroyEngine(s) \/ DropEngine(s)

\* the sending and the receiving thread at their start and their end
Turning(c) ==
  \/ GetEngines(c) \/ SetAborted(c) \/ OnAbort(c) \/ EndSending(c)
  \/ ReceiveFails(c) \/ ReceiverStops(c) \/ ReceiverGivesUp(c)

\* What the workers, the registry and the ends of the threads leave alone.
LEMMA WorkingSteps ==
  ASSUME NEW s \in Symbol, Working(s)
  PROVE  UNCHANGED <<announced, saved, collected, passed, data, pending, threads, history,
                     context, abort_event_, cleanup, shutdown_, exit, holds>>
  BY DEF Working, TakeOrder, TakeTick, DestroyEngine, JoinOrderWorker, JoinDataWorker, DropEngine,
     engines, server, ending, owners

LEMMA TurningSteps ==
  ASSUME NEW c \in Client, Turning(c)
  PROVE  UNCHANGED <<engines, pending, history, context, cleanup, shutdown_, exit, registered,
                     snapshot, bars_sent>>
  BY DEF Turning, GetEngines, SetAborted, OnAbort, EndSending, Release, EngineGone, SenderReturns,
     ReceiveFails, ReceiverStops, ReceiverGivesUp, server, ending, owners

LEMMA EngineTypesStep == Types /\ [Next]_vars => EngineTypes'
<1> USE DEF engines, data, workers, EngineTypes, OrderStep, DataStep
<1> SUFFICES ASSUME Types, [Next]_vars PROVE EngineTypes'
  OBVIOUS
<1>0. EngineTypes
  BY DEF Types
<1>1. ASSUME NEW s \in Symbol, AddOrder(s) PROVE EngineTypes'
  <2>1. /\ order_worker[s] = "add" /\ order_worker' = [order_worker EXCEPT ![s] = "save"]
        /\ announced' = [announced EXCEPT ![s] = announced[s] + 1]
        /\ UNCHANGED <<saved, collected, passed, data, data_worker>>
    BY <1>1 DEF AddOrder
  <2>2. QED
    BY <1>0, <2>1, Bounds
<1>2. ASSUME NEW s \in Symbol, SaveOrder(s) PROVE EngineTypes'
  BY <1>0, <1>2, Bounds DEF SaveOrder
<1>3. ASSUME NEW s \in Symbol, PutBar(s) PROVE EngineTypes'
  BY <1>0, <1>3, Bounds DEF PutBar
<1>4. ASSUME NEW s \in Symbol, PassBar(s) PROVE EngineTypes'
  <2>1. /\ data_worker[s] = "bar" /\ data_worker' = [data_worker EXCEPT ![s] = "idle"]
        /\ passed' = [passed EXCEPT ![s] = collected[s]]
        /\ UNCHANGED <<announced, saved, collected, data, order_worker>>
    BY <1>4 DEF PassBar
  <2>2. QED
    BY <1>0, <2>1, Bounds
<1>5. ASSUME NEW s \in Symbol, GiveTick(s) PROVE EngineTypes'
  <2>1. PICK next \in {"info", "idle"} :
          /\ data_worker[s] = "tick" /\ data_worker' = [data_worker EXCEPT ![s] = next]
          /\ given' = [given EXCEPT ![s] = given[s] + 1]
          /\ UNCHANGED <<announced, saved, collected, passed, told, saved_info, order_worker>>
    BY <1>5 DEF GiveTick
  <2>2. QED
    BY <1>0, <2>1, Bounds
<1>6. ASSUME NEW s \in Symbol, TellInfo(s) PROVE EngineTypes'
  BY <1>0, <1>6, Bounds DEF TellInfo
<1>7. ASSUME NEW s \in Symbol, SaveInfo(s) PROVE EngineTypes'
  BY <1>0, <1>7, Bounds DEF SaveInfo
<1>8. ASSUME NEW s \in Symbol, TakeOrder(s) PROVE EngineTypes'
  BY <1>0, <1>8, Bounds DEF TakeOrder
<1>9. ASSUME NEW s \in Symbol, TakeTick(s) PROVE EngineTypes'
  BY <1>0, <1>9, Bounds DEF TakeTick
<1>10. ASSUME UNCHANGED engines PROVE EngineTypes'
  BY <1>0, <1>10
<1>11. ASSUME NEW s \in Symbol, DestroyEngine(s) \/ DropEngine(s) PROVE UNCHANGED engines
  BY <1>11 DEF DestroyEngine, JoinOrderWorker, JoinDataWorker, DropEngine
<1>12. ASSUME NEW c \in Client,
              \/ Accept(c) \/ TakeSnapshot(c) \/ MergeBars(c) \/ AddOrders(c) \/ GetInfo(c)
              \/ AddInfo(c) \/ SendLoop(c) \/ TimeOut(c) \/ Turning(c) \/ DestroyContext(c)
      PROVE  UNCHANGED engines
  BY <1>12, TurningSteps DEF Accept, TakeSnapshot, MergeBars, AddOrders, GetInfo, AddInfo,
       SendLoop, SendBars, SendOrders, NoOrders, SendInfo, SendTicks, EnterWait, WakeUp, TimeOut,
       DestroyContext, Cancel, Join
<1>13. CASE CleanupLoop \/ CleanupWakes \/ Scan \/ Exit \/ DestroyServer
  BY <1>10, <1>13 DEF CleanupLoop, CleanupWakes, Scan, Exit, DestroyServer, Shutdown,
       SignalCleanup, JoinServerThread, JoinCleanupThread
<1>14. CASE UNCHANGED vars
  BY <1>10, <1>14 DEF vars
<1>15. QED
  BY <1>1, <1>2, <1>3, <1>4, <1>5, <1>6, <1>7, <1>8, <1>9, <1>10, <1>11, <1>12, <1>13, <1>14
     DEF Next, OnOrder, OnData, Initialize, Turning

LEMMA ServerTypesStep == Types /\ [Next]_vars => ServerTypes'
<1> USE DEF server, ending, owners, ServerTypes
<1> SUFFICES ASSUME Types, [Next]_vars PROVE ServerTypes'
  OBVIOUS
<1>0. ServerTypes
  BY DEF Types
<1>1. CASE UNCHANGED server
  BY <1>0, <1>1
<1>2. ASSUME NEW s \in Symbol,
             OnOrder(s) \/ OnData(s) \/ PutBar(s) \/ TakeOrder(s) \/ TakeTick(s)
      PROVE  UNCHANGED server
  BY <1>2 DEF OnOrder, OnData, AddOrder, SaveOrder, PutBar, PassBar, GiveTick, TellInfo, SaveInfo,
       TakeOrder, TakeTick
<1>3. ASSUME NEW c \in Client,
             \/ TakeSnapshot(c) \/ MergeBars(c) \/ AddOrders(c) \/ GetInfo(c) \/ AddInfo(c)
             \/ SendLoop(c) \/ TimeOut(c) \/ SetAborted(c) \/ EngineGone(c) \/ SenderReturns(c)
             \/ ReceiveFails(c) \/ ReceiverStops(c) \/ ReceiverGivesUp(c)
      PROVE  UNCHANGED server
  BY <1>3 DEF TakeSnapshot, MergeBars, AddOrders, GetInfo, AddInfo, SendLoop,
       SendBars, SendOrders, NoOrders, SendInfo, SendTicks, EnterWait, WakeUp, TimeOut, SetAborted,
       EngineGone, SenderReturns, ReceiveFails, ReceiverStops, ReceiverGivesUp
<1>4. ASSUME NEW c \in Client, Accept(c) PROVE ServerTypes'
  BY <1>0, <1>4 DEF Accept
<1>5. ASSUME NEW c \in Client, OnAbort(c) PROVE ServerTypes'
  BY <1>0, <1>5 DEF OnAbort
<1>6. ASSUME NEW c \in Client, Cancel(c) PROVE ServerTypes'
  BY <1>0, <1>6 DEF Cancel
<1>7. ASSUME NEW c \in Client, Join(c) PROVE ServerTypes'
  BY <1>0, <1>7 DEF Join
<1>8. CASE CleanupLoop
  BY <1>0, <1>8 DEF CleanupLoop
<1>9. CASE CleanupWakes
  BY <1>0, <1>9 DEF CleanupWakes
<1>10. CASE Scan
  BY <1>0, <1>10 DEF Scan
<1>11. CASE Exit \/ Shutdown \/ SignalCleanup \/ JoinServerThread
  BY <1>0, <1>11 DEF Exit, Shutdown, SignalCleanup, JoinServerThread, Ends
<1>12. CASE JoinCleanupThread
  BY <1>0, <1>12 DEF JoinCleanupThread, Ends
<1>13. CASE UNCHANGED vars
  BY <1>1, <1>13 DEF vars
<1>14. ASSUME NEW s \in Symbol, DestroyEngine(s) PROVE ServerTypes'
  BY <1>0, <1>14 DEF DestroyEngine, JoinOrderWorker, JoinDataWorker
<1>15. ASSUME NEW s \in Symbol, DropEngine(s) PROVE ServerTypes'
  BY <1>0, <1>15 DEF DropEngine
<1>16. ASSUME NEW c \in Client, GetEngines(c) PROVE ServerTypes'
  BY <1>0, <1>16 DEF GetEngines
<1>17. ASSUME NEW c \in Client, Release(c) PROVE ServerTypes'
  BY <1>0, <1>17 DEF Release
<1>18. QED
  BY <1>1, <1>2, <1>3, <1>4, <1>5, <1>6, <1>7, <1>8, <1>9, <1>10, <1>11, <1>12, <1>13, <1>14,
     <1>15, <1>16, <1>17 DEF Next, Initialize, EndSending, DestroyContext, DestroyServer

\* What the actions of the engines and the server leave to the threads of the contexts.
LEMMA ThreadTypesStep == Types /\ [Next]_vars => ThreadTypes'
<1> USE DEF ThreadTypes, threads, pending, GoTo, SignalData, Starting, Looping, Ended
<1> SUFFICES ASSUME Types, [Next]_vars PROVE ThreadTypes'
  OBVIOUS
<1>0. ThreadTypes /\ EngineTypes /\ ServerTypes
  BY DEF Types
<1>1. CASE UNCHANGED <<threads, data_event_, collected, saved_info>>
  BY <1>0, <1>1
<1>2. ASSUME NEW s \in Symbol,
             \/ AddOrder(s) \/ SaveOrder(s) \/ PassBar(s) \/ GiveTick(s) \/ TellInfo(s)
      PROVE  ThreadTypes'
  <2>1. /\ UNCHANGED <<threads, collected, saved_info>>
        /\ data_event_' \in [Client -> BOOLEAN]
    BY <1>0, <1>2 DEF AddOrder, SaveOrder, PassBar, GiveTick, TellInfo, data
  <2>2. QED
    BY <1>0, <2>1
<1>3. ASSUME NEW s \in Symbol, PutBar(s) PROVE ThreadTypes'
  <2>1. /\ UNCHANGED <<threads, data_event_, saved_info>>
        /\ collected' = [collected EXCEPT ![s] = collected[s] + 1]
    BY <1>3 DEF PutBar, data
  <2>2. \A r \in Symbol : collected[r] \in Nat /\ collected'[r] >= collected[r]
    BY <1>0, <2>1, Bounds DEF EngineTypes
  <2>3. QED
    BY <1>0, <2>1, <2>2, Bounds
<1>4. ASSUME NEW s \in Symbol, SaveInfo(s) PROVE ThreadTypes'
  <2>1. /\ UNCHANGED <<threads, data_event_, collected>>
        /\ saved_info' = [saved_info EXCEPT ![s] = told[s]]
    BY <1>4 DEF SaveInfo
  <2>2. \A r \in Symbol : /\ saved_info[r] \in Nat /\ saved_info'[r] \in Nat
                           /\ saved_info'[r] >= saved_info[r]
    BY <1>0, <2>1, Bounds DEF EngineTypes
  <2>3. ASSUME NEW c \in Client, sender[c] = "add_info"
        PROVE  snapshot[c] <= saved_info'[at[c]]
    <3>1. snapshot[c] \in Nat /\ snapshot[c] <= saved_info[at[c]] /\ at[c] \in Symbol
      BY <1>0, <2>3
    <3>2. QED
      BY <2>2, <3>1
  <2>4. QED
    BY <1>0, <2>1, <2>3, Bounds
<1>5. ASSUME NEW c \in Client, Accept(c) PROVE ThreadTypes'
  BY <1>0, <1>5 DEF Accept, engines, data
<1>6. ASSUME NEW c \in Client, TakeSnapshot(c) PROVE ThreadTypes'
  <2>1. /\ snapshot' = [snapshot EXCEPT ![c] = collected[at[c]]]
        /\ sender' = [sender EXCEPT ![c] = "merge"]
        /\ UNCHANGED <<collected, saved_info, aborted_, data_event_, at, bars_sent, receiver>>
    BY <1>6 DEF TakeSnapshot, engines, data
  <2>2. at[c] \in Symbol /\ collected[at[c]] \in 0..MaxBars
    BY <1>0 DEF EngineTypes
  <2>3. QED
    BY <1>0, <2>1, <2>2, Bounds
<1>7. ASSUME NEW c \in Client, MergeBars(c) PROVE ThreadTypes'
  <2>1. /\ snapshot' = [snapshot EXCEPT ![c] = 0]
        /\ sender' = [sender EXCEPT ![c] = "add_orders"]
        /\ data_event_' \in [Client -> BOOLEAN]
        /\ UNCHANGED <<collected, saved_info, aborted_, at, bars_sent, receiver>>
    BY <1>0, <1>7 DEF MergeBars, engines, data
  <2>2. QED
    BY <1>0, <2>1, Bounds
<1>8. ASSUME NEW c \in Client, AddOrders(c) PROVE ThreadTypes'
  BY <1>0, <1>8 DEF AddOrders, engines, data
<1>9. ASSUME NEW c \in Client, GetInfo(c) PROVE ThreadTypes'
  <2>1. /\ snapshot' = [snapshot EXCEPT ![c] = saved_info[at[c]]]
        /\ sender' = [sender EXCEPT ![c] = "add_info"]
        /\ UNCHANGED <<collected, saved_info, aborted_, data_event_, at, bars_sent, receiver>>
    BY <1>9 DEF GetInfo, engines, data
  <2>2. at[c] \in Symbol /\ saved_info[at[c]] \in 0..MaxTicks
    BY <1>0 DEF EngineTypes
  <2>3. QED
    BY <1>0, <2>1, <2>2, Bounds
<1>10. ASSUME NEW c \in Client, AddInfo(c) PROVE ThreadTypes'
  <2>1. /\ snapshot' = [snapshot EXCEPT ![c] = 0]
        /\ data_event_' \in [Client -> BOOLEAN]
        /\ UNCHANGED <<collected, saved_info, aborted_, bars_sent, receiver>>
        /\ \/ at[c] < Symbols /\ at' = [at EXCEPT ![c] = at[c] + 1]
              /\ sender' = [sender EXCEPT ![c] = "snapshot"]
           \/ at' = at /\ sender' = [sender EXCEPT ![c] = "bars"]
    BY <1>0, <1>10 DEF AddInfo, engines, data
  <2>2. at[c] \in Symbol /\ (at[c] < Symbols => at[c] + 1 \in Symbol)
    BY <1>0, Bounds DEF Symbol
  <2>3. QED
    BY <1>0, <2>1, <2>2, Bounds
<1>11. ASSUME NEW c \in Client,
              SendBars(c) \/ SendOrders(c) \/ NoOrders(c) \/ SendInfo(c) \/ SendTicks(c)
       PROVE  ThreadTypes'
  <2>1. /\ UNCHANGED <<snapshot, at, collected, saved_info, data_event_, receiver>>
        /\ \E pc \in Ended \cup Looping : sender' = [sender EXCEPT ![c] = pc]
        /\ bars_sent' \in [Client -> BOOLEAN] /\ aborted_' = aborted_
    BY <1>0, <1>11 DEF SendBars, SendOrders, NoOrders, SendInfo, SendTicks, SendFails, Stopped,
       engines, data
  <2>2. QED
    BY <1>0, <2>1
<1>12. ASSUME NEW c \in Client,
              \/ EnterWait(c) \/ WakeUp(c) \/ TimeOut(c) \/ OnAbort(c) \/ ReceiveFails(c)
              \/ ReceiverStops(c) \/ ReceiverGivesUp(c) \/ DestroyContext(c)
              \/ GetEngines(c) \/ SetAborted(c) \/ EngineGone(c) \/ SenderReturns(c)
       PROVE  ThreadTypes'
  BY <1>0, <1>12 DEF EnterWait, WakeUp, TimeOut, OnAbort, ReceiveFails, ReceiverStops,
       ReceiverGivesUp, DestroyContext, Cancel, Join, GetEngines, SetAborted, EngineGone,
       SenderReturns, engines, data
<1>13. CASE CleanupLoop \/ CleanupWakes \/ Scan \/ Exit \/ DestroyServer \/ UNCHANGED vars
  BY <1>1, <1>13 DEF CleanupLoop, CleanupWakes, Scan, Exit, DestroyServer, Shutdown,
       SignalCleanup, JoinServerThread, JoinCleanupThread, vars, engines, data
<1>14. ASSUME NEW c \in Client, Release(c) PROVE ThreadTypes'
  <2>1. PICK s \in Symbol :
          /\ sender[c] = "end" /\ at' = [at EXCEPT ![c] = s]
          /\ sender' = sender \/ sender' = [sender EXCEPT ![c] = "destroy"]
          /\ UNCHANGED <<collected, saved_info, aborted_, data_event_, snapshot, bars_sent,
                         receiver>>
    BY <1>0, <1>14 DEF Release, ServerTypes, engines, data
  <2>2. QED
    BY <1>0, <2>1
<1>15. ASSUME NEW s \in Symbol, Working(s) PROVE ThreadTypes'
  <2>1. UNCHANGED <<threads, data_event_, collected, saved_info>>
    BY <1>15, WorkingSteps DEF data
  <2>2. QED
    BY <1>1, <2>1
<1>16. QED
  BY <1>2, <1>3, <1>4, <1>5, <1>6, <1>7, <1>8, <1>9, <1>10, <1>11, <1>12, <1>13, <1>14, <1>15
     DEF Next, OnOrder, OnData, Initialize, SendLoop, EndSending, Working

------------------------------------------------------------------------------
(* The lists                                                               *)

\* A set of symbols has a greatest and a least element.
LEMMA ExtremeSymbol ==
  ASSUME NEW S \in SUBSET Symbol, S # {}
  PROVE  /\ \E s \in S : \A r \in S : s <= r
         /\ \E s \in S : \A r \in S : r <= s
<1>1. S \subseteq Nat /\ \A s \in S : Symbols - s \in Nat /\ Symbols \in Nat
  BY Bounds DEF Symbol
<1>2. \E s \in S : \A r \in S : s <= r
  BY <1>1, LeastNumber
<1>3. \E s \in S : \A r \in S : r <= s
  <2> DEFINE T == {Symbols - s : s \in S}
  <2>1. T \in SUBSET Nat /\ T # {}
    BY <1>1
  <2>2. PICK x \in T : \A y \in T : x <= y
    <3> HIDE DEF T
    <3>1. QED
      BY <2>1, LeastNumber
  <2>3. PICK s \in S : x = Symbols - s
    BY <2>2
  <2>4. \A r \in S : Symbols - s <= Symbols - r
    BY <2>2, <2>3
  <2>5. QED
    BY <1>1, <2>4
<1>4. QED
  BY <1>2, <1>3

\* The first n bars of a symbol.
LEMMA BarsProperties ==
  ASSUME NEW s \in Symbol, NEW n \in 0..MaxBars
  PROVE  /\ Bars(s, n) \in BarList /\ Len(Bars(s, n)) = n /\ DOMAIN Bars(s, n) = 1..n
         /\ \A t \in 1..n : Bars(s, n)[t] = <<s, t>>
<1> DEFINE b == Bars(s, n)
           S == Symbol \X (1..MaxBars)
<1>1. DOMAIN b = 1..n /\ n \in Nat /\ \A t \in 1..n : b[t] = <<s, t>>
  BY Bounds DEF Bars
<1>2. \A t \in 1..n : <<s, t>> \in S
  BY Bounds
<1>3. b = [t \in 1..n |-> <<s, t>>]
  BY DEF Bars
<1> HIDE DEF S, b
<1>4. b \in [1..n -> S]
  BY <1>2, <1>3
<1>5. b \in Seq(S)
  BY <1>1, <1>4, SeqDef
<1>6. Len(b) = n
  BY <1>1, <1>5, LenProperties
<1>7. QED
  BY <1>1, <1>5, <1>6 DEF b, S, BarList

\* The elements of a list of bars.
LEMMA BarListProperties ==
  ASSUME NEW v \in BarList
  PROVE  /\ Len(v) \in Nat /\ DOMAIN v = 1..Len(v)
         /\ \A i \in 1..Len(v) : v[i] \in Symbol \X (1..MaxBars) /\ v[i][2] \in 1..MaxBars
         /\ v # <<>> <=> Len(v) > 0
<1> DEFINE S == Symbol \X (1..MaxBars)
<1>1. v \in Seq(S)
  BY DEF BarList
<1>2. \A x \in S : x[2] \in 1..MaxBars
  OBVIOUS
<1> HIDE DEF S
<1>3. Len(v) \in Nat /\ DOMAIN v = 1..Len(v) /\ \A i \in 1..Len(v) : v[i] \in S
  BY <1>1, LenProperties, ElementOfSeq
<1>4. v # <<>> <=> Len(v) > 0
  BY <1>1, <1>3, EmptySeq
<1>5. QED
  BY <1>2, <1>3, <1>4 DEF S

\* What a context makes of a snapshot is a list of bars.
LEMMA MergedType ==
  ASSUME NEW s \in Symbol, NEW n \in 0..MaxBars, NEW v \in BarList
  PROVE  Merged(s, n, v) \in BarList
<1>1. CASE n = 0 \/ v = <<>> \/ n < v[1][2]
  BY <1>1, BarsProperties DEF Merged
<1>2. CASE n # 0 /\ v # <<>> /\ ~(n < v[1][2])
  <2>1. v[1][2] \in 1..MaxBars
    BY <1>2, BarListProperties
  <2>2. v[1][2] - 1 \in 0..MaxBars
    BY <2>1, Bounds
  <2>3. Bars(s, v[1][2] - 1) \in BarList
    BY <2>2, BarsProperties
  <2>4. Bars(s, v[1][2] - 1) \o v \in BarList
    <3> DEFINE S == Symbol \X (1..MaxBars)
    <3>1. Bars(s, v[1][2] - 1) \in Seq(S) /\ v \in Seq(S)
      BY <2>3 DEF BarList
    <3> HIDE DEF S
    <3>2. Bars(s, v[1][2] - 1) \o v \in Seq(S)
      BY <3>1, ConcatProperties
    <3>3. QED
      BY <3>2 DEF S, BarList
  <2>5. QED
    BY <1>2, <2>4 DEF Merged
<1>3. QED
  BY <1>1, <1>2

\* Appending to lists, and joining them.
LEMMA ListsGrow ==
  /\ <<>> \in BarList /\ <<>> \in OrderList
  /\ \A v \in BarList, s \in Symbol, t \in 1..MaxBars : Append(v, <<s, t>>) \in BarList
  /\ \A v \in OrderList, o \in 1..MaxOrders : Append(v, o) \in OrderList
  /\ \A v, w \in BarList : v \o w \in BarList
  /\ \A v, w \in OrderList : v \o w \in OrderList
  /\ \A v \in OrderList, n \in Nat : n <= Len(v) => SubSeq(v, 1, n) \in OrderList
<1>1. \A S : /\ <<>> \in Seq(S)
             /\ \A v \in Seq(S) : \A x \in S : Append(v, x) \in Seq(S)
             /\ \A v, w \in Seq(S) : v \o w \in Seq(S)
  BY EmptySeq, AppendProperties, ConcatProperties
<1>2. ASSUME NEW S, NEW v \in Seq(S), NEW n \in Nat, n <= Len(v)
      PROVE  SubSeq(v, 1, n) \in Seq(S)
  <2>1. n \in 0..Len(v)
    BY <1>2, LenProperties
  <2>2. QED
    BY <2>1, FirstElements
<1>3. \A v \in BarList, s \in Symbol, t \in 1..MaxBars : Append(v, <<s, t>>) \in BarList
  <2> DEFINE S == Symbol \X (1..MaxBars)
  <2>1. \A s \in Symbol, t \in 1..MaxBars : <<s, t>> \in S
    OBVIOUS
  <2>2. BarList = Seq(S)
    BY DEF BarList
  <2> HIDE DEF S
  <2>3. QED
    BY <1>1, <2>1, <2>2
<1>4. \A v \in OrderList, n \in Nat : n <= Len(v) => SubSeq(v, 1, n) \in OrderList
  BY <1>2 DEF OrderList
<1>5. QED
  BY <1>1, <1>3, <1>4 DEF BarList, OrderList

LEMMA ListTypesStep == Types /\ [Next]_vars => ListTypes'
<1> USE DEF ListTypes
<1> DEFINE lists == <<bars_, got_bars, orders_, got_orders>>
<1> SUFFICES ASSUME Types, [Next]_vars PROVE ListTypes'
  OBVIOUS
<1>0. ListTypes /\ EngineTypes /\ ThreadTypes
  BY DEF Types
<1>1. CASE UNCHANGED lists
  BY <1>0, <1>1
<1>2. ASSUME NEW s \in Symbol, AddOrder(s) PROVE ListTypes'
  <2>1. /\ UNCHANGED <<bars_, got_bars, got_orders>>
        /\ order_worker[s] = "add"
        /\ orders_' = [c \in Client |->
             IF c \in Reached THEN [orders_[c] EXCEPT ![s] = Append(orders_[c][s], announced[s] + 1)]
                              ELSE orders_[c]]
    BY <1>2 DEF AddOrder, OrderStep, history
  <2>2. announced[s] + 1 \in 1..MaxOrders
    BY <1>0, <2>1, Bounds, SMTT(30) DEF EngineTypes
  <2>3. \A c \in Client : /\ Append(orders_[c][s], announced[s] + 1) \in OrderList
                          /\ orders_'[c] \in [Symbol -> OrderList]
    BY <1>0, <2>1, <2>2, ListsGrow
  <2>4. QED
    BY <1>0, <2>1, <2>3
<1>3. ASSUME NEW s \in Symbol, PassBar(s) PROVE ListTypes'
  <2> DEFINE t     == collected[s]
             added == {c \in Reached : BarIsNew(c, s, t)}
  <2>1. /\ UNCHANGED <<got_bars, orders_, got_orders>>
        /\ data_worker[s] = "bar"
        /\ bars_' = [c \in Client |->
             IF c \in added THEN [bars_[c] EXCEPT ![s] = Append(bars_[c][s], <<s, t>>)]
                            ELSE bars_[c]]
    BY <1>3 DEF PassBar, DataStep, history
  <2>2. t \in 1..MaxBars
    BY <1>0, <2>1, Bounds, SMTT(30) DEF EngineTypes
  <2> HIDE DEF t, added
  <2>3. \A c \in Client : /\ Append(bars_[c][s], <<s, t>>) \in BarList
                          /\ bars_'[c] \in [Symbol -> BarList]
    BY <1>0, <2>1, <2>2, ListsGrow
  <2>4. QED
    BY <1>0, <2>1, <2>3
<1>4. ASSUME NEW c \in Client, MergeBars(c) PROVE ListTypes'
  <2>1. /\ UNCHANGED <<got_bars, orders_, got_orders>>
        /\ bars_' = [bars_ EXCEPT ![c][at[c]] = Merged(at[c], snapshot[c], bars_[c][at[c]])]
        /\ sender[c] = "merge"
    BY <1>4 DEF MergeBars, history
  <2>2. at[c] \in Symbol /\ snapshot[c] \in 0..MaxBars
    BY <1>0, <2>1, Bounds DEF ThreadTypes, EngineTypes
  <2>3. Merged(at[c], snapshot[c], bars_[c][at[c]]) \in BarList
    BY <1>0, <2>2, MergedType
  <2>4. QED
    BY <1>0, <2>1, <2>2, <2>3
<1>5. ASSUME NEW c \in Client, AddOrders(c) PROVE ListTypes'
  <2> DEFINE saves == [i \in 1..saved[at[c]] |-> i]
  <2>1. /\ UNCHANGED <<bars_, got_bars, got_orders>>
        /\ orders_' = [orders_ EXCEPT ![c][at[c]] = saves]
    BY <1>5 DEF AddOrders, history
  <2>2. at[c] \in Symbol /\ saved[at[c]] \in 0..MaxOrders
    BY <1>0 DEF ThreadTypes, EngineTypes
  <2>3. saves \in OrderList
    <3>1. saved[at[c]] \in Nat /\ saves \in [1..saved[at[c]] -> 1..MaxOrders]
      BY <2>2, Bounds
    <3> HIDE DEF saves
    <3>2. QED
      BY <3>1, SeqDef DEF OrderList
  <2> HIDE DEF saves
  <2>4. QED
    BY <1>0, <2>1, <2>2, <2>3
<1>6. ASSUME NEW c \in Client, SendBars(c) PROVE ListTypes'
  <2> DEFINE s == CHOOSE s \in Full(c) : \A r \in Full(c) : r <= s
  <2>1. /\ UNCHANGED <<orders_, got_orders>>
        /\ \/ UNCHANGED <<bars_, got_bars>>
           \/ /\ Full(c) # {} /\ bars_' = [bars_ EXCEPT ![c] = SwapBars(c)]
              /\ \/ got_bars' = [got_bars EXCEPT ![c][s] = got_bars[c][s] \o bars_[c][s]]
                 \/ UNCHANGED got_bars
    BY <1>6 DEF SendBars
  <2>2. CASE UNCHANGED <<bars_, got_bars>>
    BY <1>1, <2>1, <2>2
  <2>3. CASE Full(c) # {}
    <3>1. Full(c) \in SUBSET Symbol
      BY DEF Full
    <3>2. s \in Symbol
      BY <2>3, <3>1, ExtremeSymbol
    <3>3. got_bars[c][s] \o bars_[c][s] \in BarList
      BY <1>0, <3>2, ListsGrow
    <3>4. SwapBars(c) \in [Symbol -> BarList]
      <4>1. ASSUME NEW r \in Symbol PROVE SwapBars(c)[r] \in BarList
        <5> DEFINE before == {q \in Full(c) : q < r}
                   last == CHOOSE q \in before : \A p \in before : p <= q
        <5>1. CASE r \in Full(c) /\ before # {}
          <6>1. before \in SUBSET Symbol
            BY <3>1
          <6>2. last \in Symbol
            <7> HIDE DEF before
            <7>1. QED
              BY <5>1, <6>1, ExtremeSymbol
          <6>3. SwapBars(c)[r] = bars_[c][last]
            BY <5>1 DEF SwapBars
          <6>4. QED
            BY <1>0, <6>2, <6>3
        <5>2. CASE ~(r \in Full(c) /\ before # {})
          BY <5>2, ListsGrow DEF SwapBars
        <5>3. QED
          BY <5>1, <5>2
      <4>2. QED
        BY <4>1 DEF SwapBars
    <3>5. /\ bars_' = bars_ \/ bars_' = [bars_ EXCEPT ![c] = SwapBars(c)]
          /\ \E r \in Symbol, v \in BarList :
               got_bars' = got_bars \/ got_bars' = [got_bars EXCEPT ![c][r] = v]
      <4> HIDE DEF s
      <4>1. QED
        BY <2>1, <3>2, <3>3
    <3>6. bars_' \in [Client -> [Symbol -> BarList]]
      BY <1>0, <3>4, <3>5
    <3>7. got_bars' \in [Client -> [Symbol -> BarList]]
      <4>1. \A r \in Symbol, v \in BarList :
              [got_bars EXCEPT ![c][r] = v] \in [Client -> [Symbol -> BarList]]
        BY <1>0
      <4>2. PICK r \in Symbol, v \in BarList :
              got_bars' = got_bars \/ got_bars' = [got_bars EXCEPT ![c][r] = v]
        BY <3>5
      <4>3. [got_bars EXCEPT ![c][r] = v] \in [Client -> [Symbol -> BarList]]
        BY <4>1
      <4>4. QED
        BY <1>0, <4>2, <4>3
    <3>8. QED
      BY <1>0, <2>1, <3>6, <3>7
  <2>4. QED
    BY <2>1, <2>2, <2>3
<1>7. ASSUME NEW c \in Client, SendOrders(c) PROVE ListTypes'
  <2>1. UNCHANGED <<bars_, got_bars>>
    BY <1>7 DEF SendOrders
  <2>2. PICK s \in Symbol :
          /\ orders_' = [orders_ EXCEPT ![c][s] = <<>>]
          /\ \/ got_orders' = [got_orders EXCEPT ![c][s] = got_orders[c][s] \o orders_[c][s]]
             \/ \E n \in 0..(Len(orders_[c][s]) - 1) :
                  got_orders' = [got_orders EXCEPT
                                   ![c][s] = got_orders[c][s] \o SubSeq(orders_[c][s], 1, n)]
    BY <1>7 DEF SendOrders
  <2>3. \A w \in OrderList : got_orders[c][s] \o w \in OrderList
    BY <1>0, ListsGrow
  <2>4. \A n \in 0..(Len(orders_[c][s]) - 1) : SubSeq(orders_[c][s], 1, n) \in OrderList
    <3>1. orders_[c][s] \in OrderList /\ Len(orders_[c][s]) \in Nat
      BY <1>0, LenProperties DEF OrderList
    <3>2. QED
      BY <3>1, ListsGrow
  <2>5. /\ orders_[c][s] \in OrderList /\ <<>> \in OrderList
    BY <1>0, ListsGrow
  <2>6. orders_' \in [Client -> [Symbol -> OrderList]]
    BY <1>0, <2>2, <2>5
  <2>7. \E w \in OrderList :
          got_orders' = [got_orders EXCEPT ![c][s] = got_orders[c][s] \o w]
    BY <2>2, <2>4, <2>5
  <2>8. got_orders' \in [Client -> [Symbol -> OrderList]]
    BY <1>0, <2>3, <2>7
  <2>9. QED
    BY <1>0, <2>1, <2>6, <2>8
<1>8. ASSUME NEW c \in Client, Join(c) PROVE ListTypes'
  <2>1. /\ UNCHANGED <<got_bars, got_orders>>
        /\ bars_' = [bars_ EXCEPT ![c] = Nothing[c]]
        /\ orders_' = [orders_ EXCEPT ![c] = Nothing[c]]
    BY <1>8 DEF Join, history
  <2>2. Nothing[c] \in [Symbol -> BarList] /\ Nothing[c] \in [Symbol -> OrderList]
    BY ListsGrow DEF Nothing
  <2>3. QED
    BY <1>0, <2>1, <2>2
<1>9. ASSUME NEW s \in Symbol,
             SaveOrder(s) \/ PutBar(s) \/ GiveTick(s) \/ TellInfo(s) \/ SaveInfo(s)
      PROVE  UNCHANGED lists
  BY <1>9 DEF SaveOrder, PutBar, GiveTick, TellInfo, SaveInfo, pending, history
<1>10. ASSUME NEW c \in Client,
              \/ Accept(c) \/ TakeSnapshot(c) \/ GetInfo(c) \/ AddInfo(c) \/ NoOrders(c)
              \/ SendInfo(c) \/ SendTicks(c) \/ EnterWait(c) \/ WakeUp(c) \/ TimeOut(c)
              \/ Turning(c) \/ Cancel(c)
      PROVE  UNCHANGED lists
  BY <1>10, TurningSteps DEF Accept, TakeSnapshot, GetInfo, AddInfo, NoOrders, SendInfo, SendTicks,
       EnterWait, WakeUp, TimeOut, Cancel, pending, history
<1>11. CASE CleanupLoop \/ CleanupWakes \/ Scan \/ Exit \/ DestroyServer \/ UNCHANGED vars
  BY <1>1, <1>11 DEF CleanupLoop, CleanupWakes, Scan, Exit, DestroyServer, Shutdown, SignalCleanup,
       JoinServerThread, JoinCleanupThread, vars, pending, history
<1>12. ASSUME NEW s \in Symbol, Working(s) PROVE UNCHANGED lists
  BY <1>12, WorkingSteps DEF pending, history
<1> HIDE DEF lists
<1>13. QED
  BY <1>1, <1>2, <1>3, <1>4, <1>5, <1>6, <1>7, <1>8, <1>9, <1>10, <1>11, <1>12
     DEF Next, OnOrder, OnData, Initialize, SendLoop, DestroyContext, Working, Turning

LEMMA LatestTypesStep == Types /\ [Next]_vars => LatestTypes'
<1> USE DEF LatestTypes
<1> DEFINE lists == <<ticks_, got_tick, info_, got_info, joined>>
<1> SUFFICES ASSUME Types, [Next]_vars PROVE LatestTypes'
  OBVIOUS
<1>0. LatestTypes /\ EngineTypes /\ ThreadTypes
  BY DEF Types
<1>1. CASE UNCHANGED lists
  BY <1>0, <1>1
<1>2. ASSUME NEW s \in Symbol, GiveTick(s) PROVE LatestTypes'
  <2>1. /\ data_worker[s] = "tick"
        /\ \E added : ticks_' = [c \in Client |->
             IF c \in added THEN [ticks_[c] EXCEPT ![s] = given[s] + 1] ELSE ticks_[c]]
        /\ UNCHANGED <<got_tick, info_, got_info, joined>>
    BY <1>2 DEF GiveTick, DataStep, history, seen
  <2>2. given[s] + 1 \in 0..MaxTicks
    BY <1>0, <2>1, Bounds DEF EngineTypes
  <2>3. QED
    BY <1>0, <2>1, <2>2
<1>3. ASSUME NEW s \in Symbol, TellInfo(s) PROVE LatestTypes'
  BY <1>0, <1>3 DEF TellInfo, history, seen, EngineTypes
<1>4. ASSUME NEW c \in Client, AddInfo(c) PROVE LatestTypes'
  <2>1. /\ sender[c] = "add_info"
        /\ info_' = [info_ EXCEPT ![c][at[c]] = snapshot[c]]
        /\ joined' = [joined EXCEPT ![c][at[c]] = told[at[c]]]
        /\ UNCHANGED <<ticks_, got_tick, got_info>>
    BY <1>4 DEF AddInfo
  <2>2. at[c] \in Symbol /\ snapshot[c] \in 0..MaxTicks /\ told[at[c]] \in 0..MaxTicks
    BY <1>0, <2>1, Bounds DEF ThreadTypes, EngineTypes
  <2>3. QED
    BY <1>0, <2>1, <2>2
<1>5. ASSUME NEW c \in Client, SendInfo(c) PROVE LatestTypes'
  <2> DEFINE waiting == {s \in Symbol : info_[c][s] > 0}
             s == CHOOSE s \in waiting : \A r \in waiting : s <= r
  <2>1. /\ UNCHANGED <<ticks_, got_tick, joined>>
        /\ \/ UNCHANGED <<info_, got_info>>
           \/ /\ waiting # {} /\ info_' = [info_ EXCEPT ![c][s] = 0]
              /\ \/ got_info' = [got_info EXCEPT ![c][s] = info_[c][s]]
                 \/ UNCHANGED got_info
    BY <1>5 DEF SendInfo
  <2>2. CASE UNCHANGED <<info_, got_info>>
    BY <1>1, <2>1, <2>2
  <2>3. CASE waiting # {}
    <3>1. waiting \in SUBSET Symbol
      OBVIOUS
    <3>2. s \in Symbol
      <4> HIDE DEF waiting
      <4>1. QED
        BY <2>3, <3>1, ExtremeSymbol
    <3>4. PICK r \in Symbol :
            /\ \/ info_' = info_ \/ info_' = [info_ EXCEPT ![c][r] = 0]
            /\ \/ got_info' = got_info \/ got_info' = [got_info EXCEPT ![c][r] = info_[c][r]]
      <4> HIDE DEF s, waiting
      <4>1. QED
        BY <2>1, <3>2
    <3>5. [info_ EXCEPT ![c][r] = 0] \in [Client -> [Symbol -> 0..MaxTicks]]
      BY <1>0, Bounds
    <3>6. [got_info EXCEPT ![c][r] = info_[c][r]] \in [Client -> [Symbol -> 0..MaxTicks]]
      BY <1>0
    <3>7. QED
      BY <1>0, <2>1, <3>4, <3>5, <3>6
  <2>4. QED
    BY <2>1, <2>2, <2>3
<1>6. ASSUME NEW c \in Client, SendTicks(c) PROVE LatestTypes'
  <2>1. /\ UNCHANGED <<info_, got_info, joined>>
        /\ ticks_' = [ticks_ EXCEPT ![c] = Zero]
        /\ \E received : got_tick' = [got_tick EXCEPT ![c] =
             [s \in Symbol |-> IF s \in received THEN ticks_[c][s] ELSE got_tick[c][s]]]
    BY <1>6 DEF SendTicks
  <2>2. Zero \in [Symbol -> 0..MaxTicks]
    BY Bounds DEF Zero
  <2>3. QED
    BY <1>0, <2>1, <2>2
<1>7. ASSUME NEW c \in Client, Join(c) PROVE LatestTypes'
  BY <1>0, <1>7, Bounds DEF Join, history, seen, Zero
<1>8. ASSUME NEW s \in Symbol,
             AddOrder(s) \/ SaveOrder(s) \/ PutBar(s) \/ PassBar(s) \/ SaveInfo(s)
      PROVE  UNCHANGED lists
  BY <1>8 DEF AddOrder, SaveOrder, PutBar, PassBar, SaveInfo, pending, latest, history, seen
<1>9. ASSUME NEW c \in Client,
              \/ Accept(c) \/ TakeSnapshot(c) \/ MergeBars(c) \/ AddOrders(c) \/ GetInfo(c)
              \/ SendBars(c) \/ SendOrders(c) \/ NoOrders(c) \/ EnterWait(c) \/ WakeUp(c)
              \/ TimeOut(c) \/ Turning(c) \/ Cancel(c)
      PROVE  UNCHANGED lists
  BY <1>9, TurningSteps DEF Accept, TakeSnapshot, MergeBars, AddOrders, GetInfo, SendBars,
       SendOrders, NoOrders, EnterWait, WakeUp, TimeOut, Cancel, pending, latest, history, seen
<1>10. CASE CleanupLoop \/ CleanupWakes \/ Scan \/ Exit \/ DestroyServer \/ UNCHANGED vars
  BY <1>1, <1>10 DEF CleanupLoop, CleanupWakes, Scan, Exit, DestroyServer, Shutdown, SignalCleanup,
       JoinServerThread, JoinCleanupThread, vars, pending, latest, history, seen
<1>11. ASSUME NEW s \in Symbol, Working(s) PROVE UNCHANGED lists
  BY <1>11, WorkingSteps DEF pending, latest, history, seen
<1> HIDE DEF lists
<1>12. QED
  BY <1>1, <1>2, <1>3, <1>4, <1>5, <1>6, <1>7, <1>8, <1>9, <1>10, <1>11
     DEF Next, OnOrder, OnData, Initialize, SendLoop, DestroyContext, Working, Turning

LEMMA TypeOKFollows == Types => TypeOK
<1> SUFFICES ASSUME Types PROVE TypeOK
  OBVIOUS
<1>1. EngineTypes /\ ServerTypes /\ ThreadTypes /\ ListTypes
  BY DEF Types
<1>2. \A c \in Client : snapshot[c] \in 0..Max({MaxBars, MaxTicks})
  <2>1. \E x \in {MaxBars, MaxTicks} : \A y \in {MaxBars, MaxTicks} : x >= y
    BY Bounds
  <2>2. /\ Max({MaxBars, MaxTicks}) \in Nat
        /\ Max({MaxBars, MaxTicks}) >= MaxBars /\ Max({MaxBars, MaxTicks}) >= MaxTicks
    <3> DEFINE S == {MaxBars, MaxTicks}
    <3>1. \A y \in S : Max(S) >= y /\ Max(S) \in S
      <4> HIDE DEF S
      <4>1. QED
        BY <2>1 DEF Max, S
    <3>2. MaxBars \in S /\ MaxTicks \in S /\ S \subseteq Nat
      BY Bounds
    <3> HIDE DEF S
    <3>3. Max(S) \in Nat /\ Max(S) >= MaxBars /\ Max(S) >= MaxTicks
      BY <3>1, <3>2
    <3>4. QED
      BY <3>3 DEF S
  <2>3. QED
    BY <1>1, <2>2, Bounds DEF ThreadTypes
<1>3. snapshot \in [Client -> 0..Max({MaxBars, MaxTicks})]
  BY <1>1, <1>2 DEF ThreadTypes
<1>4. \A c \in Client, s \in Symbol :
        /\ bars_[c][s] \in Seq(Symbol \X (1..MaxBars))
        /\ got_bars[c][s] \in Seq(Symbol \X (1..MaxBars))
        /\ orders_[c][s] \in Seq(1..MaxOrders)
        /\ got_orders[c][s] \in Seq(1..MaxOrders)
  BY <1>1 DEF ListTypes, BarList, OrderList
<1>5. sender \in [Client -> {"off", "start", "snapshot", "merge", "add_orders", "get_info",
                             "add_info", "bars", "orders", "info", "ticks", "wait", "blocked",
                             "set", "abort", "end", "destroy", "done"}]
  <2>1. {"off", "start"} \cup Starting \cup Looping \cup Ended =
          {"off", "start", "snapshot", "merge", "add_orders", "get_info", "add_info", "bars",
           "orders", "info", "ticks", "wait", "blocked", "set", "abort", "end", "destroy", "done"}
    BY DEF Starting, Looping, Ended
  <2>2. QED
    BY <1>1, <2>1 DEF ThreadTypes
<1>6. QED
  BY <1>1, <1>3, <1>4, <1>5 DEF TypeOK, EngineTypes, ServerTypes, ThreadTypes

------------------------------------------------------------------------------
(* What steps leave alone                                                  *)

\* what belongs to context d and to its client
Lists(d)   == <<bars_[d], orders_[d], got_bars[d], got_orders[d]>>
Latest(d)  == <<ticks_[d], info_[d], got_tick[d], got_info[d], joined[d]>>
Thread(d)  == <<sender[d], aborted_[d], at[d], context[d], snapshot[d], holds[d]>>

Sending(c) ==
  \/ SendBars(c) \/ SendOrders(c) \/ NoOrders(c) \/ SendInfo(c) \/ SendTicks(c)
  \/ EnterWait(c) \/ WakeUp(c) \/ TimeOut(c)

\* A step of the sending thread after it has initialised concerns its context only
\* and stays in the loop, or the thread is done with a stopped context.
LEMMA SendingSteps ==
  ASSUME Types, NEW c \in Client, Sending(c)
  PROVE  /\ UNCHANGED <<engines, server, aborted_, at, snapshot, joined>>
         /\ sender[c] \in Looping /\ sender'[c] \in Looping \cup {"set", "end"}
         /\ \A d \in Client \ {c} : UNCHANGED <<Lists(d), Latest(d), Thread(d)>>
<1> USE DEF Lists, Latest, Thread, latest, seen, Looping
<1>0. ThreadTypes /\ ListTypes /\ LatestTypes
  BY DEF Types
<1>1. UNCHANGED <<engines, server, aborted_, at, snapshot, joined>>
  BY DEF Sending, SendBars, SendOrders, NoOrders, SendInfo, SendTicks, EnterWait, WakeUp, TimeOut,
         pending, history
<1>2. SendFails(c) => \E pc \in {"set", "end"} : sender' = [sender EXCEPT ![c] = pc]
  BY DEF SendFails, GoTo
<1>3. /\ sender[c] \in Looping
      /\ \E pc \in Looping \cup {"set", "end"} : sender' = [sender EXCEPT ![c] = pc]
  BY <1>2 DEF Sending, SendBars, SendOrders, NoOrders, SendInfo, SendTicks, EnterWait, WakeUp,
         TimeOut, GoTo
<1>4. /\ sender'[c] \in Looping \cup {"set", "end"}
      /\ \A d \in Client \ {c} : sender'[d] = sender[d]
  BY <1>0, <1>3 DEF ThreadTypes
<1>5. \A d \in Client \ {c} : bars_'[d] = bars_[d] /\ got_bars'[d] = got_bars[d]
  <2>1. CASE SendBars(c)
    <3>1. /\ bars_' = bars_ \/ bars_' = [bars_ EXCEPT ![c] = SwapBars(c)]
          /\ \/ got_bars' = got_bars
             \/ \E y, s : got_bars' = [got_bars EXCEPT ![c][s] = y]
      BY <2>1 DEF SendBars
    <3>2. \A d \in Client \ {c} : bars_'[d] = bars_[d]
      BY <1>0, <3>1 DEF ListTypes
    <3>3. \A d \in Client \ {c} : got_bars'[d] = got_bars[d]
      BY <1>0, <3>1 DEF ListTypes
    <3>4. QED
      BY <3>2, <3>3
  <2>2. CASE ~SendBars(c)
    BY <2>2 DEF Sending, SendOrders, NoOrders, SendInfo, SendTicks, EnterWait, WakeUp, TimeOut,
         pending, history
  <2>3. QED
    BY <2>1, <2>2
<1>6. \A d \in Client \ {c} : orders_'[d] = orders_[d] /\ got_orders'[d] = got_orders[d]
  <2>1. CASE SendOrders(c)
    <3>1. PICK s \in Symbol :
            /\ orders_' = [orders_ EXCEPT ![c][s] = <<>>]
            /\ \/ got_orders' = [got_orders EXCEPT ![c][s] = got_orders[c][s] \o orders_[c][s]]
               \/ \E n \in 0..(Len(orders_[c][s]) - 1) :
                    got_orders' = [got_orders EXCEPT
                                     ![c][s] = got_orders[c][s] \o SubSeq(orders_[c][s], 1, n)]
      BY <2>1 DEF SendOrders
    <3>2. \A d \in Client \ {c} : orders_'[d] = orders_[d]
      BY <1>0, <3>1 DEF ListTypes
    <3>3. \A d \in Client \ {c} : got_orders'[d] = got_orders[d]
      BY <1>0, <3>1 DEF ListTypes
    <3>4. QED
      BY <3>2, <3>3
  <2>2. CASE ~SendOrders(c)
    BY <2>2 DEF Sending, SendBars, NoOrders, SendInfo, SendTicks, EnterWait, WakeUp, TimeOut,
         pending, history
  <2>3. QED
    BY <2>1, <2>2
<1>7. \A d \in Client \ {c} : info_'[d] = info_[d] /\ got_info'[d] = got_info[d]
  <2>1. CASE SendInfo(c)
    <3>1. /\ \/ info_' = info_
             \/ \E s : info_' = [info_ EXCEPT ![c][s] = 0]
          /\ \/ got_info' = got_info
             \/ \E y, s : got_info' = [got_info EXCEPT ![c][s] = y]
      BY <2>1 DEF SendInfo
    <3>2. \A d \in Client \ {c} : info_'[d] = info_[d]
      BY <1>0, <3>1 DEF LatestTypes
    <3>3. \A d \in Client \ {c} : got_info'[d] = got_info[d]
      BY <1>0, <3>1 DEF LatestTypes
    <3>4. QED
      BY <3>2, <3>3
  <2>2. CASE ~SendInfo(c)
    BY <2>2 DEF Sending, SendBars, SendOrders, NoOrders, SendTicks, EnterWait, WakeUp, TimeOut,
         pending, history, latest, seen
  <2>3. QED
    BY <2>1, <2>2
<1>8. \A d \in Client \ {c} : ticks_'[d] = ticks_[d] /\ got_tick'[d] = got_tick[d]
  <2>1. \/ UNCHANGED <<ticks_, got_tick>>
        \/ \E y : /\ ticks_' = [ticks_ EXCEPT ![c] = Zero]
                 /\ got_tick' = [got_tick EXCEPT ![c] = y]
    BY DEF Sending, SendBars, SendOrders, NoOrders, SendInfo, SendTicks, EnterWait, WakeUp, TimeOut,
         pending, history
  <2>2. QED
    BY <1>0, <2>1 DEF LatestTypes
<1>9. UNCHANGED <<context, holds>>
  BY <1>1 DEF server, ending, owners
<1>10. QED
  BY <1>1, <1>3, <1>4, <1>5, <1>6, <1>7, <1>8, <1>9

------------------------------------------------------------------------------
(* The control of a context                                                *)

\* where a context is with its life and its threads, and what it cannot have then
ControlOf(c) ==
  /\ context[c] = "new" <=> sender[c] = "off"
  /\ sender[c] \in {"off", "start"} => at[c] = 1
  /\ sender[c] = "off" => \A s \in Symbol : ticks_[c][s] = 0
  /\ sender[c] \in {"off", "start"} \cup Starting =>
       \A s \in Symbol : /\ got_bars[c][s] = <<>> /\ got_orders[c][s] = <<>>
                         /\ got_tick[c][s] = 0

Control == \A c \in Client : ControlOf(c)

\* The turns of a thread: the sending thread starts, or ends and stays ended.
LEMMA SenderTurns ==
  ASSUME Types, NEW c \in Client, Turning(c), NEW d \in Client
  PROVE  /\ aborted_[d] => aborted_'[d]
         /\ \/ UNCHANGED <<sender[d], at[d], holds[d]>>
            \/ sender[d] \in Ended /\ sender'[d] \in Ended
            \/ /\ sender[d] = "start" /\ at'[d] = at[d]
               /\ \/ sender'[d] = "snapshot"
                  \/ sender'[d] = "bars" /\ holds'[d] = {}
<1> USE DEF GoTo, Ended, ThreadTypes, ServerTypes
<1>0. ThreadTypes /\ ServerTypes
  BY DEF Types
<1>1. CASE GetEngines(c)
  <2>1. PICK v :
          /\ sender[c] = "start" /\ holds' = [holds EXCEPT ![c] = v]
          /\ sender' = [sender EXCEPT ![c] = IF v = {} THEN "bars" ELSE "snapshot"]
          /\ UNCHANGED <<at, aborted_>>
    BY <1>1 DEF GetEngines
  <2>2. CASE d # c
    BY <1>0, <2>1, <2>2
  <2>3. CASE d = c /\ v = {}
    BY <1>0, <2>1, <2>3
  <2>4. CASE d = c /\ v # {}
    BY <1>0, <2>1, <2>4
  <2>5. QED
    BY <2>2, <2>3, <2>4
<1>2. CASE SetAborted(c) \/ OnAbort(c)
  BY <1>0, <1>2 DEF SetAborted, OnAbort, server, ending, owners
<1>3. CASE Release(c)
  <2>1. PICK s :
          /\ sender[c] = "end" /\ holds' = [holds EXCEPT ![c] = holds[c] \ {s}]
          /\ at' = [at EXCEPT ![c] = s] /\ aborted_' = aborted_
          /\ sender' = sender \/ sender' = [sender EXCEPT ![c] = "destroy"]
    BY <1>3 DEF Release
  <2>2. QED
    BY <1>0, <2>1
<1>4. CASE EngineGone(c) \/ SenderReturns(c)
  BY <1>0, <1>4 DEF EngineGone, SenderReturns, server, ending, owners
<1>5. CASE ReceiveFails(c) \/ ReceiverStops(c) \/ ReceiverGivesUp(c)
  BY <1>5 DEF ReceiveFails, ReceiverStops, ReceiverGivesUp, server, ending, owners
<1>6. QED
  BY <1>1, <1>2, <1>3, <1>4, <1>5 DEF Turning, EndSending

LEMMA ControlStep == Types /\ Control /\ [Next]_vars => Control'
<1> USE DEF Starting, Looping, Ended
<1> SUFFICES ASSUME Types, Control, [Next]_vars, NEW d \in Client PROVE ControlOf(d)'
  BY DEF Control
<1>0. ControlOf(d) /\ ThreadTypes /\ ServerTypes /\ ListTypes /\ LatestTypes
  BY DEF Types, Control
<1> DEFINE own == <<sender[d], at[d], ticks_[d], got_bars[d], got_orders[d], got_tick[d]>>
<1>1. CASE UNCHANGED <<own, context[d]>>
  BY <1>0, <1>1 DEF ControlOf
<1>2. ASSUME NEW s \in Symbol,
             \/ AddOrder(s) \/ SaveOrder(s) \/ PutBar(s) \/ PassBar(s) \/ TellInfo(s) \/ SaveInfo(s)
      PROVE  ControlOf(d)'
  <2>1. UNCHANGED <<sender, at, ticks_, history, context>>
    BY <1>2 DEF AddOrder, SaveOrder, PutBar, PassBar, TellInfo, SaveInfo, pending, latest, server,
         threads
  <2>2. QED
    BY <1>1, <2>1 DEF history, seen
<1>3. ASSUME NEW s \in Symbol, GiveTick(s) PROVE ControlOf(d)'
  <2>1. /\ UNCHANGED <<sender, at, context, history>>
        /\ d \notin Reached => ticks_'[d] = ticks_[d]
    BY <1>3 DEF GiveTick, server, threads
  <2>2. d \in Reached => sender[d] # "off"
    BY <1>0 DEF ControlOf, Reached
  <2>3. QED
    BY <1>0, <2>1, <2>2 DEF ControlOf, history, seen
<1>4. ASSUME NEW c \in Client, Accept(c) PROVE ControlOf(d)'
  <2>1. /\ context[c] = "new" /\ context' = [context EXCEPT ![c] = "listed"]
        /\ sender' = [sender EXCEPT ![c] = "start"]
        /\ UNCHANGED <<at, ticks_, history>>
    BY <1>4 DEF Accept, pending, latest
  <2>2. QED
    BY <1>0, <2>1 DEF ControlOf, ThreadTypes, ServerTypes, history, seen
<1>5. ASSUME NEW c \in Client,
             \/ TakeSnapshot(c) \/ MergeBars(c) \/ AddOrders(c) \/ GetInfo(c) \/ AddInfo(c)
      PROVE  ControlOf(d)'
  <2>1. /\ UNCHANGED <<ticks_, got_bars, got_orders, got_tick, context>>
        /\ sender[c] \in Starting
        /\ \E pc \in Starting \cup {"bars"} : sender' = [sender EXCEPT ![c] = pc]
        /\ at' = at \/ at' = [at EXCEPT ![c] = at[c] + 1]
    BY <1>5 DEF TakeSnapshot, MergeBars, AddOrders, GetInfo, AddInfo, GoTo, pending,
         latest, server, history, seen
  <2>2. sender'[c] \notin {"off", "start"} /\ (d # c => sender'[d] = sender[d] /\ at'[d] = at[d])
    BY <1>0, <2>1 DEF ThreadTypes
  <2>3. QED
    BY <1>0, <2>1, <2>2 DEF ControlOf
<1>6. ASSUME NEW c \in Client, Sending(c) PROVE ControlOf(d)'
  <2>1. /\ UNCHANGED context
        /\ sender[c] \in Looping /\ sender'[c] \in Looping \cup {"set", "end"}
        /\ d # c => UNCHANGED <<Lists(d), Latest(d), Thread(d)>>
    BY <1>6, SendingSteps DEF server
  <2>2. CASE d # c
    BY <1>1, <2>1, <2>2 DEF Lists, Latest, Thread
  <2>3. CASE d = c
    BY <1>0, <2>1, <2>3 DEF ControlOf
  <2>4. QED
    BY <2>2, <2>3
<1>7. ASSUME NEW c \in Client, Turning(c) PROVE ControlOf(d)'
  <2>1. UNCHANGED <<ticks_, history, context>>
    BY <1>7, TurningSteps DEF pending, latest
  <2>2. \/ UNCHANGED <<sender[d], at[d]>>
        \/ sender[d] \in Ended /\ sender'[d] \in Ended
        \/ sender[d] = "start" /\ sender'[d] \in {"snapshot", "bars"}
    BY <1>7, SenderTurns
  <2>3. QED
    BY <1>0, <2>1, <2>2 DEF ControlOf, history, seen
<1>8. ASSUME NEW c \in Client, Cancel(c) PROVE ControlOf(d)'
  <2>1. /\ context[c] = "dying" /\ context' = [context EXCEPT ![c] = "canceled"]
        /\ UNCHANGED <<sender, at, ticks_, history>>
    BY <1>8 DEF Cancel, latest, threads
  <2>2. QED
    BY <1>0, <2>1 DEF ControlOf, ServerTypes, history, seen
<1>9. ASSUME NEW c \in Client, Join(c) PROVE ControlOf(d)'
  <2>1. /\ context[c] = "canceled" /\ context' = [context EXCEPT ![c] = "gone"]
        /\ sender[c] = "done" /\ ticks_' = [ticks_ EXCEPT ![c] = Zero]
        /\ UNCHANGED <<sender, at, history>>
    BY <1>9 DEF Join, threads
  <2>2. QED
    BY <1>0, <2>1 DEF ControlOf, ServerTypes, LatestTypes, history, seen
<1>10. CASE Scan
  <2>1. /\ UNCHANGED <<sender, at, ticks_, history>>
        /\ \/ context'[d] = context[d]
           \/ context[d] = "listed" /\ context'[d] = "dying"
    BY <1>10 DEF Scan, pending, latest, threads
  <2>2. QED
    BY <1>0, <2>1 DEF ControlOf, history, seen
<1>11. CASE Exit \/ DestroyServer
  <2>1. /\ UNCHANGED <<sender, at, ticks_, history>>
        /\ \/ context'[d] = context[d]
           \/ context[d] = "listed" /\ context'[d] = "dying"
    BY <1>11 DEF Exit, DestroyServer, Shutdown, SignalCleanup, JoinServerThread, JoinCleanupThread,
         pending, latest, threads
  <2>2. QED
    BY <1>0, <2>1 DEF ControlOf, history, seen
<1>12. CASE CleanupLoop \/ CleanupWakes \/ UNCHANGED vars
  BY <1>1, <1>12 DEF CleanupLoop, CleanupWakes, vars, pending, latest, server, threads, history, seen
<1>13. ASSUME NEW s \in Symbol, Working(s) PROVE ControlOf(d)'
  <2>1. UNCHANGED <<sender, at, ticks_, history, context>>
    BY <1>13, WorkingSteps DEF pending, latest, threads
  <2>2. QED
    BY <1>1, <2>1 DEF history, seen
<1> HIDE DEF own
<1>14. QED
  BY <1>2, <1>3, <1>4, <1>5, <1>6, <1>7, <1>8, <1>9, <1>10, <1>11, <1>12, <1>13
     DEF Next, OnOrder, OnData, Initialize, SendLoop, Sending, DestroyContext, Working, Turning

\* Only accepting a client brings a context within the reach of announcements.
LEMMA NewlyReached ==
  ASSUME Types, Control, [Next]_vars, NEW d \in Client, d \in Reached'
  PROVE  d \in Reached \/ (sender[d] = "off" /\ sender'[d] = "start")
<1>0. ThreadTypes /\ ServerTypes /\ ControlOf(d) /\ context'[d] = "listed" /\ ~aborted_'[d]
  BY DEF Types, Control, Reached
<1>1. CASE UNCHANGED <<context[d], aborted_[d]>>
  BY <1>0, <1>1 DEF Reached
<1>2. ASSUME NEW s \in Symbol, OnOrder(s) \/ OnData(s) \/ PutBar(s)
      PROVE  UNCHANGED <<context[d], aborted_[d]>>
  BY <1>2 DEF OnOrder, OnData, AddOrder, SaveOrder, PutBar, PassBar, GiveTick, TellInfo, SaveInfo,
       server, threads
<1>3. ASSUME NEW s \in Symbol, Working(s) PROVE UNCHANGED <<context[d], aborted_[d]>>
  BY <1>3, WorkingSteps DEF threads
<1>4. ASSUME NEW c \in Client, Accept(c) PROVE d \in Reached \/ sender'[d] = "start"
  <2>1. /\ sender' = [sender EXCEPT ![c] = "start"] /\ UNCHANGED aborted_
        /\ context' = [context EXCEPT ![c] = "listed"]
    BY <1>4 DEF Accept
  <2>2. QED
    BY <1>0, <2>1 DEF Reached, ThreadTypes, ServerTypes
<1>5. ASSUME NEW c \in Client, Accept(c) PROVE d \in Reached \/ sender[d] = "off"
  <2>1. /\ context[c] = "new" /\ UNCHANGED aborted_
        /\ context' = [context EXCEPT ![c] = "listed"]
    BY <1>5 DEF Accept
  <2>2. QED
    BY <1>0, <2>1 DEF Reached, ControlOf, ServerTypes
<1>6. ASSUME NEW c \in Client,
             \/ TakeSnapshot(c) \/ MergeBars(c) \/ AddOrders(c) \/ GetInfo(c) \/ AddInfo(c)
             \/ Sending(c)
      PROVE  UNCHANGED <<context[d], aborted_[d]>>
  BY <1>6, SendingSteps DEF TakeSnapshot, MergeBars, AddOrders, GetInfo, AddInfo, server
<1>7. ASSUME NEW c \in Client, Turning(c) PROVE d \in Reached
  BY <1>0, <1>7, TurningSteps, SenderTurns DEF Reached, ThreadTypes
<1>8. ASSUME NEW c \in Client, DestroyContext(c) PROVE d \in Reached
  <2>1. /\ UNCHANGED aborted_
        /\ \E x \in {"canceled", "gone"} : context' = [context EXCEPT ![c] = x]
    BY <1>8 DEF DestroyContext, Cancel, Join, threads
  <2>2. QED
    BY <1>0, <2>1 DEF Reached, ServerTypes
<1>9. CASE Scan \/ Exit \/ DestroyServer
  <2>1. /\ UNCHANGED aborted_
        /\ context'[d] = context[d] \/ context'[d] = "dying"
    BY <1>9 DEF Scan, Exit, DestroyServer, Shutdown, SignalCleanup, JoinServerThread,
         JoinCleanupThread, threads
  <2>2. QED
    BY <1>0, <2>1 DEF Reached
<1>10. CASE CleanupLoop \/ CleanupWakes \/ UNCHANGED vars
  BY <1>1, <1>10 DEF CleanupLoop, CleanupWakes, vars, server, threads
<1>11. QED
  BY <1>1, <1>2, <1>3, <1>4, <1>5, <1>6, <1>7, <1>8, <1>9, <1>10
     DEF Next, Initialize, SendLoop, Sending, Working, Turning

------------------------------------------------------------------------------
(* The order events                                                        *)

Before == {p \in (1..MaxOrders) \X (1..MaxOrders) : p[1] < p[2]}

\* the sending thread of c has put the saved order events of s in place
PastOrders(c, s) ==
  \/ sender[c] \in Looping /\ holds[c] = Symbol
  \/ sender[c] \in Starting /\ s < at[c]
  \/ sender[c] \in {"get_info", "add_info"} /\ s = at[c]

\* What a client has of a symbol is in order and announced; from add_orders on it
\* lacks one order event at most.
OrdersOf(c, s) ==
  /\ Sorted(Orders(c, s), Before)
  /\ Range(Orders(c, s)) \subseteq 1..announced[s]
  /\ c \in Reached /\ PastOrders(c, s) =>
       \E k \in Nat : (1..announced[s]) \ Range(Orders(c, s)) \subseteq {k}

OrdersGood == \A c \in Client, s \in Symbol : OrdersOf(c, s)

LEMMA OrderListsOf ==
  ASSUME Types, NEW c \in Client, NEW s \in Symbol
  PROVE  /\ orders_[c][s] \in Seq(1..MaxOrders) /\ got_orders[c][s] \in Seq(1..MaxOrders)
         /\ Orders(c, s) \in Seq(1..MaxOrders)
         /\ Range(Orders(c, s)) = Range(got_orders[c][s]) \cup Range(orders_[c][s])
<1>1. orders_[c][s] \in Seq(1..MaxOrders) /\ got_orders[c][s] \in Seq(1..MaxOrders)
  BY DEF Types, ListTypes, OrderList
<1>2. QED
  BY <1>1, ConcatParts, RangeOfConcat DEF Orders

\* A step that leaves the orders alone, and brings no context past add_orders.
LEMMA OrdersKept ==
  ASSUME NEW d \in Client, NEW s \in Symbol, OrdersOf(d, s),
         orders_'[d] = orders_[d], got_orders'[d] = got_orders[d],
         announced'[s] = announced[s],
         d \in Reached' /\ PastOrders(d, s)' => d \in Reached /\ PastOrders(d, s)
  PROVE  OrdersOf(d, s)'
<1>1. Orders(d, s)' = Orders(d, s)
  BY DEF Orders
<1>2. QED
  BY <1>1 DEF OrdersOf

\* on_order gives the next number to the contexts it reaches.
LEMMA OrdersAdded ==
  ASSUME Types, Control, OrdersGood, NEW q \in Symbol, AddOrder(q),
         NEW d \in Client, NEW s \in Symbol
  PROVE  OrdersOf(d, s)'
<1>0. /\ ListTypes /\ EngineTypes /\ OrdersOf(d, s)
  BY DEF Types, OrdersGood
<1>1. /\ order_worker[q] = "add"
      /\ announced' = [announced EXCEPT ![q] = announced[q] + 1]
      /\ orders_' = [c \in Client |->
           IF c \in Reached THEN [orders_[c] EXCEPT ![q] = Append(orders_[c][q], announced[q] + 1)]
                            ELSE orders_[c]]
      /\ UNCHANGED <<got_orders, aborted_, sender, at, holds, context>>
  BY DEF AddOrder, OrderStep, threads, history, server, ending, owners
<1>2. announced[q] + 1 \in 1..MaxOrders /\ announced[q] \in Nat
  <2>1. announced[q] \in 0..MaxOrders /\ announced[q] < MaxOrders
    BY <1>0, <1>1 DEF EngineTypes
  <2>2. QED
    BY <2>1, Bounds
<1>a. Reached' = Reached /\ (PastOrders(d, s)' <=> PastOrders(d, s))
  BY <1>1 DEF Reached, PastOrders
<1>3. CASE s # q
  <2>1. orders_'[d][s] = orders_[d][s] /\ announced'[s] = announced[s]
    BY <1>0, <1>1, <1>3 DEF ListTypes, EngineTypes
  <2>2. Orders(d, s)' = Orders(d, s)
    BY <1>1, <2>1 DEF Orders
  <2>3. QED
    BY <1>0, <1>a, <2>1, <2>2 DEF OrdersOf
<1>4. CASE s = q /\ d \notin Reached
  <2>1. orders_'[d][s] = orders_[d][s] /\ announced'[s] = announced[s] + 1
    BY <1>0, <1>1, <1>4 DEF ListTypes, EngineTypes
  <2>2. Orders(d, s)' = Orders(d, s)
    BY <1>1, <2>1 DEF Orders
  <2>3. 1..announced[s] \subseteq 1..announced'[s]
    BY <1>2, <1>4, <2>1
  <2>4. QED
    BY <1>0, <1>4, <1>a, <2>2, <2>3 DEF OrdersOf
<1>5. CASE s = q /\ d \in Reached
  <2>0. PICK e, S : e = announced[s] + 1 /\ S = 1..MaxOrders
    OBVIOUS
  <2>1. orders_'[d][s] = Append(orders_[d][s], e) /\ announced'[s] = e
    BY <1>0, <1>1, <1>5, <2>0 DEF ListTypes, EngineTypes
  <2>2. e \in S /\ announced[s] \in Nat /\ S \subseteq Nat
    BY <1>2, <1>5, <2>0
  <2>3. 1..e = (1..announced[s]) \cup {e}
    BY <2>0, <2>2
  <2>4. ASSUME NEW x \in 1..announced[s] PROVE <<x, e>> \in Before
    <3>1. x \in 1..MaxOrders /\ e \in 1..MaxOrders /\ x < e
      BY <2>0, <2>2, Bounds
    <3>2. QED
      BY <3>1 DEF Before
  <2>5. /\ orders_[d][s] \in Seq(S) /\ got_orders[d][s] \in Seq(S) /\ Orders(d, s) \in Seq(S)
    BY <2>0, OrderListsOf
  <2>6. Orders(d, s)' = Append(Orders(d, s), e)
    <3>1. Orders(d, s)' = got_orders[d][s] \o Append(orders_[d][s], e)
      BY <1>1, <2>1 DEF Orders
    <3>2. got_orders[d][s] \o Append(orders_[d][s], e) = Append(got_orders[d][s] \o orders_[d][s], e)
      <4>1. PICK o, g : o = orders_[d][s] /\ g = got_orders[d][s]
        OBVIOUS
      <4>2. e \in S /\ o \in Seq(S) /\ g \in Seq(S)
        BY <2>2, <2>5, <4>1
      <4>3. g \o Append(o, e) = Append(g \o o, e)
        BY <4>2, AppendConcat
      <4>4. QED
        BY <4>1, <4>3
    <3>3. QED
      BY <3>1, <3>2 DEF Orders
  <2>7. Sorted(Append(Orders(d, s), e), Before)
    <3>1. \A x \in Range(Orders(d, s)) : <<x, e>> \in Before
      BY <1>0, <2>4 DEF OrdersOf
    <3>2. Sorted(Orders(d, s), Before)
      BY <1>0 DEF OrdersOf
    <3>3. QED
      BY <2>2, <2>5, <3>1, <3>2, SortedAppend
  <2>8. Range(Append(Orders(d, s), e)) = Range(Orders(d, s)) \cup {e}
    BY <2>2, <2>5, RangeOfAppend
  <2>9. QED
    BY <1>0, <1>a, <2>1, <2>3, <2>6, <2>7, <2>8 DEF OrdersOf
<1>6. QED
  BY <1>3, <1>4, <1>5

\* add_orders replaces what waits by the saved order events.
LEMMA OrdersReplaced ==
  ASSUME Types, Control, OrdersGood, NEW c \in Client, AddOrders(c),
         NEW d \in Client, NEW s \in Symbol
  PROVE  OrdersOf(d, s)'
<1>0. /\ ListTypes /\ EngineTypes /\ ThreadTypes /\ OrdersOf(d, s) /\ ControlOf(d)
  BY DEF Types, OrdersGood, Control
<1>1. /\ sender[c] = "add_orders" /\ sender' = [sender EXCEPT ![c] = "get_info"]
      /\ orders_' = [orders_ EXCEPT ![c][at[c]] = [i \in 1..saved[at[c]] |-> i]]
      /\ UNCHANGED <<announced, got_orders, aborted_, at, holds, context>>
  BY DEF AddOrders, GoTo, engines, history, server, ending, owners
<1>a. Reached' = Reached
  BY <1>1 DEF Reached
<1>2. CASE d # c
  <2>1. orders_'[d] = orders_[d] /\ sender'[d] = sender[d]
    BY <1>0, <1>1, <1>2 DEF ListTypes, ThreadTypes
  <2>2. QED
    BY <1>0, <1>1, <1>a, <2>1, OrdersKept DEF PastOrders
<1>3. CASE d = c /\ s # at[c]
  <2>1. orders_'[d][s] = orders_[d][s] /\ sender'[d] = "get_info"
    BY <1>0, <1>1, <1>3 DEF ListTypes, ThreadTypes
  <2>2. Orders(d, s)' = Orders(d, s)
    BY <1>1, <2>1 DEF Orders
  <2>3. PastOrders(d, s)' => PastOrders(d, s)
    BY <1>1, <1>3, <2>1 DEF PastOrders, Starting, Looping
  <2>4. QED
    BY <1>0, <1>1, <1>a, <2>2, <2>3 DEF OrdersOf
<1>4. CASE d = c /\ s = at[c]
  <2>1. PICK n : n = saved[s]
    OBVIOUS
  <2>2. PICK q : q = [i \in 1..n |-> i]
    OBVIOUS
  <2>3. /\ n \in Nat /\ n <= MaxOrders /\ announced[s] \in Nat
        /\ n = announced[s] \/ n = announced[s] - 1
    <3>1. saved[s] \in 0..MaxOrders /\ announced[s] \in 0..MaxOrders
      BY <1>0 DEF EngineTypes
    <3>2. saved[s] = announced[s] - (IF order_worker[s] = "save" THEN 1 ELSE 0)
      BY <1>0 DEF EngineTypes
    <3>3. QED
      BY <2>1, <3>1, <3>2, Bounds
  <2>4. got_orders[d][s] = <<>>
    BY <1>0, <1>1, <1>4 DEF ControlOf, Starting
  <2>5. Orders(d, s)' = q
    <3>1. orders_'[d][s] = q
      BY <1>0, <1>1, <1>4, <2>1, <2>2 DEF ListTypes
    <3>2. q \in Seq(1..MaxOrders)
      <4>1. q \in [1..n -> 1..MaxOrders]
        BY <2>2, <2>3, Bounds
      <4>2. QED
        BY <2>3, <4>1, SeqDef
    <3>3. <<>> \o q = q
      BY <3>2, ConcatEmptySeq
    <3>4. Orders(d, s)' = <<>> \o q
      BY <1>1, <2>4, <3>1 DEF Orders
    <3>5. QED
      BY <3>3, <3>4
  <2>6. Sorted(q, Before)
    <3>1. DOMAIN q = 1..n /\ \A i \in 1..n : q[i] = i
      BY <2>2
    <3>2. ASSUME NEW i \in 1..n, NEW j \in 1..n, i < j PROVE <<i, j>> \in Before
      BY <2>3, <3>2, Bounds DEF Before
    <3>3. QED
      BY <3>1, <3>2 DEF Sorted
  <2>7. Range(q) = 1..n
    BY <2>2 DEF Range
  <2>8. 1..n \subseteq 1..announced[s] /\ (1..announced[s]) \ (1..n) \subseteq {announced[s]}
    BY <2>3
  <2>9. QED
    BY <1>1, <2>3, <2>5, <2>6, <2>7, <2>8 DEF OrdersOf
<1>5. QED
  BY <1>2, <1>3, <1>4

\* send_orders takes what waits; the client has all of it then, or the first part.
LEMMA OrdersSent ==
  ASSUME Types, OrdersGood, NEW c \in Client, SendOrders(c),
         NEW d \in Client, NEW s \in Symbol
  PROVE  OrdersOf(d, s)'
<1>0. /\ ListTypes /\ ThreadTypes /\ OrdersOf(d, s)
  BY DEF Types, OrdersGood
<1>1. /\ UNCHANGED <<announced, at, holds, context, aborted_>>
      /\ sender[c] \in Looping /\ sender'[c] \in Looping \cup {"set", "end"}
      /\ d # c => UNCHANGED <<Lists(d), Thread(d)>>
  BY SendingSteps DEF Sending, engines, server, ending, owners
<1>a. Reached' = Reached
  BY <1>1 DEF Reached
<1>2. CASE d # c
  BY <1>0, <1>1, <1>a, <1>2, OrdersKept DEF PastOrders, Lists, Thread
<1>3. CASE d = c
  <2>1. PICK r \in Symbol :
          /\ orders_' = [orders_ EXCEPT ![c][r] = <<>>]
          /\ \/ got_orders' = [got_orders EXCEPT ![c][r] = got_orders[c][r] \o orders_[c][r]]
             \/ /\ SendFails(c)
                /\ \E n \in 0..(Len(orders_[c][r]) - 1) :
                     got_orders' = [got_orders EXCEPT
                                      ![c][r] = got_orders[c][r] \o SubSeq(orders_[c][r], 1, n)]
    BY DEF SendOrders
  <2>2. PastOrders(d, s)' => PastOrders(d, s)
    BY <1>1, <1>3 DEF PastOrders, Looping, Starting
  <2>3. PICK o, g : o = orders_[c][s] /\ g = got_orders[c][s]
    OBVIOUS
  <2>4. /\ o \in Seq(1..MaxOrders) /\ g \in Seq(1..MaxOrders) /\ g \o o \in Seq(1..MaxOrders)
        /\ Orders(d, s) = g \o o
    BY <1>3, <2>3, OrderListsOf DEF Orders
  <2>5. CASE r # s
    <3>1. orders_'[d][s] = orders_[d][s]
      BY <1>0, <1>3, <2>1, <2>5 DEF ListTypes
    <3>2. got_orders'[d][s] = got_orders[d][s]
      BY <1>0, <1>3, <2>1, <2>5 DEF ListTypes
    <3>3. Orders(d, s)' = Orders(d, s)
      BY <3>1, <3>2 DEF Orders
    <3>4. QED
      BY <1>0, <1>1, <1>3, <1>a, <2>2, <3>3 DEF OrdersOf
  <2>6. CASE r = s /\ got_orders' = [got_orders EXCEPT ![c][r] = got_orders[c][r] \o orders_[c][r]]
    <3>1. orders_'[d][s] = <<>> /\ got_orders'[d][s] = g \o o
      BY <1>0, <1>3, <2>1, <2>3, <2>6 DEF ListTypes
    <3>2. (g \o o) \o <<>> = g \o o
      BY <2>4, ConcatEmptySeq
    <3>3. Orders(d, s)' = Orders(d, s)
      BY <2>4, <3>1, <3>2 DEF Orders
    <3>4. QED
      BY <1>0, <1>1, <1>3, <1>a, <2>2, <3>3 DEF OrdersOf
  <2>7. ASSUME r = s, SendFails(c), NEW n \in 0..(Len(orders_[c][r]) - 1),
               got_orders' = [got_orders EXCEPT
                                ![c][r] = got_orders[c][r] \o SubSeq(orders_[c][r], 1, n)]
        PROVE  OrdersOf(d, s)'
    <3>1. orders_'[d][s] = <<>> /\ got_orders'[d][s] = g \o SubSeq(o, 1, n)
      BY <1>0, <1>3, <2>1, <2>3, <2>7, ZenonT(40) DEF ListTypes
    <3>2. n \in 0..Len(o)
      <4>1. Len(o) \in Nat
        BY <2>4, LenProperties
      <4>2. QED
        BY <2>3, <2>7, <4>1
    <3>3. Sorted(g \o o, Before)
      BY <1>0, <2>4 DEF OrdersOf
    <3>4. PICK p : p = g \o SubSeq(o, 1, n)
      OBVIOUS
    <3>5. p \in Seq(1..MaxOrders) /\ Sorted(p, Before) /\ Range(p) \subseteq Range(g \o o)
      BY <2>4, <3>2, <3>3, <3>4, SortedPart
    <3>6. p \o <<>> = p
      BY <3>5, ConcatEmptySeq
    <3>7. Orders(d, s)' = p
      BY <3>1, <3>4, <3>6 DEF Orders
    <3>8. sender'[d] \in {"set", "end"}
      BY <1>0, <1>3, <2>7 DEF SendFails, GoTo, ThreadTypes
    <3>9. ~PastOrders(d, s)'
      BY <3>8 DEF PastOrders, Starting, Looping
    <3>10. QED
      BY <1>0, <1>1, <2>4, <3>5, <3>7, <3>9 DEF OrdersOf
  <2>8. QED
    BY <2>1, <2>5, <2>6, <2>7
<1>4. QED
  BY <1>2, <1>3

\* ~gui_context drops what waits; the client keeps what it has received.
LEMMA OrdersDropped ==
  ASSUME Types, OrdersGood, NEW c \in Client, Join(c), NEW d \in Client, NEW s \in Symbol
  PROVE  OrdersOf(d, s)'
<1>0. /\ ListTypes /\ ThreadTypes /\ ServerTypes /\ OrdersOf(d, s)
  BY DEF Types, OrdersGood
<1>1. /\ UNCHANGED <<announced, got_orders, sender, at, aborted_, holds>> /\ sender[c] = "done"
      /\ orders_' = [orders_ EXCEPT ![c] = Nothing[c]]
      /\ context' = [context EXCEPT ![c] = "gone"]
  BY DEF Join, engines, threads, history, owners
<1>2. CASE d # c
  <2>1. orders_'[d] = orders_[d] /\ (d \in Reached' => d \in Reached)
    BY <1>0, <1>1, <1>2 DEF ListTypes, ServerTypes, Reached
  <2>2. QED
    BY <1>0, <1>1, <2>1, OrdersKept DEF PastOrders
<1>3. CASE d = c
  <2>1. PICK o, g : o = orders_[c][s] /\ g = got_orders[c][s]
    OBVIOUS
  <2>2. /\ o \in Seq(1..MaxOrders) /\ g \in Seq(1..MaxOrders)
        /\ Orders(d, s) = g \o o
    BY <1>3, <2>1, OrderListsOf DEF Orders
  <2>3. Orders(d, s)' = g
    <3>1. orders_'[d][s] = <<>> /\ got_orders'[d][s] = g
      BY <1>0, <1>1, <1>3, <2>1 DEF ListTypes, Nothing
    <3>2. g \o <<>> = g
      BY <2>2, ConcatEmptySeq
    <3>3. QED
      BY <3>1, <3>2 DEF Orders
  <2>4. Sorted(g, Before) /\ Range(g) \subseteq Range(g \o o)
    <3>1. Sorted(g \o o, Before)
      BY <1>0, <2>2 DEF OrdersOf
    <3>2. /\ DOMAIN g = 1..Len(g)
          /\ \A i \in 1..Len(g) : i \in DOMAIN (g \o o) /\ (g \o o)[i] = g[i]
      BY <2>2, ConcatParts
    <3>3. Range(g \o o) = Range(g) \cup Range(o)
      BY <2>2, RangeOfConcat
    <3>4. QED
      BY <3>1, <3>2, <3>3 DEF Sorted
  <2>5. ~PastOrders(d, s)'
    BY <1>1, <1>3 DEF PastOrders, Starting, Looping
  <2>6. QED
    BY <1>0, <1>1, <2>2, <2>3, <2>4, <2>5 DEF OrdersOf
<1>4. QED
  BY <1>2, <1>3

LEMMA OrdersStep == Types /\ Control /\ OrdersGood /\ [Next]_vars => OrdersGood'
<1> SUFFICES ASSUME Types, Control, OrdersGood, [Next]_vars, NEW d \in Client, NEW s \in Symbol
             PROVE  OrdersOf(d, s)'
  BY DEF OrdersGood
<1>0. /\ ListTypes /\ ThreadTypes /\ OrdersOf(d, s) /\ ControlOf(d)
  BY DEF Types, OrdersGood, Control
<1> DEFINE kept == <<orders_[d], got_orders[d], announced[s]>>
<1>a. ASSUME UNCHANGED kept, PastOrders(d, s)' => PastOrders(d, s) PROVE OrdersOf(d, s)'
  <2>1. d \in Reached' /\ PastOrders(d, s)' => d \in Reached
    BY NewlyReached DEF PastOrders, Starting, Looping
  <2>2. QED
    BY <1>0, <1>a, <2>1, OrdersKept
<1>1. CASE UNCHANGED <<kept, sender[d], at[d], holds[d]>>
  BY <1>1, <1>a DEF PastOrders
<1>2. ASSUME NEW q \in Symbol,
             \/ SaveOrder(q) \/ PutBar(q) \/ PassBar(q) \/ GiveTick(q) \/ TellInfo(q) \/ SaveInfo(q)
      PROVE  UNCHANGED <<kept, sender[d], at[d], holds[d]>>
  BY <1>2 DEF SaveOrder, PutBar, PassBar, GiveTick, TellInfo, SaveInfo, pending, threads, history,
       server, ending, owners
<1>3. ASSUME NEW c \in Client, Accept(c) PROVE OrdersOf(d, s)'
  <2>1. /\ UNCHANGED <<kept, at, holds>> /\ sender' = [sender EXCEPT ![c] = "start"]
    BY <1>3 DEF Accept, engines, pending, history, ending, owners
  <2>2. sender'[d] = sender[d] \/ sender'[d] = "start"
    BY <1>0, <2>1 DEF ThreadTypes
  <2>3. PastOrders(d, s)' => PastOrders(d, s)
    BY <2>1, <2>2 DEF PastOrders, Starting, Looping
  <2>4. QED
    BY <1>a, <2>1, <2>3
<1>4. ASSUME NEW c \in Client, TakeSnapshot(c) \/ MergeBars(c) \/ GetInfo(c) \/ AddInfo(c)
      PROVE  OrdersOf(d, s)'
  <2>1. /\ UNCHANGED <<kept, holds>>
        /\ \/ /\ sender[c] = "snapshot" /\ sender' = [sender EXCEPT ![c] = "merge"] /\ at' = at
           \/ /\ sender[c] = "merge" /\ sender' = [sender EXCEPT ![c] = "add_orders"] /\ at' = at
           \/ /\ sender[c] = "get_info" /\ sender' = [sender EXCEPT ![c] = "add_info"] /\ at' = at
           \/ /\ sender[c] = "add_info" /\ sender' = [sender EXCEPT ![c] = "snapshot"]
              /\ at' = [at EXCEPT ![c] = at[c] + 1]
           \/ /\ sender[c] = "add_info" /\ sender' = [sender EXCEPT ![c] = "bars"] /\ at' = at
              /\ ~(at[c] < Symbols)
    BY <1>4 DEF TakeSnapshot, MergeBars, GetInfo, AddInfo, GoTo, engines, pending, history, server,
         ending, owners
  <2>2. at[c] \in 1..Symbols /\ s \in 1..Symbols /\ Symbols \in Nat
    BY <1>0, Bounds DEF ThreadTypes, Symbol
  <2>3. PastOrders(d, s)' => PastOrders(d, s)
    BY <1>0, <2>1, <2>2 DEF PastOrders, Starting, Looping, ThreadTypes
  <2>4. QED
    BY <1>a, <2>1, <2>3
<1>5. ASSUME NEW c \in Client, Sending(c), ~SendOrders(c) PROVE OrdersOf(d, s)'
  <2>1. /\ UNCHANGED <<announced, at, holds>>
        /\ sender[c] \in Looping /\ sender'[c] \in Looping \cup {"set", "end"}
        /\ d # c => UNCHANGED Thread(d)
    BY <1>5, SendingSteps DEF engines, server, ending, owners
  <2>2. UNCHANGED <<orders_, got_orders>>
    BY <1>5 DEF Sending, SendBars, NoOrders, SendInfo, SendTicks, EnterWait, WakeUp, TimeOut,
         pending, history
  <2>3. PastOrders(d, s)' => PastOrders(d, s)
    BY <2>1 DEF PastOrders, Thread, Starting, Looping
  <2>4. QED
    BY <1>a, <2>1, <2>2, <2>3
<1>6. ASSUME NEW c \in Client, Turning(c) PROVE OrdersOf(d, s)'
  <2>1. UNCHANGED kept
    BY <1>6, TurningSteps DEF engines, pending, history
  <2>2. \/ UNCHANGED <<sender[d], at[d], holds[d]>>
        \/ sender[d] \in Ended /\ sender'[d] \in Ended
        \/ /\ sender[d] = "start" /\ at'[d] = at[d]
           /\ \/ sender'[d] = "snapshot"
              \/ sender'[d] = "bars" /\ holds'[d] = {}
    BY <1>6, SenderTurns
  <2>3. sender[d] = "start" => ~(s < at[d]) /\ {} # Symbol
    <3>1. sender[d] = "start" => at[d] = 1
      BY <1>0 DEF ControlOf
    <3>2. ~(s < 1) /\ {} # Symbol
      BY Bounds DEF Symbol
    <3>3. QED
      BY <3>1, <3>2
  <2>4. PastOrders(d, s)' => PastOrders(d, s)
    BY <2>2, <2>3 DEF PastOrders, Starting, Looping, Ended
  <2>5. QED
    BY <1>a, <2>1, <2>4
<1>7. CASE CleanupLoop \/ CleanupWakes \/ Scan \/ Exit \/ DestroyServer \/ UNCHANGED vars
  BY <1>1, <1>7 DEF CleanupLoop, CleanupWakes, Scan, Exit, DestroyServer, Shutdown, SignalCleanup,
       JoinServerThread, JoinCleanupThread, vars, engines, pending, threads, history, server,
       ending, owners
<1>8. ASSUME NEW c \in Client, Cancel(c) PROVE UNCHANGED <<kept, sender[d], at[d], holds[d]>>
  BY <1>8 DEF Cancel, engines, threads, history, ending, owners
<1>9. ASSUME NEW q \in Symbol, Working(q) PROVE OrdersOf(d, s)'
  <2>1. UNCHANGED <<kept, threads, holds>>
    BY <1>9, WorkingSteps DEF pending, history
  <2>2. QED
    BY <1>1, <2>1 DEF threads
<1> HIDE DEF kept
<1>10. ASSUME NEW q \in Symbol, AddOrder(q) PROVE OrdersOf(d, s)'
  BY <1>10, OrdersAdded
<1>11. ASSUME NEW c \in Client, AddOrders(c) \/ SendOrders(c) \/ Join(c) PROVE OrdersOf(d, s)'
  BY <1>11, OrdersReplaced, OrdersSent, OrdersDropped
<1>12. QED
  BY <1>1, <1>2, <1>3, <1>4, <1>5, <1>6, <1>7, <1>8, <1>9, <1>10, <1>11
     DEF Next, OnOrder, OnData, Initialize, SendLoop, Sending, DestroyContext, Working, Turning

------------------------------------------------------------------------------
(* The ticks and the infos                                                 *)

\* the sending thread of c has put the saved info of s in place
PastInfo(c, s) ==
  \/ sender[c] \in Looping /\ holds[c] = Symbol
  \/ sender[c] \in Starting /\ s < at[c]

TickOf(c, s) ==
  /\ ticks_[c][s] <= given[s]
  /\ c \in Reached /\ sender[c] \notin Ended =>
       \/ Newest(got_tick[c][s], ticks_[c][s]) = 0
       \/ Price(Newest(got_tick[c][s], ticks_[c][s])) = Price(given[s])

InfoOf(c, s) ==
  c \in Reached /\ PastInfo(c, s) =>
    \/ Newest(got_info[c][s], info_[c][s]) = told[s]
    \/ told[s] = joined[c][s]

LatestGood == \A c \in Client, s \in Symbol : TickOf(c, s) /\ InfoOf(c, s)

\* A step that leaves the ticks and infos alone, and brings no context past add_info.
LEMMA LatestKept ==
  ASSUME NEW d \in Client, NEW s \in Symbol, TickOf(d, s), InfoOf(d, s),
         UNCHANGED <<Latest(d), given[s], told[s]>>,
         d \in Reached' /\ sender'[d] \notin Ended => d \in Reached /\ sender[d] \notin Ended,
         d \in Reached' /\ PastInfo(d, s)' => d \in Reached /\ PastInfo(d, s)
  PROVE  TickOf(d, s)' /\ InfoOf(d, s)'
  BY DEF TickOf, InfoOf, Latest

LEMMA TickGiven ==
  ASSUME Types, Control, LatestGood, NEW q \in Symbol, GiveTick(q),
         NEW d \in Client, NEW s \in Symbol
  PROVE  TickOf(d, s)' /\ InfoOf(d, s)'
<1>0. /\ LatestTypes /\ EngineTypes /\ ThreadTypes /\ TickOf(d, s) /\ InfoOf(d, s) /\ ControlOf(d)
  BY DEF Types, LatestGood, Control
<1> DEFINE added == {c \in Reached : TickIsNew(c, q, given[q] + 1)}
<1>1. /\ UNCHANGED <<aborted_, sender, at, got_tick, info_, got_info, told, joined>>
      /\ UNCHANGED <<holds, context>>
      /\ given' = [given EXCEPT ![q] = given[q] + 1]
      /\ ticks_' = [c \in Client |->
           IF c \in added THEN [ticks_[c] EXCEPT ![q] = given[q] + 1] ELSE ticks_[c]]
  BY DEF GiveTick, threads, history, seen, server, ending, owners
<1>a. Reached' = Reached /\ (PastInfo(d, s)' <=> PastInfo(d, s))
  BY <1>1 DEF Reached, PastInfo
<1>2. InfoOf(d, s)'
  BY <1>0, <1>1, <1>a DEF InfoOf
<1>3. ticks_[d][s] \in Nat /\ given[s] \in Nat /\ ticks_[d][s] <= given[s]
  BY <1>0, Bounds DEF LatestTypes, EngineTypes, TickOf
<1>4. CASE s # q
  <2>1. ticks_'[d][s] = ticks_[d][s] /\ given'[s] = given[s]
    BY <1>0, <1>1, <1>4 DEF LatestTypes, EngineTypes
  <2>2. QED
    BY <1>0, <1>1, <1>2, <1>a, <2>1 DEF TickOf
<1>5. CASE s = q /\ d \in added
  <2>1. ticks_'[d][s] = given[s] + 1 /\ given'[s] = given[s] + 1
    <3> HIDE DEF added
    <3>1. QED
      BY <1>0, <1>1, <1>5 DEF LatestTypes, EngineTypes
  <2>2. Newest(got_tick'[d][s], ticks_'[d][s]) = given'[s] /\ ticks_'[d][s] <= given'[s]
    BY <1>3, <2>1 DEF Newest
  <2>3. QED
    BY <1>2, <2>2 DEF TickOf
<1>6. CASE s = q /\ d \notin added
  <2>1. ticks_'[d][s] = ticks_[d][s] /\ given'[s] = given[s] + 1
    <3> HIDE DEF added
    <3>1. QED
      BY <1>0, <1>1, <1>6 DEF LatestTypes, EngineTypes
  <2>2. CASE d \in Reached
    <3>1. ticks_[d][s] # 0 /\ Price(ticks_[d][s]) = Price(given[s] + 1)
      BY <1>3, <1>6, <2>2 DEF TickIsNew
    <3>2. QED
      BY <1>1, <1>2, <1>3, <2>1, <3>1 DEF TickOf, Newest
  <2>3. CASE d \notin Reached
    BY <1>2, <1>3, <1>a, <2>1, <2>3 DEF TickOf
  <2>4. QED
    BY <2>2, <2>3
<1>7. QED
  BY <1>4, <1>5, <1>6

LEMMA InfoTold ==
  ASSUME Types, Control, LatestGood, NEW q \in Symbol, TellInfo(q),
         NEW d \in Client, NEW s \in Symbol
  PROVE  TickOf(d, s)' /\ InfoOf(d, s)'
<1>0. /\ LatestTypes /\ EngineTypes /\ ThreadTypes /\ TickOf(d, s) /\ InfoOf(d, s) /\ ControlOf(d)
  BY DEF Types, LatestGood, Control
<1>1. /\ data_worker[q] = "info"
      /\ UNCHANGED <<aborted_, sender, at, ticks_, got_tick, got_info, given, joined>>
      /\ UNCHANGED <<holds, context>>
      /\ told' = [told EXCEPT ![q] = given[q]]
      /\ info_' = [c \in Client |->
           IF c \in Reached THEN [info_[c] EXCEPT ![q] = given[q]] ELSE info_[c]]
  BY DEF TellInfo, DataStep, threads, history, seen, server, ending, owners
<1>a. Reached' = Reached /\ (PastInfo(d, s)' <=> PastInfo(d, s))
  BY <1>1 DEF Reached, PastInfo
<1>2. TickOf(d, s)'
  BY <1>0, <1>1, <1>a DEF TickOf
<1>3. CASE s # q
  <2>1. info_'[d][s] = info_[d][s] /\ told'[s] = told[s]
    BY <1>0, <1>1, <1>3 DEF LatestTypes, EngineTypes
  <2>2. QED
    BY <1>0, <1>1, <1>2, <1>a, <2>1 DEF InfoOf
<1>4. CASE s = q /\ d \in Reached
  <2>1. info_'[d][s] = given[s] /\ told'[s] = given[s]
    BY <1>0, <1>1, <1>4 DEF LatestTypes, EngineTypes
  <2>2. given[s] # 0
    BY <1>0, <1>1, <1>4, Bounds DEF EngineTypes
  <2>3. QED
    BY <1>2, <2>1, <2>2 DEF InfoOf, Newest
<1>5. CASE d \notin Reached
  BY <1>2, <1>5, <1>a DEF InfoOf
<1>6. QED
  BY <1>3, <1>4, <1>5

\* add_info puts the saved info, which may be older, in place of the one that waits.
LEMMA InfoReplaced ==
  ASSUME Types, LatestGood, NEW c \in Client, AddInfo(c), NEW d \in Client, NEW s \in Symbol
  PROVE  TickOf(d, s)' /\ InfoOf(d, s)'
<1>0. /\ LatestTypes /\ ThreadTypes /\ TickOf(d, s) /\ InfoOf(d, s)
  BY DEF Types, LatestGood
<1>1. /\ UNCHANGED <<given, told, aborted_, ticks_, got_tick, got_info, holds, context>>
      /\ sender[c] = "add_info"
      /\ joined' = [joined EXCEPT ![c][at[c]] = told[at[c]]]
      /\ info_' = [info_ EXCEPT ![c][at[c]] = snapshot[c]]
      /\ \/ /\ sender' = [sender EXCEPT ![c] = "snapshot"] /\ at' = [at EXCEPT ![c] = at[c] + 1]
         \/ /\ sender' = [sender EXCEPT ![c] = "bars"] /\ at' = at /\ ~(at[c] < Symbols)
  BY DEF AddInfo, GoTo, engines, data, server, ending, owners
<1>a. Reached' = Reached
  BY <1>1 DEF Reached
<1>2. TickOf(d, s)'
  <2>1. sender'[d] \notin Ended => sender[d] \notin Ended
    BY <1>0, <1>1 DEF ThreadTypes, Ended
  <2>2. QED
    BY <1>0, <1>1, <1>a, <2>1 DEF TickOf
<1>3. CASE d # c
  <2>1. UNCHANGED <<sender[d], at[d], info_[d], joined[d]>>
    BY <1>0, <1>1, <1>3 DEF LatestTypes, ThreadTypes
  <2>2. QED
    BY <1>0, <1>1, <1>2, <1>a, <2>1 DEF InfoOf, PastInfo
<1>4. CASE d = c /\ s = at[c]
  <2>1. joined'[d][s] = told[s]
    BY <1>0, <1>1, <1>4 DEF LatestTypes
  <2>2. QED
    BY <1>1, <1>2, <2>1 DEF InfoOf
<1>5. CASE d = c /\ s # at[c]
  <2>1. joined'[d][s] = joined[d][s] /\ info_'[d][s] = info_[d][s]
    BY <1>0, <1>1, <1>5 DEF LatestTypes
  <2>2. at[c] \in 1..Symbols /\ s \in 1..Symbols /\ Symbols \in Nat
    BY <1>0, Bounds DEF ThreadTypes, Symbol
  <2>3. PastInfo(d, s)' => PastInfo(d, s)
    BY <1>0, <1>1, <1>5, <2>2 DEF PastInfo, Starting, Looping, ThreadTypes
  <2>4. QED
    BY <1>0, <1>1, <1>2, <1>a, <2>1, <2>3 DEF InfoOf
<1>6. QED
  BY <1>3, <1>4, <1>5

\* send_info and send_ticks hand over what waits; when that fails the context ends.
LEMMA LatestSends ==
  ASSUME Types, LatestGood, NEW c \in Client, SendInfo(c) \/ SendTicks(c),
         NEW d \in Client, NEW s \in Symbol
  PROVE  TickOf(d, s)' /\ InfoOf(d, s)'
<1>0. /\ LatestTypes /\ ThreadTypes /\ TickOf(d, s) /\ InfoOf(d, s)
      /\ given[s] \in Nat
  BY Bounds DEF Types, LatestGood, EngineTypes
<1>1. /\ UNCHANGED <<given, told, at, joined, holds, context, aborted_>>
      /\ sender[c] \in Looping /\ sender'[c] \in Looping \cup {"set", "end"}
      /\ d # c => UNCHANGED <<Latest(d), Thread(d)>>
  BY SendingSteps DEF Sending, engines, data, server, ending, owners
<1>a. Reached' = Reached
  BY <1>1 DEF Reached
<1>2. CASE d # c
  BY <1>0, <1>1, <1>a, <1>2, LatestKept DEF PastInfo, Thread
<1>3. SendFails(c) => sender'[c] \in Ended
  BY <1>0 DEF SendFails, GoTo, ThreadTypes, Ended
<1>4. (PastInfo(c, s)' => PastInfo(c, s)) /\ sender[c] \notin Ended
  BY <1>1 DEF PastInfo, Looping, Starting, Ended
<1>5. CASE d = c /\ SendInfo(c)
  <2> DEFINE waiting == {r \in Symbol : info_[c][r] > 0}
             r == CHOOSE r \in waiting : \A q \in waiting : r <= q
  <2>1. /\ UNCHANGED <<ticks_, got_tick>>
        /\ \/ UNCHANGED <<info_, got_info>>
           \/ /\ waiting # {} /\ info_' = [info_ EXCEPT ![c][r] = 0]
              /\ SendFails(c) \/ got_info' = [got_info EXCEPT ![c][r] = info_[c][r]]
    BY <1>5 DEF SendInfo, seen
  <2>2. TickOf(d, s)'
    BY <1>0, <1>1, <1>4, <1>5, <1>a, <2>1 DEF TickOf
  <2>3. CASE UNCHANGED <<info_, got_info>>
    BY <1>0, <1>1, <1>4, <1>5, <1>a, <2>2, <2>3 DEF InfoOf
  <2>4. CASE SendFails(c)
    BY <1>3, <1>5, <2>2, <2>4 DEF InfoOf, PastInfo, Starting, Looping, Ended
  <2>5. CASE /\ waiting # {} /\ info_' = [info_ EXCEPT ![c][r] = 0]
             /\ got_info' = [got_info EXCEPT ![c][r] = info_[c][r]]
    <3>1. r \in waiting
      <4>1. waiting \in SUBSET Symbol
        OBVIOUS
      <4> HIDE DEF waiting
      <4>2. QED
        BY <2>5, <4>1, ExtremeSymbol
    <3>2. PICK p : p = r
      OBVIOUS
    <3>3. /\ p \in Symbol /\ info_[c][p] > 0
          /\ info_' = [info_ EXCEPT ![c][p] = 0]
          /\ got_info' = [got_info EXCEPT ![c][p] = info_[c][p]]
      <4> HIDE DEF r
      <4>1. p \in waiting
        BY <3>1, <3>2
      <4>2. QED
        BY <2>5, <3>2, <4>1
    <3>4. info_'[d][s] = IF s = p THEN 0 ELSE info_[d][s]
      BY <1>0, <1>5, <3>3 DEF LatestTypes
    <3>5. got_info'[d][s] = IF s = p THEN info_[d][s] ELSE got_info[d][s]
      BY <1>0, <1>5, <3>3 DEF LatestTypes
    <3>6. Newest(got_info'[d][s], info_'[d][s]) = Newest(got_info[d][s], info_[d][s])
      BY <1>5, <3>3, <3>4, <3>5 DEF Newest
    <3>7. QED
      BY <1>0, <1>1, <1>4, <1>5, <1>a, <2>2, <3>6 DEF InfoOf
  <2> HIDE DEF waiting, r
  <2>6. QED
    BY <2>1, <2>3, <2>4, <2>5
<1>6. CASE d = c /\ SendTicks(c)
  <2> DEFINE waiting == {r \in Symbol : ticks_[c][r] > 0}
  <2>1. PICK received :
          /\ ticks_' = [ticks_ EXCEPT ![c] = Zero]
          /\ got_tick' = [got_tick EXCEPT ![c] =
               [r \in Symbol |-> IF r \in received THEN ticks_[c][r] ELSE got_tick[c][r]]]
          /\ received = waiting \/ SendFails(c)
    BY <1>6 DEF SendTicks
  <2>2. UNCHANGED <<info_, got_info>>
    BY <1>6 DEF SendTicks
  <2>3. InfoOf(d, s)'
    BY <1>0, <1>1, <1>4, <1>6, <1>a, <2>2 DEF InfoOf
  <2>4. ticks_'[d][s] = 0 /\ ticks_[d][s] \in Nat
    BY <1>0, <1>6, <2>1, Bounds DEF LatestTypes, Zero
  <2>5. CASE SendFails(c)
    BY <1>0, <1>1, <1>3, <1>6, <2>3, <2>4, <2>5 DEF TickOf
  <2>6. CASE received = waiting
    <3>1. got_tick'[d][s] = IF s \in received THEN ticks_[d][s] ELSE got_tick[d][s]
      BY <1>0, <1>6, <2>1 DEF LatestTypes
    <3>2. s \in received <=> ticks_[d][s] > 0
      BY <1>6, <2>6
    <3>3. Newest(got_tick'[d][s], ticks_'[d][s]) = Newest(got_tick[d][s], ticks_[d][s])
      BY <2>4, <3>1, <3>2 DEF Newest
    <3>4. QED
      BY <1>0, <1>1, <1>4, <1>6, <1>a, <2>3, <2>4, <3>3 DEF TickOf
  <2>7. QED
    BY <2>1, <2>5, <2>6
<1>7. QED
  BY <1>2, <1>5, <1>6

LEMMA LatestStep == Types /\ Control /\ LatestGood /\ [Next]_vars => LatestGood'
<1> SUFFICES ASSUME Types, Control, LatestGood, [Next]_vars, NEW d \in Client, NEW s \in Symbol
             PROVE  TickOf(d, s)' /\ InfoOf(d, s)'
  BY DEF LatestGood
<1>0. /\ LatestTypes /\ ThreadTypes /\ ServerTypes /\ TickOf(d, s) /\ InfoOf(d, s) /\ ControlOf(d)
  BY DEF Types, LatestGood, Control
<1> DEFINE kept == <<ticks_, info_, got_tick, got_info, joined, given, told>>
<1>a. ASSUME UNCHANGED kept, sender[d] \in Ended => sender'[d] \in Ended,
             PastInfo(d, s)' => PastInfo(d, s), sender[d] # "off"
      PROVE  TickOf(d, s)' /\ InfoOf(d, s)'
  <2>1. d \in Reached' => d \in Reached
    BY <1>a, NewlyReached
  <2>2. QED
    BY <1>0, <1>a, <2>1, LatestKept DEF Latest
<1>1. ASSUME UNCHANGED <<kept, sender[d], at[d], holds[d]>>
      PROVE  TickOf(d, s)' /\ InfoOf(d, s)'
  <2>1. CASE sender[d] # "off"
    BY <1>1, <1>a, <2>1 DEF PastInfo
  <2>2. CASE sender[d] = "off"
    <3>1. sender'[d] \notin Starting \cup Looping /\ sender'[d] # "start"
      BY <1>1, <2>2 DEF Starting, Looping
    <3>2. d \in Reached' => d \in Reached
      BY <3>1, NewlyReached
    <3>3. QED
      BY <1>0, <1>1, <3>2, LatestKept DEF Latest, PastInfo
  <2>3. QED
    BY <2>1, <2>2
<1>2. ASSUME NEW q \in Symbol,
             AddOrder(q) \/ SaveOrder(q) \/ PutBar(q) \/ PassBar(q) \/ SaveInfo(q)
      PROVE  UNCHANGED <<kept, sender[d], at[d], holds[d]>>
  BY <1>2 DEF AddOrder, SaveOrder, PutBar, PassBar, SaveInfo, pending, latest, threads, history,
       seen, data, server, ending, owners
<1>3. ASSUME NEW c \in Client, Accept(c) PROVE TickOf(d, s)' /\ InfoOf(d, s)'
  <2>1. /\ UNCHANGED <<kept, at, holds>> /\ context[c] = "new"
        /\ sender' = [sender EXCEPT ![c] = "start"]
    BY <1>3 DEF Accept, engines, data, pending, latest, history, seen, ending, owners
  <2>2. CASE d # c
    <3>1. sender'[d] = sender[d]
      BY <1>0, <2>1, <2>2 DEF ThreadTypes
    <3>2. QED
      BY <1>1, <2>1, <3>1
  <2>3. CASE d = c
    <3>1. sender'[d] = "start" /\ sender[d] = "off"
      BY <1>0, <2>1, <2>3 DEF ControlOf, ThreadTypes
    <3>2. ~PastInfo(d, s)'
      BY <3>1 DEF PastInfo, Looping, Starting
    <3>3. ticks_[d][s] = 0 /\ got_tick[d][s] = 0
      BY <1>0, <3>1 DEF ControlOf
    <3>4. QED
      BY <1>0, <2>1, <3>2, <3>3 DEF TickOf, InfoOf, Newest
  <2>4. QED
    BY <2>2, <2>3
<1>4. ASSUME NEW c \in Client, TakeSnapshot(c) \/ MergeBars(c) \/ AddOrders(c) \/ GetInfo(c)
      PROVE  TickOf(d, s)' /\ InfoOf(d, s)'
  <2>1. /\ UNCHANGED <<kept, at, holds>>
        /\ sender[c] \in Starting
        /\ \E pc \in Starting : sender' = [sender EXCEPT ![c] = pc]
    BY <1>4 DEF TakeSnapshot, MergeBars, AddOrders, GetInfo, GoTo, engines, data, pending, latest,
         history, seen, Starting, server, ending, owners
  <2>2. sender'[d] = sender[d] \/ (sender[d] \in Starting /\ sender'[d] \in Starting)
    BY <1>0, <2>1 DEF ThreadTypes
  <2>3. CASE sender'[d] = sender[d]
    BY <1>1, <2>1, <2>3
  <2>4. CASE sender[d] \in Starting /\ sender'[d] \in Starting
    BY <1>a, <2>1, <2>4 DEF PastInfo, Starting, Looping, Ended
  <2>5. QED
    BY <2>2, <2>3, <2>4
<1>5. ASSUME NEW c \in Client, Sending(c), ~SendInfo(c), ~SendTicks(c)
      PROVE  TickOf(d, s)' /\ InfoOf(d, s)'
  <2>1. /\ UNCHANGED <<given, told, at, holds>>
        /\ sender[c] \in Looping /\ sender'[c] \in Looping \cup {"set", "end"}
        /\ d # c => UNCHANGED Thread(d)
    BY <1>5, SendingSteps DEF engines, data, server, ending, owners
  <2>2. UNCHANGED <<ticks_, info_, got_tick, got_info, joined>>
    BY <1>5 DEF Sending, SendBars, SendOrders, NoOrders, EnterWait, WakeUp, TimeOut, pending,
         latest, history, seen
  <2>3. CASE d # c
    BY <1>1, <2>1, <2>2, <2>3 DEF Thread
  <2>4. CASE d = c
    BY <1>a, <2>1, <2>2, <2>4 DEF PastInfo, Starting, Looping, Ended
  <2>5. QED
    BY <2>3, <2>4
<1>6. ASSUME NEW c \in Client, Turning(c) PROVE TickOf(d, s)' /\ InfoOf(d, s)'
  <2>1. UNCHANGED kept
    BY <1>6, TurningSteps DEF engines, data, pending, latest, history, seen
  <2>2. \/ UNCHANGED <<sender[d], at[d], holds[d]>>
        \/ sender[d] \in Ended /\ sender'[d] \in Ended
        \/ /\ sender[d] = "start" /\ at'[d] = at[d]
           /\ \/ sender'[d] = "snapshot"
              \/ sender'[d] = "bars" /\ holds'[d] = {}
    BY <1>6, SenderTurns
  <2>3. sender[d] = "start" => ~(s < at[d]) /\ {} # Symbol
    <3>1. sender[d] = "start" => at[d] = 1
      BY <1>0 DEF ControlOf
    <3>2. ~(s < 1) /\ {} # Symbol
      BY Bounds DEF Symbol
    <3>3. QED
      BY <3>1, <3>2
  <2>4. CASE UNCHANGED <<sender[d], at[d], holds[d]>>
    BY <1>1, <2>1, <2>4
  <2>5. CASE ~UNCHANGED <<sender[d], at[d], holds[d]>>
    <3>1. sender[d] # "off" /\ (sender[d] \in Ended => sender'[d] \in Ended)
      BY <2>2, <2>5 DEF Ended
    <3>2. PastInfo(d, s)' => PastInfo(d, s)
      BY <2>2, <2>3, <2>5 DEF PastInfo, Starting, Looping, Ended
    <3>3. QED
      BY <1>a, <2>1, <3>1, <3>2
  <2>6. QED
    BY <2>4, <2>5
<1>7. ASSUME NEW c \in Client, Join(c) PROVE TickOf(d, s)' /\ InfoOf(d, s)'
  <2>1. /\ UNCHANGED <<got_tick, got_info, joined, given, told, sender, at, holds>>
        /\ sender[c] = "done" /\ context' = [context EXCEPT ![c] = "gone"]
        /\ ticks_' = [ticks_ EXCEPT ![c] = Zero] /\ info_' = [info_ EXCEPT ![c] = Zero]
    BY <1>7 DEF Join, engines, data, threads, history, seen, owners
  <2>2. CASE d # c
    <3>1. ticks_'[d] = ticks_[d] /\ info_'[d] = info_[d] /\ context'[d] = context[d]
      BY <1>0, <2>1, <2>2 DEF LatestTypes, ServerTypes
    <3>2. aborted_' = aborted_
      BY <1>7 DEF Join, threads
    <3>3. (d \in Reached' <=> d \in Reached) /\ (PastInfo(d, s)' <=> PastInfo(d, s))
      BY <2>1, <3>1, <3>2 DEF Reached, PastInfo
    <3>4. QED
      BY <1>0, <2>1, <3>1, <3>3 DEF TickOf, InfoOf
  <2>3. CASE d = c
    <3>1. ticks_'[d][s] = 0 /\ given[s] \in Nat
      BY <1>0, <2>1, <2>3, Bounds DEF LatestTypes, Zero, Types, EngineTypes
    <3>2. d \notin Reached'
      BY <1>0, <2>1, <2>3 DEF Reached, ServerTypes
    <3>3. QED
      BY <2>1, <3>1, <3>2 DEF TickOf, InfoOf
  <2>4. QED
    BY <2>2, <2>3
<1>8. ASSUME CleanupLoop \/ CleanupWakes \/ Scan \/ Exit \/ DestroyServer \/ UNCHANGED vars
      PROVE  UNCHANGED <<kept, sender[d], at[d], holds[d]>>
  BY <1>8 DEF CleanupLoop, CleanupWakes, Scan, Exit, DestroyServer, Shutdown, SignalCleanup,
       JoinServerThread, JoinCleanupThread, vars, engines, data, pending, latest, threads, history,
       seen, server, ending, owners
<1>9. ASSUME NEW c \in Client, Cancel(c) PROVE UNCHANGED <<kept, sender[d], at[d], holds[d]>>
  BY <1>9 DEF Cancel, engines, data, latest, threads, history, seen, ending, owners
<1>10. ASSUME NEW q \in Symbol, Working(q) PROVE UNCHANGED <<kept, sender[d], at[d], holds[d]>>
  BY <1>10, WorkingSteps DEF data, pending, latest, threads, history, seen
<1> HIDE DEF kept
<1>11. ASSUME NEW q \in Symbol, GiveTick(q) \/ TellInfo(q) PROVE TickOf(d, s)' /\ InfoOf(d, s)'
  BY <1>11, TickGiven, InfoTold
<1>12. ASSUME NEW c \in Client, AddInfo(c) \/ SendInfo(c) \/ SendTicks(c)
       PROVE  TickOf(d, s)' /\ InfoOf(d, s)'
  BY <1>12, InfoReplaced, LatestSends
<1>13. QED
  BY <1>1, <1>2, <1>3, <1>4, <1>5, <1>6, <1>7, <1>8, <1>9, <1>10, <1>11, <1>12
     DEF Next, OnOrder, OnData, Initialize, SendLoop, Sending, DestroyContext, Working, Turning

------------------------------------------------------------------------------
(* The bars of a single symbol                                             *)

Bar == Symbol \X (1..MaxBars)
Younger == {p \in Bar \X Bar : p[1][2] < p[2][2]}

\* the bars of v are in the order of time, but the one behind the k-th may be it again
OnceAgain(v, k) ==
  \A i, j \in DOMAIN v : i < j => \/ v[i][2] < v[j][2]
                                  \/ i = k /\ j = k + 1 /\ v[i][2] = v[j][2]

\* What waits in a context is in the order of time.  A client has nothing ahead of the
\* collector, and one bar again at most: none as long as it has the bar that is in the
\* collector but not passed on.
BarsOfGood(c, s) ==
  /\ \A b \in Range(BarsOf(c, s)) : b[2] <= collected[s]
  /\ Sorted(bars_[c][s], Younger)
  /\ \E k \in 0..Len(got_bars[c][s]) : OnceAgain(BarsOf(c, s), k)
  /\ \/ Sorted(BarsOf(c, s), Younger)
     \/ \A b \in Range(BarsOf(c, s)) : b[2] <= passed[s]

BarsGood == \A c \in Client, s \in Symbol : BarsOfGood(c, s)

\* Bars that are in order are so without the exception.
LEMMA SortedOnce ==
  ASSUME NEW v, Sorted(v, Younger), NEW k
  PROVE  OnceAgain(v, k)
<1>1. \A i, j \in DOMAIN v : i < j => <<v[i], v[j]>> \in Younger
  BY DEF Sorted
<1>2. \A x, y : <<x, y>> \in Younger => x[2] < y[2]
  BY DEF Younger
<1>3. QED
  BY <1>1, <1>2 DEF OnceAgain

LEMMA BarListsOf ==
  ASSUME Types, NEW c \in Client, NEW s \in Symbol
  PROVE  /\ bars_[c][s] \in Seq(Bar) /\ got_bars[c][s] \in Seq(Bar)
         /\ BarsOf(c, s) \in Seq(Bar)
         /\ Range(BarsOf(c, s)) = Range(got_bars[c][s]) \cup Range(bars_[c][s])
         /\ Range(BarsOf(c, s)) \subseteq Bar
<1>1. PICK b, g : b = bars_[c][s] /\ g = got_bars[c][s]
  OBVIOUS
<1>2. b \in Seq(Bar) /\ g \in Seq(Bar)
  BY <1>1 DEF Types, ListTypes, BarList, Bar
<1>3. g \o b \in Seq(Bar) /\ Range(g \o b) = Range(g) \cup Range(b)
  BY <1>2, ConcatParts, RangeOfConcat
<1>4. Range(g \o b) \subseteq Bar
  <2>1. DOMAIN (g \o b) = 1..Len(g \o b) /\ \A i \in 1..Len(g \o b) : (g \o b)[i] \in Bar
    BY <1>3, LenProperties, ElementOfSeq
  <2>2. QED
    BY <2>1 DEF Range
<1>5. QED
  BY <1>1, <1>2, <1>3, <1>4 DEF BarsOf

LEMMA BarsKept ==
  ASSUME Types, NEW d \in Client, NEW s \in Symbol, BarsOfGood(d, s),
         bars_'[d][s] = bars_[d][s], got_bars'[d][s] = got_bars[d][s],
         collected'[s] \in Nat, collected[s] <= collected'[s],
         passed'[s] \in Nat, passed[s] <= passed'[s]
  PROVE  BarsOfGood(d, s)'
<1>1. BarsOf(d, s)' = BarsOf(d, s)
  BY DEF BarsOf
<1>2. collected[s] \in Nat /\ passed[s] \in Nat
  BY Bounds DEF Types, EngineTypes
<1>3. ASSUME NEW b \in Range(BarsOf(d, s))
      PROVE  /\ b[2] <= collected[s] => b[2] <= collected'[s]
             /\ b[2] <= passed[s] => b[2] <= passed'[s]
  <2>1. b \in Bar
    BY BarListsOf
  <2>2. b[2] \in Nat
    BY <2>1, Bounds DEF Bar
  <2>3. QED
    BY <1>2, <2>2
<1>4. QED
  BY <1>1, <1>3 DEF BarsOfGood

\* A concatenation of no lists has no elements.
LEMMA NothingListed == <<>> \o <<>> = <<>> /\ DOMAIN <<>> = {} /\ Range(<<>>) = {}
<1>1. <<>> \in Seq({}) /\ Len(<<>>) = 0
  BY EmptySeq
<1>2. <<>> \o <<>> = <<>>
  BY <1>1, ConcatEmptySeq
<1>3. DOMAIN <<>> = 1..0
  BY <1>1, LenProperties
<1>4. QED
  BY <1>2, <1>3 DEF Range

\* A younger bar goes behind a list with at most one bar again.
LEMMA YoungerAppended ==
  ASSUME NEW w \in Seq(Bar), NEW e \in Bar, NEW k \in Nat, OnceAgain(w, k),
         \A x \in Range(w) : x[2] < e[2]
  PROVE  OnceAgain(Append(w, e), k)
<1>1. /\ Len(w) \in Nat /\ DOMAIN w = 1..Len(w) /\ DOMAIN Append(w, e) = 1..(Len(w) + 1)
      /\ \A i \in 1..Len(w) : Append(w, e)[i] = w[i]
      /\ Append(w, e)[Len(w) + 1] = e
  BY LenProperties, AppendProperties
<1>2. PICK n, a : n = Len(w) /\ a = Append(w, e)
  OBVIOUS
<1>3. ASSUME NEW i \in 1..(n + 1), NEW j \in 1..(n + 1), i < j
      PROVE  \/ a[i][2] < a[j][2]
             \/ i = k /\ j = k + 1 /\ a[i][2] = a[j][2]
  <2>1. n \in Nat /\ i \in 1..n
    BY <1>1, <1>2, <1>3
  <2>2. CASE j = n + 1
    <3>1. a[i] = w[i] /\ a[j] = e /\ w[i] \in Range(w)
      BY <1>1, <1>2, <2>1, <2>2 DEF Range
    <3>2. QED
      BY <3>1
  <2>3. CASE j # n + 1
    <3>1. j \in 1..n
      BY <2>1, <2>3
    <3>2. a[i] = w[i] /\ a[j] = w[j] /\ i \in DOMAIN w /\ j \in DOMAIN w
      BY <1>1, <1>2, <2>1, <3>1
    <3>3. QED
      BY <1>3, <3>2 DEF OnceAgain
  <2>4. QED
    BY <2>2, <2>3
<1>4. QED
  BY <1>1, <1>2, <1>3 DEF OnceAgain

\* The last bar of a list in order may go behind it again.
LEMMA LastAgain ==
  ASSUME NEW w \in Seq(Bar), NEW e \in Bar, Sorted(w, Younger),
         \A x \in Range(w) : x[2] <= e[2]
  PROVE  OnceAgain(Append(w, e), Len(w))
<1>1. /\ Len(w) \in Nat /\ DOMAIN w = 1..Len(w) /\ DOMAIN Append(w, e) = 1..(Len(w) + 1)
      /\ \A i \in 1..Len(w) : Append(w, e)[i] = w[i] /\ w[i] \in Bar
      /\ Append(w, e)[Len(w) + 1] = e
  BY LenProperties, AppendProperties, ElementOfSeq
<1>2. PICK n, a : n = Len(w) /\ a = Append(w, e)
  OBVIOUS
<1>3. \A x \in Bar : x[2] \in Nat
  BY Bounds DEF Bar
<1>4. ASSUME NEW i \in 1..(n + 1), NEW j \in 1..(n + 1), i < j
      PROVE  \/ a[i][2] < a[j][2]
             \/ i = n /\ j = n + 1 /\ a[i][2] = a[j][2]
  <2>1. n \in Nat /\ i \in 1..n
    BY <1>1, <1>2, <1>4
  <2>2. a[i] = w[i] /\ w[i] \in Bar /\ w[i] \in Range(w) /\ i \in DOMAIN w
    BY <1>1, <1>2, <2>1 DEF Range
  <2>3. CASE j # n + 1
    <3>1. j \in 1..n
      BY <2>1, <2>3
    <3>2. a[j] = w[j] /\ j \in DOMAIN w
      BY <1>1, <1>2, <3>1
    <3>3. <<w[i], w[j]>> \in Younger
      BY <1>4, <2>2, <3>2 DEF Sorted
    <3>4. QED
      BY <2>2, <3>2, <3>3 DEF Younger
  <2>4. CASE j = n + 1 /\ i = n
    <3>1. a[j] = e /\ w[i][2] <= e[2] /\ w[i][2] \in Nat /\ e[2] \in Nat
      BY <1>1, <1>2, <1>3, <2>2, <2>4
    <3>2. PICK x, y : x = w[i][2] /\ y = e[2]
      OBVIOUS
    <3>3. x < y \/ x = y
      BY <3>1, <3>2
    <3>4. QED
      BY <2>2, <2>4, <3>1, <3>2, <3>3
  <2>5. CASE j = n + 1 /\ i # n
    <3>1. n \in 1..n /\ i < n
      BY <2>1, <2>5
    <3>2. w[n] \in Bar /\ w[n] \in Range(w) /\ n \in DOMAIN w
      BY <1>1, <1>2, <3>1 DEF Range
    <3>3. <<w[i], w[n]>> \in Younger
      BY <2>2, <3>1, <3>2 DEF Sorted
    <3>4. w[i][2] < w[n][2] /\ w[n][2] <= e[2]
      BY <3>2, <3>3 DEF Younger
    <3>5. w[i][2] \in Nat /\ w[n][2] \in Nat /\ e[2] \in Nat
      BY <1>3, <2>2, <3>2
    <3>6. a[j] = e
      BY <1>1, <1>2, <2>5
    <3>7. w[i][2] < e[2]
      BY <3>4, <3>5
    <3>8. QED
      BY <2>2, <3>6, <3>7
  <2>6. QED
    BY <2>3, <2>4, <2>5
<1>5. DOMAIN a = 1..(n + 1)
  BY <1>1, <1>2
<1>6. OnceAgain(a, n)
  BY <1>4, <1>5 DEF OnceAgain
<1>7. QED
  BY <1>2, <1>6

\* In a list in order no bar is younger than the last one.
LEMMA LastIsYoungest ==
  ASSUME NEW w \in Seq(Bar), w # <<>>, Sorted(w, Younger)
  PROVE  /\ Last(w) \in Range(w) /\ Last(w) \in Bar
         /\ \A x \in Range(w) : x \in Bar /\ x[2] <= Last(w)[2]
<1>1. Len(w) \in Nat \ {0} /\ DOMAIN w = 1..Len(w) /\ \A i \in 1..Len(w) : w[i] \in Bar
  BY EmptySeq, LenProperties, ElementOfSeq
<1>2. PICK n : n = Len(w)
  OBVIOUS
<1>3. n \in 1..n /\ Last(w) = w[n] /\ w[n] \in Bar /\ w[n] \in Range(w)
  BY <1>1, <1>2 DEF Last, Range
<1>4. ASSUME NEW x \in Range(w) PROVE x \in Bar /\ x[2] <= w[n][2]
  <2>1. PICK i \in 1..n : x = w[i] /\ x \in Bar
    BY <1>1, <1>2 DEF Range
  <2>2. CASE i = n
    BY <1>3, <2>1, <2>2, Bounds DEF Bar
  <2>3. CASE i # n
    <3>1. i < n
      <4>1. n \in Nat
        BY <1>1, <1>2
      <4>2. QED
        BY <2>1, <2>3, <4>1
    <3>2. <<w[i], w[n]>> \in Younger
      BY <1>1, <1>2, <1>3, <3>1 DEF Sorted
    <3>3. x[2] < w[n][2] /\ x[2] \in Nat /\ w[n][2] \in Nat
      BY <1>3, <2>1, <3>2, Bounds DEF Younger, Bar
    <3>4. QED
      BY <2>1, <3>3
  <2>4. QED
    BY <2>2, <2>3
<1>5. QED
  BY <1>3, <1>4

\* on_bar gives the bar to the contexts in which no younger one waits; a client that
\* had it with the snapshot gets it again.
LEMMA BarPassed ==
  ASSUME Types, BarsGood, NEW q \in Symbol, PassBar(q), NEW d \in Client, NEW s \in Symbol
  PROVE  BarsOfGood(d, s)'
<1>0. ListTypes /\ EngineTypes /\ BarsOfGood(d, s)
  BY DEF Types, BarsGood
<1>1. PICK added :
        /\ bars_' = [c \in Client |->
             IF c \in added THEN [bars_[c] EXCEPT ![q] = Append(bars_[c][q], <<q, collected[q]>>)]
                            ELSE bars_[c]]
        /\ \A c \in added : BarIsNew(c, q, collected[q])
        /\ UNCHANGED <<collected, got_bars>> /\ data_worker[q] = "bar"
        /\ passed' = [passed EXCEPT ![q] = collected[q]]
  <2> DEFINE A == {c \in Reached : BarIsNew(c, q, collected[q])}
  <2>1. /\ bars_' = [c \in Client |->
             IF c \in A THEN [bars_[c] EXCEPT ![q] = Append(bars_[c][q], <<q, collected[q]>>)]
                        ELSE bars_[c]]
        /\ UNCHANGED <<collected, got_bars>> /\ data_worker[q] = "bar"
        /\ passed' = [passed EXCEPT ![q] = collected[q]]
    BY DEF PassBar, DataStep, history
  <2>2. \A c \in A : BarIsNew(c, q, collected[q])
    OBVIOUS
  <2> HIDE DEF A
  <2>3. QED
    BY <2>1, <2>2
<1>2. /\ collected[q] \in 0..MaxBars /\ passed[q] \in 0..MaxBars
      /\ passed[q] = collected[q] - 1
  BY <1>0, <1>1 DEF EngineTypes
<1>3. /\ collected[s] \in 0..MaxBars /\ passed[s] \in 0..MaxBars
      /\ passed'[s] = IF s = q THEN collected[s] ELSE passed[s]
  BY <1>0, <1>1 DEF EngineTypes
<1>4. CASE s # q \/ d \notin added
  <2>1. bars_'[d][s] = bars_[d][s]
    BY <1>0, <1>1, <1>4 DEF ListTypes
  <2>2. /\ collected'[s] \in Nat /\ collected[s] <= collected'[s]
        /\ passed'[s] \in Nat /\ passed[s] <= passed'[s]
    BY <1>1, <1>2, <1>3, Bounds
  <2>3. QED
    BY <1>0, <1>1, <2>1, <2>2, BarsKept
<1>5. CASE s = q /\ d \in added
  <2>1. PICK b, g, e : b = bars_[d][s] /\ g = got_bars[d][s] /\ e = <<s, collected[s]>>
    OBVIOUS
  <2>2. collected[s] \in 1..MaxBars /\ collected'[s] = collected[s] /\ passed'[s] = collected[s]
    BY <1>1, <1>2, <1>3, <1>5, Bounds
  <2>3. e \in Bar /\ e[2] = collected[s]
    BY <2>1, <2>2 DEF Bar
  <2>4. /\ b \in Seq(Bar) /\ g \in Seq(Bar) /\ g \o b \in Seq(Bar) /\ BarsOf(d, s) = g \o b
        /\ Range(g \o b) \subseteq Bar /\ Range(g \o b) = Range(g) \cup Range(b)
    BY <2>1, BarListsOf DEF BarsOf
  <2>5. bars_'[d][s] = Append(b, e) /\ got_bars'[d][s] = g
    BY <1>0, <1>1, <1>5, <2>1 DEF ListTypes
  <2>6. PICK w : w = g \o b
    OBVIOUS
  <2>7. w \in Seq(Bar) /\ Range(w) \subseteq Bar /\ Len(g) \in Nat
    BY <2>4, <2>6, LenProperties
  <2>8. BarsOf(d, s)' = Append(w, e)
    <3>1. g \o Append(b, e) = Append(g \o b, e)
      BY <2>3, <2>4, AppendConcat
    <3>2. QED
      BY <2>5, <2>6, <3>1 DEF BarsOf
  <2>9. /\ \A x \in Range(w) : x[2] <= collected[s]
        /\ Sorted(b, Younger) /\ \E k \in 0..Len(g) : OnceAgain(w, k)
        /\ Sorted(w, Younger) \/ \A x \in Range(w) : x[2] <= passed[s]
    BY <1>0, <2>1, <2>4, <2>6 DEF BarsOfGood
  <2>10. Range(Append(w, e)) = Range(w) \cup {e}
    BY <2>3, <2>7, RangeOfAppend
  <2>11. \A x \in Range(Append(w, e)) : x[2] <= collected[s]
    BY <2>2, <2>3, <2>9, <2>10
  <2>12. \A x \in Range(b) : x[2] < e[2]
    <3>1. CASE b = <<>>
      BY <3>1, NothingListed
    <3>2. CASE b # <<>>
      <4>1. Last(b)[2] < e[2]
        BY <1>1, <1>5, <2>1, <2>3, <3>2 DEF BarIsNew
      <4>2. ASSUME NEW x \in Range(b) PROVE x[2] < e[2]
        <5>1. x \in Bar /\ x[2] <= Last(b)[2] /\ Last(b) \in Bar
          BY <2>4, <2>9, <3>2, LastIsYoungest
        <5>2. x[2] \in Nat /\ Last(b)[2] \in Nat /\ e[2] \in Nat
          BY <2>3, <5>1, Bounds DEF Bar
        <5>3. QED
          BY <4>1, <5>1, <5>2
      <4>3. QED
        BY <4>2
    <3>3. QED
      BY <3>1, <3>2
  <2>13. Sorted(Append(b, e), Younger)
    <3>1. \A x \in Range(b) : <<x, e>> \in Younger
      BY <2>3, <2>4, <2>12 DEF Younger
    <3>2. QED
      BY <2>3, <2>4, <2>9, <3>1, SortedAppend
  <2>14. \E k \in 0..Len(g) : OnceAgain(Append(w, e), k)
    <3>1. CASE \A x \in Range(w) : x[2] < e[2]
      <4>1. PICK k \in 0..Len(g) : OnceAgain(w, k)
        BY <2>9
      <4>2. k \in Nat
        BY <2>7
      <4>3. OnceAgain(Append(w, e), k)
        BY <2>3, <2>7, <3>1, <4>1, <4>2, YoungerAppended
      <4>4. QED
        BY <4>3
    <3>2. CASE \E x \in Range(w) : ~(x[2] < e[2])
      <4>1. PICK x \in Range(w) : ~(x[2] < e[2])
        BY <3>2
      <4>2. x \in Bar /\ x[2] <= collected[s]
        BY <2>7, <2>9
      <4>3. x[2] \in Nat
        BY <4>2, Bounds DEF Bar
      <4>4. ~(x[2] <= passed[s])
        BY <1>2, <1>5, <2>2, <2>3, <4>1, <4>3
      <4>5. Sorted(w, Younger)
        BY <2>9, <4>4
      <4>6. b = <<>>
        <5>1. SUFFICES ASSUME b # <<>> PROVE FALSE
          OBVIOUS
        <5>2. Last(b) \in Range(b) /\ Last(b) \in Bar
          BY <2>4, <2>9, <5>1, LastIsYoungest
        <5>3. /\ Len(b) \in Nat \ {0} /\ Len(w) = Len(g) + Len(b)
              /\ w[Len(g) + Len(b)] = b[Len(b)] /\ Len(g) \in Nat
          BY <2>4, <2>6, <5>1, EmptySeq, ConcatParts
        <5>4. w # <<>> /\ Last(w) = Last(b)
          <6>1. PICK n, m : n = Len(g) /\ m = Len(b)
            OBVIOUS
          <6>2. Len(w) = n + m /\ n + m # 0 /\ w[n + m] = b[m]
            BY <5>3, <6>1
          <6>3. QED
            BY <2>7, <6>1, <6>2, EmptySeq DEF Last
        <5>5. x[2] <= Last(b)[2] /\ Last(b)[2] < e[2]
          BY <2>7, <2>12, <4>5, <5>2, <5>4, LastIsYoungest
        <5>6. x[2] \in Nat /\ Last(b)[2] \in Nat /\ e[2] \in Nat
          BY <2>3, <4>2, <5>2, Bounds DEF Bar
        <5>7. QED
          BY <4>1, <5>5, <5>6
      <4>7. w = g
        BY <2>4, <2>6, <4>6, ConcatEmptySeq
      <4>8. \A y \in Range(w) : y[2] <= e[2]
        BY <2>3, <2>9
      <4>9. OnceAgain(Append(w, e), Len(w))
        BY <2>3, <2>7, <4>5, <4>8, LastAgain
      <4>10. QED
        BY <2>7, <4>7, <4>9
    <3>3. QED
      BY <3>1, <3>2
  <2>15. QED
    BY <2>2, <2>5, <2>8, <2>11, <2>13, <2>14 DEF BarsOfGood
<1>6. QED
  BY <1>4, <1>5

\* The first n bars are in order, and those before the first bar of v go in front of v.
LEMMA MergedInOrder ==
  ASSUME NEW s \in Symbol, NEW n \in 0..MaxBars, NEW m \in Nat, NEW v \in Seq(Bar),
         n <= m, Sorted(v, Younger), \A b \in Range(v) : b[2] <= m
  PROVE  /\ Sorted(Merged(s, n, v), Younger)
         /\ \A b \in Range(Merged(s, n, v)) : b[2] <= m
<1>1. ASSUME NEW k \in 0..MaxBars
      PROVE  /\ Bars(s, k) \in Seq(Bar) /\ Sorted(Bars(s, k), Younger)
             /\ \A b \in Range(Bars(s, k)) : b \in Bar /\ b[2] <= k
  <2>1. /\ Bars(s, k) \in Seq(Bar) /\ DOMAIN Bars(s, k) = 1..k
        /\ \A t \in 1..k : Bars(s, k)[t] = <<s, t>>
    BY BarsProperties DEF BarList, Bar
  <2>2. \A t \in 1..k : t \in 1..MaxBars /\ <<s, t>> \in Bar /\ t \in Nat
    BY Bounds DEF Bar
  <2>3. \A i, j \in 1..k : i < j => <<<<s, i>>, <<s, j>>>> \in Younger
    BY <2>2 DEF Younger
  <2>4. Sorted(Bars(s, k), Younger)
    BY <2>1, <2>3 DEF Sorted
  <2>5. ASSUME NEW b \in Range(Bars(s, k)) PROVE b \in Bar /\ b[2] <= k
    <3>1. PICK t \in 1..k : b = <<s, t>>
      BY <2>1 DEF Range
    <3>2. QED
      BY <2>2, <3>1
  <2>6. QED
    BY <2>1, <2>4, <2>5
<1>2. CASE n = 0 \/ (v # <<>> /\ n < v[1][2])
  BY <1>2 DEF Merged
<1>3. CASE n # 0 /\ v = <<>>
  <2>1. Merged(s, n, v) = Bars(s, n)
    BY <1>3 DEF Merged
  <2>2. ASSUME NEW b \in Range(Bars(s, n)) PROVE b[2] <= m
    <3>1. b \in Bar /\ b[2] <= n
      BY <1>1
    <3>2. b[2] \in Nat /\ n \in Nat
      BY <3>1, Bounds DEF Bar
    <3>3. QED
      BY <3>1, <3>2
  <2>3. QED
    BY <1>1, <2>1, <2>2
<1>4. CASE n # 0 /\ v # <<>> /\ ~(n < v[1][2])
  <2>1. /\ Len(v) \in Nat \ {0} /\ DOMAIN v = 1..Len(v)
        /\ \A i \in 1..Len(v) : v[i] \in Bar
    BY <1>4, EmptySeq, LenProperties, ElementOfSeq
  <2>2. PICK k : k = v[1][2] - 1
    OBVIOUS
  <2>3. v[1] \in Bar /\ v[1] \in Range(v) /\ v[1][2] \in 1..MaxBars
    BY <2>1 DEF Bar, Range
  <2>4. k \in 0..MaxBars /\ k < v[1][2] /\ k < m
    BY <1>4, <2>2, <2>3, Bounds
  <2>5. ASSUME NEW y \in Range(v) PROVE y \in Bar /\ v[1][2] <= y[2]
    <3>1. PICK i \in 1..Len(v) : y = v[i]
      BY <2>1 DEF Range
    <3>2. CASE i = 1
      BY <2>3, <3>1, <3>2, Bounds
    <3>3. CASE i # 1
      <4>1. <<v[1], v[i]>> \in Younger
        BY <2>1, <3>3 DEF Sorted
      <4>2. y \in Bar /\ v[1][2] < y[2] /\ y[2] \in Nat /\ v[1][2] \in Nat
        BY <2>1, <2>3, <3>1, <4>1, Bounds DEF Younger, Bar
      <4>3. QED
        BY <4>2
    <3>4. QED
      BY <3>2, <3>3
  <2>6. PICK u : u = Bars(s, k)
    OBVIOUS
  <2>7. /\ u \in Seq(Bar) /\ Sorted(u, Younger)
        /\ \A b \in Range(u) : b \in Bar /\ b[2] <= k
    BY <1>1, <2>4, <2>6
  <2>8. ASSUME NEW x \in Range(u), NEW y \in Range(v) PROVE <<x, y>> \in Younger
    <3>1. x \in Bar /\ x[2] <= k /\ y \in Bar /\ v[1][2] <= y[2]
      BY <2>5, <2>7
    <3>2. x[2] \in Nat /\ y[2] \in Nat
      BY <3>1, Bounds DEF Bar
    <3>3. x[2] < y[2]
      BY <2>3, <2>4, <3>1, <3>2
    <3>4. QED
      BY <3>1, <3>3 DEF Younger
  <2>9. Sorted(u \o v, Younger) /\ Range(u \o v) = Range(u) \cup Range(v)
    BY <2>7, <2>8, SortedConcat, RangeOfConcat
  <2>10. ASSUME NEW b \in Range(u) PROVE b[2] <= m
    <3>1. b \in Bar /\ b[2] <= k
      BY <2>7
    <3>2. b[2] \in Nat /\ k \in Nat
      BY <2>4, <3>1, Bounds DEF Bar
    <3>3. QED
      BY <2>4, <3>1, <3>2
  <2>11. Merged(s, n, v) = u \o v
    BY <1>4, <2>2, <2>6 DEF Merged
  <2>12. QED
    BY <2>9, <2>10, <2>11
<1>5. QED
  BY <1>2, <1>3, <1>4

\* add_bars puts what it takes of the snapshot in front of what waits.
LEMMA BarsMerged ==
  ASSUME Types, Control, BarsGood, NEW c \in Client, MergeBars(c),
         NEW d \in Client, NEW s \in Symbol
  PROVE  BarsOfGood(d, s)'
<1>0. /\ ListTypes /\ EngineTypes /\ ThreadTypes /\ BarsOfGood(d, s) /\ ControlOf(d)
      /\ collected[s] \in 0..MaxBars
  BY DEF Types, BarsGood, Control, EngineTypes
<1>1. /\ sender[c] = "merge" /\ UNCHANGED <<collected, passed, got_bars>>
      /\ bars_' = [bars_ EXCEPT ![c][at[c]] = Merged(at[c], snapshot[c], bars_[c][at[c]])]
  BY DEF MergeBars, engines, history
<1>2. CASE d # c \/ s # at[c]
  <2>1. bars_'[d][s] = bars_[d][s]
    BY <1>0, <1>1, <1>2 DEF ListTypes, ThreadTypes
  <2>2. BarsOf(d, s)' = BarsOf(d, s)
    BY <1>1, <2>1 DEF BarsOf
  <2>3. QED
    BY <1>0, <1>1, <2>1, <2>2 DEF BarsOfGood
<1>3. CASE d = c /\ s = at[c]
  <2>1. PICK v, n, m : v = bars_[d][s] /\ n = snapshot[d] /\ m = Merged(s, n, v)
    OBVIOUS
  <2>2. n \in 0..MaxBars /\ n <= collected[s] /\ collected[s] \in Nat
    BY <1>0, <1>1, <1>3, <2>1, Bounds DEF ThreadTypes
  <2>3. v \in Seq(Bar) /\ v \in BarList /\ got_bars[d][s] = <<>>
    BY <1>0, <1>1, <1>3, <2>1 DEF ControlOf, Starting, ListTypes, BarList, Bar
  <2>4. BarsOf(d, s) = v
    <3>1. <<>> \o v = v
      BY <2>3, ConcatEmptySeq
    <3>2. QED
      BY <2>1, <2>3, <3>1 DEF BarsOf
  <2>5. m \in Seq(Bar)
    BY <2>1, <2>2, <2>3, MergedType DEF BarList, Bar
  <2>6. BarsOf(d, s)' = m
    <3>1. <<>> \o m = m
      BY <2>5, ConcatEmptySeq
    <3>2. bars_'[d][s] = m /\ got_bars'[d][s] = <<>>
      BY <1>0, <1>1, <1>3, <2>1, <2>3 DEF ListTypes
    <3>3. QED
      BY <3>1, <3>2 DEF BarsOf
  <2>7. Sorted(v, Younger) /\ \A b \in Range(v) : b[2] <= collected[s]
    BY <1>0, <2>1, <2>4 DEF BarsOfGood
  <2>8. Sorted(m, Younger) /\ \A b \in Range(m) : b[2] <= collected[s]
    BY <2>1, <2>2, <2>3, <2>7, MergedInOrder
  <2>9. bars_'[d][s] = m /\ got_bars'[d][s] = <<>> /\ Len(<<>>) = 0
    BY <1>0, <1>1, <1>3, <2>1, <2>3 DEF ListTypes
  <2>10. OnceAgain(m, 0)
    BY <2>8, SortedOnce
  <2>11. 0 \in 0..Len(got_bars'[d][s])
    BY <2>9
  <2>12. QED
    BY <1>1, <2>6, <2>8, <2>9, <2>10, <2>11 DEF BarsOfGood
<1>4. QED
  BY <1>2, <1>3

\* What waits is taken out, whether or not the client receives it.
LEMMA BarsTaken ==
  ASSUME Types, BarsGood, NEW d \in Client, NEW s \in Symbol,
         collected' = collected, passed' = passed, bars_'[d][s] = <<>>,
         got_bars'[d][s] = got_bars[d][s] \/ got_bars'[d][s] = got_bars[d][s] \o bars_[d][s]
  PROVE  BarsOfGood(d, s)'
<1>0. BarsOfGood(d, s)
  BY DEF BarsGood
<1>1. PICK b, g, w : b = bars_[d][s] /\ g = got_bars[d][s] /\ w = g \o b
  OBVIOUS
<1>2. b \in Seq(Bar) /\ g \in Seq(Bar) /\ w \in Seq(Bar) /\ BarsOf(d, s) = w
  BY <1>1, BarListsOf DEF BarsOf
<1>3. w \o <<>> = w /\ g \o <<>> = g
  BY <1>2, ConcatEmptySeq
<1>4. PICK k \in 0..Len(g) : OnceAgain(w, k)
  BY <1>0, <1>1, <1>2 DEF BarsOfGood
<1>5. /\ \A x \in Range(w) : x[2] <= collected[s]
      /\ Sorted(w, Younger) \/ \A x \in Range(w) : x[2] <= passed[s]
  BY <1>0, <1>2 DEF BarsOfGood
<1>6. Sorted(<<>>, Younger)
  BY NothingListed DEF Sorted
<1>7. /\ DOMAIN g = 1..Len(g) /\ Len(g) \in Nat /\ Len(b) \in Nat
      /\ Len(w) = Len(g) + Len(b)
      /\ \A i \in 1..Len(g) : i \in DOMAIN w /\ w[i] = g[i]
      /\ Range(w) = Range(g) \cup Range(b)
  <2>1. /\ DOMAIN g = 1..Len(g) /\ Len(g) \in Nat /\ Len(b) \in Nat
        /\ Len(g \o b) = Len(g) + Len(b)
        /\ \A i \in 1..Len(g) : i \in DOMAIN (g \o b) /\ (g \o b)[i] = g[i]
    BY <1>2, ConcatParts
  <2>2. Range(g \o b) = Range(g) \cup Range(b)
    BY <1>2, RangeOfConcat
  <2>3. QED
    BY <1>1, <2>1, <2>2
<1>8. CASE got_bars'[d][s] = w
  <2>1. BarsOf(d, s)' = w
    BY <1>3, <1>8 DEF BarsOf
  <2>2. k \in 0..Len(w)
    BY <1>7
  <2>3. QED
    BY <1>4, <1>5, <1>6, <1>8, <2>1, <2>2 DEF BarsOfGood
<1>9. CASE got_bars'[d][s] = g
  <2>1. BarsOf(d, s)' = g
    BY <1>3, <1>9 DEF BarsOf
  <2>2. Sorted(w, Younger) => Sorted(g, Younger)
    BY <1>7 DEF Sorted
  <2>3. OnceAgain(g, k)
    BY <1>4, <1>7 DEF OnceAgain
  <2>4. QED
    BY <1>4, <1>5, <1>6, <1>7, <1>9, <2>1, <2>2, <2>3 DEF BarsOfGood
<1>10. QED
  BY <1>1, <1>8, <1>9

LEMMA BarsStep ==
  ASSUME Symbols = 1
  PROVE  Types /\ Control /\ BarsGood /\ [Next]_vars => BarsGood'
<1> SUFFICES ASSUME Types, Control, BarsGood, [Next]_vars, NEW d \in Client, NEW s \in Symbol
             PROVE  BarsOfGood(d, s)'
  BY DEF BarsGood
<1>0. /\ ListTypes /\ ThreadTypes /\ BarsOfGood(d, s) /\ collected[s] \in Nat /\ passed[s] \in Nat
  BY Bounds DEF Types, BarsGood, EngineTypes
<1>1. ASSUME UNCHANGED <<bars_, got_bars, collected, passed>> PROVE BarsOfGood(d, s)'
  BY <1>0, <1>1, BarsKept
<1>2. ASSUME NEW q \in Symbol,
             \/ AddOrder(q) \/ SaveOrder(q) \/ GiveTick(q) \/ TellInfo(q) \/ SaveInfo(q)
             \/ Working(q)
      PROVE  UNCHANGED <<bars_, got_bars, collected, passed>>
  BY <1>2, WorkingSteps DEF AddOrder, SaveOrder, GiveTick, TellInfo, SaveInfo, pending, history
<1>3. ASSUME NEW q \in Symbol, PutBar(q) PROVE BarsOfGood(d, s)'
  <2>1. /\ UNCHANGED <<bars_, got_bars, passed>>
        /\ collected' = [collected EXCEPT ![q] = collected[q] + 1]
    BY <1>3 DEF PutBar, pending, history
  <2>2. collected'[s] \in Nat /\ collected[s] <= collected'[s]
    <3>1. collected \in [Symbol -> 0..MaxBars]
      BY DEF Types, EngineTypes
    <3>2. QED
      BY <1>0, <2>1, <3>1
  <2>3. passed'[s] \in Nat /\ passed[s] <= passed'[s]
    BY <1>0, <2>1
  <2>4. QED
    BY <1>0, <2>1, <2>2, <2>3, BarsKept
<1>4. ASSUME NEW c \in Client, SendBars(c) PROVE BarsOfGood(d, s)'
  <2>1. /\ UNCHANGED <<collected, passed>>
        /\ d # c => UNCHANGED Lists(d)
    BY <1>4, SendingSteps DEF Sending, engines
  <2>2. CASE d # c
    BY <1>0, <2>1, <2>2, BarsKept DEF Lists
  <2>3. CASE d = c
    <3>1. s = 1 /\ \A r \in Symbol : r = 1
      BY DEF Symbol
    <3>2. \/ UNCHANGED <<bars_, got_bars>>
          \/ /\ Full(c) # {} /\ bars_' = [bars_ EXCEPT ![c] = SwapBars(c)]
             /\ \/ UNCHANGED got_bars
                \/ got_bars' = [got_bars EXCEPT ![c][CHOOSE r \in Full(c) : \A q \in Full(c) : q <= r]
                     = got_bars[c][CHOOSE r \in Full(c) : \A q \in Full(c) : q <= r]
                         \o bars_[c][CHOOSE r \in Full(c) : \A q \in Full(c) : q <= r]]
      BY <1>4 DEF SendBars
    <3>3. CASE UNCHANGED <<bars_, got_bars>>
      BY <1>1, <2>1, <3>3
    <3>4. CASE Full(c) # {} /\ bars_' = [bars_ EXCEPT ![c] = SwapBars(c)]
      <4>1. PICK r : r = CHOOSE u \in Full(c) : \A q \in Full(c) : q <= u
        OBVIOUS
      <4>2. r \in Full(c)
        <5>1. Full(c) \in SUBSET Symbol
          BY DEF Full
        <5>2. QED
          BY <3>4, <4>1, <5>1, ExtremeSymbol
      <4>3. r = s
        BY <3>1, <4>2 DEF Full
      <4>4. bars_'[d][s] = <<>>
        <5>1. SwapBars(c)[s] = <<>>
          <6>1. {q \in Full(c) : q < s} = {}
            <7>1. ASSUME NEW q \in Full(c), q < s PROVE FALSE
              <8>1. q = 1 /\ s = 1
                BY <3>1 DEF Full
              <8>2. QED
                BY <7>1, <8>1
            <7>2. QED
              BY <7>1
          <6>2. QED
            BY <6>1 DEF SwapBars
        <5>2. QED
          BY <1>0, <2>3, <3>4, <5>1 DEF ListTypes
      <4>5. \/ got_bars' = got_bars
            \/ got_bars' = [got_bars EXCEPT ![c][s] = got_bars[c][s] \o bars_[c][s]]
        BY <3>2, <4>1, <4>3
      <4>6. \/ got_bars'[d][s] = got_bars[d][s]
            \/ got_bars'[d][s] = got_bars[d][s] \o bars_[d][s]
        <5>1. [got_bars EXCEPT ![c][s] = got_bars[c][s] \o bars_[c][s]][d][s]
                = got_bars[d][s] \o bars_[d][s]
          BY <1>0, <2>3 DEF ListTypes
        <5>2. QED
          BY <4>5, <5>1
      <4>7. QED
        BY <2>1, <4>4, <4>6, BarsTaken
    <3>5. QED
      BY <3>2, <3>3, <3>4
  <2>4. QED
    BY <2>2, <2>3
<1>5. ASSUME NEW c \in Client, Sending(c), ~SendBars(c)
      PROVE  UNCHANGED <<bars_, got_bars, collected, passed>>
  BY <1>5 DEF Sending, SendOrders, NoOrders, SendInfo, SendTicks, EnterWait, WakeUp, TimeOut,
       pending, history, engines
<1>6. ASSUME NEW c \in Client,
             \/ Accept(c) \/ TakeSnapshot(c) \/ AddOrders(c) \/ GetInfo(c) \/ AddInfo(c)
             \/ Turning(c) \/ Cancel(c)
      PROVE  UNCHANGED <<bars_, got_bars, collected, passed>>
  BY <1>6, TurningSteps DEF Accept, TakeSnapshot, AddOrders, GetInfo, AddInfo, Cancel, engines,
       pending, history
<1>7. ASSUME NEW c \in Client, Join(c) PROVE BarsOfGood(d, s)'
  <2>1. /\ UNCHANGED <<collected, passed, got_bars>> /\ bars_' = [bars_ EXCEPT ![c] = Nothing[c]]
    BY <1>7 DEF Join, engines, history
  <2>2. CASE d # c
    <3>1. bars_'[d] = bars_[d]
      BY <1>0, <2>1, <2>2 DEF ListTypes
    <3>2. QED
      BY <1>0, <2>1, <3>1, BarsKept
  <2>3. CASE d = c
    <3>1. bars_'[d][s] = <<>>
      BY <1>0, <2>1, <2>3 DEF ListTypes, Nothing
    <3>2. QED
      BY <2>1, <3>1, BarsTaken
  <2>4. QED
    BY <2>2, <2>3
<1>8. ASSUME CleanupLoop \/ CleanupWakes \/ Scan \/ Exit \/ DestroyServer \/ UNCHANGED vars
      PROVE  UNCHANGED <<bars_, got_bars, collected, passed>>
  BY <1>8 DEF CleanupLoop, CleanupWakes, Scan, Exit, DestroyServer, Shutdown, SignalCleanup,
       JoinServerThread, JoinCleanupThread, vars, engines, pending, history
<1>9. ASSUME NEW q \in Symbol, PassBar(q) PROVE BarsOfGood(d, s)'
  BY <1>9, BarPassed
<1>10. ASSUME NEW c \in Client, MergeBars(c) PROVE BarsOfGood(d, s)'
  BY <1>10, BarsMerged
<1>11. QED
  BY <1>1, <1>2, <1>3, <1>4, <1>5, <1>6, <1>7, <1>8, <1>9, <1>10
     DEF Next, OnOrder, OnData, Initialize, SendLoop, Sending, DestroyContext, Working, Turning

------------------------------------------------------------------------------
(* The theorems                                                            *)

Inv == Types /\ Control /\ OrdersGood /\ LatestGood

LEMMA InitGood == Init => Inv /\ BarsGood
<1> SUFFICES ASSUME Init PROVE Inv /\ BarsGood
  OBVIOUS
<1>1. Types
  BY InitTypes
<1>2. Control
  BY DEF Init, Control, ControlOf, None, Zero, Nothing, Starting
<1>3. ASSUME NEW c \in Client, NEW s \in Symbol
      PROVE  OrdersOf(c, s) /\ TickOf(c, s) /\ InfoOf(c, s) /\ BarsOfGood(c, s)
  <2>1. /\ orders_[c][s] = <<>> /\ got_orders[c][s] = <<>> /\ bars_[c][s] = <<>>
        /\ got_bars[c][s] = <<>> /\ ticks_[c][s] = 0 /\ got_tick[c][s] = 0
        /\ given[s] = 0 /\ sender[c] = "off" /\ c \notin Reached
    BY DEF Init, Nothing, None, Zero, Reached
  <2>2. Orders(c, s) = <<>> /\ BarsOf(c, s) = <<>>
    BY <2>1, NothingListed DEF Orders, BarsOf
  <2>3. OrdersOf(c, s) /\ BarsOfGood(c, s)
    <3>1. DOMAIN Orders(c, s) = {} /\ Range(Orders(c, s)) = {}
      BY <2>2, NothingListed
    <3>2. DOMAIN BarsOf(c, s) = {} /\ Range(BarsOf(c, s)) = {}
      BY <2>2, NothingListed
    <3>3. ~PastOrders(c, s)
      BY <2>1 DEF PastOrders, Starting, Looping
    <3>4. Sorted(<<>>, Younger) /\ OnceAgain(<<>>, 0) /\ 0 \in 0..Len(<<>>)
      BY NothingListed DEF Sorted, OnceAgain
    <3>5. BarsOfGood(c, s)
      BY <2>1, <2>2, <3>2, <3>4 DEF BarsOfGood
    <3>6. QED
      BY <3>1, <3>3, <3>5 DEF OrdersOf, Sorted
  <2>4. TickOf(c, s) /\ InfoOf(c, s)
    BY <2>1 DEF TickOf, InfoOf, PastInfo, Newest, Starting, Looping
  <2>5. QED
    BY <2>3, <2>4
<1>4. QED
  BY <1>1, <1>2, <1>3 DEF Inv, OrdersGood, LatestGood, BarsGood

LEMMA TypesStep == Types /\ [Next]_vars => Types'
  BY EngineTypesStep, ServerTypesStep, ThreadTypesStep, ListTypesStep, LatestTypesStep DEF Types

LEMMA Invariance == Spec => []Inv
<1>1. Inv /\ [Next]_vars => Inv'
  BY TypesStep, ControlStep, OrdersStep, LatestStep DEF Inv
<1>2. Init => Inv
  BY InitGood
<1>3. QED
  BY <1>1, <1>2, PTL DEF Spec

\* Theorem: whatever the clients, the symbols and the numbers of orders, bars and
\* ticks, every variable keeps its type; the lists of a context hold bars and order
\* events only, the swap of send_bars and the merge of add_bars included.
THEOREM TypeCorrect == Spec => []TypeOK
<1>1. Inv => TypeOK
  BY TypeOKFollows DEF Inv
<1>2. QED
  BY <1>1, Invariance, PTL

\* Theorem: however the snapshot of the saved order events and the live ones overlap
\* (add_orders, add_order), and wherever sending breaks off, a client learns of the
\* order events of every symbol in order and of none twice.
THEOREM OrdersInOrder == Spec => []OrdersJoin
<1>1. Inv => OrdersJoin
  <2>1. SUFFICES ASSUME Inv, NEW c \in Client, NEW s \in Symbol,
                        NEW i \in DOMAIN Orders(c, s), NEW j \in DOMAIN Orders(c, s), i < j
                 PROVE  Orders(c, s)[i] < Orders(c, s)[j]
    BY DEF OrdersJoin
  <2>2. <<Orders(c, s)[i], Orders(c, s)[j]>> \in Before
    BY <2>1 DEF Inv, OrdersGood, OrdersOf, Sorted
  <2>3. QED
    BY <2>2 DEF Before
<1>2. QED
  BY <1>1, Invariance, PTL

\* Theorem: a context that has initialised and is not aborted lacks at most one order
\* event of every symbol, the one that was between add_order and save_order.
THEOREM OneMissedAtMost == Spec => []AtMostOneMissed
<1>1. Inv => AtMostOneMissed
  <2>1. SUFFICES ASSUME Inv, NEW c \in Client, NEW s \in Symbol, Live(c)
                 PROVE  Cardinality((1..announced[s]) \ Range(Orders(c, s))) <= 1
    BY DEF AtMostOneMissed
  <2>2. PICK k \in Nat : (1..announced[s]) \ Range(Orders(c, s)) \subseteq {k}
    <3>1. OrdersOf(c, s) /\ c \in Reached /\ PastOrders(c, s)
      BY <2>1 DEF Inv, OrdersGood, Live, PastOrders, Looping
    <3>2. QED
      BY <3>1 DEF OrdersOf
  <2>3. PICK M : M = (1..announced[s]) \ Range(Orders(c, s))
    OBVIOUS
  <2>4. M = {} \/ M = {k}
    BY <2>2, <2>3
  <2>5. Cardinality({}) = 0 /\ Cardinality({k}) = 1
    BY FS_EmptySet, FS_Singleton
  <2>6. QED
    BY <2>3, <2>4, <2>5
<1>2. QED
  BY <1>1, Invariance, PTL

\* Theorem: ticks and infos that overwrite each other never leave a live client with an
\* old price, nor, from the first info after it has initialised, with an old info.
THEOREM AlwaysLatest == Spec => []LatestFresh
<1>1. Inv => LatestFresh
  <2>1. SUFFICES ASSUME Inv, NEW c \in Client, NEW s \in Symbol, Live(c)
                 PROVE  /\ \/ Newest(got_tick[c][s], ticks_[c][s]) = 0
                           \/ Price(Newest(got_tick[c][s], ticks_[c][s])) = Price(given[s])
                        /\ \/ Newest(got_info[c][s], info_[c][s]) = told[s]
                           \/ told[s] = joined[c][s]
    BY DEF LatestFresh
  <2>2. TickOf(c, s) /\ InfoOf(c, s)
    BY <2>1 DEF Inv, LatestGood
  <2>3. c \in Reached /\ sender[c] \notin Ended /\ PastInfo(c, s)
    BY <2>1 DEF Live, PastInfo, Looping, Ended
  <2>4. QED
    BY <2>2, <2>3 DEF TickOf, InfoOf
<1>2. QED
  BY <1>1, Invariance, PTL

\* Theorem: with one symbol, a client has the bars in the order of time and each once,
\* but for one bar that may come twice in a row, wherever the snapshot of get_bars ends
\* and the live bars begin (add_bars, add_bar).
THEOREM BarsInOrder == ASSUME Symbols = 1 PROVE Spec => []BarsJoin
<1>1. Inv /\ BarsGood /\ [Next]_vars => BarsGood'
  BY BarsStep DEF Inv
<1>2. BarsGood => BarsJoin
  <2>1. SUFFICES ASSUME BarsGood, NEW c \in Client, NEW s \in Symbol
                 PROVE  \E k \in 0..Len(got_bars[c][s]) :
                          \A i, j \in DOMAIN BarsOf(c, s) : i < j =>
                            \/ BarsOf(c, s)[i][2] < BarsOf(c, s)[j][2]
                            \/ i = k /\ j = k + 1 /\ BarsOf(c, s)[i][2] = BarsOf(c, s)[j][2]
    BY DEF BarsJoin
  <2>2. PICK k \in 0..Len(got_bars[c][s]) : OnceAgain(BarsOf(c, s), k)
    <3>1. BarsOfGood(c, s)
      BY <2>1 DEF BarsGood
    <3>2. QED
      BY <3>1 DEF BarsOfGood
  <2>3. QED
    BY <2>2 DEF OnceAgain
<1>3. Init => BarsGood
  BY InitGood
<1>4. QED
  BY <1>1, <1>2, <1>3, Invariance, PTL DEF Spec
===============================================================================
