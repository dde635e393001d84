--------------------------- MODULE EventQueueProofs ---------------------------
(***************************************************************************)
(* Theorems about EventQueue for any number of producers, workers and      *)
(* events.                                                                 *)
(*                                                                         *)
(* The inductive invariant IInv has three named parts beside the types:    *)
(*   Control   what the program counters say about the flags, the lock and *)
(*             the contents of eptr and arg;                               *)
(*   Identity  no event is in two places: the queue, a worker's hand, or a *)
(*             producer's argument that is still to be enqueued;           *)
(*   NoLostWakeup itself, which is inductive relative to Control.          *)
(***************************************************************************)
EXTENDS EventQueue, SequenceLemmas

Running == {eptr[w] : w \in Workers} \ {NoEvent}

ToEnqueue == {p \in Producers : producer[p] = "lock"}

Control ==
  /\ shutdown_ <=> owner # "alive"
  /\ owner = "destroyed" => threads_ = {}
  /\ \A w \in Workers : /\ terminated_[w] <=> worker[w] = "done"
                        /\ w \notin threads_ => worker[w] = "done"
                        /\ eptr[w] # NoEvent <=> worker[w] = "exec"
  /\ \A p \in Producers : /\ arg[p] # NoEvent <=> producer[p] # "idle"
                          /\ lock_ = p <=> producer[p] = "signal"

Identity ==
  /\ IsInjective(queue_)
  /\ Range(queue_) \cap Running = {}
  /\ \A w, x \in Workers : eptr[w] = eptr[x] /\ eptr[w] # NoEvent => w = x
  /\ Range(queue_) \cup Running \cup Range(executed) \subseteq offered
  /\ \A p \in ToEnqueue :
       /\ arg[p] \in offered
       /\ arg[p] \notin Range(queue_) \cup Running \cup Range(executed)
       /\ \A q \in ToEnqueue : arg[p] = arg[q] => p = q

Base == TypeOK /\ Control

IInv == Base /\ NoLostWakeup /\ Identity

------------------------------------------------------------------------------
(* Types                                                                   *)

\* The types and the control facts hold when the constructor has returned.
LEMMA InitBase == Init => Base
BY EmptySeq, NoEventAssumption, FreeIsNoProducer DEF Init, Base, TypeOK, Control, WorkerPc, ProducerPc, OwnerPc, Free

\* No step of a producer, a worker or the destructor breaks them.
LEMMA NextBase == Base /\ [Next]_vars => Base'
<1> SUFFICES ASSUME Base, [Next]_vars PROVE Base'
  OBVIOUS
<1> USE NoEventAssumption, FreeIsNoProducer
        DEF Base, TypeOK, Control, WorkerPc, ProducerPc, OwnerPc, GoTo
<1>1. ASSUME NEW p \in Producers, NEW e \in Event \ offered, PushCheck(p, e)
      PROVE  Base'
  <2>1. CASE shutdown_
    BY <1>1, <2>1 DEF PushCheck
  <2>2. CASE ~shutdown_
    <3>1. TypeOK'
      BY <1>1, <2>2 DEF PushCheck
    <3>2. Control'
      BY <1>1, <2>2 DEF PushCheck
    <3>3. QED
      BY <3>1, <3>2
  <2>3. QED
    BY <2>1, <2>2
<1>2. ASSUME NEW p \in Producers, PushEnqueue(p)
      PROVE  Base'
  <2>1. arg[p] \in Event
    BY <1>2 DEF PushEnqueue
  <2>2. Append(queue_, arg[p]) \in Seq(Event) /\ Append(accepted, arg[p]) \in Seq(Event)
    BY <2>1, AppendProperties
  <2>3. CASE shutdown_
    BY <1>2, <2>3 DEF PushEnqueue
  <2>4. CASE ~shutdown_
    <3>1. TypeOK'
      BY <1>2, <2>2, <2>4 DEF PushEnqueue
    <3>2. Control'
      BY <1>2, <2>4 DEF PushEnqueue
    <3>3. QED
      BY <3>1, <3>2
  <2>5. QED
    BY <2>3, <2>4
<1>3. ASSUME NEW p \in Producers, PushSignal(p)
      PROVE  Base'
  BY <1>3 DEF PushSignal
<1>4. ASSUME NEW w \in Workers, CheckLoop(w)
      PROVE  Base'
  <2>1. CASE shutdown_
    <3>1. TypeOK'
      BY <1>4, <2>1 DEF CheckLoop
    <3>2. \A x \in Workers \ {w} : /\ terminated_'[x] = terminated_[x]
                                  /\ worker'[x] = worker[x]
      BY <1>4, <2>1 DEF CheckLoop
    <3> terminated_'[w] = TRUE /\ worker'[w] = "done"
      BY <1>4, <2>1 DEF CheckLoop
    <3>3. Control'
      BY <1>4, <2>1, <3>2 DEF CheckLoop
    <3>4. QED
      BY <3>1, <3>3
  <2>2. CASE ~shutdown_
    BY <1>4, <2>2 DEF CheckLoop
  <2>3. QED
    BY <2>1, <2>2
<1>5. ASSUME NEW w \in Workers, PopEvent(w)
      PROVE  Base'
  <2>1. Head(queue_) \in Event /\ Tail(queue_) \in Seq(Event)
    BY <1>5, HeadTailProperties DEF PopEvent
  <2>2. QED
    BY <1>5, <2>1 DEF PopEvent
<1>6. ASSUME NEW w \in Workers, PopNothing(w)
      PROVE  Base'
  BY <1>6 DEF PopNothing
<1>7. ASSUME NEW w \in Workers, Execute(w)
      PROVE  Base'
  <2>1. eptr[w] \in Event
    BY <1>7 DEF Execute
  <2>2. Append(executed, eptr[w]) \in Seq(Event)
    BY <2>1, AppendProperties
  <2>3. QED
    BY <1>7, <2>2 DEF Execute
<1>8. ASSUME NEW w \in Workers, EnterWait(w)
      PROVE  Base'
  BY <1>8, ZenonT(40) DEF EnterWait
<1>9. ASSUME NEW w \in Workers, WakeUp(w)
      PROVE  Base'
  BY <1>9 DEF WakeUp
<1>10. ASSUME NEW w \in Workers, TimeOut(w)
      PROVE  Base'
  BY <1>10 DEF TimeOut
<1>11. ASSUME Shutdown
      PROVE  Base'
  BY <1>11 DEF Shutdown
<1>12. ASSUME SignalWorkers
      PROVE  Base'
  BY <1>12 DEF SignalWorkers
<1>13. ASSUME JoinTerminated
      PROVE  Base'
  BY <1>13 DEF JoinTerminated
<1>14. ASSUME Sleep
      PROVE  Base'
  BY <1>14 DEF Sleep
<1>15. ASSUME UNCHANGED vars
      PROVE  Base'
  BY <1>15 DEF vars
<1>16. QED
  BY <1>1, <1>2, <1>3, <1>4, <1>5, <1>6, <1>7, <1>8, <1>9, <1>10, <1>11, <1>12, <1>13, <1>14, <1>15
     DEF Next, Push, Run, Destroy, Gone

------------------------------------------------------------------------------
(* The invariant                                                           *)

\* No step leaves an event behind with every worker asleep.
LEMMA NextNoLostWakeup == Base /\ NoLostWakeup /\ [Next]_vars => NoLostWakeup'
<1> SUFFICES ASSUME Base, NoLostWakeup, [Next]_vars PROVE NoLostWakeup'
  OBVIOUS
<1> USE DEF Base, TypeOK, NoLostWakeup, WorkerPc, ProducerPc, GoTo
<1>1. ASSUME NEW p \in Producers, NEW e \in Event \ offered, PushCheck(p, e)
      PROVE  NoLostWakeup'
  BY <1>1 DEF PushCheck
<1>2. ASSUME NEW p \in Producers, PushEnqueue(p)
      PROVE  NoLostWakeup'
  BY <1>2 DEF PushEnqueue
<1>3. ASSUME NEW p \in Producers, PushSignal(p)
      PROVE  NoLostWakeup'
  BY <1>3 DEF PushSignal
<1>4. ASSUME NEW w \in Workers, CheckLoop(w)
      PROVE  NoLostWakeup'
  BY <1>4 DEF CheckLoop
<1>5. ASSUME NEW w \in Workers, PopEvent(w)
      PROVE  NoLostWakeup'
  BY <1>5 DEF PopEvent
<1>6. ASSUME NEW w \in Workers, PopNothing(w)
      PROVE  NoLostWakeup'
  BY <1>6 DEF PopNothing
<1>7. ASSUME NEW w \in Workers, Execute(w)
      PROVE  NoLostWakeup'
  BY <1>7 DEF Execute
<1>8. ASSUME NEW w \in Workers, EnterWait(w)
      PROVE  NoLostWakeup'
  BY <1>8 DEF EnterWait
<1>9. ASSUME NEW w \in Workers, WakeUp(w)
      PROVE  NoLostWakeup'
  BY <1>9 DEF WakeUp
<1>10. ASSUME NEW w \in Workers, TimeOut(w)
      PROVE  NoLostWakeup'
  BY <1>10 DEF TimeOut
<1>11. ASSUME Shutdown
      PROVE  NoLostWakeup'
  BY <1>11 DEF Shutdown
<1>12. ASSUME SignalWorkers
      PROVE  NoLostWakeup'
  BY <1>12 DEF SignalWorkers
<1>13. ASSUME JoinTerminated
      PROVE  NoLostWakeup'
  BY <1>13 DEF JoinTerminated
<1>14. ASSUME Sleep
      PROVE  NoLostWakeup'
  BY <1>14 DEF Sleep
<1>15. ASSUME UNCHANGED vars
      PROVE  NoLostWakeup'
  BY <1>15 DEF vars
<1>16. QED
  BY <1>1, <1>2, <1>3, <1>4, <1>5, <1>6, <1>7, <1>8, <1>9, <1>10, <1>11, <1>12, <1>13, <1>14, <1>15
     DEF Next, Push, Run, Destroy, Gone

\* No step lets an event be in two places at once.
LEMMA NextIdentity == Base /\ Identity /\ [Next]_vars => Identity'
<1> SUFFICES ASSUME Base, Identity, [Next]_vars PROVE Identity'
  OBVIOUS
<1> USE NoEventAssumption DEF Base, TypeOK, Control, Identity, Running, ToEnqueue, WorkerPc, ProducerPc, GoTo
<1>1. ASSUME NEW p \in Producers, NEW e \in Event \ offered, PushCheck(p, e)
      PROVE  Identity'
  <2>1. CASE shutdown_
    BY <1>1, <2>1 DEF PushCheck
  <2>2. CASE ~shutdown_
    <3>1. /\ ToEnqueue' = ToEnqueue \cup {p} /\ p \notin ToEnqueue
          /\ arg' = [arg EXCEPT ![p] = e]
          /\ offered' = offered \cup {e}
          /\ UNCHANGED <<queue_, eptr, executed>>
      BY <1>1, <2>2 DEF PushCheck
    <3>2. e \notin Range(queue_) \cup Running \cup Range(executed)
      BY <1>1
    <3>3. \A q \in ToEnqueue : arg'[q] = arg[q] /\ arg[q] # e
      BY <1>1, <3>1
    <3>4. arg'[p] = e
      BY <3>1
    <3>5. QED
      BY <3>1, <3>2, <3>3, <3>4
  <2>3. QED
    BY <2>1, <2>2
<1>2. ASSUME NEW p \in Producers, PushEnqueue(p)
      PROVE  Identity'
  <2>1. arg[p] \in Event /\ p \in ToEnqueue
    BY <1>2 DEF PushEnqueue
  <2>2. CASE shutdown_
    BY <1>2, <2>2 DEF PushEnqueue
  <2>3. CASE ~shutdown_
    <3>1. IsInjective(queue_') /\ Range(queue_') = Range(queue_) \cup {arg[p]}
      <4>1. queue_' = Append(queue_, arg[p])
        BY <1>2, <2>3 DEF PushEnqueue
      <4>2. queue_ \in Seq(Event) /\ IsInjective(queue_) /\ arg[p] \notin Range(queue_)
        BY <2>1
      <4>3. Range(Append(queue_, arg[p])) = Range(queue_) \cup {arg[p]}
        BY <2>1, <4>2, RangeOfAppend
      <4>4. IsInjective(Append(queue_, arg[p]))
        BY <2>1, <4>2, InjectiveAppend
      <4>5. QED
        BY <4>1, <4>3, <4>4
    <3>2. ToEnqueue' = ToEnqueue \ {p}
      BY <1>2, <2>3 DEF PushEnqueue
    <3>3. UNCHANGED <<arg, eptr, executed, offered>>
      BY <1>2, <2>3 DEF PushEnqueue
    <3>4. QED
      BY <2>1, <3>1, <3>2, <3>3
  <2>4. QED
    BY <2>2, <2>3
<1>3. ASSUME NEW p \in Producers, PushSignal(p)
      PROVE  Identity'
  BY <1>3 DEF PushSignal
<1>4. ASSUME NEW w \in Workers, CheckLoop(w)
      PROVE  Identity'
  BY <1>4 DEF CheckLoop
<1>5. ASSUME NEW w \in Workers, PopEvent(w)
      PROVE  Identity'
  <2>1. /\ IsInjective(queue_')
        /\ Range(queue_) = Range(queue_') \cup {Head(queue_)}
        /\ Head(queue_) \notin Range(queue_')
        /\ Head(queue_) \in Event
    BY <1>5, RangeOfTail, InjectiveTail, HeadTailProperties DEF PopEvent
  <2>2. Running' = Running \cup {Head(queue_)}
    BY <1>5, <2>1 DEF PopEvent
  <2>3. ToEnqueue' = ToEnqueue /\ UNCHANGED <<arg, executed, offered>>
    BY <1>5 DEF PopEvent
  <2>4. eptr' = [eptr EXCEPT ![w] = Head(queue_)] /\ Head(queue_) \notin Running
    BY <1>5, <2>1 DEF PopEvent
  <2>5. QED
    BY <2>1, <2>2, <2>3, <2>4
<1>6. ASSUME NEW w \in Workers, PopNothing(w)
      PROVE  Identity'
  BY <1>6 DEF PopNothing
<1>7. ASSUME NEW w \in Workers, Execute(w)
      PROVE  Identity'
  <2>1. eptr[w] \in Event /\ eptr[w] \in Running
    BY <1>7 DEF Execute
  <2>2. Range(executed') = Range(executed) \cup {eptr[w]}
    BY <1>7, <2>1, RangeOfAppend DEF Execute
  <2>3. Running' = Running \ {eptr[w]}
    BY <1>7, <2>1 DEF Execute
  <2>4. ToEnqueue' = ToEnqueue /\ UNCHANGED <<arg, queue_, offered>>
    BY <1>7 DEF Execute
  <2>5. eptr' = [eptr EXCEPT ![w] = NoEvent]
    BY <1>7 DEF Execute
  <2>6. QED
    BY <2>1, <2>2, <2>3, <2>4, <2>5
<1>8. ASSUME NEW w \in Workers, EnterWait(w)
      PROVE  Identity'
  BY <1>8 DEF EnterWait
<1>9. ASSUME NEW w \in Workers, WakeUp(w)
      PROVE  Identity'
  BY <1>9 DEF WakeUp
<1>10. ASSUME NEW w \in Workers, TimeOut(w)
      PROVE  Identity'
  BY <1>10 DEF TimeOut
<1>11. ASSUME Shutdown
      PROVE  Identity'
  BY <1>11 DEF Shutdown
<1>12. ASSUME SignalWorkers
      PROVE  Identity'
  BY <1>12 DEF SignalWorkers
<1>13. ASSUME JoinTerminated
      PROVE  Identity'
  BY <1>13 DEF JoinTerminated
<1>14. ASSUME Sleep
      PROVE  Identity'
  BY <1>14 DEF Sleep
<1>15. ASSUME UNCHANGED vars
      PROVE  Identity'
  BY <1>15 DEF vars
<1>16. QED
  BY <1>1, <1>2, <1>3, <1>4, <1>5, <1>6, <1>7, <1>8, <1>9, <1>10, <1>11, <1>12, <1>13, <1>14, <1>15
     DEF Next, Push, Run, Destroy, Gone

\* The inductive invariant holds in every reachable state.
LEMMA Invariance == Spec => []IInv
<1>1. Init => IInv
  <2>1. Init => Base
    BY InitBase
  <2>2. Init => NoLostWakeup
    BY DEF Init, NoLostWakeup
  <2>3. Init => Identity
    BY DEF Init, Identity, Running, ToEnqueue, Range, IsInjective
  <2>4. QED
    BY <2>1, <2>2, <2>3 DEF IInv
<1>2. IInv /\ [Next]_vars => IInv'
  BY NextBase, NextNoLostWakeup, NextIdentity DEF IInv
<1>3. QED
  BY <1>1, <1>2, PTL DEF Spec

------------------------------------------------------------------------------
(* The theorems                                                            *)

\* Every variable keeps its type: in particular only real events are queued,
\* executed and held, never the null pointer.
THEOREM TypeCorrect == Spec => []TypeOK
<1>1. IInv => TypeOK
  BY DEF IInv, Base
<1>2. QED
  BY <1>1, Invariance, PTL

\* No event is left behind with every worker asleep and no signal pending, for
\* any number of producers and workers (push_event, thread_func, event::wait).
THEOREM WakeupsAreNotLost == Spec => []NoLostWakeup
<1>1. IInv => NoLostWakeup
  BY DEF IInv
<1>2. QED
  BY <1>1, Invariance, PTL

\* When ~event_queue has returned, every worker has left thread_func.
THEOREM DestructorJoinsAll == Spec => []DestroyedQuiet
<1>1. IInv => DestroyedQuiet
  BY DEF IInv, Base, Control, DestroyedQuiet
<1>2. QED
  BY <1>1, Invariance, PTL

\* Every step of the queue is a step of the abstract FIFO or leaves it alone:
\* events are started in posting order, each at most once, never after close.
THEOREM RefinesFifo == Spec => Fifo!SafeSpec
<1>1. Init => Fifo!Init
  BY DEF Init, Fifo!Init
<1>2. IInv /\ [Next]_vars => [Fifo!Next]_(Fifo!vars)
  <2> SUFFICES ASSUME IInv, [Next]_vars PROVE [Fifo!Next]_(Fifo!vars)
    OBVIOUS
  <2> USE NoEventAssumption DEF IInv, Base, TypeOK, GoTo, Fifo!vars
  <2>1. ASSUME NEW p \in Producers, NEW e \in Event \ offered, PushCheck(p, e)
        PROVE  [Fifo!Next]_(Fifo!vars)
    BY <2>1 DEF PushCheck
  <2>2. ASSUME NEW p \in Producers, PushEnqueue(p)
        PROVE  [Fifo!Next]_(Fifo!vars)
    <3>1. CASE shutdown_
      BY <2>2, <3>1 DEF PushEnqueue
    <3>2. CASE ~shutdown_
      <4> PICK e \in Event : e = arg[p]
        BY <2>2 DEF PushEnqueue, Control
      <4>1. e \notin Range(queue_) \cup Running \cup Range(executed)
        <5>1. p \in ToEnqueue
          BY <2>2 DEF PushEnqueue, ToEnqueue
        <5>2. QED
          BY <5>1 DEF Identity
      <4>2. Fifo!Post(e)
        <5>1. e \notin Fifo!Known
          BY <4>1 DEF Running, Fifo!Known, Fifo!Range, Range
        <5>2. queue_' = Append(queue_, e) /\ UNCHANGED <<eptr, executed, shutdown_>>
          BY <2>2, <3>2 DEF PushEnqueue
        <5>3. QED
          BY <3>2, <5>1, <5>2 DEF Fifo!Post
      <4>3. QED
        BY <4>2 DEF Fifo!Next
    <3>3. QED
      BY <3>1, <3>2
  <2>3. ASSUME NEW p \in Producers, PushSignal(p)
        PROVE  [Fifo!Next]_(Fifo!vars)
    BY <2>3 DEF PushSignal
  <2>4. ASSUME NEW w \in Workers, CheckLoop(w)
        PROVE  [Fifo!Next]_(Fifo!vars)
    BY <2>4 DEF CheckLoop
  <2>5. ASSUME NEW w \in Workers, PopEvent(w)
        PROVE  [Fifo!Next]_(Fifo!vars)
    <3>1. Head(queue_) \in Event
      BY <2>5, HeadTailProperties DEF PopEvent
    <3>2. {eptr'[x] : x \in Workers} \ {NoEvent}
            = ({eptr[x] : x \in Workers} \ {NoEvent}) \cup {Head(queue_)}
      BY <2>5, <3>1 DEF PopEvent, Control
    <3>3. Fifo!Start
      BY <2>5, <3>2 DEF PopEvent, Fifo!Start
    <3>4. QED
      BY <3>3 DEF Fifo!Next
  <2>6. ASSUME NEW w \in Workers, PopNothing(w)
        PROVE  [Fifo!Next]_(Fifo!vars)
    BY <2>6 DEF PopNothing
  <2>7. ASSUME NEW w \in Workers, Execute(w)
        PROVE  [Fifo!Next]_(Fifo!vars)
    <3> PICK e \in Event : e = eptr[w]
      BY <2>7 DEF Execute, Control
    <3>1. {eptr'[x] : x \in Workers} \ {NoEvent}
            = ({eptr[x] : x \in Workers} \ {NoEvent}) \ {e}
      BY <2>7 DEF Execute, Identity
    <3>2. Fifo!Finish(e)
      BY <2>7, <3>1 DEF Execute, Fifo!Finish
    <3>3. QED
      BY <3>2 DEF Fifo!Next
  <2>8. ASSUME NEW w \in Workers, EnterWait(w)
        PROVE  [Fifo!Next]_(Fifo!vars)
    BY <2>8 DEF EnterWait
  <2>9. ASSUME NEW w \in Workers, WakeUp(w)
        PROVE  [Fifo!Next]_(Fifo!vars)
    BY <2>9 DEF WakeUp
  <2>10. ASSUME NEW w \in Workers, TimeOut(w)
        PROVE  [Fifo!Next]_(Fifo!vars)
    BY <2>10 DEF TimeOut
  <2>11. ASSUME Shutdown
        PROVE  [Fifo!Next]_(Fifo!vars)
    <3>1. Fifo!Close
      BY <2>11 DEF Shutdown, Control, Fifo!Close
    <3>2. QED
      BY <3>1 DEF Fifo!Next
  <2>12. ASSUME SignalWorkers
        PROVE  [Fifo!Next]_(Fifo!vars)
    BY <2>12 DEF SignalWorkers
  <2>13. ASSUME JoinTerminated
        PROVE  [Fifo!Next]_(Fifo!vars)
    BY <2>13 DEF JoinTerminated
  <2>14. ASSUME Sleep
        PROVE  [Fifo!Next]_(Fifo!vars)
    BY <2>14 DEF Sleep
  <2>15. ASSUME UNCHANGED vars
        PROVE  [Fifo!Next]_(Fifo!vars)
    BY <2>15 DEF vars
  <2>16. QED
    BY <2>1, <2>2, <2>3, <2>4, <2>5, <2>6, <2>7, <2>8, <2>9, <2>10, <2>11, <2>12, <2>13, <2>14, <2>15
     DEF Next, Push, Run, Destroy, Gone
<1>3. QED
  BY <1>1, <1>2, Invariance, PTL DEF Spec, Fifo!SafeSpec

------------------------------------------------------------------------------
(* One worker                                                              *)

Held(w) == IF eptr[w] = NoEvent THEN <<>> ELSE <<eptr[w]>>

\* What was accepted is what was executed, then what the worker holds, then
\* what waits.
Conserved(w) == accepted = executed \o Held(w) \o queue_

\* With a single worker (the default of data_event_queue and
\* order_event_queue), events are executed in the order they were pushed.
THEOREM OneWorkerInOrder ==
  ASSUME NEW w, Workers = {w}
  PROVE  Spec => []InOrder
<1>1. Init => Conserved(w)
  BY DEF Init, Conserved, Held
<1>2. IInv /\ Conserved(w) /\ [Next]_vars => Conserved(w)'
  <2> SUFFICES ASSUME IInv, Conserved(w), [Next]_vars PROVE Conserved(w)'
    OBVIOUS
  <2> USE NoEventAssumption DEF IInv, Base, TypeOK, Control, Conserved, Held, GoTo
  <2>1. CASE UNCHANGED <<accepted, executed, eptr, queue_>>
    BY <2>1
  <2>2. ASSUME NEW p \in Producers, PushEnqueue(p), ~shutdown_
        PROVE  Conserved(w)'
    <3>1. arg[p] \in Event
      BY <2>2 DEF PushEnqueue
    <3>2. Held(w) \in Seq(Event) /\ <<arg[p]>> \in Seq(Event)
      BY <3>1
    <3>3. accepted' = Append(accepted, arg[p]) /\ queue_' = Append(queue_, arg[p])
      BY <2>2 DEF PushEnqueue
    <3>4. accepted' = accepted \o <<arg[p]>> /\ queue_' = queue_ \o <<arg[p]>>
      BY <3>1, <3>3, AppendIsConcat
    <3>5. executed' = executed /\ Held(w)' = Held(w)
      BY <2>2 DEF PushEnqueue
    <3> DEFINE front == executed \o Held(w)
    <3>6. front \in Seq(Event)
      BY <3>2, ConcatProperties
    <3>7. accepted = front \o queue_ /\ (Conserved(w)' <=> accepted' = front \o queue_')
      BY <3>5
    <3> HIDE DEF front
    <3>8. (front \o queue_) \o <<arg[p]>> = front \o (queue_ \o <<arg[p]>>)
      BY <3>2, <3>6, ConcatAssociative
    <3>9. QED
      BY <3>4, <3>7, <3>8
  <2>3. ASSUME NEW x \in Workers, PopEvent(x)
        PROVE  Conserved(w)'
    <3>1. x = w /\ eptr[w] = NoEvent
      BY <2>3 DEF PopEvent
    <3>2. Head(queue_) \in Event /\ Tail(queue_) \in Seq(Event)
      BY <2>3, HeadTailProperties DEF PopEvent
    <3>3. queue_ = <<Head(queue_)>> \o Tail(queue_)
      BY <2>3, <3>2 DEF PopEvent
    <3>4. Held(w) = <<>> /\ Held(w)' = <<Head(queue_)>>
      BY <2>3, <3>1, <3>2 DEF PopEvent
    <3>5. executed' = executed /\ accepted' = accepted /\ queue_' = Tail(queue_)
      BY <2>3 DEF PopEvent
    <3>6. executed \o <<>> = executed /\ <<Head(queue_)>> \in Seq(Event)
      BY <3>2, ConcatEmptySeq
    <3>7. executed \o (<<Head(queue_)>> \o Tail(queue_))
            = (executed \o <<Head(queue_)>>) \o Tail(queue_)
      BY <3>2, <3>6, ConcatAssociative
    <3>8. accepted = executed \o (<<Head(queue_)>> \o Tail(queue_))
      BY <3>3, <3>4, <3>6
    <3>9. QED
      BY <3>4, <3>5, <3>7, <3>8
  <2>4. ASSUME NEW x \in Workers, Execute(x)
        PROVE  Conserved(w)'
    <3>1. x = w /\ eptr[w] \in Event
      BY <2>4 DEF Execute
    <3>2. Held(w) = <<eptr[w]>> /\ Held(w)' = <<>>
      BY <2>4, <3>1 DEF Execute
    <3>3. executed' = executed \o <<eptr[w]>> /\ executed' \in Seq(Event)
      BY <2>4, <3>1, AppendIsConcat, AppendProperties DEF Execute
    <3>4. accepted' = accepted /\ queue_' = queue_
      BY <2>4 DEF Execute
    <3>5. QED
      BY <3>2, <3>3, <3>4, ConcatEmptySeq
  <2>5. QED
    <3>1. ASSUME NEW p \in Producers, PushEnqueue(p), shutdown_
          PROVE  UNCHANGED <<accepted, executed, eptr, queue_>>
      BY <3>1 DEF PushEnqueue
    <3>2. QED
      BY <2>1, <2>2, <2>3, <2>4, <3>1
         DEF Next, Push, Run, Destroy, Gone, vars, PushCheck, PushSignal, CheckLoop,
             PopNothing, EnterWait, WakeUp, TimeOut, Shutdown, SignalWorkers,
             JoinTerminated, Sleep
<1>3. IInv /\ Conserved(w) => InOrder
  <2> SUFFICES ASSUME IInv, Conserved(w) PROVE InOrder
    OBVIOUS
  <2> DEFINE rest == Held(w) \o queue_
  <2>1. Held(w) \in Seq(Event) /\ executed \in Seq(Event) /\ queue_ \in Seq(Event)
    BY DEF IInv, Base, TypeOK, Held
  <2>2. rest \in Seq(Event) /\ accepted = executed \o rest
    BY <2>1, ConcatProperties, ConcatAssociative DEF Conserved
  <2> HIDE DEF rest
  <2>3. Len(executed) \in Nat /\ Len(rest) \in Nat /\ Len(accepted) = Len(executed) + Len(rest)
    BY <2>1, <2>2, ConcatProperties, LenProperties
  <2>4. SubSeq(accepted, 1, Len(executed)) = SubSeq(executed, 1, Len(executed))
    <3>1. CASE Len(executed) = 0
      BY <2>3, <3>1, SubSeqEmpty
    <3>2. CASE Len(executed) # 0
      <4>1. Len(executed) \in 1..Len(executed) /\ 1 \in 1..Len(executed)
        BY <2>3, <3>2
      <4>2. QED
        BY <2>1, <2>2, <4>1, SubSeqOfConcat1
    <3>3. QED
      BY <3>1, <3>2
  <2>5. QED
    BY <2>3, <2>4 DEF InOrder, IsPrefix
<1>4. QED
  BY <1>1, <1>2, <1>3, Invariance, PTL DEF Spec
==============================================================================
