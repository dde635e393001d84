------------------------------ MODULE EventQueue ------------------------------
(***************************************************************************)
(* fx::event_queue (fxquant/event_queue.cpp) and the fx::event it sleeps   *)
(* on (common/event.cpp): producers push events, worker threads pop and    *)
(* execute them outside the lock, and the destructor stops the workers.    *)
(*                                                                         *)
(* One action per stretch of code between two points where another thread  *)
(* can intervene.  lock_ is the queue's mutex; the event's own mutex_ is   *)
(* held for the whole of signal() and of each step of wait(), so those     *)
(* steps are atomic.  shutdown_ and terminated_ are plain bools that are   *)
(* also read without the mutex: such a read is a step of its own that sees *)
(* the value of that moment.                                               *)
(***************************************************************************)
EXTENDS Sequences, FiniteSets, SequencesExt

CONSTANTS Event,      \* event objects; each is made for one push_event call
          Producers,  \* threads that call push_event
          Workers,    \* the nthreads threads the constructor starts
          NoEvent     \* the null base_event_ptr

ASSUME WorkersAssumption == Workers # {} /\ Workers \cap Producers = {}
ASSUME NoEventAssumption == NoEvent \notin Event

Free == "free"        \* lock_ is not held

ASSUME FreeIsNoProducer == Free \notin Producers

VARIABLES
  shutdown_,   \* the destructor has begun
  lock_,       \* Free or the producer that holds the mutex across a step
  signaled_,   \* signal_.signaled_
  queue_,      \* the events that wait, oldest first
  threads_,    \* the workers the destructor has not joined yet
  terminated_, \* terminated_[w]: thread_context::terminated_
  worker,      \* where each worker is in thread_func
  eptr,        \* the event each worker holds, or NoEvent
  producer,    \* where each producer is in push_event
  arg,         \* the event each producer is pushing, or NoEvent
  owner,       \* where the owner is: "alive" until it runs ~event_queue
  offered,     \* history: events push_event was called with
  accepted,    \* history: events push_event enqueued, in that order
  executed     \* history: events whose execution has returned, in that order

vars == <<shutdown_, lock_, signaled_, queue_, threads_, terminated_, worker,
          eptr, producer, arg, owner, offered, accepted, executed>>

WorkerPc   == {"loop", "pop", "exec", "wait", "blocked", "done"}
ProducerPc == {"idle", "lock", "signal"}
OwnerPc    == {"alive", "signal", "join", "sleep", "destroyed"}

TypeOK == /\ shutdown_ \in BOOLEAN
          /\ lock_ \in Producers \cup {Free}
          /\ signaled_ \in BOOLEAN
          /\ queue_ \in Seq(Event)
          /\ threads_ \subseteq Workers
          /\ terminated_ \in [Workers -> BOOLEAN]
          /\ worker \in [Workers -> WorkerPc]
          /\ eptr \in [Workers -> Event \cup {NoEvent}]
          /\ producer \in [Producers -> ProducerPc]
          /\ arg \in [Producers -> Event \cup {NoEvent}]
          /\ owner \in OwnerPc
          /\ offered \subseteq Event
          /\ accepted \in Seq(Event)
          /\ executed \in Seq(Event)

Init == /\ shutdown_ = FALSE
        /\ lock_ = Free
        /\ signaled_ = FALSE
        /\ queue_ = <<>>
        /\ threads_ = Workers
        /\ terminated_ = [w \in Workers |-> FALSE]
        /\ worker = [w \in Workers |-> "loop"]
        /\ eptr = [w \in Workers |-> NoEvent]
        /\ producer = [p \in Producers |-> "idle"]
        /\ arg = [p \in Producers |-> NoEvent]
        /\ owner = "alive"
        /\ offered = {}
        /\ accepted = <<>>
        /\ executed = <<>>

------------------------------------------------------------------------------
(* push_event.  A producer that is inside the call when the queue is       *)
(* destroyed has no further step here: it would touch a destroyed object,  *)
(* and to prevent that is up to the owner (Backtest).                      *)

\* the call and its first, unlocked look at shutdown_
PushCheck(p, e) ==
  /\ producer[p] = "idle"
  /\ owner # "destroyed"
  /\ offered' = offered \cup {e}
  /\ IF shutdown_
       THEN UNCHANGED <<producer, arg>>            \* return false
       ELSE /\ producer' = [producer EXCEPT ![p] = "lock"]
            /\ arg' = [arg EXCEPT ![p] = e]
  /\ UNCHANGED <<shutdown_, lock_, signaled_, queue_, threads_, terminated_,
                 worker, eptr, owner, accepted, executed>>

\* under the mutex: look at shutdown_ again, then enqueue
PushEnqueue(p) ==
  /\ producer[p] = "lock"
  /\ lock_ = Free
  /\ owner # "destroyed"
  /\ IF shutdown_
       THEN /\ producer' = [producer EXCEPT ![p] = "idle"]   \* return false
            /\ arg' = [arg EXCEPT ![p] = NoEvent]
            /\ UNCHANGED <<lock_, queue_, accepted>>
       ELSE /\ lock_' = p
            /\ queue_' = Append(queue_, arg[p])
            /\ accepted' = Append(accepted, arg[p])
            /\ producer' = [producer EXCEPT ![p] = "signal"]
            /\ UNCHANGED arg
  /\ UNCHANGED <<shutdown_, signaled_, threads_, terminated_, worker, eptr,
                 owner, offered, executed>>

\* mutant: push_event forgets to signal
PushSilently(p) ==
  /\ producer[p] = "signal"
  /\ lock_' = Free
  /\ producer' = [producer EXCEPT ![p] = "idle"]
  /\ arg' = [arg EXCEPT ![p] = NoEvent]
  /\ UNCHANGED <<shutdown_, signaled_, queue_, threads_, terminated_, worker,
                 eptr, owner, offered, accepted, executed>>

\* signal_.signal(), unlock, return true
PushSignal(p) ==
  /\ producer[p] = "signal"
  /\ signaled_' = TRUE
  /\ lock_' = Free
  /\ producer' = [producer EXCEPT ![p] = "idle"]
  /\ arg' = [arg EXCEPT ![p] = NoEvent]
  /\ UNCHANGED <<shutdown_, queue_, threads_, terminated_, worker, eptr, owner,
                 offered, accepted, executed>>

------------------------------------------------------------------------------
(* thread_func, with pop_event and event::wait(timeout) inlined            *)

GoTo(w, pc) == worker' = [worker EXCEPT ![w] = pc]

\* while (!shutdown_); a worker that leaves the loop sets terminated_
CheckLoop(w) ==
  /\ worker[w] = "loop"
  /\ IF shutdown_
       THEN GoTo(w, "done") /\ terminated_' = [terminated_ EXCEPT ![w] = TRUE]
       ELSE GoTo(w, "pop") /\ UNCHANGED terminated_
  /\ UNCHANGED <<shutdown_, lock_, signaled_, queue_, threads_, eptr, producer,
                 arg, owner, offered, accepted, executed>>

\* mutant: front() without pop()
PopWithoutRemoving(w) ==
  /\ worker[w] = "pop" /\ ~shutdown_ /\ lock_ = Free /\ queue_ # <<>>
  /\ eptr' = [eptr EXCEPT ![w] = Head(queue_)]
  /\ GoTo(w, "exec")
  /\ UNCHANGED <<shutdown_, lock_, signaled_, queue_, threads_, terminated_,
                 producer, arg, owner, offered, accepted, executed>>

\* mutant: shutdown_ is not looked at again under the mutex
PopAfterShutdown(w) ==
  /\ worker[w] = "pop" /\ lock_ = Free /\ queue_ # <<>>
  /\ eptr' = [eptr EXCEPT ![w] = Head(queue_)]
  /\ queue_' = Tail(queue_)
  /\ GoTo(w, "exec")
  /\ UNCHANGED <<shutdown_, lock_, signaled_, threads_, terminated_, producer,
                 arg, owner, offered, accepted, executed>>

\* pop_event returns an event
PopEvent(w) ==
  /\ worker[w] = "pop"
  /\ ~shutdown_
  /\ lock_ = Free
  /\ queue_ # <<>>
  /\ eptr' = [eptr EXCEPT ![w] = Head(queue_)]
  /\ queue_' = Tail(queue_)
  /\ GoTo(w, "exec")
  /\ UNCHANGED <<shutdown_, lock_, signaled_, threads_, terminated_, producer,
                 arg, owner, offered, accepted, executed>>

\* mutant: the null pointer is executed
PopNull(w) ==
  /\ worker[w] = "pop"
  /\ shutdown_ \/ (lock_ = Free /\ queue_ = <<>>)
  /\ GoTo(w, "exec")
  /\ UNCHANGED <<shutdown_, lock_, signaled_, queue_, threads_, terminated_,
                 eptr, producer, arg, owner, offered, accepted, executed>>

\* pop_event returns nullptr: shut down, or nothing queued
PopNothing(w) ==
  /\ worker[w] = "pop"
  /\ shutdown_ \/ (lock_ = Free /\ queue_ = <<>>)
  /\ GoTo(w, "wait")
  /\ UNCHANGED <<shutdown_, lock_, signaled_, queue_, threads_, terminated_,
                 eptr, producer, arg, owner, offered, accepted, executed>>

\* (*eptr)() returns
Execute(w) ==
  /\ worker[w] = "exec"
  /\ executed' = Append(executed, eptr[w])
  /\ eptr' = [eptr EXCEPT ![w] = NoEvent]
  /\ GoTo(w, "loop")
  /\ UNCHANGED <<shutdown_, lock_, signaled_, queue_, threads_, terminated_,
                 producer, arg, owner, offered, accepted>>

\* mutant: the signal is reset first and then waited for
WaitAfterReset(w) ==
  /\ worker[w] = "wait"
  /\ signaled_' = FALSE
  /\ GoTo(w, "blocked")
  /\ UNCHANGED <<shutdown_, lock_, queue_, threads_, terminated_, eptr,
                 producer, arg, owner, offered, accepted, executed>>

\* wait(100ms): a signal that is already there is consumed, else block
EnterWait(w) ==
  /\ worker[w] = "wait"
  /\ IF signaled_
       THEN signaled_' = FALSE /\ GoTo(w, "loop")
       ELSE UNCHANGED signaled_ /\ GoTo(w, "blocked")
  /\ UNCHANGED <<shutdown_, lock_, queue_, threads_, terminated_, eptr,
                 producer, arg, owner, offered, accepted, executed>>

\* woken while signaled_ holds; signaled_ is left set
WakeUp(w) ==
  /\ worker[w] = "blocked"
  /\ signaled_
  /\ GoTo(w, "loop")
  /\ UNCHANGED <<shutdown_, lock_, signaled_, queue_, threads_, terminated_,
                 eptr, producer, arg, owner, offered, accepted, executed>>

\* the 100 ms are over
TimeOut(w) ==
  /\ worker[w] = "blocked"
  /\ GoTo(w, "loop")
  /\ UNCHANGED <<shutdown_, lock_, signaled_, queue_, threads_, terminated_,
                 eptr, producer, arg, owner, offered, accepted, executed>>

------------------------------------------------------------------------------
(* ~event_queue                                                            *)

Shutdown ==
  /\ owner = "alive"
  /\ lock_ = Free
  /\ shutdown_' = TRUE
  /\ owner' = "signal"
  /\ UNCHANGED <<lock_, signaled_, queue_, threads_, terminated_, worker, eptr,
                 producer, arg, offered, accepted, executed>>

SignalWorkers ==
  /\ owner = "signal"
  /\ signaled_' = TRUE
  /\ owner' = "join"
  /\ UNCHANGED <<shutdown_, lock_, queue_, threads_, terminated_, worker, eptr,
                 producer, arg, offered, accepted, executed>>

\* mutant: the thread objects are dropped whether or not they are done
JoinNobody ==
  /\ owner = "join"
  /\ threads_' = {}
  /\ owner' = "destroyed"
  /\ UNCHANGED <<shutdown_, lock_, signaled_, queue_, terminated_, worker, eptr,
                 producer, arg, offered, accepted, executed>>

\* Join the workers that say they are done and keep the others for the next
\* round.  terminated_ only ever rises and a kept context is looked at again,
\* so one scan of the vector is one step.
JoinTerminated ==
  /\ owner = "join"
  /\ threads_' = {w \in threads_ : ~terminated_[w]}
  /\ owner' = IF threads_' = {} THEN "destroyed" ELSE "sleep"
  /\ UNCHANGED <<shutdown_, lock_, signaled_, queue_, terminated_, worker, eptr,
                 producer, arg, offered, accepted, executed>>

\* mutant: the workers are signalled once, before the loop
SleepWithoutSignal ==
  /\ owner = "sleep"
  /\ owner' = "join"
  /\ UNCHANGED <<shutdown_, lock_, signaled_, queue_, threads_, terminated_,
                 worker, eptr, producer, arg, offered, accepted, executed>>

\* sleep_for(10ms), next round
Sleep ==
  /\ owner = "sleep"
  /\ owner' = "signal"
  /\ UNCHANGED <<shutdown_, lock_, signaled_, queue_, threads_, terminated_,
                 worker, eptr, producer, arg, offered, accepted, executed>>

\* the queue is gone: nothing more happens
Gone == owner = "destroyed" /\ UNCHANGED vars

------------------------------------------------------------------------------
Push(p) == PushEnqueue(p) \/ PushSignal(p)

Run(w) == \/ CheckLoop(w) \/ PopEvent(w) \/ PopNothing(w) \/ Execute(w)
          \/ EnterWait(w) \/ WakeUp(w)

Destroy == SignalWorkers \/ JoinTerminated \/ Sleep

Next == \/ \E p \in Producers : \/ \E e \in Event \ offered : PushCheck(p, e)
                                \/ Push(p)
        \/ \E w \in Workers : Run(w) \/ TimeOut(w)
        \/ Shutdown \/ Destroy \/ Gone

(***************************************************************************)
(* The threads are scheduled: a producer inside push_event, a worker and a *)
(* destructor that has begun go on, and handlers return.  Nothing forces a *)
(* producer to call, the owner to destroy the queue, or a time-out to      *)
(* happen: liveness below does not rest on the 100 ms.  std::mutex promises *)
(* no fairness, so a thread that wants lock_ is only weakly fair.          *)
(***************************************************************************)
Fairness == /\ \A p \in Producers : WF_vars(Push(p))
            /\ \A w \in Workers : WF_vars(Run(w))
            /\ WF_vars(Destroy)

Spec == Init /\ [][Next]_vars

FairSpec == Spec /\ Fairness

------------------------------------------------------------------------------
(* Properties                                                              *)

\* While the queue is alive, an event that waits is never left behind with
\* every worker asleep and no signal pending: a push between a worker's empty
\* pop_event and its wait(100ms) is not lost, whatever the other workers do
\* with the signal.  The 100 ms timeout is thus not needed for progress.
NoLostWakeup ==
  queue_ # <<>> /\ ~shutdown_ =>
    \/ signaled_
    \/ \E p \in Producers : producer[p] = "signal"
    \/ \E w \in Workers : worker[w] \in {"loop", "pop", "exec"}

\* When the destructor has returned no worker is inside thread_func, so none
\* touches the queue's members afterwards.
DestroyedQuiet == owner = "destroyed" => \A w \in Workers : worker[w] = "done"

\* With the one thread the constructors of data_event_queue and
\* order_event_queue ask for, events finish in the order they were pushed,
\* each at most once: what has been executed is a prefix of what was accepted.
InOrder == IsPrefix(executed, accepted)

\* push_event returned true: the event is executed unless the queue is
\* destroyed first.
Delivery ==
  \A e \in Event :
    e \in Range(accepted) ~> (shutdown_ \/ e \in Range(executed))

\* The destructor returns once it has begun, although the workers may all be
\* blocked, executing, or on their way to sleep when it begins.
DestructorReturns == shutdown_ ~> owner = "destroyed"

\* The queue implements its abstract specification: an event is in the
\* pending sequence from the enqueue, running while a worker holds it.
Fifo == INSTANCE EventFifo WITH
          pending  <- queue_,
          running  <- {eptr[w] : w \in Workers} \ {NoEvent},
          finished <- executed,
          open     <- ~shutdown_

ImplementsFifo == Fifo!Spec
==============================================================================
