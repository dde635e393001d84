------------------------------ MODULE EventFifo ------------------------------
(***************************************************************************)
(* What an event queue promises to the components that post to it: a       *)
(* posted event waits its turn, is started in posting order, runs, and is  *)
(* finished; nothing is posted or started once the queue is closed, and    *)
(* the events that still wait at that moment are dropped.                  *)
(* How many threads run the events, how they sleep and how they are woken  *)
(* is not visible here; EventQueue implements this specification.          *)
(***************************************************************************)
EXTENDS Sequences, Functions

CONSTANT Event       \* the events that may ever be posted

VARIABLES pending,   \* posted, not started: a sequence in posting order
          running,   \* started, not finished
          finished,  \* finished, in the order they finished
          open       \* FALSE once the queue is closed

vars == <<pending, running, finished, open>>

Known == Range(pending) \cup running \cup Range(finished)

TypeOK == /\ pending \in Seq(Event)
          /\ running \subseteq Event
          /\ finished \in Seq(Event)
          /\ open \in BOOLEAN

Init == /\ pending = <<>>
        /\ running = {}
        /\ finished = <<>>
        /\ open = TRUE

Post(e) == /\ open
           /\ e \notin Known
           /\ pending' = Append(pending, e)
           /\ UNCHANGED <<running, finished, open>>

Start == /\ open
         /\ pending # <<>>
         /\ pending' = Tail(pending)
         /\ running' = running \cup {Head(pending)}
         /\ UNCHANGED <<finished, open>>

Finish(e) == /\ e \in running
             /\ running' = running \ {e}
             /\ finished' = Append(finished, e)
             /\ UNCHANGED <<pending, open>>

Close == /\ open
         /\ open' = FALSE
         /\ UNCHANGED <<pending, running, finished>>

Next == \/ \E e \in Event : Post(e) \/ Finish(e)
        \/ Start
        \/ Close

SafeSpec == Init /\ [][Next]_vars

(***************************************************************************)
(* A waiting event is started as long as the queue stays open, and every   *)
(* event that was started finishes.                                        *)
(***************************************************************************)
Spec == /\ SafeSpec
        /\ WF_vars(Start)
        /\ \A e \in Event : WF_vars(Finish(e))
==============================================================================
