----------------------------- MODULE GuiWireProofs -----------------------------
(***************************************************************************)
(* Theorems about GuiWire for any sizes, any outputs and any requests.     *)
(***************************************************************************)
EXTENDS GuiWire, SequenceLemmas

Output == {"message", "array"}

SenderPlaces ==
  {"next", "send", "lock", "write", "sent", "failed", "body", "chunk", "gone"}
ReceiverPlaces == {"idle", "receive", "send", "lock", "write", "sent", "failed", "gone"}

Types ==
  /\ pc \in [Threads -> SenderPlaces \cup ReceiverPlaces]
  /\ pc["sender"] \in SenderPlaces /\ pc["receiver"] \in ReceiverPlaces
  /\ unit \in [Threads -> Nat] /\ chunk \in Nat /\ late \in Nat
  /\ send_lock_ \in Threads \cup {"free"}
  /\ outputs \in Seq(Output)

\* The lock belongs to the thread that writes a message; units are counted only while
\* a thread writes; and the sending thread works at the first of its outputs.
Work ==
  /\ \A t \in Threads : /\ pc[t] = "write" <=> send_lock_ = t
                        /\ pc[t] = "write" => unit[t] < MessageSize
                        /\ pc[t] \notin {"write", "chunk"} => unit[t] = 0
  /\ pc["sender"] = "chunk" => unit["sender"] < ChunkSize /\ chunk < Chunks
  /\ pc["sender"] = "body" => chunk <= Chunks
  /\ pc["sender"] \notin {"next", "gone"} => outputs # <<>>
  /\ pc["sender"] \in {"body", "chunk"} => Head(outputs) = "array"

LEMMA Sizes ==
  /\ MessageSize \in Nat \ {0} /\ ChunkSize \in Nat \ {0} /\ Chunks \in Nat \ {0}
  /\ Outputs \in Seq(Output)
BY SizesAssumption DEF Output

\* The first of the outputs, and what is left behind it.
LEMMA OutputParts ==
  ASSUME NEW o \in Seq(Output), o # <<>>
  PROVE  Head(o) \in Output /\ Tail(o) \in Seq(Output)
BY HeadTailProperties

LEMMA InitTypes == Init => Types /\ Work
BY Sizes DEF Init, Types, Work, Threads, SenderPlaces, ReceiverPlaces, GoTo

LEMMA TypesStep == Types /\ Work /\ [Next]_vars => Types' /\ Work'
<1> USE DEF Types, Work, Threads, SenderPlaces, ReceiverPlaces, GoTo, inputvars, outputvars, clientvars
<1> SUFFICES ASSUME Types, Work, [Next]_vars PROVE Types' /\ Work'
  OBVIOUS
<1>1. ASSUME NEW t \in Threads, SendCheck(t) PROVE Types' /\ Work'
  BY <1>1 DEF SendCheck
<1>2. ASSUME NEW t \in Threads, SendLock(t) PROVE Types' /\ Work'
  BY <1>2, Sizes DEF SendLock
<1>3. ASSUME NEW t \in Threads, WriteMessage(t) PROVE Types' /\ Work'
  BY <1>3, Sizes DEF WriteMessage, Write
<1>4. ASSUME NEW t \in Threads, WriteFails(t) PROVE Types' /\ Work'
  BY <1>4 DEF WriteFails, Fails
<1>5. CASE SendNext
  BY <1>5 DEF SendNext
<1>6. CASE AfterSend
  <2>1. outputs # <<>>
    BY <1>6 DEF AfterSend
  <2>2. Tail(outputs) \in Seq(Output)
    BY <2>1, OutputParts
  <2>3. CASE pc["sender"] = "sent" /\ Head(outputs) = "array"
    <3>1. /\ pc' = [pc EXCEPT !["sender"] = "body"] /\ chunk' = 0
          /\ UNCHANGED <<outputs, unit, send_lock_, late>>
      BY <1>6, <2>3 DEF AfterSend
    <3>2. QED
      BY <2>1, <2>3, <3>1, Sizes
  <2>4. CASE ~(pc["sender"] = "sent" /\ Head(outputs) = "array")
    <3>1. /\ pc["sender"] \in {"sent", "failed"} /\ pc' = [pc EXCEPT !["sender"] = "next"]
          /\ outputs' = Tail(outputs) /\ UNCHANGED <<chunk, unit, send_lock_, late>>
      BY <1>6, <2>4 DEF AfterSend
    <3>2. QED
      BY <2>2, <3>1
  <2>5. QED
    BY <2>3, <2>4
<1>7. CASE NextChunk
  <2>1. outputs # <<>>
    BY <1>7 DEF NextChunk
  <2>2. Tail(outputs) \in Seq(Output)
    BY <2>1, OutputParts
  <2>3. /\ pc["sender"] = "body" /\ UNCHANGED <<chunk, unit, send_lock_, late>>
        /\ \/ pc' = [pc EXCEPT !["sender"] = "next"] /\ outputs' = Tail(outputs)
           \/ pc' = [pc EXCEPT !["sender"] = "chunk"] /\ outputs' = outputs /\ chunk # Chunks
    BY <1>7 DEF NextChunk
  <2>4. CASE pc' = [pc EXCEPT !["sender"] = "next"] /\ outputs' = Tail(outputs)
    BY <2>2, <2>3, <2>4
  <2>5. CASE pc' = [pc EXCEPT !["sender"] = "chunk"] /\ outputs' = outputs /\ chunk # Chunks
    <3>1. unit["sender"] = 0 /\ chunk <= Chunks /\ chunk \in Nat
      BY <2>3
    <3>2. unit["sender"] < ChunkSize /\ chunk < Chunks
      BY <2>5, <3>1, Sizes
    <3>3. QED
      BY <2>1, <2>3, <2>5, <3>2
  <2>6. QED
    BY <2>3, <2>4, <2>5
<1>8. CASE WriteChunk
  BY <1>8, Sizes DEF WriteChunk, Write
<1>9. CASE ChunkFails
  <2>1. outputs # <<>>
    BY <1>9 DEF ChunkFails
  <2>2. Tail(outputs) \in Seq(Output)
    BY <2>1, OutputParts
  <2>3. QED
    BY <1>9, <2>2 DEF ChunkFails, Fails
<1>10. CASE Listen
  BY <1>10 DEF Listen
<1>11. CASE Receive
  <2>1. /\ UNCHANGED <<outputs, chunk, unit, send_lock_, late>> /\ pc["receiver"] = "receive"
        /\ \/ pc' = pc
           \/ \E kind : pc' = [pc EXCEPT !["receiver"] = Place(kind)]
    BY <1>11 DEF Receive
  <2>2. \A kind : Place(kind) \in {"send", "idle", "gone"}
    BY DEF Place
  <2>3. QED
    BY <2>1, <2>2
<1>12. CASE GiveUp
  BY <1>12 DEF GiveUp
<1>13. CASE Arrive \/ UNCHANGED vars
  BY <1>13 DEF Arrive, vars
<1>14. QED
  BY <1>1, <1>2, <1>3, <1>4, <1>5, <1>6, <1>7, <1>8, <1>9, <1>10, <1>11, <1>12, <1>13
     DEF Next, Sender, Receiver, SendMessage

------------------------------------------------------------------------------
(* What is written after the context was aborted                           *)

Longest == Max({MessageSize, ChunkSize})

\* the units a thread may still write before it looks at aborted_ again
StillToWrite(t) ==
  IF pc[t] \in {"lock", "write"} THEN MessageSize - unit[t]
  ELSE IF pc[t] = "chunk" THEN ChunkSize - unit[t] ELSE 0

\* The thread that aborts the context writes no more, and the other one ends what it
\* is at.
Lateness ==
  /\ ~aborted_ => late = 0
  /\ aborted_ => /\ StillToWrite("sender") = 0 \/ StillToWrite("receiver") = 0
                 /\ late + StillToWrite("sender") + StillToWrite("receiver") <= Longest

LEMMA LongestBounds == Longest \in Nat /\ MessageSize <= Longest /\ ChunkSize <= Longest
<1>1. PICK S : S = {MessageSize, ChunkSize}
  OBVIOUS
<1>2. \E x \in S : \A y \in S : x >= y
  BY <1>1, Sizes
<1>3. Max(S) \in S /\ \A y \in S : Max(S) >= y
  BY <1>2 DEF Max
<1>4. S \subseteq Nat /\ MessageSize \in S /\ ChunkSize \in S
  BY <1>1, Sizes
<1>5. QED
  BY <1>1, <1>3, <1>4, Sizes DEF Longest

LEMMA StillToWriteBounds ==
  ASSUME Types, Work, NEW t \in Threads
  PROVE  /\ StillToWrite(t) \in Nat /\ StillToWrite(t) <= Longest
         /\ pc[t] \in {"lock", "write", "chunk"} => StillToWrite(t) > 0
BY Sizes, LongestBounds DEF Types, Work, StillToWrite, Threads, ReceiverPlaces

LEMMA LatenessStep == Types /\ Work /\ Lateness /\ [Next]_vars => Lateness'
<1> USE DEF Threads, SenderPlaces, ReceiverPlaces, GoTo, outputvars, clientvars
<1> SUFFICES ASSUME Types, Work, Lateness, [Next]_vars PROVE Lateness'
  OBVIOUS
<1>0. /\ \A t \in Threads : StillToWrite(t) \in Nat /\ StillToWrite(t) <= Longest
      /\ Longest \in Nat /\ late \in Nat
      /\ pc \in [Threads -> SenderPlaces \cup ReceiverPlaces] /\ unit \in [Threads -> Nat]
      /\ pc["receiver"] \in ReceiverPlaces
  BY StillToWriteBounds, LongestBounds DEF Types
<1>1. ASSUME NEW t \in Threads, SendCheck(t) PROVE Lateness'
  BY <1>0, <1>1 DEF SendCheck, Lateness, StillToWrite
<1>2. ASSUME NEW t \in Threads, SendLock(t) PROVE Lateness'
  BY <1>0, <1>2 DEF SendLock, Lateness, StillToWrite
<1>3. ASSUME NEW t \in Threads, WriteMessage(t) PROVE Lateness'
  <2>1. /\ pc[t] = "write" /\ unit[t] < MessageSize /\ UNCHANGED aborted_
        /\ late' = late + (IF aborted_ THEN 1 ELSE 0)
        /\ \A o \in Threads \ {t} : pc'[o] = pc[o] /\ unit'[o] = unit[o]
        /\ \/ unit[t] + 1 = MessageSize /\ pc'[t] = "sent"
           \/ pc'[t] = "write" /\ unit'[t] = unit[t] + 1
    BY <1>0, <1>3, Sizes DEF WriteMessage, Write, Work
  <2>2. /\ StillToWrite(t)' = StillToWrite(t) - 1
        /\ \A o \in Threads \ {t} : StillToWrite(o)' = StillToWrite(o)
    BY <1>0, <2>1, Sizes, SMTT(30) DEF StillToWrite
  <2>3. StillToWrite(t) > 0
    BY <2>1, StillToWriteBounds
  <2>4. QED
    BY <1>0, <2>1, <2>2, <2>3 DEF Lateness
<1>4. ASSUME NEW t \in Threads, WriteFails(t) PROVE Lateness'
  <2>1. /\ aborted_' /\ late' = late /\ pc'[t] = "failed"
        /\ \A o \in Threads \ {t} : pc'[o] = pc[o] /\ unit'[o] = unit[o]
    BY <1>0, <1>4 DEF WriteFails, Fails
  <2>2. /\ StillToWrite(t)' = 0
        /\ \A o \in Threads \ {t} : StillToWrite(o)' = StillToWrite(o)
    BY <2>1 DEF StillToWrite
  <2>3. QED
    BY <1>0, <2>1, <2>2 DEF Lateness
<1>5. CASE SendNext
  BY <1>0, <1>5 DEF SendNext, Lateness, StillToWrite
<1>6. CASE AfterSend
  <2>1. /\ UNCHANGED <<unit, late, aborted_, pc["receiver"]>>
        /\ pc["sender"] \in {"sent", "failed"} /\ pc'["sender"] \in {"body", "next"}
    BY <1>0, <1>6 DEF AfterSend
  <2>2. QED
    BY <1>0, <2>1 DEF Lateness, StillToWrite
<1>7. CASE NextChunk
  <2>1. /\ UNCHANGED <<unit, late, aborted_, pc["receiver"]>>
        /\ pc["sender"] = "body"
        /\ pc'["sender"] = "next" \/ (pc'["sender"] = "chunk" /\ ~aborted_)
    BY <1>0, <1>7 DEF NextChunk
  <2>2. QED
    BY <1>0, <2>1 DEF Lateness, StillToWrite
<1>8. CASE WriteChunk
  <2>1. /\ pc["sender"] = "chunk" /\ unit["sender"] < ChunkSize /\ UNCHANGED aborted_
        /\ late' = late + (IF aborted_ THEN 1 ELSE 0)
        /\ pc'["receiver"] = pc["receiver"] /\ unit'["receiver"] = unit["receiver"]
        /\ \/ unit["sender"] + 1 = ChunkSize /\ pc'["sender"] = "body"
           \/ pc'["sender"] = "chunk" /\ unit'["sender"] = unit["sender"] + 1
    BY <1>0, <1>8, Sizes DEF WriteChunk, Write, Work
  <2>2. /\ StillToWrite("sender")' = StillToWrite("sender") - 1
        /\ StillToWrite("receiver")' = StillToWrite("receiver")
    BY <1>0, <2>1, Sizes DEF StillToWrite
  <2>3. StillToWrite("sender") > 0
    BY <2>1, StillToWriteBounds
  <2>4. QED
    BY <1>0, <2>1, <2>2, <2>3 DEF Lateness
<1>9. CASE ChunkFails
  <2>1. /\ UNCHANGED <<late, aborted_>> /\ pc'["sender"] = "next"
        /\ pc'["receiver"] = pc["receiver"] /\ unit'["receiver"] = unit["receiver"]
    BY <1>0, <1>9 DEF ChunkFails, Fails
  <2>2. StillToWrite("sender")' = 0 /\ StillToWrite("receiver")' = StillToWrite("receiver")
    BY <2>1 DEF StillToWrite
  <2>3. QED
    BY <1>0, <2>1, <2>2 DEF Lateness
<1>10. CASE Listen
  BY <1>0, <1>10 DEF Listen, Lateness, StillToWrite
<1>11. CASE Receive
  <2>1. /\ UNCHANGED <<unit, late, aborted_>> /\ pc["receiver"] = "receive" /\ ~aborted_
    BY <1>11 DEF Receive
  <2>2. QED
    BY <1>0, <2>1 DEF Lateness
<1>12. CASE GiveUp
  <2>1. /\ aborted_' /\ UNCHANGED <<unit, late>> /\ pc'["receiver"] = "gone"
        /\ pc'["sender"] = pc["sender"]
    BY <1>0, <1>12 DEF GiveUp
  <2>2. StillToWrite("receiver")' = 0 /\ StillToWrite("sender")' = StillToWrite("sender")
    BY <2>1 DEF StillToWrite
  <2>3. QED
    BY <1>0, <2>1, <2>2 DEF Lateness
<1>13. CASE Arrive \/ UNCHANGED vars
  BY <1>13 DEF Arrive, vars, Lateness, StillToWrite
<1>14. QED
  BY <1>1, <1>2, <1>3, <1>4, <1>5, <1>6, <1>7, <1>8, <1>9, <1>10, <1>11, <1>12, <1>13
     DEF Next, Sender, Receiver, SendMessage

------------------------------------------------------------------------------
(* What the client has read                                                *)

\* what is left of an array behind so many of its chunks
Rest(k) == (Chunks - k) * ChunkSize

LEMMA RestParts ==
  /\ Rest(0) = Chunks * ChunkSize /\ Rest(Chunks) = 0
  /\ \A k \in 0..Chunks : Rest(k) \in Nat
  /\ \A k \in 0..Chunks : k < Chunks => Rest(k) = Rest(k + 1) + ChunkSize
<1>1. Chunks \in Nat /\ ChunkSize \in Nat
  BY Sizes
<1>2. \A n, m \in Nat : n * m \in Nat
  OBVIOUS
<1>3. \A n \in Int, m \in Nat : n * m = (n - 1) * m + m
  OBVIOUS
<1>4. ASSUME NEW k \in 0..Chunks PROVE Rest(k) \in Nat
  <2>1. Chunks - k \in Nat
    BY <1>1
  <2>2. QED
    BY <1>1, <1>2, <2>1 DEF Rest
<1>5. ASSUME NEW k \in 0..Chunks, k < Chunks PROVE Rest(k) = Rest(k + 1) + ChunkSize
  <2>1. Chunks - k \in Int /\ Chunks - (k + 1) = (Chunks - k) - 1
    BY <1>1
  <2>2. QED
    BY <1>1, <1>3, <2>1 DEF Rest
<1>6. Rest(0) = Chunks * ChunkSize /\ Rest(Chunks) = 0
  <2>1. Chunks - 0 = Chunks /\ Chunks - Chunks = 0 /\ 0 * ChunkSize = 0
    BY <1>1
  <2>2. QED
    BY <2>1 DEF Rest
<1>7. QED
  BY <1>4, <1>5, <1>6

\* what the client is in: a message that a thread has begun
Expected ==
  IF pc["sender"] = "write" /\ unit["sender"] > 0 THEN Head(outputs)
  ELSE IF pc["receiver"] = "write" /\ unit["receiver"] > 0 THEN "pong" ELSE "nothing"

\* the bars of an array that are still to come
BarsLeft == IF pc["sender"] = "sent" THEN Rest(0) ELSE Rest(chunk) - unit["sender"]

\* Until a write fails or a pong meets an array the client is in the message that the
\* threads are in, and it waits for as many bars as the sending thread has to write.
\* Bars are given up without a failed write only when the receiving thread has
\* aborted the context and gone.
Reading ==
  \/ client = Lost
  \/ /\ client = [in |-> Expected, left |-> client.left, ok |-> TRUE]
     /\ aborted_ => pc["receiver"] = "gone"
     /\ IF InArray
          THEN unit["receiver"] = 0 /\ client.left = BarsLeft
          ELSE \/ client.left = 0
               \/ client.left \in Nat /\ aborted_ /\ pc["sender"] \in {"next", "gone"}

LEMMA InitReading == Init => Lateness /\ Reading
<1> SUFFICES ASSUME Init PROVE Lateness /\ Reading
  OBVIOUS
<1>1. /\ pc["sender"] = "next" /\ pc["receiver"] = "idle" /\ ~aborted_ /\ late = 0
      /\ client = Start
  BY DEF Init, Threads
<1>2. QED
  BY <1>1 DEF Lateness, Reading, Start, Expected, InArray

\* A unit of a message that does not meet an array.
LEMMA MessageRead ==
  ASSUME Types, Work, Reading, client # Lost,
         NEW t \in Threads, WriteMessage(t), ~InArray
  PROVE  Reading'
<1> USE DEF Threads, SenderPlaces, ReceiverPlaces, GoTo, outputvars
<1> DEFINE last == unit[t] + 1 = MessageSize
           u == [from |-> Content(t), last |-> last]
<1>1. /\ pc[t] = "write" /\ send_lock_ = t
      /\ client' = ClientReads(u)
      /\ unit' = [unit EXCEPT ![t] = IF last THEN 0 ELSE @ + 1]
      /\ pc' = [pc EXCEPT ![t] = IF last THEN "sent" ELSE "write"]
      /\ UNCHANGED <<outputs, chunk, aborted_>>
  BY DEF WriteMessage, Write, Work
<1>2. /\ pc \in [Threads -> SenderPlaces \cup ReceiverPlaces] /\ unit \in [Threads -> Nat]
      /\ \A o \in Threads \ {t} : pc[o] # "write" /\ pc'[o] = pc[o] /\ unit'[o] = unit[o]
      /\ pc'[t] = (IF last THEN "sent" ELSE "write")
      /\ unit'[t] = (IF last THEN 0 ELSE unit[t] + 1)
  BY <1>1 DEF Types, Work
<1>3. /\ client.left = 0 /\ client.ok = TRUE
      /\ aborted_ => pc["receiver"] = "gone"
      /\ client.in = IF unit[t] > 0 THEN Content(t) ELSE "nothing"
  <2>1. /\ client = [in |-> Expected, left |-> client.left, ok |-> TRUE]
        /\ aborted_ => pc["receiver"] = "gone"
        /\ \/ client.left = 0
           \/ aborted_ /\ pc["sender"] \in {"next", "gone"}
    BY DEF Reading
  <2>2. client.left = 0
    BY <1>1, <2>1
  <2>3. Expected = IF unit[t] > 0 THEN Content(t) ELSE "nothing"
    BY <1>1, <1>2 DEF Expected, Content
  <2>4. client.in = Expected /\ client.ok = TRUE
    BY <2>1
  <2>5. QED
    BY <2>1, <2>2, <2>3, <2>4
<1>4. Content(t) # "bars"
  <2>1. t = "sender" => Head(outputs) \in Output
    BY <1>1, OutputParts DEF Types, Work
  <2>2. QED
    BY <2>1 DEF Content, Output
<1>5. client' = [in   |-> IF last THEN "nothing" ELSE Content(t),
                 left |-> IF last /\ Content(t) = "array" THEN Chunks * ChunkSize ELSE 0,
                 ok   |-> TRUE]
  <2>1. ~(client.left > 0) /\ client.in \in {"nothing", u.from}
    BY <1>3
  <2>2. client' = [in   |-> IF u.last THEN "nothing" ELSE u.from,
                   left |-> IF u.last /\ u.from = "array" THEN Chunks * ChunkSize ELSE 0,
                   ok   |-> TRUE]
    BY <1>1, <1>3, <1>4, <2>1 DEF ClientReads
  <2>3. u.from = Content(t) /\ u.last = last
    OBVIOUS
  <2>4. QED
    BY <2>2, <2>3
<1>6. Expected' = IF last THEN "nothing" ELSE Content(t)
  BY <1>1, <1>2 DEF Expected, Content, Types
<1>7. InArray' <=> last /\ t = "sender" /\ Content(t) = "array"
  BY <1>1, <1>2 DEF InArray, Content
<1>8. aborted_' => pc'["receiver"] = "gone"
  BY <1>1, <1>2, <1>3
<1>9. CASE InArray'
  <2>1. client' = [in |-> Expected', left |-> Rest(0), ok |-> TRUE]
    <3>1. last /\ Content(t) = "array" /\ Expected' = "nothing" /\ Rest(0) = Chunks * ChunkSize
      BY <1>6, <1>7, <1>9, RestParts
    <3>2. QED
      BY <1>5, <3>1
  <2>2. BarsLeft' = Rest(0) /\ unit'["receiver"] = 0
    <3>1. t = "sender" /\ pc'["sender"] = "sent"
      BY <1>2, <1>7, <1>9
    <3>2. pc["receiver"] \notin {"write", "chunk"} /\ unit'["receiver"] = unit["receiver"]
      BY <1>1, <1>2, <3>1 DEF Types
    <3>3. QED
      BY <3>1, <3>2 DEF BarsLeft, Rest, Work
  <2>3. client'.left = BarsLeft'
    BY <2>1, <2>2
  <2>4. QED
    BY <1>8, <1>9, <2>1, <2>2, <2>3 DEF Reading
<1>10. CASE ~InArray'
  <2>1. client' = [in |-> Expected', left |-> 0, ok |-> TRUE]
    BY <1>1, <1>5, <1>6, <1>7, <1>10 DEF Content
  <2>2. client'.left = 0
    BY <2>1
  <2>3. QED
    BY <1>8, <1>10, <2>1, <2>2 DEF Reading
<1>11. QED
  BY <1>9, <1>10

\* A bar that meets no pong.
LEMMA ChunkRead ==
  ASSUME Types, Work, Reading, client # Lost, WriteChunk, unit["receiver"] = 0
  PROVE  Reading'
<1> USE DEF Threads, SenderPlaces, ReceiverPlaces, GoTo, outputvars
<1> DEFINE last == unit["sender"] + 1 = ChunkSize
           u == [from |-> "bars", last |-> last]
<1>1. /\ pc["sender"] = "chunk" /\ client' = ClientReads(u)
      /\ unit' = [unit EXCEPT !["sender"] = IF last THEN 0 ELSE @ + 1]
      /\ pc' = [pc EXCEPT !["sender"] = IF last THEN "body" ELSE "chunk"]
      /\ chunk' = chunk + (IF last THEN 1 ELSE 0)
      /\ UNCHANGED aborted_
  BY DEF WriteChunk, Write
<1>2. /\ pc'["receiver"] = pc["receiver"] /\ unit'["receiver"] = 0
      /\ pc'["sender"] = (IF last THEN "body" ELSE "chunk")
      /\ unit'["sender"] = (IF last THEN 0 ELSE unit["sender"] + 1)
      /\ unit["sender"] \in Nat /\ unit["sender"] < ChunkSize
      /\ chunk \in 0..Chunks /\ chunk < Chunks
  BY <1>1, Sizes DEF Types, Work
<1>3. InArray /\ InArray' /\ Expected = "nothing" /\ Expected' = "nothing"
  BY <1>1, <1>2 DEF InArray, Expected
<1>4. /\ client = [in |-> "nothing", left |-> client.left, ok |-> TRUE]
      /\ aborted_ => pc["receiver"] = "gone"
      /\ client.left = Rest(chunk) - unit["sender"]
  BY <1>1, <1>3 DEF Reading, BarsLeft
<1>5. /\ Rest(chunk) = Rest(chunk + 1) + ChunkSize
      /\ Rest(chunk) \in Nat /\ Rest(chunk + 1) \in Nat
  BY <1>2, RestParts, Sizes, SMTT(30)
<1>6. client.left \in Nat /\ client.left > 0
  BY <1>2, <1>4, <1>5, Sizes, SMTT(30)
<1>7. client' = [in |-> "nothing", left |-> client.left - 1, ok |-> TRUE]
  <2>1. client' = [client EXCEPT !.left = @ - 1, !.ok = @ /\ u.from = "bars"]
    BY <1>1, <1>6 DEF ClientReads
  <2>2. PICK l : l = client.left
    OBVIOUS
  <2>3. client = [in |-> "nothing", left |-> l, ok |-> TRUE] /\ u.from = "bars"
    BY <1>4, <2>2
  <2>4. client' = [in |-> "nothing", left |-> l - 1, ok |-> TRUE]
    BY <2>1, <2>3
  <2>5. QED
    BY <2>2, <2>4
<1>8. BarsLeft' = client.left - 1
  <2>1. CASE last
    <3>1. chunk' = chunk + 1 /\ unit'["sender"] = 0 /\ BarsLeft' = Rest(chunk + 1) - 0
      BY <1>1, <1>2, <2>1 DEF BarsLeft, Rest
    <3>2. QED
      BY <1>2, <1>4, <1>5, <2>1, <3>1, Sizes, SMTT(30)
  <2>2. CASE ~last
    <3>1. chunk' = chunk /\ BarsLeft' = Rest(chunk) - (unit["sender"] + 1)
      BY <1>1, <1>2, <2>2 DEF BarsLeft, Rest
    <3>2. QED
      BY <1>2, <1>4, <1>5, <3>1
  <2>3. QED
    BY <2>1, <2>2
<1>9. client' = [in |-> Expected', left |-> client'.left, ok |-> TRUE] /\ client'.left = BarsLeft'
  BY <1>3, <1>7, <1>8
<1>10. QED
  BY <1>1, <1>2, <1>3, <1>4, <1>9 DEF Reading

\* A step that leaves the client, the lock and what it is in alone.
LEMMA NothingRead ==
  ASSUME Reading, UNCHANGED client, Expected' = Expected,
         aborted_' => pc'["receiver"] = "gone",
         InArray => InArray' /\ BarsLeft' = BarsLeft /\ unit'["receiver"] = unit["receiver"],
         InArray' => InArray,
         ~InArray => \/ UNCHANGED <<aborted_, pc["sender"]>>
                     \/ aborted_' /\ pc'["sender"] = "gone"
                     \/ client.left = 0
  PROVE  Reading'
BY DEF Reading

LEMMA ReadingStep == Types /\ Work /\ Reading /\ [Next]_vars => Reading'
<1> USE DEF Threads, SenderPlaces, ReceiverPlaces, GoTo, inputvars, outputvars, clientvars
<1> SUFFICES ASSUME Types, Work, Reading, [Next]_vars PROVE Reading'
  OBVIOUS
<1>0. /\ pc \in [Threads -> SenderPlaces \cup ReceiverPlaces] /\ unit \in [Threads -> Nat]
      /\ pc["receiver"] \in ReceiverPlaces
      /\ \A t \in Threads : pc[t] \notin {"write", "chunk"} => unit[t] = 0
  BY DEF Types, Work
<1>l. CASE client = Lost
  <2>1. UNCHANGED client \/ client' = Lost
    BY <1>l DEF Next, Sender, Receiver, SendMessage, SendCheck, SendLock, WriteMessage, WriteFails,
       SendNext, AfterSend, NextChunk, WriteChunk, ChunkFails, Listen, Receive, GiveUp, Arrive, vars,
       Write, Fails, ClientReads
  <2>2. QED
    BY <1>l, <2>1 DEF Reading, Lost, Start
<1>g. CASE client # Lost
  <2>0. /\ client = [in |-> Expected, left |-> client.left, ok |-> TRUE]
        /\ aborted_ => pc["receiver"] = "gone"
        /\ ~InArray => client.left = 0 \/ (aborted_ /\ pc["sender"] \in {"next", "gone"})
    BY <1>g DEF Reading
  <2>1. ASSUME NEW t \in Threads, SendCheck(t) PROVE Reading'
    <3>1. /\ UNCHANGED <<client, outputs, chunk, unit, aborted_>>
          /\ pc[t] = "send" /\ pc' = [pc EXCEPT ![t] = IF aborted_ THEN "failed" ELSE "lock"]
      BY <2>1 DEF SendCheck
    <3>2. /\ Expected' = Expected /\ (InArray' <=> InArray) /\ BarsLeft' = BarsLeft
          /\ aborted_' => pc'["receiver"] = "gone"
          /\ t = "sender" => ~InArray /\ pc["sender"] \notin {"next", "gone"}
          /\ t = "receiver" => UNCHANGED pc["sender"]
      BY <1>0, <2>0, <3>1 DEF Expected, InArray, BarsLeft, Rest
    <3>3. QED
      BY <2>0, <3>1, <3>2, NothingRead
  <2>2. ASSUME NEW t \in Threads, SendLock(t) PROVE Reading'
    <3>1. /\ UNCHANGED <<client, outputs, chunk, unit, aborted_>>
          /\ pc[t] = "lock" /\ pc' = [pc EXCEPT ![t] = "write"]
      BY <2>2 DEF SendLock
    <3>2. /\ Expected' = Expected /\ (InArray' <=> InArray) /\ BarsLeft' = BarsLeft
          /\ aborted_' => pc'["receiver"] = "gone"
          /\ t = "sender" => ~InArray /\ pc["sender"] \notin {"next", "gone"}
          /\ t = "receiver" => UNCHANGED pc["sender"]
      BY <1>0, <2>0, <3>1 DEF Expected, InArray, BarsLeft, Rest
    <3>3. QED
      BY <2>0, <3>1, <3>2, NothingRead
  <2>3. ASSUME NEW t \in Threads, WriteMessage(t) PROVE Reading'
    <3>1. CASE InArray
      BY <2>3, <3>1 DEF WriteMessage, Write, Reading, Lost, Start
    <3>2. CASE ~InArray
      BY <1>g, <2>3, <3>2, MessageRead
    <3>3. QED
      BY <3>1, <3>2
  <2>4. ASSUME NEW t \in Threads, WriteFails(t) PROVE Reading'
    BY <2>4 DEF WriteFails, Fails, Reading, Lost, Start
  <2>5. CASE SendNext
    <3>1. /\ UNCHANGED <<client, outputs, chunk, unit, aborted_>>
          /\ pc["sender"] = "next"
          /\ pc' = [pc EXCEPT !["sender"] = IF aborted_ THEN "gone" ELSE "send"]
      BY <2>5 DEF SendNext
    <3>2. /\ Expected' = Expected /\ ~InArray' /\ ~InArray
          /\ aborted_' => pc'["receiver"] = "gone" /\ pc'["sender"] = "gone"
          /\ ~aborted_ => client.left = 0
      BY <1>0, <2>0, <3>1 DEF Expected, InArray
    <3>3. QED
      BY <2>0, <3>1, <3>2, NothingRead
  <2>6. CASE AfterSend
    <3>1. /\ pc["sender"] \in {"sent", "failed"} /\ UNCHANGED <<client, unit, aborted_>>
          /\ unit["sender"] = 0
      BY <1>0, <2>6 DEF AfterSend
    <3>2. CASE pc["sender"] = "sent" /\ Head(outputs) = "array"
      <4>1. /\ pc' = [pc EXCEPT !["sender"] = "body"] /\ chunk' = 0 /\ outputs' = outputs
        BY <2>6, <3>2 DEF AfterSend
      <4>2. Expected' = Expected /\ InArray' /\ InArray
        BY <1>0, <3>1, <3>2, <4>1 DEF Expected, InArray
      <4>3. BarsLeft = Rest(0) /\ BarsLeft' = Rest(0) - 0 /\ Rest(0) \in Nat
        BY <1>0, <3>1, <3>2, <4>1, Sizes, RestParts DEF BarsLeft, Rest
      <4>4. aborted_' => pc'["receiver"] = "gone"
        BY <1>0, <2>0, <3>1, <4>1
      <4>5. QED
        BY <3>1, <4>2, <4>3, <4>4, NothingRead
    <3>3. CASE ~(pc["sender"] = "sent" /\ Head(outputs) = "array")
      <4>1. pc' = [pc EXCEPT !["sender"] = "next"]
        BY <2>6, <3>3 DEF AfterSend
      <4>2. Expected' = Expected /\ ~InArray' /\ ~InArray /\ client.left = 0
        BY <1>0, <2>0, <3>1, <3>3, <4>1 DEF Expected, InArray
      <4>3. aborted_' => pc'["receiver"] = "gone"
        BY <1>0, <2>0, <3>1, <4>1
      <4>4. QED
        BY <3>1, <4>2, <4>3, NothingRead
    <3>4. QED
      BY <3>2, <3>3
  <2>7. CASE NextChunk
    <3>1. /\ pc["sender"] = "body" /\ unit["sender"] = 0 /\ InArray
          /\ chunk \in Nat /\ chunk <= Chunks
          /\ UNCHANGED <<client, unit, aborted_, chunk>>
      BY <1>0, <2>7 DEF NextChunk, InArray, Types, Work
    <3>2. CASE aborted_ \/ chunk = Chunks
      <4>1. pc' = [pc EXCEPT !["sender"] = "next"]
        BY <2>7, <3>2 DEF NextChunk
      <4>2. /\ Expected = "nothing" \/ (Expected = "pong" /\ unit["receiver"] > 0)
            /\ unit["receiver"] = 0 /\ client.left = BarsLeft
        BY <1>0, <1>g, <3>1 DEF Expected, Reading
      <4>3. Expected' = Expected /\ ~InArray' /\ pc'["sender"] = "next"
        BY <1>0, <3>1, <4>1, <4>2 DEF Expected, InArray
      <4>4. BarsLeft = Rest(chunk) - 0 /\ Rest(chunk) \in Nat
        BY <3>1, Sizes, RestParts DEF BarsLeft
      <4>5. client.left = 0 \/ (client.left \in Nat /\ aborted_)
        BY <3>2, <4>2, <4>4, RestParts
      <4>6. aborted_' => pc'["receiver"] = "gone"
        BY <1>0, <2>0, <3>1, <4>1
      <4>7. client' = [in |-> Expected', left |-> client'.left, ok |-> TRUE]
        BY <2>0, <3>1, <4>3
      <4>8. QED
        BY <3>1, <4>3, <4>5, <4>6, <4>7 DEF Reading
    <3>3. CASE ~(aborted_ \/ chunk = Chunks)
      <4>1. pc' = [pc EXCEPT !["sender"] = "chunk"] /\ outputs' = outputs
        BY <2>7, <3>3 DEF NextChunk
      <4>2. Expected' = Expected /\ InArray' /\ BarsLeft' = BarsLeft
        BY <1>0, <3>1, <4>1 DEF Expected, InArray, BarsLeft, Rest
      <4>3. QED
        BY <3>1, <3>3, <4>2, NothingRead
    <3>4. QED
      BY <3>2, <3>3
  <2>8. CASE WriteChunk
    <3>1. CASE unit["receiver"] > 0
      BY <2>8, <3>1 DEF WriteChunk, Write, Reading, Lost, Start
    <3>2. CASE unit["receiver"] = 0
      BY <1>g, <2>8, <3>2, ChunkRead
    <3>3. QED
      BY <1>0, <3>1, <3>2
  <2>9. CASE ChunkFails
    BY <2>9 DEF ChunkFails, Fails, Reading, Lost, Start
  <2>10. CASE Listen
    <3>1. /\ UNCHANGED <<client, outputs, chunk, unit, aborted_>>
          /\ pc["receiver"] \in {"idle", "sent", "failed"}
          /\ pc' = [pc EXCEPT !["receiver"] = IF aborted_ THEN "gone" ELSE "receive"]
      BY <2>10 DEF Listen
    <3>2. /\ Expected' = Expected /\ (InArray' <=> InArray) /\ BarsLeft' = BarsLeft
          /\ aborted_' => pc'["receiver"] = "gone"
          /\ UNCHANGED pc["sender"]
      BY <1>0, <2>0, <3>1 DEF Expected, InArray, BarsLeft, Rest
    <3>3. QED
      BY <3>1, <3>2, NothingRead
  <2>11. CASE Receive
    <3>1. /\ UNCHANGED <<client, outputs, chunk, unit, aborted_>>
          /\ pc["receiver"] = "receive" /\ ~aborted_
          /\ \/ pc' = pc
             \/ \E kind : pc' = [pc EXCEPT !["receiver"] = Place(kind)]
      BY <2>11 DEF Receive
    <3>2. \A kind : Place(kind) \in {"send", "idle", "gone"}
      BY DEF Place
    <3>3. UNCHANGED pc["sender"] /\ pc'["receiver"] # "write"
      BY <1>0, <3>1, <3>2
    <3>4. Expected' = Expected /\ (InArray' <=> InArray) /\ BarsLeft' = BarsLeft
      BY <3>1, <3>3 DEF Expected, InArray, BarsLeft, Rest
    <3>5. QED
      BY <3>1, <3>3, <3>4, NothingRead
  <2>12. CASE GiveUp
    <3>1. /\ UNCHANGED <<client, outputs, chunk, unit>> /\ aborted_'
          /\ pc["receiver"] = "receive" /\ ~aborted_
          /\ pc' = [pc EXCEPT !["receiver"] = "gone"]
      BY <1>0, <2>0, <2>12 DEF GiveUp
    <3>2. /\ Expected' = Expected /\ (InArray' <=> InArray) /\ BarsLeft' = BarsLeft
          /\ pc'["receiver"] = "gone"
      BY <1>0, <3>1 DEF Expected, InArray, BarsLeft, Rest
    <3>3. ~InArray => client.left = 0
      BY <2>0, <3>1
    <3>4. QED
      BY <3>1, <3>2, <3>3, NothingRead
  <2>13. CASE Arrive \/ UNCHANGED vars
    <3>1. UNCHANGED <<client, outputs, chunk, unit, aborted_, pc>>
      BY <2>13 DEF Arrive, vars
    <3>2. QED
      BY <3>1 DEF Reading, Expected, InArray, BarsLeft, Rest
  <2>14. QED
    BY <2>1, <2>2, <2>3, <2>4, <2>5, <2>6, <2>7, <2>8, <2>9, <2>10, <2>11, <2>12, <2>13
       DEF Next, Sender, Receiver, SendMessage
<1>9. QED
  BY <1>l, <1>g

------------------------------------------------------------------------------
(* The requests in the stream                                              *)

Unit    == Nat \X BOOLEAN
Request == [kind : {"ping", "options", "malformed"}, size : Nat \ {0}]

\* end[n] units of the stream belong to the first n requests
Marks(end) ==
  /\ end \in [0..Len(requests) -> Nat]
  /\ end[0] = 0 /\ end[Len(requests)] = Len(Upstream)
  /\ \A n \in 1..Len(requests) :
       /\ end[n] = end[n - 1] + requests[n].size
       /\ \A u \in 1..requests[n].size :
            /\ Upstream[end[n - 1] + u][1] = n
            /\ Upstream[end[n - 1] + u][2] <=> u = requests[n].size

LEMMA RequestsOf ==
  ASSUME NEW r \in Seq(Request)
  PROVE  /\ Len(r) \in Nat /\ DOMAIN r = 1..Len(r)
         /\ \A n \in 1..Len(r) : r[n].size \in Nat /\ r[n].size > 0
<1>1. Len(r) \in Nat /\ DOMAIN r = 1..Len(r)
  BY LenProperties
<1>2. \A n \in 1..Len(r) : r[n] \in Request
  BY ElementOfSeq
<1>3. \A q \in Request : q.size \in Nat /\ q.size > 0
  BY DEF Request
<1>4. QED
  BY <1>1, <1>2, <1>3

\* The stream is the units of the requests, one request after the other.
LEMMA Streamed ==
  ASSUME requests \in Seq(Request)
  PROVE  Upstream \in Seq(Unit) /\ \E end : Marks(end)
<1>1. PICK N \in Nat : N = Len(requests) /\ DOMAIN requests = 1..N
  BY RequestsOf
<1>2. PICK s : s = [i \in DOMAIN requests |->
                      [u \in 1..requests[i].size |-> <<i, u = requests[i].size>>]]
  OBVIOUS
<1>3. ASSUME NEW n \in 1..N
      PROVE  /\ s[n] \in Seq(Unit) /\ Len(s[n]) = requests[n].size
             /\ \A u \in 1..requests[n].size :
                  s[n][u][1] = n /\ (s[n][u][2] <=> u = requests[n].size)
  <2>1. PICK k \in Nat : k = requests[n].size
    BY <1>1, RequestsOf
  <2>2. s[n] = [u \in 1..k |-> <<n, u = k>>]
    BY <1>1, <1>2, <2>1, Zenon
  <2>3. PICK t : t = s[n]
    OBVIOUS
  <2>4. n \in Nat /\ t = [u \in 1..k |-> t[u]] /\ \A u \in 1..k : t[u] = <<n, u = k>>
    <3>1. n \in Nat
      BY <1>1
    <3>2. QED
      BY <2>2, <2>3, <3>1, Zenon
  <2>5. t \in Seq(Unit) /\ Len(t) = k /\ \A u \in 1..k : t[u][1] = n /\ (t[u][2] <=> u = k)
    <3>1. \A b \in BOOLEAN : <<n, b>> \in Unit /\ <<n, b>>[1] = n /\ <<n, b>>[2] = b
      BY <2>4 DEF Unit
    <3>2. \A u \in 1..k : (u = k) \in BOOLEAN
      OBVIOUS
    <3>3. \A u \in 1..k : t[u] \in Unit /\ t[u][1] = n /\ (t[u][2] <=> u = k)
      BY <2>4, <3>1, <3>2, Zenon
    <3>4. t \in [1..k -> Unit]
      BY <2>4, <3>3, Zenon
    <3>5. t \in Seq(Unit) /\ Len(t) = k
      BY <3>4, FunctionSeq
    <3>6. QED
      BY <3>3, <3>5, Zenon
  <2>6. QED
    BY <2>1, <2>3, <2>5, Zenon
<1>4. s \in Seq(Seq(Unit)) /\ Len(s) = N
  <2>1. DOMAIN s = 1..N
    BY <1>1, <1>2
  <2>2. s = [i \in 1..N |-> s[i]]
    BY <1>1, <1>2
  <2>3. s \in [1..N -> Seq(Unit)]
    BY <1>3, <2>2
  <2>4. QED
    BY <2>3, FunctionSeq
<1>5. Upstream = FlattenSeq(s)
  BY <1>2 DEF Upstream
<1>6. PICK f : f = FlattenSeq(s)
  OBVIOUS
<1>7. f \in Seq(Unit)
  BY <1>4, <1>6, FlattenParts
<1>8. PICK end \in [0..N -> Nat] :
        /\ end[0] = 0 /\ end[N] = Len(f)
        /\ \A n \in 1..N : /\ end[n] = end[n - 1] + Len(s[n])
                           /\ \A i \in 1..Len(s[n]) : f[end[n - 1] + i] = s[n][i]
  <2>1. \E end \in [0..Len(s) -> Nat] :
          /\ end[0] = 0 /\ end[Len(s)] = Len(FlattenSeq(s))
          /\ \A n \in 1..Len(s) :
               /\ end[n] = end[n - 1] + Len(s[n])
               /\ \A i \in 1..Len(s[n]) : FlattenSeq(s)[end[n - 1] + i] = s[n][i]
    BY <1>4, FlattenParts
  <2>2. QED
    BY <1>4, <1>6, <2>1
<1>9. ASSUME NEW n \in 1..N
      PROVE  /\ end[n] = end[n - 1] + requests[n].size
             /\ \A u \in 1..requests[n].size :
                  /\ f[end[n - 1] + u][1] = n
                  /\ f[end[n - 1] + u][2] <=> u = requests[n].size
  <2>1. PICK k \in Nat : k = requests[n].size
    BY <1>1, RequestsOf
  <2>2. PICK t : t = s[n]
    OBVIOUS
  <2>3. Len(t) = k /\ \A u \in 1..k : t[u][1] = n /\ (t[u][2] <=> u = k)
    BY <1>3, <2>1, <2>2
  <2>4. end[n] = end[n - 1] + Len(t) /\ \A i \in 1..Len(t) : f[end[n - 1] + i] = t[i]
    BY <1>8, <2>2
  <2>5. end[n] = end[n - 1] + k /\ \A u \in 1..k : f[end[n - 1] + u] = t[u]
    BY <2>3, <2>4
  <2>6. \A u \in 1..k : f[end[n - 1] + u][1] = n /\ (f[end[n - 1] + u][2] <=> u = k)
    BY <2>3, <2>5, ZenonT(40)
  <2>7. QED
    BY <2>1, <2>5, <2>6, Zenon
<1>10. Marks(end)
  BY <1>1, <1>5, <1>6, <1>8, <1>9 DEF Marks
<1>11. QED
  BY <1>5, <1>6, <1>7, <1>10

\* The first closing tag ends the request.
LEMMA FirstTag ==
  ASSUME NEW all \in Seq(Unit), NEW m \in 1..Len(all),
         all[m][2], \A i \in 1..(m - 1) : ~all[i][2]
  PROVE  TailSize(all) = Len(all) - m
<1> DEFINE I == {i \in 1..Len(all) : all[i][2]}
<1>1. SelectInSeq(all, LAMBDA u : u[2]) = IF I # {} THEN Min(I) ELSE 0
  BY DEF SelectInSeq
<1>2. m \in I /\ \A i \in I : m <= i
  BY LenProperties
<1>3. Min(I) = m
  <2>1. I \subseteq Nat /\ m \in Nat
    OBVIOUS
  <2> HIDE DEF I
  <2>2. \A x \in I : (\A y \in I : x <= y) => x = m
    BY <1>2, <2>1
  <2>3. QED
    BY <1>2, <2>2 DEF Min
<1>4. I # {}
  BY <1>2
<1>5. QED
  BY <1>1, <1>3, <1>4 DEF TailSize

\* Where request n is in the stream: behind the first e units, size units of it.
Part(up, n, size, e) ==
  /\ n \in Nat /\ size \in Nat /\ size > 0 /\ e \in Nat /\ e + size <= Len(up)
  /\ \A u \in 1..size : up[e + u][1] = n /\ (up[e + u][2] <=> u = size)

\* Where the requests end in the stream.
LEMMA EndsOf ==
  ASSUME requests \in Seq(Request), NEW end, Marks(end)
  PROVE  \A n \in 0..Len(requests) : end[n] \in Nat /\ end[n] <= Len(Upstream)
<1>1. PICK N \in Nat : N = Len(requests)
  BY RequestsOf
<1>2. /\ \A n \in 0..N : end[n] \in Nat
      /\ end[N] = Len(Upstream)
      /\ \A n \in 1..N : requests[n].size \in Nat /\ end[n] = end[n - 1] + requests[n].size
  BY <1>1, RequestsOf DEF Marks
<1> DEFINE low == {n \in 0..N : \A m \in 0..n : end[m] <= end[n]}
<1>3. 0 \in low
  <2>1. 0 \in 0..N /\ \A m \in 0..0 : m = 0
    OBVIOUS
  <2>2. end[0] <= end[0]
    BY <1>2, <2>1
  <2>3. QED
    BY <2>1, <2>2
<1>4. ASSUME NEW n \in 1..N, n - 1 \in low PROVE n \in low
  <2>1. n \in 0..N /\ n - 1 \in 0..N
    OBVIOUS
  <2>2. PICK a \in Nat : a = end[n - 1]
    BY <1>2, <2>1
  <2>3. PICK b \in Nat : b = end[n]
    BY <1>2, <2>1
  <2>4. a <= b
    <3>1. PICK k \in Nat : k = requests[n].size
      BY <1>2
    <3>2. b = a + k
      BY <1>2, <2>2, <2>3, <3>1
    <3>3. QED
      BY <3>2
  <2>5. ASSUME NEW m \in 0..n PROVE end[m] <= b
    <3>1. CASE m = n
      BY <2>3, <3>1
    <3>2. CASE m # n
      <4>1. m \in 0..(n - 1) /\ m \in 0..N
        BY <3>2
      <4>2. PICK c \in Nat : c = end[m]
        BY <1>2, <4>1
      <4>3. c <= a
        BY <1>4, <2>2, <4>1, <4>2
      <4>4. QED
        BY <2>4, <4>2, <4>3
    <3>3. QED
      BY <3>1, <3>2
  <2>6. QED
    BY <2>1, <2>3, <2>5
<1> HIDE DEF low
<1>5. N \in low
  <2>1. \A n \in 0..N : n \in low
    BY <1>3, <1>4, UpTo
  <2>2. QED
    BY <2>1
<1>6. QED
  BY <1>1, <1>2, <1>5 DEF low

\* The n requests returned were cut out of the stream, which xml goes on with; it is the
\* beginning of the next request without its closing tag, and empty between two calls of
\* receive_message.
Framed(end) ==
  /\ decoded \in Seq(Seq(Unit)) /\ Len(decoded) <= Len(requests)
  /\ arrived \in Nat /\ arrived <= Len(Upstream)
  /\ consumed \in Nat /\ consumed <= arrived
  /\ FlattenSeq(decoded) = SubSeq(Upstream, 1, end[Len(decoded)])
  /\ \A i \in 1..Len(decoded) : /\ Len(decoded[i]) = requests[i].size
                                /\ \A k \in 1..requests[i].size : decoded[i][k][1] = i
  /\ end[Len(decoded)] <= consumed
  /\ xml = SubSeq(Upstream, end[Len(decoded)] + 1, consumed)
  /\ Len(decoded) < Len(requests) => consumed < end[Len(decoded) + 1]
  /\ pc["receiver"] \notin {"receive", "gone"} => xml = <<>>

Framing == requests \in Seq(Request) /\ \E end : Marks(end) /\ Framed(end)

\* The next request, where it is in the stream.
LEMMA NextRequest ==
  ASSUME requests \in Seq(Request), NEW end, Marks(end),
         NEW n \in Nat, n < Len(requests)
  PROVE  /\ Part(Upstream, n + 1, requests[n + 1].size, end[n])
         /\ end[n + 1] = end[n] + requests[n + 1].size
<1>1. PICK m \in Nat : m = n + 1
  OBVIOUS
<1>2. m \in 1..Len(requests) /\ m - 1 = n /\ n \in 0..Len(requests) /\ m \in 0..Len(requests)
  BY <1>1, RequestsOf
<1>3. PICK size \in Nat : size = requests[m].size /\ size > 0
  BY <1>2, RequestsOf
<1>4. PICK e \in Nat : e = end[n]
  BY <1>2, EndsOf
<1>5. end[m] = end[m - 1] + requests[m].size
  BY <1>2 DEF Marks
<1>6. end[m] <= Len(Upstream)
  BY <1>2, EndsOf
<1>7. \A u \in 1..requests[m].size : /\ Upstream[end[m - 1] + u][1] = m
                                     /\ Upstream[end[m - 1] + u][2] <=> u = requests[m].size
  BY <1>2 DEF Marks
<1>8. \A u \in 1..size : Upstream[e + u][1] = m /\ (Upstream[e + u][2] <=> u = size)
  BY <1>2, <1>3, <1>4, <1>7, Zenon
<1>9. end[m] = e + size /\ e + size <= Len(Upstream)
  BY <1>2, <1>3, <1>4, <1>5, <1>6
<1>10. Part(Upstream, m, size, e)
  BY <1>3, <1>8, <1>9, Zenon DEF Part
<1>11. QED
  BY <1>1, <1>3, <1>4, <1>9, <1>10

LEMMA InitFraming == Init => Framing
<1> SUFFICES ASSUME Init PROVE Framing
  OBVIOUS
<1>1. requests \in Seq(Request)
  BY SizesAssumption DEF Init, Request
<1>2. PICK end : Marks(end)
  BY <1>1, Streamed
<1>3. decoded = <<>> /\ xml = <<>> /\ arrived = 0 /\ consumed = 0
  BY DEF Init
<1>4. Upstream \in Seq(Unit) /\ Len(Upstream) \in Nat /\ Len(requests) \in Nat
  BY <1>1, Streamed, LenProperties
<1>5. <<>> \in Seq(Seq(Unit)) /\ Len(<<>>) = 0 /\ FlattenSeq(<<>>) = <<>>
  BY EmptySeq DEF FlattenSeq
<1>6. end[0] = 0 /\ SubSeq(Upstream, 1, 0) = <<>> /\ SubSeq(Upstream, 0 + 1, 0) = <<>>
  BY <1>2, SubSeqEmpty DEF Marks
<1>7. 0 < Len(requests) => 0 < end[0 + 1]
  <2>1. SUFFICES ASSUME 0 < Len(requests) PROVE 0 < end[0 + 1]
    OBVIOUS
  <2>2. PICK n \in Nat : n = 0
    OBVIOUS
  <2>3. n < Len(requests)
    BY <2>1, <2>2
  <2>4. /\ Part(Upstream, n + 1, requests[n + 1].size, end[n])
        /\ end[n + 1] = end[n] + requests[n + 1].size
    BY <1>1, <1>2, <2>3, NextRequest
  <2>5. QED
    BY <2>2, <2>4 DEF Part
<1>8. Framed(end)
  <2>1. Len(decoded) = 0 /\ \A i \in 1..Len(decoded) : FALSE
    BY <1>3, <1>5
  <2>2. decoded \in Seq(Seq(Unit)) /\ Len(decoded) <= Len(requests)
        /\ FlattenSeq(decoded) = SubSeq(Upstream, 1, end[Len(decoded)])
    <3>1. decoded \in Seq(Seq(Unit)) /\ FlattenSeq(decoded) = <<>>
      BY <1>3, <1>5, Zenon
    <3>2. SubSeq(Upstream, 1, end[Len(decoded)]) = <<>>
      BY <1>6, <2>1, Zenon
    <3>3. Len(decoded) <= Len(requests)
      BY <1>4, <2>1
    <3>4. QED
      BY <3>1, <3>2, <3>3
  <2>3. xml = SubSeq(Upstream, end[Len(decoded)] + 1, consumed) /\ end[Len(decoded)] <= consumed
    BY <1>3, <1>6, <2>1
  <2>4. Len(decoded) < Len(requests) => consumed < end[Len(decoded) + 1]
    BY <1>3, <1>7, <2>1
  <2>5. QED
    BY <1>3, <1>4, <2>1, <2>2, <2>3, <2>4 DEF Framed
<1>9. QED
  BY <1>1, <1>2, <1>8 DEF Framing

LEMMA LesserOfTwo ==
  ASSUME NEW a \in Nat \ {0}, NEW b \in Nat \ {0}
  PROVE  Min({a, b}) \in Nat \ {0} /\ Min({a, b}) <= b
<1> DEFINE m == IF a <= b THEN a ELSE b
<1>1. m \in {a, b} /\ \A x \in {a, b} : m <= x
  OBVIOUS
<1>2. \A x \in {a, b} : (\A y \in {a, b} : x <= y) => x = m
  BY <1>1
<1>3. Min({a, b}) = m
  BY <1>1, <1>2 DEF Min
<1>4. QED
  BY <1>3

\* receive_message: what is peeked continues xml, and what it returns is the next request.
LEMMA ReceiveFrames ==
  ASSUME requests \in Seq(Request), NEW end, Marks(end), Framed(end), Receive
  PROVE  Framed(end)'
<1>1. /\ pc["receiver"] = "receive" /\ arrived > consumed
      /\ requests' = requests /\ arrived' = arrived /\ Upstream' = Upstream
  BY DEF Receive, Readable, Upstream
<1>2. PICK up \in Seq(Unit) : up = Upstream
  BY Streamed
<1>3. PICK n \in Nat : n = Len(decoded)
  BY LenProperties DEF Framed
<1>4. /\ Len(up) \in Nat /\ Len(requests) \in Nat /\ decoded \in Seq(Seq(Unit))
      /\ arrived \in Nat /\ arrived <= Len(up) /\ consumed \in Nat /\ n <= Len(requests)
      /\ end[n] <= consumed /\ xml = SubSeq(up, end[n] + 1, consumed)
      /\ n < Len(requests) => consumed < end[n + 1]
      /\ FlattenSeq(decoded) = SubSeq(up, 1, end[n])
  BY <1>2, <1>3, RequestsOf, LenProperties DEF Framed
<1>5. n < Len(requests)
  <2>1. end[Len(requests)] = Len(up)
    BY <1>2 DEF Marks
  <2>2. QED
    BY <1>1, <1>4, <2>1
<1>m. PICK n1 \in Nat : n1 = n + 1
  OBVIOUS
<1>6. PICK size \in Nat, e \in Nat :
        /\ size = requests[n1].size /\ e = end[n] /\ end[n1] = e + size
        /\ Part(up, n1, size, e)
  <2>1. /\ Part(Upstream, n1, requests[n1].size, end[n])
        /\ end[n1] = end[n] + requests[n1].size
    BY <1>5, <1>m, NextRequest
  <2>2. requests[n1].size \in Nat /\ end[n] \in Nat
    BY <2>1 DEF Part
  <2>3. QED
    BY <1>2, <2>1, <2>2
<1>7. size > 0 /\ e + size <= Len(up)
  BY <1>6 DEF Part
<1>8. PICK bytes \in Nat \ {0} : bytes = Min({PeekSize, arrived - consumed})
                                /\ bytes <= arrived - consumed
  <2>1. PeekSize \in Nat \ {0} /\ arrived - consumed \in Nat \ {0}
    BY <1>1, <1>4, SizesAssumption
  <2>2. QED
    BY <2>1, LesserOfTwo
<1>n. /\ consumed \in Nat /\ arrived \in Nat /\ Len(up) \in Nat
      /\ e <= consumed /\ consumed < arrived /\ arrived <= Len(up)
  BY <1>1, <1>4, <1>6
<1>9. PICK m \in Nat : m = consumed + bytes /\ e < m /\ m <= arrived /\ m <= Len(up)
  BY <1>n, <1>8
<1>f. PICK from \in Nat : from = e + 1
  OBVIOUS
<1>c. PICK c \in Nat : c = e + size
  OBVIOUS
<1>10. PICK all : all = SubSeq(up, from, m)
  OBVIOUS
<1>11. all = xml \o SubSeq(Upstream, consumed + 1, consumed + bytes)
  <2>1. from \in 1..Len(up) + 1 /\ consumed \in from - 1..Len(up) /\ m \in consumed..Len(up)
    BY <1>n, <1>f, <1>9
  <2>2. SubSeq(up, from, consumed) \o SubSeq(up, consumed + 1, m) = SubSeq(up, from, m)
    BY <2>1, ConcatAdjacentSubSeq
  <2>3. QED
    BY <1>2, <1>4, <1>f, <1>6, <1>9, <1>10, <2>2
<1>k. PICK k \in Nat : k = m - e
  BY <1>9
<1>12. /\ DOMAIN all = 1..k
       /\ (\E j \in 1..k : all[j][2]) =>
            /\ c <= m /\ TailSize(all) = m - c
            /\ SubSeq(all, 1, Len(all) - TailSize(all)) = SubSeq(up, from, c)
       /\ ~(\E j \in 1..k : all[j][2]) => m < c
  <2>1. size > 0 /\ c <= Len(up) /\ Len(up) \in Nat
    BY <1>n, <1>c, <1>7
  <2>2. \A u \in 1..size : up[e + u][2] <=> u = size
    BY <1>6 DEF Part
  <2>3. e <= m /\ m <= Len(up) /\ k = m - e /\ c = e + size
    BY <1>9, <1>c, <1>k
  <2>4. /\ all \in Seq(Unit) /\ Len(all) = k /\ DOMAIN all = 1..k
        /\ \A i \in 1..k : all[i] = up[e + i]
    BY <1>f, <1>10, <2>3, PartOfSeq
  <2>5. \A i \in 1..size : i <= k => all[i] = up[e + i]
    BY <2>4
  <2>6. \A i \in 1..size : i <= k => (all[i][2] <=> i = size)
    BY <2>2, <2>5, Zenon
  <2>7. CASE size <= k
    <3>1. size \in 1..Len(all) /\ all[size][2] /\ \A i \in 1..(size - 1) : ~all[i][2]
      <4>1. /\ size \in 1..k /\ size \in 1..size
            /\ \A i \in 1..(size - 1) : i \in 1..size /\ i <= k /\ i # size
        BY <2>1, <2>7
      <4>2. all[size][2]
        BY <2>6, <2>7, <4>1, Zenon
      <4>3. \A i \in 1..(size - 1) : ~all[i][2]
        BY <2>6, <4>1, Zenon
      <4>4. QED
        BY <2>4, <4>1, <4>2, <4>3, Zenon
    <3>2. TailSize(all) = Len(all) - size
      BY <2>4, <3>1, FirstTag, Zenon
    <3>3. TailSize(all) = k - size
      BY <2>4, <3>2
    <3>4. Len(all) - TailSize(all) = size /\ TailSize(all) = m - c /\ c <= m
      BY <2>3, <2>4, <2>7, <3>3
    <3>5. SubSeq(all, 1, size) = SubSeq(up, from, c)
      <4>1. PICK p : p = SubSeq(all, 1, size)
        OBVIOUS
      <4>2. p \in Seq(Unit) /\ Len(p) = size /\ \A i \in 1..size : p[i] = all[i]
        <5>1. size \in 0..Len(all)
          BY <2>4, <2>7
        <5>2. QED
          BY <2>4, <4>1, <5>1, FirstElements
      <4>3. PICK q : q = SubSeq(up, from, c)
        OBVIOUS
      <4>4. e <= c /\ c - e = size
        BY <2>3
      <4>5. q \in Seq(Unit) /\ Len(q) = size /\ \A i \in 1..size : q[i] = up[e + i]
        BY <1>f, <2>1, <4>3, <4>4, PartOfSeq
      <4>6. \A i \in 1..size : p[i] = q[i]
        <5>1. \A i \in 1..size : i <= k
          BY <2>7
        <5>2. QED
          BY <2>5, <4>2, <4>5, <5>1, Zenon
      <4>7. p = q
        BY <4>2, <4>5, <4>6, SeqEqual
      <4>8. QED
        BY <4>1, <4>3, <4>7
    <3>6. \E j \in 1..k : all[j][2]
      BY <2>4, <3>1
    <3>7. QED
      BY <2>4, <3>4, <3>5, <3>6, Zenon
  <2>8. CASE ~(size <= k)
    <3>1. m < c
      BY <2>3, <2>8
    <3>2. \A j \in 1..k : ~all[j][2]
      <4>1. \A j \in 1..k : j \in 1..size /\ j <= k /\ j # size
        BY <2>4, <2>8
      <4>2. QED
        BY <2>6, <4>1, Zenon
    <3>3. QED
      BY <2>4, <3>1, <3>2, Zenon
  <2>9. QED
    BY <2>7, <2>8
<1>13. IF \E j \in 1..k : all[j][2]
         THEN /\ consumed' = consumed + bytes - TailSize(all)
              /\ decoded' = Append(decoded, SubSeq(all, 1, Len(all) - TailSize(all)))
              /\ xml' = <<>>
         ELSE consumed' = consumed + bytes /\ xml' = all /\ decoded' = decoded /\ pc' = pc
  <2>1. PICK rest : rest = TailSize(all)
    OBVIOUS
  <2>2. IF \E j \in 1..k : all[j][2]
          THEN /\ consumed' = consumed + bytes - rest
               /\ decoded' = Append(decoded, SubSeq(all, 1, Len(all) - rest))
               /\ xml' = <<>>
          ELSE consumed' = consumed + bytes /\ xml' = all /\ decoded' = decoded /\ pc' = pc
    BY <1>8, <1>11, <1>12, <2>1, Zenon DEF Receive
  <2>3. QED
    BY <2>1, <2>2, Zenon
<1>14. CASE \E j \in 1..k : all[j][2]
  <2>1. PICK request : request = SubSeq(up, from, c)
    OBVIOUS
  <2>2. decoded' = Append(decoded, request) /\ xml' = <<>>
    BY <1>12, <1>13, <1>14, <2>1, Zenon
  <2>3. consumed' = c /\ c <= arrived
    <3>1. c <= m /\ TailSize(all) = m - c /\ consumed' = consumed + bytes - TailSize(all)
      BY <1>12, <1>13, <1>14, Zenon
    <3>2. consumed' = m - (m - c)
      BY <1>n, <1>9, <3>1
    <3>3. QED
      BY <1>n, <1>9, <3>1, <3>2
  <2>4. request \in Seq(Unit) /\ Len(request) = size /\ \A u \in 1..size : request[u][1] = n1
    <3>1. e <= c /\ c <= Len(up) /\ c - e = size
      BY <1>c, <1>7
    <3>2. \A u \in 1..size : up[e + u][1] = n1
      BY <1>6 DEF Part
    <3>3. /\ request \in Seq(Unit) /\ Len(request) = size
          /\ \A i \in 1..size : request[i] = up[e + i]
      BY <1>f, <2>1, <3>1, PartOfSeq
    <3>4. QED
      BY <3>2, <3>3, Zenon
  <2>5. PICK q : q = Append(decoded, request)
    OBVIOUS
  <2>6. /\ q \in Seq(Seq(Unit)) /\ Len(q) = n1 /\ q[n1] = request
        /\ \A i \in 1..n : q[i] = decoded[i]
    BY <1>3, <1>4, <1>m, <2>4, <2>5, AppendProperties
  <2>7. FlattenSeq(q) = SubSeq(up, 1, c)
    <3>1. FlattenSeq(q) = FlattenSeq(decoded) \o request
      BY <1>4, <2>4, <2>5, FlattenAppend
    <3>2. 1 \in 1..Len(up) + 1 /\ e \in 1 - 1..Len(up) /\ c \in e..Len(up)
      BY <1>n, <1>c, <1>7
    <3>3. SubSeq(up, 1, e) \o SubSeq(up, from, c) = SubSeq(up, 1, c)
      BY <1>f, <3>2, ConcatAdjacentSubSeq
    <3>4. QED
      BY <1>4, <1>6, <2>1, <3>1, <3>3
  <2>8. \A i \in 1..n1 : /\ Len(q[i]) = requests[i].size
                            /\ \A u \in 1..requests[i].size : q[i][u][1] = i
    <3>1. \A i \in 1..n1 : i = n1 \/ i \in 1..n
      BY <1>m
    <3>2. \A i \in 1..n : /\ Len(decoded[i]) = requests[i].size
                          /\ \A u \in 1..requests[i].size : decoded[i][u][1] = i
      BY <1>3, Zenon DEF Framed
    <3>3. \A i \in 1..n : /\ Len(q[i]) = requests[i].size
                          /\ \A u \in 1..requests[i].size : q[i][u][1] = i
      BY <2>6, <3>2, Zenon
    <3>4. /\ Len(q[n1]) = requests[n1].size
          /\ \A u \in 1..requests[n1].size : q[n1][u][1] = n1
      BY <1>6, <2>4, <2>6, Zenon
    <3>5. QED
      BY <3>1, <3>3, <3>4, Zenon
  <2>9. end[n1] = c /\ <<>> = SubSeq(up, c + 1, c) /\ n1 <= Len(requests)
    BY <1>4, <1>5, <1>m, <1>n, <1>c, <1>6, SubSeqEmpty, SMTT(30)
  <2>10. n1 < Len(requests) => c < end[n1 + 1]
    <3>1. SUFFICES ASSUME n1 < Len(requests) PROVE c < end[n1 + 1]
      OBVIOUS
    <3>2. /\ Part(Upstream, n1 + 1, requests[n1 + 1].size, end[n1])
          /\ end[n1 + 1] = end[n1] + requests[n1 + 1].size
      BY <3>1, NextRequest
    <3>3. QED
      BY <2>9, <3>2 DEF Part
  <2>11. decoded' = q /\ consumed' = c /\ xml' = <<>>
    BY <2>2, <2>3, <2>5
  <2>12. /\ arrived' \in Nat /\ arrived' <= Len(Upstream') /\ consumed' \in Nat
         /\ consumed' <= arrived' /\ Len(decoded') <= Len(requests')
    BY <1>1, <1>2, <1>4, <2>3, <2>6, <2>9, <2>11
  <2>13. /\ FlattenSeq(decoded') = SubSeq(Upstream', 1, end[Len(decoded')])
         /\ xml' = SubSeq(Upstream', end[Len(decoded')] + 1, consumed')
         /\ end[Len(decoded')] <= consumed'
         /\ Len(decoded') < Len(requests') => consumed' < end[Len(decoded') + 1]
    BY <1>1, <1>2, <2>3, <2>6, <2>7, <2>9, <2>10, <2>11
  <2>14. \A i \in 1..Len(decoded') : /\ Len(decoded'[i]) = requests'[i].size
                                     /\ \A u \in 1..requests'[i].size : decoded'[i][u][1] = i
    BY <1>1, <2>6, <2>8, <2>11, Zenon
  <2>15. QED
    BY <2>6, <2>11, <2>12, <2>13, <2>14 DEF Framed
<1>15. CASE ~\E j \in 1..k : all[j][2]
  <2>1. consumed' = m /\ xml' = all /\ decoded' = decoded /\ pc' = pc /\ m < c
    <3>1. m < c
      BY <1>12, <1>15, Zenon
    <3>2. consumed' = consumed + bytes /\ xml' = all /\ decoded' = decoded /\ pc' = pc
      BY <1>13, <1>15, Zenon
    <3>3. QED
      BY <1>9, <3>1, <3>2
  <2>2. /\ consumed' \in Nat /\ consumed' <= arrived' /\ arrived' \in Nat
        /\ arrived' <= Len(Upstream')
    BY <1>1, <1>2, <1>4, <1>9, <2>1
  <2>3. Len(decoded') = n /\ end[n] = e /\ e + 1 = from /\ end[n + 1] = c
    BY <1>3, <1>m, <1>f, <1>c, <1>6, <2>1
  <2>4. end[Len(decoded')] <= consumed' /\ consumed' < end[Len(decoded') + 1]
    BY <1>n, <1>9, <2>1, <2>3
  <2>5. xml' = SubSeq(Upstream', end[Len(decoded')] + 1, consumed')
    BY <1>1, <1>2, <1>10, <2>1, <2>3, Zenon
  <2>6. pc'["receiver"] = "receive"
    BY <1>1, <2>1
  <2>7. QED
    BY <1>1, <2>1, <2>2, <2>4, <2>5, <2>6, Zenon DEF Framed
<1>16. QED
  BY <1>14, <1>15

\* Nothing but receive_message reads from the stream, and the thread goes to it with an
\* empty buffer.
LEMMA FramingKept ==
  ASSUME Framing, UNCHANGED <<requests, consumed, decoded>>,
         arrived' \in Nat, arrived <= arrived', arrived' <= Len(Upstream),
         xml' = xml, pc'["receiver"] \notin {"receive", "gone"} => xml = <<>>
  PROVE  Framing'
<1>1. PICK end : Marks(end) /\ Framed(end)
  BY DEF Framing
<1>2. Upstream' = Upstream /\ requests' = requests
  BY DEF Upstream
<1>3. Marks(end)'
  BY <1>1, <1>2 DEF Marks
<1>4. Framed(end)'
  <2>1. consumed' \in Nat /\ consumed' <= arrived'
    BY <1>1 DEF Framed
  <2>2. QED
    BY <1>1, <1>2, <2>1 DEF Framed
<1>5. QED
  BY <1>2, <1>3, <1>4 DEF Framing

LEMMA FramingStep == Types /\ Framing /\ [Next]_vars => Framing'
<1> SUFFICES ASSUME Types, Framing, [Next]_vars PROVE Framing'
  OBVIOUS
<1>1. PICK end : Marks(end) /\ Framed(end)
  BY DEF Framing
<1>2. /\ requests \in Seq(Request) /\ arrived \in Nat /\ arrived <= Len(Upstream)
      /\ Len(Upstream) \in Nat /\ (pc["receiver"] \notin {"receive", "gone"} => xml = <<>>)
  <2>1. requests \in Seq(Request)
    BY DEF Framing
  <2>2. QED
    BY <1>1, <2>1, Streamed, LenProperties DEF Framed
<1>3. DOMAIN pc = {"sender", "receiver"}
  BY DEF Types, Threads
<1> DEFINE Elsewhere ==
      /\ UNCHANGED inputvars
      /\ \/ pc["receiver"] \notin {"receive", "gone"}
         \/ pc'["receiver"] = pc["receiver"]
         \/ pc'["receiver"] = "gone"
<1>4. ASSUME Elsewhere PROVE Framing'
  <2>1. /\ UNCHANGED <<requests, consumed, decoded>> /\ xml' = xml
        /\ arrived' \in Nat /\ arrived <= arrived' /\ arrived' <= Len(Upstream)
    BY <1>2, <1>4 DEF inputvars
  <2>2. pc'["receiver"] \notin {"receive", "gone"} => xml = <<>>
    BY <1>2, <1>4
  <2>3. QED
    BY <2>1, <2>2, FramingKept
<1>5. ASSUME NEW t \in Threads, SendCheck(t) PROVE Elsewhere
  BY <1>3, <1>5 DEF SendCheck, GoTo, Threads
<1>6. ASSUME NEW t \in Threads, SendLock(t) PROVE Elsewhere
  BY <1>3, <1>6 DEF SendLock, GoTo, Threads
<1>7. ASSUME NEW t \in Threads, WriteMessage(t) PROVE Elsewhere
  BY <1>3, <1>7 DEF WriteMessage, GoTo, Threads
<1>8. ASSUME NEW t \in Threads, WriteFails(t) PROVE Elsewhere
  BY <1>3, <1>8 DEF WriteFails, Fails, GoTo, Threads
<1>9. CASE SendNext \/ AfterSend \/ NextChunk
  BY <1>3, <1>4, <1>9 DEF SendNext, AfterSend, NextChunk, GoTo
<1>10. CASE WriteChunk \/ ChunkFails
  BY <1>3, <1>4, <1>10 DEF WriteChunk, ChunkFails, Fails, GoTo
<1>11. CASE Listen
  <2>1. xml = <<>> /\ xml' = xml /\ UNCHANGED <<requests, arrived, consumed, decoded>>
    BY <1>2, <1>11 DEF Listen
  <2>2. QED
    BY <1>2, <2>1, FramingKept
<1>12. CASE Receive
  <2>1. Framed(end)'
    BY <1>1, <1>2, <1>12, ReceiveFrames
  <2>2. requests' = requests /\ Upstream' = Upstream
    BY <1>12 DEF Receive, Upstream
  <2>3. Marks(end)'
    BY <1>1, <2>2, SMTT(30) DEF Marks
  <2>4. QED
    BY <1>2, <2>1, <2>2, <2>3 DEF Framing
<1>13. CASE GiveUp
  BY <1>3, <1>4, <1>13 DEF GiveUp, GoTo
<1>14. CASE Arrive
  <2>1. /\ arrived' \in Nat /\ arrived <= arrived' /\ arrived' <= Len(Upstream)
        /\ UNCHANGED <<requests, consumed, decoded, xml, pc>>
    BY <1>2, <1>14 DEF Arrive
  <2>2. QED
    BY <1>2, <2>1, FramingKept
<1>15. CASE UNCHANGED vars
  BY <1>4, <1>15 DEF vars, inputvars
<1>16. QED
  BY <1>4, <1>5, <1>6, <1>7, <1>8, <1>9, <1>10, <1>11, <1>12, <1>13, <1>14, <1>15
     DEF Next, Sender, Receiver, SendMessage, Threads

\* However the stream is cut: the requests returned and what is collected are the part of
\* the stream that was read, and each request is whole and its own.
LEMMA FramesFromFraming == Framing => FramesWhole
<1> SUFFICES ASSUME Framing PROVE FramesWhole
  OBVIOUS
<1>1. PICK end : Marks(end) /\ Framed(end)
  BY DEF Framing
<1>2. requests \in Seq(Request)
  BY DEF Framing
<1>3. PICK up \in Seq(Unit) : up = Upstream
  BY <1>2, Streamed
<1>4. PICK n \in Nat : n = Len(decoded) /\ n <= Len(requests) /\ Len(requests) \in Nat
  BY <1>1, <1>2, RequestsOf, LenProperties DEF Framed
<1>5. n \in 0..Len(requests)
  BY <1>4
<1>6. PICK e \in Nat : e = end[n]
  BY <1>1, <1>2, <1>5, EndsOf
<1>7. FlattenSeq(decoded) \o xml = SubSeq(Upstream, 1, consumed)
  <2>1. /\ consumed \in Nat /\ e <= consumed /\ consumed <= Len(up) /\ Len(up) \in Nat
        /\ FlattenSeq(decoded) = SubSeq(up, 1, e) /\ xml = SubSeq(up, e + 1, consumed)
    <3>1. Len(up) \in Nat
      BY LenProperties
    <3>2. QED
      BY <1>1, <1>3, <1>4, <1>6, <3>1 DEF Framed
  <2>2. 1 \in 1..Len(up) + 1 /\ e \in 1 - 1..Len(up) /\ consumed \in e..Len(up)
    BY <2>1
  <2>3. SubSeq(up, 1, e) \o SubSeq(up, e + 1, consumed) = SubSeq(up, 1, consumed)
    BY <2>2, ConcatAdjacentSubSeq
  <2>4. QED
    BY <1>3, <2>1, <2>3
<1>8. ASSUME NEW i \in DOMAIN decoded
      PROVE  /\ \A k \in DOMAIN decoded[i] : decoded[i][k][1] = i
             /\ Len(decoded[i]) = requests[i].size
  <2>1. decoded \in Seq(Seq(Unit))
    BY <1>1 DEF Framed
  <2>2. i \in 1..Len(decoded)
    BY <2>1, LenProperties
  <2>3. /\ Len(decoded[i]) = requests[i].size
        /\ \A k \in 1..requests[i].size : decoded[i][k][1] = i
    BY <1>1, <2>2 DEF Framed
  <2>4. decoded[i] \in Seq(Unit)
    BY <2>1, <2>2, ElementOfSeq
  <2>5. DOMAIN decoded[i] = 1..Len(decoded[i])
    BY <2>4, LenProperties
  <2>6. QED
    BY <2>3, <2>5
<1>9. QED
  BY <1>7, <1>8 DEF FramesWhole

\* Whatever the sizes, the outputs, the requests and the writes that fail: until a
\* write fails or a pong meets an array, the client can read all that the two threads
\* write, and after an abort they write no more than one message or chunk.
THEOREM AlwaysDecodes == Spec => []StreamDecodes
<1>1. Init => Types /\ Work /\ Lateness /\ Reading
  BY InitTypes, InitReading
<1>2. Types /\ Work /\ Lateness /\ Reading /\ [Next]_vars
        => (Types /\ Work /\ Lateness /\ Reading)'
  BY TypesStep, LatenessStep, ReadingStep
<1>3. Types /\ Work /\ Lateness /\ Reading => StreamDecodes
  <2> SUFFICES ASSUME Types, Work, Lateness, Reading PROVE StreamDecodes
    OBVIOUS
  <2>1. client.ok
    BY DEF Reading, Lost, Start
  <2>2. late <= Longest
    <3>1. \A t \in Threads : StillToWrite(t) \in Nat
      BY StillToWriteBounds
    <3>2. QED
      BY <3>1, LongestBounds DEF Lateness, Types, Threads
  <2>3. QED
    BY <2>1, <2>2 DEF StreamDecodes, Longest
<1>4. QED
  BY <1>1, <1>2, <1>3, PTL DEF Spec

\* For any sizes, any requests and any way the stream is cut into pieces: receive_message
\* returns each request whole, once and in order, and none has a part of its neighbour.
THEOREM FramesKeptWhole == Spec => []FramesWhole
<1>1. Init => Types /\ Work /\ Framing
  BY InitTypes, InitFraming
<1>2. Types /\ Work /\ Framing /\ [Next]_vars => (Types /\ Work /\ Framing)'
  BY TypesStep, FramingStep
<1>3. QED
  BY <1>1, <1>2, FramesFromFraming, PTL DEF Spec
===============================================================================
