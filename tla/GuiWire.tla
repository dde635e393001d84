-------------------------------- MODULE GuiWire --------------------------------
(***************************************************************************)
(* One connection between a gui_context and its client, below the level of *)
(* GuiServer: the two threads of the context share one socket.  The        *)
(* sending thread writes messages and arrays of bars, the receiving thread *)
(* cuts the client's requests out of the byte stream and answers pings.    *)
(*                                                                         *)
(* A write() takes several writes of the system, a request arrives in      *)
(* several pieces.  What is written or arrives at once is one unit; the    *)
(* last unit of a message or request holds its closing tag.                *)
(***************************************************************************)
EXTENDS SequencesExt

CONSTANTS Requests,   \* the requests a client may send: sequences of [kind, size]
          Outputs,    \* what the sending thread has to send: "message" or "array"
          MessageSize, ChunkSize, \* units of a message and of ten bars
          Chunks,     \* chunks of an array
          PeekSize,   \* units that fit the buffer of receive_message
          MaxFaults   \* bound: writes that fail

ASSUME SizesAssumption ==
  /\ {MessageSize, ChunkSize, Chunks, PeekSize} \subseteq Nat \ {0}
  /\ Outputs \in Seq({"message", "array"})
  /\ Requests \subseteq Seq([kind : {"ping", "options", "malformed"}, size : Nat \ {0}])

VARIABLES
  requests,   \* what the client sends on this connection
  arrived,    \* units of it that have arrived in the socket
  consumed,   \* units of it that were read from the socket
  xml,        \* the units receive_message has collected
  outputs,    \* what is still to be sent
  pc,         \* where the two threads are
  unit,       \* units each thread has written of its message or chunk
  chunk,      \* chunks of the array that were written
  send_lock_, \* the thread that holds it, or "free"
  aborted_,
  client,     \* how far the client has read: what it is in, bars left, understood
  pongs,      \* history: pongs written
  late,       \* history: units written since the context was aborted
  decoded,    \* history: the requests cut out of the stream
  faults

inputvars  == <<requests, arrived, consumed, xml, decoded>>
outputvars == <<outputs, chunk>>
clientvars == <<client, pongs, late>>
vars == <<inputvars, outputvars, clientvars, pc, unit, send_lock_, aborted_, faults>>

Threads == {"sender", "receiver"}

\* the client's bytes: <<number of the request, whether its closing tag is here>>
Upstream ==
  FlattenSeq([i \in DOMAIN requests |->
                [u \in 1..requests[i].size |-> <<i, u = requests[i].size>>]])

------------------------------------------------------------------------------
(* The client's side of the protocol: units are collected to a closing tag;*)
(* after the header of an array so many units are bars.                    *)

Start == [in |-> "nothing", left |-> 0, ok |-> TRUE]

\* a pong has met an array, or a message or an array was cut short: what the
\* client makes of the rest is not followed
Lost == [Start EXCEPT !.in = "disorder"]

ClientReads(u) ==
  IF client = Lost THEN Lost
  ELSE IF client.left > 0 THEN [client EXCEPT !.left = @ - 1, !.ok = @ /\ u.from = "bars"]
  ELSE [in   |-> IF u.last THEN "nothing" ELSE u.from,
        left |-> IF u.last /\ u.from = "array" THEN Chunks * ChunkSize ELSE 0,
        ok   |-> client.ok /\ client.in \in {"nothing", u.from} /\ u.from # "bars"]

\* a unit is written
Write(u, disorder) ==
  /\ client' = IF disorder THEN Lost ELSE ClientReads(u)
  /\ pongs' = pongs + IF u.from = "pong" /\ u.last THEN 1 ELSE 0
  /\ late' = late + IF aborted_ THEN 1 ELSE 0

------------------------------------------------------------------------------

Init ==
  /\ requests \in Requests
  /\ arrived = 0 /\ consumed = 0 /\ xml = <<>> /\ decoded = <<>>
  /\ outputs = Outputs /\ chunk = 0
  /\ pc = [t \in Threads |-> IF t = "sender" THEN "next" ELSE "idle"]
  /\ unit = [t \in Threads |-> 0]
  /\ send_lock_ = "free" /\ aborted_ = FALSE
  /\ client = Start /\ pongs = 0 /\ late = 0 /\ faults = 0

GoTo(t, place) == pc' = [pc EXCEPT ![t] = place]

------------------------------------------------------------------------------
(* send_message, by either thread                                          *)

\* what a thread sends now
Content(t) == IF t = "receiver" THEN "pong" ELSE Head(outputs)

\* canceled_ and aborted_ are looked at before send_lock_ is taken
SendCheck(t) ==
  /\ pc[t] = "send"
  /\ GoTo(t, IF aborted_ THEN "failed" ELSE "lock")
  /\ UNCHANGED <<inputvars, outputvars, unit, send_lock_, aborted_, clientvars, faults>>

\* mutant: the lock is not taken
SendUnlocked(t) ==
  /\ pc[t] = "lock"
  /\ GoTo(t, "write")
  /\ UNCHANGED <<inputvars, outputvars, unit, send_lock_, aborted_, clientvars, faults>>

SendLock(t) ==
  /\ pc[t] = "lock" /\ send_lock_ = "free"
  /\ send_lock_' = t
  /\ GoTo(t, "write")
  /\ UNCHANGED <<inputvars, outputvars, unit, aborted_, clientvars, faults>>

\* the sending thread is between the header of an array and its last bar
InArray ==
  \/ pc["sender"] \in {"body", "chunk"}
  \/ pc["sender"] = "sent" /\ Head(outputs) = "array"

WriteMessage(t) ==
  /\ pc[t] = "write"
  /\ LET done == unit[t] + 1 = MessageSize
     IN /\ Write([from |-> Content(t), last |-> done], InArray)
        /\ unit' = [unit EXCEPT ![t] = IF done THEN 0 ELSE @ + 1]
        /\ GoTo(t, IF done THEN "sent" ELSE "write")
        /\ send_lock_' = IF done THEN "free" ELSE t
  /\ UNCHANGED <<inputvars, outputvars, aborted_, faults>>

\* write() or wait_for_writable() fails, or its time is over
Fails ==
  /\ faults < MaxFaults /\ faults' = faults + 1
  /\ client' = Lost
  /\ UNCHANGED <<inputvars, pongs, late>>

\* set_aborted is called under send_lock_
WriteFails(t) ==
  /\ pc[t] = "write"
  /\ Fails
  /\ aborted_' = TRUE
  /\ send_lock_' = "free"
  /\ unit' = [unit EXCEPT ![t] = 0]
  /\ GoTo(t, "failed")
  /\ UNCHANGED outputvars

SendMessage(t) ==
  \/ SendCheck(t)
  \/ SendLock(t)
  \/ WriteMessage(t)
  \/ WriteFails(t)

------------------------------------------------------------------------------
(* The sending thread                                                      *)

\* send_thread_func goes round
SendNext ==
  /\ pc["sender"] = "next"
  /\ aborted_ \/ outputs # <<>>
  /\ GoTo("sender", IF aborted_ THEN "gone" ELSE "send")
  /\ UNCHANGED <<inputvars, outputvars, unit, send_lock_, aborted_, clientvars, faults>>

\* send_message has returned: true for the header of an array, its bars follow
AfterSend ==
  /\ pc["sender"] \in {"sent", "failed"}
  /\ IF pc["sender"] = "sent" /\ Head(outputs) = "array"
       THEN GoTo("sender", "body") /\ chunk' = 0 /\ UNCHANGED outputs
       ELSE GoTo("sender", "next") /\ outputs' = Tail(outputs) /\ UNCHANGED chunk
  /\ UNCHANGED <<inputvars, unit, send_lock_, aborted_, clientvars, faults>>

\* the loop of send_bars
NextChunk ==
  /\ pc["sender"] = "body"
  /\ IF aborted_ \/ chunk = Chunks
       THEN GoTo("sender", "next") /\ outputs' = Tail(outputs)
       ELSE GoTo("sender", "chunk") /\ UNCHANGED outputs
  /\ UNCHANGED <<inputvars, chunk, unit, send_lock_, aborted_, clientvars, faults>>

\* ten bars are written to the socket itself, without send_lock_
WriteChunk ==
  /\ pc["sender"] = "chunk"
  /\ LET done == unit["sender"] + 1 = ChunkSize
     IN /\ Write([from |-> "bars", last |-> done], unit["receiver"] > 0)
        /\ unit' = [unit EXCEPT !["sender"] = IF done THEN 0 ELSE @ + 1]
        /\ chunk' = chunk + IF done THEN 1 ELSE 0
        /\ GoTo("sender", IF done THEN "body" ELSE "chunk")
  /\ UNCHANGED <<inputvars, outputs, send_lock_, aborted_, faults>>

\* "network error": the rest of the array is given up, the context is not
ChunkFails ==
  /\ pc["sender"] = "chunk"
  /\ Fails
  /\ unit' = [unit EXCEPT !["sender"] = 0]
  /\ GoTo("sender", "next") /\ outputs' = Tail(outputs)
  /\ UNCHANGED <<chunk, send_lock_, aborted_>>

Sender == SendMessage("sender") \/ SendNext \/ AfterSend \/ NextChunk \/ WriteChunk \/ ChunkFails

------------------------------------------------------------------------------
(* The receiving thread                                                    *)

Readable == arrived > consumed

\* recv_thread_func goes round
Listen ==
  /\ pc["receiver"] \in {"idle", "sent", "failed"}
  /\ aborted_ \/ Readable
  /\ GoTo("receiver", IF aborted_ THEN "gone" ELSE "receive")
  /\ xml' = <<>>
  /\ UNCHANGED <<requests, arrived, consumed, decoded, outputvars, unit, send_lock_, aborted_,
                 clientvars, faults>>

\* what is done with a request
Place(kind) == CASE kind = "ping" -> "send" [] kind = "options" -> "idle" [] OTHER -> "gone"

\* mutant: the whole buffer is removed from the socket
TailIgnored(all) == 0

\* units behind the first closing tag
TailSize(all) == Len(all) - SelectInSeq(all, LAMBDA u : u[2])

\* one turn of the loop of receive_message: peek, look for the closing tag, and
\* remove what belongs to the request
Receive ==
  /\ pc["receiver"] = "receive" /\ ~aborted_ /\ Readable
  /\ LET bytes == Min({PeekSize, arrived - consumed})
         all   == xml \o SubSeq(Upstream, consumed + 1, consumed + bytes)
         tail  == TailSize(all)
     IN IF \E i \in DOMAIN all : all[i][2]
          THEN LET request == SubSeq(all, 1, Len(all) - tail)
               IN /\ consumed' = consumed + bytes - tail
                  /\ decoded' = Append(decoded, request)
                  /\ GoTo("receiver", Place(requests[Last(request)[1]].kind))
                  /\ xml' = <<>>
          ELSE /\ consumed' = consumed + bytes
               /\ xml' = all
               /\ UNCHANGED <<decoded, pc>>
  /\ UNCHANGED <<requests, arrived, outputvars, unit, send_lock_, aborted_, clientvars, faults>>

\* four seconds are over before the closing tag came, or the thread finds the
\* context aborted
GiveUp ==
  /\ pc["receiver"] = "receive"
  /\ \/ aborted_ /\ UNCHANGED faults
     \/ faults < MaxFaults /\ faults' = faults + 1
  /\ aborted_' = TRUE
  /\ GoTo("receiver", "gone")
  /\ UNCHANGED <<inputvars, outputvars, unit, send_lock_, clientvars>>

Receiver == SendMessage("receiver") \/ Listen \/ Receive \/ GiveUp

\* bytes of the client arrive
Arrive ==
  /\ arrived < Len(Upstream)
  /\ \E n \in arrived + 1 .. Len(Upstream) : arrived' = n
  /\ UNCHANGED <<requests, consumed, xml, decoded, outputvars, pc, unit, send_lock_, aborted_,
                 clientvars, faults>>

Next == Sender \/ Receiver \/ Arrive

\* the threads run, and what the client has sent arrives; no write fails and no
\* time runs out by necessity
Fairness ==
  /\ WF_vars(\/ SendCheck("sender") \/ SendLock("sender") \/ WriteMessage("sender")
             \/ SendNext \/ AfterSend \/ NextChunk \/ WriteChunk)
  /\ WF_vars(\/ SendCheck("receiver") \/ SendLock("receiver") \/ WriteMessage("receiver")
             \/ Listen \/ Receive \/ (aborted_ /\ GiveUp))
  /\ WF_vars(Arrive)

Spec == Init /\ [][Next]_vars /\ Fairness

------------------------------------------------------------------------------
(* Properties                                                              *)

\* However the requests are cut into pieces and however many of them one peek
\* sees, receive_message returns each of them whole, once and in order, and none
\* has a part of its neighbour; and what it reads belongs to what it peeked.
FramesWhole ==
  /\ FlattenSeq(decoded) \o xml = SubSeq(Upstream, 1, consumed)
  /\ \A i \in DOMAIN decoded :
       /\ \A k \in DOMAIN decoded[i] : decoded[i][k][1] = i
       /\ Len(decoded[i]) = requests[i].size

\* Apart from a pong that meets an array, the client can read all that is written
\* before a write fails, though two threads write; and once the context is
\* aborted, at most one more message or chunk is written, by a thread that had
\* looked at aborted_ before.
StreamDecodes ==
  /\ client.ok
  /\ late <= Max({MessageSize, ChunkSize})

\* Every ping is answered, the n-th by the n-th pong, unless the context is
\* aborted; a malformed request ends the thread, and pings after it are in vain.
Pings == {i \in DOMAIN requests :
            requests[i].kind = "ping" /\ \A j \in 1..i : requests[j].kind # "malformed"}
PingsAnswered == \A n \in 1..2 : Cardinality(Pings) >= n ~> pongs >= n \/ aborted_
===============================================================================
