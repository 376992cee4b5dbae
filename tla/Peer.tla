-------------------------------- MODULE Peer --------------------------------
(***************************************************************************)
(* The two message queues of one peer (CNode of baseservice/transport) and *)
(* the threads that work on them: ThreadSocketHandler receives bytes, cuts *)
(* them into messages and splices complete ones into vProcessMsg;          *)
(* ThreadMessageHandler takes them out one at a time; any thread may call  *)
(* PushMessage; SocketSendData, under cs_vSend, hands vSendMsg to the      *)
(* socket.  The two sides pause each other: fPauseRecv stops receiving,    *)
(* fPauseSend stops processing, and unsent data comes before receiving.    *)
(*                                                                         *)
(* A message is reduced to its size and to how much of it has been read;   *)
(* whether its start, header or checksum is good is settled when it is     *)
(* processed.  ProcessMessage itself is commented out in the source, so    *)
(* processing answers nothing and vRecvGetData stays empty.                *)
(***************************************************************************)
EXTENDS Integers, Sequences

CONSTANTS
  Pushers,           \* threads that call PushMessage
  HEADER_SIZE,
  MessageSizes,      \* sizes a received header may announce
  MaxMessageLength,  \* MAX_PROTOCOL_MESSAGE_LENGTH
  Ahead,             \* how far vRecv is allocated ahead of the data (256 KiB)
  PushSizes,         \* sizes of pushed messages
  nReceiveFloodSize,
  nSendBufferMaxSize,
  MaxRecv,           \* bound: what one recv() returns
  MaxProcess,        \* bound: the socket delivers nothing while this many messages wait
  MaxPush            \* bound: how many messages are pushed

ASSUME PeerAssumption ==
  /\ HEADER_SIZE \in Nat \ {0} /\ MessageSizes \subseteq Nat /\ PushSizes \subseteq Nat
  /\ MaxMessageLength \in Nat /\ Ahead \in Nat
  /\ nReceiveFloodSize \in Nat /\ nSendBufferMaxSize \in Nat
  /\ MaxRecv \in Nat \ {0} /\ MaxProcess \in Nat /\ MaxPush \in Nat
  /\ Pushers \cap {"none", "socket"} = {}

VARIABLES
  hSocket,             \* TRUE until the socket is closed
  fDisconnect,
  vRecvMsg,            \* messages being received; only the last may be incomplete
  vProcessMsg, nProcessQueueSize, fPauseRecv,
  vSendMsg,            \* sizes of the buffers to be sent
  nSendOffset, nSendSize, fPauseSend, nSendBytes,
  mapSendBytesPerMsgCmd,  \* the sum over all commands
  sender, it,          \* who is inside SocketSendData, and how many buffers it has sent
  fMsgProcWake,
  pcSocket, ready, nBytes, notify,  \* the socket thread: select()'s answer, bytes left, complete
  pcHandler, fMoreWork,             \* the message handler
  pushes

conn == <<hSocket, fDisconnect>>
processQueue == <<vProcessMsg, nProcessQueueSize, fPauseRecv>>
sendQueue == <<vSendMsg, nSendOffset, nSendSize, fPauseSend, nSendBytes, mapSendBytesPerMsgCmd>>
lock == <<sender, it>>
socket == <<pcSocket, ready, nBytes, notify>>
handler == <<pcHandler, fMoreWork>>
vars == <<conn, vRecvMsg, processQueue, sendQueue, lock, fMsgProcWake, socket, handler, pushes>>

Message == [nHdrPos : 0 .. HEADER_SIZE, in_data : BOOLEAN, nMessageSize : Nat,
            nDataPos : Nat, vRecv : Nat]

TypeOK ==
  /\ hSocket \in BOOLEAN /\ fDisconnect \in BOOLEAN
  /\ vRecvMsg \in Seq(Message) /\ vProcessMsg \in Seq(Message)
  /\ nProcessQueueSize \in Nat /\ fPauseRecv \in BOOLEAN
  /\ vSendMsg \in Seq(Nat \ {0})
  /\ nSendOffset \in Nat /\ nSendSize \in Nat /\ fPauseSend \in BOOLEAN /\ nSendBytes \in Nat
  /\ mapSendBytesPerMsgCmd \in Nat
  /\ sender \in {"none", "socket"} \cup Pushers /\ it \in 0 .. Len(vSendMsg)
  /\ fMsgProcWake \in BOOLEAN
  /\ pcSocket \in {"loop", "service", "receive", "send", "sending", "timeout", "gone"}
  /\ ready \subseteq {"recv", "send", "error"}
  /\ nBytes \in 0 .. MaxRecv /\ notify \in BOOLEAN
  /\ pcHandler \in {"loop", "take", "handle", "wait"}
  /\ fMoreWork \in BOOLEAN
  /\ pushes \in 0 .. MaxPush

Init ==
  /\ hSocket = TRUE /\ fDisconnect = FALSE
  /\ vRecvMsg = <<>> /\ vProcessMsg = <<>>
  /\ nProcessQueueSize = 0 /\ fPauseRecv = FALSE
  /\ vSendMsg = <<>>
  /\ nSendOffset = 0 /\ nSendSize = 0 /\ fPauseSend = FALSE /\ nSendBytes = 0
  /\ mapSendBytesPerMsgCmd = 0
  /\ sender = "none" /\ it = 0
  /\ fMsgProcWake = FALSE
  /\ pcSocket = "loop" /\ ready = {} /\ nBytes = 0 /\ notify = FALSE
  /\ pcHandler = "loop" /\ fMoreWork = FALSE
  /\ pushes = 0

CloseSocketDisconnect == fDisconnect' = TRUE /\ hSocket' = FALSE

Smaller(a, b) == IF a <= b THEN a ELSE b

-----------------------------------------------------------------------------
(* SocketSendData, one call of send() at a time, and PushMessage.          *)

\* The sent buffers are erased, the lock is released and the socket thread goes on.
SendReturn(sent) ==
  /\ vSendMsg' = SubSeq(vSendMsg, sent + 1, Len(vSendMsg))
  /\ sender' = "none" /\ it' = 0
  /\ pcSocket' = IF sender = "socket" THEN "timeout" ELSE pcSocket

\* The loop is over: its asserts are property SendAsserts.
SendEnd ==
  /\ sender # "none" /\ it = Len(vSendMsg)
  /\ SendReturn(it)
  /\ UNCHANGED <<conn, vRecvMsg, processQueue, nSendOffset, nSendSize, fPauseSend, nSendBytes,
                 mapSendBytesPerMsgCmd, fMsgProcWake, ready, nBytes, notify, handler, pushes>>

\* Mutated form: the offset is kept when a buffer has been sent.
SendBufferKeepsOffset ==
  /\ sender # "none" /\ it < Len(vSendMsg) /\ hSocket
  /\ nSendBytes' = nSendBytes + vSendMsg[it + 1] - nSendOffset
  /\ nSendSize' = nSendSize - vSendMsg[it + 1]
  /\ fPauseSend' = (nSendSize' > nSendBufferMaxSize)
  /\ it' = it + 1
  /\ UNCHANGED <<conn, vRecvMsg, processQueue, vSendMsg, nSendOffset, mapSendBytesPerMsgCmd, sender,
                 fMsgProcWake, socket, handler, pushes>>

\* Mutated form: what is left of the buffer is taken off nSendSize, not all of it.
SendBufferSubtractsRest ==
  /\ sender # "none" /\ it < Len(vSendMsg) /\ hSocket
  /\ nSendBytes' = nSendBytes + vSendMsg[it + 1] - nSendOffset
  /\ nSendOffset' = 0
  /\ nSendSize' = nSendSize - (vSendMsg[it + 1] - nSendOffset)
  /\ fPauseSend' = (nSendSize' > nSendBufferMaxSize)
  /\ it' = it + 1
  /\ UNCHANGED <<conn, vRecvMsg, processQueue, vSendMsg, mapSendBytesPerMsgCmd, sender,
                 fMsgProcWake, socket, handler, pushes>>

\* Mutated form: fPauseSend is not recomputed.
SendBufferStaysPaused ==
  /\ sender # "none" /\ it < Len(vSendMsg) /\ hSocket
  /\ nSendBytes' = nSendBytes + vSendMsg[it + 1] - nSendOffset
  /\ nSendOffset' = 0
  /\ nSendSize' = nSendSize - vSendMsg[it + 1]
  /\ it' = it + 1
  /\ UNCHANGED <<conn, vRecvMsg, processQueue, vSendMsg, fPauseSend, mapSendBytesPerMsgCmd, sender,
                 fMsgProcWake, socket, handler, pushes>>

\* send() takes the rest of the buffer; the loop goes on with the next.
SendBuffer ==
  /\ sender # "none" /\ it < Len(vSendMsg) /\ hSocket
  /\ nSendBytes' = nSendBytes + vSendMsg[it + 1] - nSendOffset
  /\ nSendOffset' = 0
  /\ nSendSize' = nSendSize - vSendMsg[it + 1]
  /\ fPauseSend' = (nSendSize' > nSendBufferMaxSize)
  /\ it' = it + 1
  /\ UNCHANGED <<conn, vRecvMsg, processQueue, vSendMsg, mapSendBytesPerMsgCmd, sender,
                 fMsgProcWake, socket, handler, pushes>>

\* send() takes n bytes, a part of the buffer.
SendPart(n) ==
  /\ sender # "none" /\ it < Len(vSendMsg) /\ hSocket
  /\ n < vSendMsg[it + 1] - nSendOffset
  /\ nSendBytes' = nSendBytes + n
  /\ nSendOffset' = nSendOffset + n
  /\ SendReturn(it)
  /\ UNCHANGED <<conn, vRecvMsg, processQueue, nSendSize, fPauseSend, mapSendBytesPerMsgCmd,
                 fMsgProcWake, ready, nBytes, notify, handler, pushes>>

\* The socket is closed or would block, or send() fails for good and the socket is closed.
SendNothing ==
  /\ sender # "none" /\ it < Len(vSendMsg)
  /\ CloseSocketDisconnect \/ UNCHANGED conn
  /\ SendReturn(it)
  /\ UNCHANGED <<vRecvMsg, processQueue, nSendOffset, nSendSize, fPauseSend, nSendBytes,
                 mapSendBytesPerMsgCmd, fMsgProcWake, ready, nBytes, notify, handler, pushes>>

SendProgress == SendBuffer \/ \E n \in 1 .. nSendSize : SendPart(n)

SocketSendData == SendEnd \/ SendProgress \/ SendNothing

\* Header and data are queued as two buffers; if the queue was empty, they are sent at once.
PushMessage(t, size) ==
  /\ pushes < MaxPush /\ pushes' = pushes + 1
  /\ sender = "none"
  /\ mapSendBytesPerMsgCmd' = mapSendBytesPerMsgCmd + HEADER_SIZE + size
  /\ nSendSize' = nSendSize + HEADER_SIZE + size
  /\ fPauseSend' = (fPauseSend \/ nSendSize' > nSendBufferMaxSize)
  /\ vSendMsg' = vSendMsg \o IF size = 0 THEN <<HEADER_SIZE>> ELSE <<HEADER_SIZE, size>>
  /\ sender' = IF vSendMsg = <<>> THEN t ELSE "none"
  /\ UNCHANGED <<conn, vRecvMsg, processQueue, nSendOffset, nSendBytes, it, fMsgProcWake, socket, handler>>

-----------------------------------------------------------------------------
(* ThreadSocketHandler.                                                    *)

\* At the top of the loop, a node marked fDisconnect is taken out of vNodes and closed.
DisconnectNodes ==
  /\ pcSocket = "loop" /\ fDisconnect
  /\ pcSocket' = "gone" /\ hSocket' = FALSE
  /\ UNCHANGED <<fDisconnect, vRecvMsg, processQueue, sendQueue, lock, fMsgProcWake,
                 ready, nBytes, notify, handler, pushes>>

\* Mutated form: a paused peer is still polled.
SelectPaused ==
  /\ pcSocket = "loop" /\ ~fDisconnect /\ sender = "none"
  /\ ready' \in SUBSET ({"error"} \cup (IF vSendMsg # <<>> THEN {"send"} ELSE {"recv"}))
  /\ pcSocket' = "service"
  /\ UNCHANGED <<conn, vRecvMsg, processQueue, sendQueue, lock, fMsgProcWake, nBytes, notify,
                 handler, pushes>>

\* Which conditions select() is asked for, and which of them it reports.  "error" is always
\* asked for; it also stands for a failed select(), after which every socket is read.
Select ==
  /\ pcSocket = "loop" /\ ~fDisconnect /\ sender = "none"
  /\ ready' \in SUBSET ({"error"} \cup (IF vSendMsg # <<>> THEN {"send"}
                                         ELSE IF fPauseRecv THEN {} ELSE {"recv"}))
  /\ pcSocket' = "service"
  /\ UNCHANGED <<conn, vRecvMsg, processQueue, sendQueue, lock, fMsgProcWake, nBytes, notify,
                 handler, pushes>>

\* A socket that was closed in the meantime is skipped.
SkipClosed ==
  /\ pcSocket = "service" /\ ~hSocket
  /\ pcSocket' = "loop" /\ ready' = {}
  /\ UNCHANGED <<conn, vRecvMsg, processQueue, sendQueue, lock, fMsgProcWake, nBytes, notify, handler, pushes>>

\* The socket is written to if select() reported that.
AfterRecv == IF "send" \in ready THEN "send" ELSE "timeout"

Readable == pcSocket = "service" /\ hSocket /\ ready \cap {"recv", "error"} # {}

RecvBytes(n) ==
  /\ Readable /\ Len(vProcessMsg) < MaxProcess
  /\ pcSocket' = "receive" /\ nBytes' = n
  /\ UNCHANGED <<conn, vRecvMsg, processQueue, sendQueue, lock, fMsgProcWake, ready, notify, handler, pushes>>

\* recv() tells that the connection is closed or broken.
RecvClosed ==
  /\ Readable
  /\ CloseSocketDisconnect
  /\ pcSocket' = AfterRecv
  /\ UNCHANGED <<vRecvMsg, processQueue, sendQueue, lock, fMsgProcWake, ready, nBytes, notify, handler, pushes>>

\* The socket is not to be read, or recv() would block.
RecvNothing ==
  /\ pcSocket = "service" /\ hSocket
  /\ pcSocket' = AfterRecv
  /\ UNCHANGED <<conn, vRecvMsg, processQueue, sendQueue, lock, fMsgProcWake, ready, nBytes, notify,
                 handler, pushes>>

complete(msg) == msg.in_data /\ msg.nMessageSize = msg.nDataPos

NewMessage == [nHdrPos |-> 0, in_data |-> FALSE, nMessageSize |-> 0, nDataPos |-> 0, vRecv |-> 0]

\* The message the next byte belongs to, and the ones before it.
Continues == vRecvMsg # <<>> /\ ~complete(vRecvMsg[Len(vRecvMsg)])
Current == IF Continues THEN vRecvMsg[Len(vRecvMsg)] ELSE NewMessage
Earlier == IF Continues THEN SubSeq(vRecvMsg, 1, Len(vRecvMsg) - 1) ELSE vRecvMsg

\* One round of the loop of ReceiveMsgBytes has made msg of the current message.
Absorb(msg, handled) ==
  /\ vRecvMsg' = Append(Earlier, msg)
  /\ nBytes' = nBytes - handled
  /\ notify' = (notify \/ complete(msg))
  /\ UNCHANGED <<conn, pcSocket>>

\* ReceiveMsgBytes returns false in the middle of msg.
Refuse(msg) ==
  /\ vRecvMsg' = Append(Earlier, msg)
  /\ nBytes' = 0
  /\ CloseSocketDisconnect
  /\ UNCHANGED <<pcSocket, notify>>

\* readHeader; size is what a header that is now complete announces.
readHeader(size) ==
  LET nCopy == Smaller(HEADER_SIZE - Current.nHdrPos, nBytes)
      msg == [Current EXCEPT !.nHdrPos = @ + nCopy]
  IN  /\ pcSocket = "receive" /\ nBytes > 0 /\ ~Current.in_data
      /\ IF msg.nHdrPos < HEADER_SIZE THEN Absorb(msg, nCopy)
         ELSE \/ Refuse(msg)
              \/ LET whole == [msg EXCEPT !.in_data = TRUE, !.nMessageSize = size]
                 IN  IF size > MaxMessageLength THEN Refuse(whole) ELSE Absorb(whole, nCopy)
      /\ UNCHANGED <<processQueue, sendQueue, lock, fMsgProcWake, ready, handler, pushes>>

\* Mutated form: vRecv is allocated ahead without regard to the size of the message.
readDataOverallocates ==
  LET nCopy == Smaller(Current.nMessageSize - Current.nDataPos, nBytes)
      end == Current.nDataPos + nCopy
      msg == [Current EXCEPT !.nDataPos = end, !.vRecv = IF @ < end THEN end + Ahead ELSE @]
  IN  /\ pcSocket = "receive" /\ nBytes > 0 /\ Current.in_data
      /\ Absorb(msg, nCopy)
      /\ UNCHANGED <<processQueue, sendQueue, lock, fMsgProcWake, ready, handler, pushes>>

readData ==
  LET nCopy == Smaller(Current.nMessageSize - Current.nDataPos, nBytes)
      end == Current.nDataPos + nCopy
      msg == [Current EXCEPT !.nDataPos = end,
                             !.vRecv = IF @ < end THEN Smaller(Current.nMessageSize, end + Ahead) ELSE @]
  IN  /\ pcSocket = "receive" /\ nBytes > 0 /\ Current.in_data
      /\ Absorb(msg, nCopy)
      /\ UNCHANGED <<processQueue, sendQueue, lock, fMsgProcWake, ready, handler, pushes>>

\* The bytes a list of messages is accounted for with: headers, and what was allocated for them.
Total(w) ==
  LET sum[i \in 0 .. Len(w)] == IF i = 0 THEN 0 ELSE sum[i - 1] + w[i]
  IN  sum[Len(w)]
SizeOf(s) == Total([i \in 1 .. Len(s) |-> s[i].vRecv + HEADER_SIZE])

\* Complete messages move to vProcessMsg and the message handler is woken.
Splice ==
  LET done == Earlier
  IN  /\ pcSocket = "receive" /\ nBytes = 0
      /\ IF notify
         THEN /\ vProcessMsg' = vProcessMsg \o done
              /\ vRecvMsg' = SubSeq(vRecvMsg, Len(done) + 1, Len(vRecvMsg))
              /\ nProcessQueueSize' = nProcessQueueSize + SizeOf(done)
              /\ fPauseRecv' = (nProcessQueueSize' > nReceiveFloodSize)
              /\ fMsgProcWake' = TRUE
         ELSE UNCHANGED <<vRecvMsg, processQueue, fMsgProcWake>>
      /\ pcSocket' = AfterRecv /\ notify' = FALSE
      /\ UNCHANGED <<conn, sendQueue, lock, ready, nBytes, handler, pushes>>

\* The send part of the service loop takes cs_vSend and calls SocketSendData.
ServiceSend ==
  /\ pcSocket = "send" /\ sender = "none"
  /\ sender' = "socket" /\ pcSocket' = "sending"
  /\ UNCHANGED <<conn, vRecvMsg, processQueue, sendQueue, it, fMsgProcWake, ready, nBytes, notify,
                 handler, pushes>>

\* Mutated form: the timeout is only logged.
InactivityLogged ==
  /\ pcSocket = "timeout"
  /\ pcSocket' = "loop" /\ ready' = {}
  /\ UNCHANGED <<conn, vRecvMsg, processQueue, sendQueue, lock, fMsgProcWake, nBytes, notify, handler, pushes>>

\* Inactivity checking: no traffic in either direction for too long, or no handshake.
InactivityTimeout ==
  /\ pcSocket = "timeout"
  /\ fDisconnect' = TRUE
  /\ pcSocket' = "loop" /\ ready' = {}
  /\ UNCHANGED <<hSocket, vRecvMsg, processQueue, sendQueue, lock, fMsgProcWake, nBytes, notify,
                 handler, pushes>>

NoTimeout ==
  /\ pcSocket = "timeout"
  /\ pcSocket' = "loop" /\ ready' = {}
  /\ UNCHANGED <<conn, vRecvMsg, processQueue, sendQueue, lock, fMsgProcWake, nBytes, notify,
                 handler, pushes>>

ThreadSocketHandler ==
  \/ DisconnectNodes \/ Select
  \/ SkipClosed \/ RecvClosed \/ RecvNothing \/ \E n \in 1 .. MaxRecv : RecvBytes(n)
  \/ \E size \in MessageSizes : readHeader(size)
  \/ readData \/ Splice \/ ServiceSend \/ InactivityTimeout \/ NoTimeout

-----------------------------------------------------------------------------
(* ThreadMessageHandler and ProcessMessages.                               *)

\* The node is skipped, or ProcessMessages is called and returns at once: "Don't bother if
\* send buffer is too full to respond anyway".
HandlerLoop ==
  /\ pcHandler = "loop"
  /\ pcHandler' = IF fDisconnect \/ fPauseSend THEN "wait" ELSE "take"
  /\ UNCHANGED <<conn, vRecvMsg, processQueue, sendQueue, lock, fMsgProcWake, socket, fMoreWork, pushes>>

\* One message is taken out of vProcessMsg.
ProcessTake ==
  /\ pcHandler = "take"
  /\ IF vProcessMsg = <<>>
     THEN pcHandler' = "wait" /\ UNCHANGED <<processQueue, fMoreWork>>
     ELSE /\ vProcessMsg' = Tail(vProcessMsg)
          /\ nProcessQueueSize' = nProcessQueueSize - (Head(vProcessMsg).vRecv + HEADER_SIZE)
          /\ fPauseRecv' = (nProcessQueueSize' > nReceiveFloodSize)
          /\ fMoreWork' = (vProcessMsg' # <<>>)
          /\ pcHandler' = "handle"
  /\ UNCHANGED <<conn, vRecvMsg, sendQueue, lock, fMsgProcWake, socket, pushes>>

\* A wrong message start disconnects and reports no more work; a bad header or checksum is
\* dropped; after any other message a misbehaving peer is disconnected.  The handler then
\* looks at fPauseSend again; SendMessages returns at once.
ProcessHandle ==
  /\ pcHandler = "handle"
  /\ \E more \in {FALSE, fMoreWork} :
       /\ fDisconnect' = TRUE \/ (more = fMoreWork /\ UNCHANGED fDisconnect)
       /\ fMoreWork' = (more /\ ~fPauseSend)
  /\ pcHandler' = "wait"
  /\ UNCHANGED <<hSocket, vRecvMsg, processQueue, sendQueue, lock, fMsgProcWake, socket, pushes>>

\* Mutated form: the wait for a connected peer has no time limit.
HandlerWaitUntimed ==
  /\ pcHandler = "wait" /\ (fMoreWork \/ fMsgProcWake \/ fDisconnect)
  /\ fMsgProcWake' = FALSE
  /\ pcHandler' = "loop" /\ fMoreWork' = FALSE
  /\ UNCHANGED <<conn, vRecvMsg, processQueue, sendQueue, lock, socket, pushes>>

\* There is more work, a wakeup, or 100 ms have passed.
HandlerWait ==
  /\ pcHandler = "wait"
  /\ fMsgProcWake' = FALSE
  /\ pcHandler' = "loop" /\ fMoreWork' = FALSE
  /\ UNCHANGED <<conn, vRecvMsg, processQueue, sendQueue, lock, socket, pushes>>

ThreadMessageHandler ==
  \/ HandlerLoop \/ ProcessTake \/ ProcessHandle \/ HandlerWait

-----------------------------------------------------------------------------

Next ==
  \/ ThreadSocketHandler \/ ThreadMessageHandler \/ SocketSendData
  \/ \E t \in Pushers, size \in PushSizes : PushMessage(t, size)

Spec == Init /\ [][Next]_vars

\* The two threads and whoever is inside SocketSendData keep running.  A peer that takes
\* no bytes is not assumed to start again: the send timeout of the inactivity check ends
\* the connection, so that one or the other happens.
Fairness ==
  /\ WF_vars(ThreadSocketHandler) /\ WF_vars(ThreadMessageHandler) /\ WF_vars(SocketSendData)
  /\ SF_vars(SendProgress \/ (vSendMsg # <<>> /\ InactivityTimeout))

FairSpec == Spec /\ Fairness

-----------------------------------------------------------------------------
(* Properties.                                                             *)

AnnouncedSize(s) == Total([i \in 1 .. Len(s) |-> s[i].nMessageSize + HEADER_SIZE])

\* nProcessQueueSize, which two threads change by what was allocated for a message, is what
\* the queued messages announce, and fPauseRecv tells whether that exceeds the limit.
RecvAccounting ==
  /\ nProcessQueueSize = AnnouncedSize(vProcessMsg)
  /\ fPauseRecv = (nProcessQueueSize > nReceiveFloodSize)

\* fPauseRecv holds the peer back: only an error reported for its socket, never ordinary
\* traffic, adds to vProcessMsg while receiving is paused.
PauseHoldsBack ==
  [][nProcessQueueSize' > nProcessQueueSize /\ "error" \notin ready => ~fPauseRecv]_vars

\* The assert()s of SocketSendData (net.cpp:918, 956, 957): there is something left of the
\* buffer to be sent, and nothing is accounted for when all have been.
SendAsserts ==
  sender # "none" =>
    IF it < Len(vSendMsg) THEN vSendMsg[it + 1] > nSendOffset ELSE nSendOffset = 0 /\ nSendSize = 0

\* Every byte pushed to the peer has been sent or is still accounted for as unsent.
BytesConserved ==
  mapSendBytesPerMsgCmd = nSendBytes + nSendSize - nSendOffset

\* fPauseSend, set by PushMessage and recomputed by SocketSendData, always tells whether
\* the unsent buffers exceed the limit.
PauseSendExact ==
  fPauseSend = (nSendSize > nSendBufferMaxSize)

\* A received message is processed unless the peer is disconnected, even when the send
\* buffer has been too full in the meantime and nobody wakes the message handler.
QueuedMessagesProcessed ==
  vProcessMsg # <<>> ~> pcHandler = "handle" \/ fDisconnect

\* What PushMessage has queued is sent or the peer is disconnected.
SendQueueDrains ==
  vSendMsg # <<>> ~> vSendMsg = <<>> \/ fDisconnect
=============================================================================
