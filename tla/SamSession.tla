---- MODULE SamSession ----
\* A session with the I2P router (CSam) and the socket it belongs to: the
\* datagram socket of Kad, the server socket that owns the stream session, the
\* client sockets that connect to a peer and the accepter that waits for one.
\*
\* Everything is said over one TCP connection with the router, in text lines
\* that a payload may follow.  Handlers run one at a time, but they are left in
\* the middle of a line, a payload or a message whenever the TCP socket would
\* block, and go on from the contexts they saved (read, line, payload, write).
\*
\* A message is its kind and what it is about.  On the wire it is a sequence of
\* units: the text of its line, the newline, and for a datagram the payload, a
\* byte that looks like a newline and one that does not.
EXTENDS Naturals, Sequences, SequencesExt, FiniteSets

CONSTANTS Kinds,     \* of "datagram", "server", "client", "accepter"
          Outgoing,  \* the datagrams Kad sends, in this order
          Incoming,  \* the datagrams the router passes on
          MAX_MESSAGE_QUEUE_LENGTH,
          Env        \* what the router and the owner may do, see below

\* "lost": the router ends the connection; "error": it refuses a session or a
\* stream.  "early": a datagram comes before the name of the session; "eager":
\* a peer connects while the accepter still handles the answer to its request;
\* "gap": the owner does not listen between the connection and Kad's start.
ASSUME EnvAssumption == /\ Kinds \subseteq {"datagram", "server", "client", "accepter"}
                        /\ Env \subseteq {"lost", "error", "early", "eager", "gap"}
                        /\ MAX_MESSAGE_QUEUE_LENGTH \in Nat

VARIABLES
    kind, key,                \* whose session this is; it has a private key
    state, failed,            \* m_conn_state; m_err_code is not SAM_OK
    sock, expected,           \* m_state and m_expected_state of the owner
    queue, write, posted,     \* m_waitingWriteMsgQueue, what is left of
                              \* writeCtx.msg, an OUTPUT event is pending
    read, line, payload,      \* the position of readCtx, its message, what
                              \* payloadCtx has of the payload
    unread, blocked,          \* of the TCP socket: bytes put back, and a write
                              \* came to nothing, an OUTPUT event is to come
    handler,                  \* the handler that runs
    tcp, up, down,            \* the TCP connection and its bytes
    notify, events, inputs, inbox,  \* the owner's notifications, connection and
                              \* loss posted, INPUT posted, m_receiveMessages
    peer, taken,              \* the peer has sent; what the application read
    asked, got, told, heard   \* the messages of both parties

session == <<kind, key, state, failed, sock, expected>>
out     == <<queue, write, posted, blocked>>
in      == <<read, line, payload, unread>>
owner   == <<notify, events, inputs, inbox>>
stream  == <<peer, taken>>
router  == <<got, told>>
vars    == <<session, out, in, handler, tcp, up, down, owner, stream, asked, heard, router>>

----
Command(c) == <<"COMMAND", c>>
Answer(result, c) == <<result, c>>
Datagram(d) == <<"DATAGRAM", d>>
Garbled == <<"garbled", "">>
PeerLine == <<"PEER", "line">>

Size(m)   == IF m[1] = "DATAGRAM" THEN 4 ELSE 2
Units(m)  == [k \in 1 .. Size(m) |-> <<m, k>>]
IsEnd(unit) == unit[2] \in {2, 3}
LineOf(m) == SubSeq(Units(m), 1, 2)
PayloadOf(m) == SubSeq(Units(m), 3, Size(m))
Upto(s, n)  == SubSeq(s, 1, n)
After(s, n) == SubSeq(s, n + 1, Len(s))

OwnSocket == kind \in {"datagram", "server"}       \* ~m_external_socket
\* The socket's events go to the session, and no longer to the application.
IsSams == state # "OFF" /\ sock # "TRANSFERRED"

Init ==
    /\ kind \in Kinds /\ key \in IF OwnSocket THEN BOOLEAN ELSE {TRUE}
    /\ state = "OFF" /\ failed = FALSE
    /\ sock = "CONNECTING" /\ expected = "SERVER_CONNECTED"
    /\ queue = <<>> /\ write = <<>> /\ posted = FALSE /\ blocked = FALSE
    /\ read = "start" /\ line = <<>> /\ payload = <<>> /\ unread = <<>>
    /\ handler = "none"
    /\ tcp = "connecting" /\ up = <<>> /\ down = <<>>
    /\ notify = TRUE /\ events = {} /\ inputs = 0 /\ inbox = <<>>
    /\ peer = FALSE /\ taken = <<>>
    /\ asked = <<>> /\ got = <<>> /\ told = <<>> /\ heard = <<>>

----
\* The state machines of the owners (state_machine of the four socket classes,
\* called by change_state).

sam_queue_Slip(m) == queue' = Append(queue, m) /\ posted' = posted /\ asked' = Append(asked, m)

sam_queue(m) == queue' = Append(queue, m) /\ posted' = TRUE /\ asked' = Append(asked, m)

\* What is asked for next, and the state its answer leads to.
NextCommand(s) ==
    CASE s = "SERVER_CONNECTED" -> "HELLO"
      [] s = "SAM_HELLOED" /\ kind = "client"   -> "CONNECT"
      [] s = "SAM_HELLOED" /\ kind = "accepter" -> "ACCEPT"
      [] s = "SAM_HELLOED" /\ OwnSocket /\ ~key -> "GENERATE"
      [] s = "SAM_HELLOED" /\ OwnSocket /\ key  -> "CREATE"
      [] s = "KEYS_GENERATED"  -> "CREATE"
      [] s = "SESSION_CREATED" -> "NAMING"
      [] OTHER -> "none"

StateAfter == [HELLO  |-> "SAM_HELLOED",     GENERATE |-> "KEYS_GENERATED",
               CREATE |-> "SESSION_CREATED", NAMING   |-> "NAMING_LOOKEDUP",
               CONNECT |-> "STREAM_OK",      ACCEPT   |-> "STREAM_OK"]

Posted(event) == events' = IF notify THEN events \cup {event} ELSE events

Asks(s) ==
    /\ NextCommand(s) # "none"
    /\ state' = s /\ key' = (key \/ s = "KEYS_GENERATED")
    /\ expected' = StateAfter[NextCommand(s)]
    /\ sam_queue(Command(NextCommand(s)))
    /\ UNCHANGED <<sock, owner>>

Runs(s) ==
    /\ s = "NAMING_LOOKEDUP"
    /\ state' = "ON" /\ sock' = "RUNNING"
    /\ expected' = IF kind = "datagram" THEN "DATAGRAM_INCOMING" ELSE "ON"
    /\ Posted("connect")
    /\ UNCHANGED <<key, queue, posted, asked, notify, inputs, inbox>>

\* sam_dgramback: the oldest datagram makes place when the limit is exceeded.
Receives(s) ==
    /\ s = "DATAGRAM_INCOMING"
    /\ state' = s
    /\ inbox' = Append(IF Len(inbox) > MAX_MESSAGE_QUEUE_LENGTH THEN Tail(inbox) ELSE inbox, line[1][1])
    /\ inputs' = IF notify THEN inputs + 1 ELSE inputs
    /\ UNCHANGED <<key, sock, expected, queue, posted, asked, notify, events>>

\* connect_succeeded of a client, after which its session is deleted, or the
\* accepter, which waits for a peer from now on.
Transfers(s) ==
    /\ s = "STREAM_OK"
    /\ state' = "ON" /\ expected' = "ON" /\ sock' = "TRANSFERRED"
    /\ IF kind = "client" THEN Posted("connect") ELSE UNCHANGED events
    /\ UNCHANGED <<key, queue, posted, asked, notify, inputs, inbox>>

Fails(s) ==
    /\ state' = s
    /\ sock' = CASE OwnSocket -> "STOPPED" [] kind = "client" -> "TRANSFERRED" [] OTHER -> sock
    /\ IF kind = "client" THEN UNCHANGED events ELSE Posted("lost")
    /\ UNCHANGED <<key, expected, queue, posted, asked, notify, inputs, inbox>>

change_state(s) ==
    /\ failed' = (s = "OFF")
    /\ IF s = expected THEN Asks(s) \/ Runs(s) \/ Receives(s) \/ Transfers(s) ELSE Fails(s)
    /\ UNCHANGED kind

\* The session destroys its socket; that of a client is not its own.
raise_error == change_state("OFF") /\ tcp' = IF OwnSocket THEN "closed" ELSE tcp

----
\* The handlers of the session (OnSamSocketEvent).

\* CONNECTION, and LOST of a connection that was refused.
OnConnection ==
    /\ tcp = "connecting"
    /\ \/ tcp' = "open" /\ change_state("SERVER_CONNECTED")
       \/ "lost" \in Env /\ tcp' = "closed" /\ change_state("OFF")
    /\ UNCHANGED <<write, blocked, in, handler, up, down, stream, heard, router>>

\* The application's socket goes to whoever waits for the accepter.
OnLost ==
    /\ handler = "none" /\ tcp = "closed"
    /\ \/ IsSams /\ raise_error
       \/ /\ kind = "accepter" /\ sock = "TRANSFERRED" /\ taken = <<>> /\ "lost" \notin events
          /\ Posted("lost")
          /\ UNCHANGED <<session, queue, posted, asked, tcp, notify, inputs, inbox>>
    /\ UNCHANGED <<write, blocked, in, handler, up, down, stream, heard, router>>

OnInput ==
    /\ handler = "none" /\ IsSams /\ down # <<>>
    /\ handler' = "input"
    /\ UNCHANGED <<session, out, in, tcp, up, down, owner, stream, asked, heard, router>>

\* A Read takes what was put back, then of what has arrived in the connection.
Readable == unread \o down
Least(m, n) == IF m < n THEN m ELSE n
CanRead(nleft) == Least(nleft, Len(unread)) .. Least(nleft, Len(Readable))
Arrived(n) == IF n > Len(unread) THEN After(down, n - Len(unread)) ELSE down

\* Slip: what follows the newline is not put back.
Unread_Slip(chunk, n) == <<>>

Unread(chunk, n) == After(chunk, n)

\* sam_handle_input_reentrant: a chunk is read and searched for a newline.
ReadLine ==
    /\ handler = "input" /\ read = "start"
    /\ \E n \in CanRead(Len(Readable)) :
          LET chunk == Upto(Readable, n)
              ends  == {k \in 1 .. n : IsEnd(chunk[k])}
          IN  /\ down' = Arrived(n)
              /\ IF ends = {}
                 THEN /\ line' = line \o chunk /\ unread' = <<>>
                      /\ handler' = "none" /\ read' = read
                 ELSE \E end \in ends :
                      /\ \A k \in ends : end <= k
                      /\ line' = line \o Upto(chunk, end) /\ unread' = Unread(chunk, end)
                      /\ handler' = handler /\ read' = "parse"
    /\ UNCHANGED <<session, out, payload, tcp, up, owner, stream, asked, heard, router>>

Message == line[1][1]
IsLine == line = LineOf(Message)
PayloadSize == IF IsLine THEN Size(Message) - 2 ELSE 0

\* sam_parse returns false while sam_read2 lacks some of the payload: the next
\* event goes on here.
Resumed_Slip == "start"

Resumed == "parse"

ReadPayload ==
    /\ handler = "input" /\ read = "parse" /\ Len(payload) < PayloadSize
    /\ \E n \in CanRead(PayloadSize - Len(payload)) :
          /\ payload' = payload \o Upto(Readable, n)
          /\ unread' = After(unread, n) /\ down' = Arrived(n)
    /\ IF Len(payload') = PayloadSize THEN UNCHANGED <<handler, read>>
                                      ELSE handler' = "none" /\ read' = Resumed
    /\ UNCHANGED <<session, out, line, tcp, up, owner, stream, asked, heard, router>>

\* The message is complete: sam_parse acts on it and the loop goes on, unless
\* the session failed, or is deleted because the socket was transferred.
Dispatch ==
    /\ handler = "input" /\ read = "parse" /\ Len(payload) >= PayloadSize
    /\ read' = "start" /\ line' = <<>> /\ payload' = <<>>
    /\ heard' = Append(heard, IF IsLine /\ payload = PayloadOf(Message) THEN Message ELSE Garbled)
    /\ \/ IsLine /\ Message[1] = "OK" /\ change_state(StateAfter[Message[2]]) /\ UNCHANGED tcp
       \/ IsLine /\ Message[1] = "DATAGRAM" /\ change_state("DATAGRAM_INCOMING") /\ UNCHANGED tcp
       \/ (IsLine => Message[1] \notin {"OK", "DATAGRAM"}) /\ raise_error
    /\ handler' = IF state' = "OFF" \/ (kind = "client" /\ sock' = "TRANSFERRED") THEN "none" ELSE handler
    /\ UNCHANGED <<unread, write, blocked, up, down, stream, router>>

OnOutput ==
    /\ handler = "none"
    /\ \/ posted /\ posted' = FALSE /\ blocked' = blocked
       \/ blocked /\ IsSams /\ blocked' = FALSE /\ posted' = posted
    /\ handler' = IF failed THEN "none" ELSE "output"
    /\ UNCHANGED <<session, queue, write, in, tcp, up, down, owner, stream, asked, heard, router>>

\* sam_handle_output: the next message, if there is one.
NextMessage ==
    /\ handler = "output" /\ write = <<>>
    /\ IF queue = <<>> THEN handler' = "none" /\ UNCHANGED <<queue, write>>
       ELSE write' = Units(Head(queue)) /\ queue' = Tail(queue) /\ handler' = handler
    /\ UNCHANGED <<session, posted, blocked, in, tcp, up, down, owner, stream, asked, heard, router>>

Write ==
    /\ handler = "output" /\ write # <<>> /\ tcp = "open"
    /\ \E n \in 0 .. Len(write) : up' = up \o Upto(write, n) /\ write' = After(write, n)
    /\ blocked' = (blocked \/ write' # <<>>)
    /\ handler' = IF write' = <<>> THEN handler ELSE "none"
    /\ UNCHANGED <<session, queue, posted, in, tcp, down, owner, stream, asked, heard, router>>

\* ErrorInReading and ErrorInWriting.
ReadOrWriteFails ==
    /\ tcp = "closed"
    /\ \/ handler = "input"
       \/ handler = "output" /\ write # <<>>
    /\ raise_error /\ handler' = "none"
    /\ UNCHANGED <<write, blocked, in, up, down, stream, heard, router>>

----
\* The owners.

Sent(messages) == Cardinality({k \in DOMAIN messages : messages[k][1] = "DATAGRAM"})

\* SendTo of the datagram socket, which Kad calls when it runs.
SendTo ==
    /\ handler = "none" /\ kind = "datagram" /\ sock = "RUNNING"
    /\ Sent(asked) < Len(Outgoing)
    /\ sam_queue(Datagram(Outgoing[Sent(asked) + 1]))
    /\ UNCHANGED <<session, write, blocked, in, handler, tcp, up, down, owner, stream, heard, router>>

RecvFrom ==
    /\ handler = "none" /\ inputs > 0
    /\ inputs' = inputs - 1
    /\ inbox' = IF inbox = <<>> THEN inbox ELSE Tail(inbox)
    /\ UNCHANGED <<session, out, in, handler, tcp, up, down, notify, events, stream, asked, heard, router>>

\* udp_server_connected stops the notifications, SetNetworkStarted turns them
\* on again, once the stream session is connected too.
udp_server_connected ==
    /\ handler = "none" /\ kind = "datagram" /\ "connect" \in events
    /\ events' = events \ {"connect"} /\ notify' = FALSE
    /\ UNCHANGED <<session, out, in, handler, tcp, up, down, inputs, inbox, stream, asked, heard, router>>

SetNetworkStarted ==
    /\ handler = "none" /\ ~notify
    /\ notify' = TRUE
    /\ UNCHANGED <<session, out, in, handler, tcp, up, down, events, inputs, inbox, stream, asked, heard, router>>

\* The application reads from a socket that was transferred to it.
Read ==
    /\ handler = "none" /\ sock = "TRANSFERRED" /\ down # <<>>
    /\ \E n \in CanRead(Len(Readable)) :
          taken' = taken \o Upto(Readable, n) /\ unread' = After(unread, n) /\ down' = Arrived(n)
    /\ UNCHANGED <<session, out, read, line, payload, handler, tcp, up, owner, peer, asked, heard, router>>

----
\* The router and the peers behind it.

Tells(m) == told' = Append(told, m) /\ down' = down \o Units(m)
Said(m) == m \in {told[k] : k \in 1 .. Len(told)}

\* It takes the next message and answers, if it is a command.
RouterGets ==
    /\ tcp = "open" /\ up # <<>> /\ Len(up) >= Size(up[1][1])
    /\ LET m == up[1][1] IN
          /\ up' = After(up, Size(m))
          /\ got' = Append(got, IF Upto(up, Size(m)) = Units(m) THEN m ELSE Garbled)
          /\ \/ m[1] = "COMMAND" /\ Tells(Answer("OK", m[2]))
             \/ /\ m[1] = "COMMAND" /\ m[2] \in {"CREATE", "CONNECT", "ACCEPT"} /\ "error" \in Env
                /\ Tells(Answer("ERROR", m[2]))
             \/ m[1] = "DATAGRAM" /\ UNCHANGED <<told, down>>
    /\ UNCHANGED <<session, out, in, handler, tcp, owner, stream, asked, heard>>

\* A datagram comes in.
RouterTells ==
    /\ tcp = "open" /\ kind = "datagram" /\ Sent(told) < Len(Incoming)
    /\ \/ "early" \in Env /\ Said(Answer("OK", "CREATE"))
       \/ "gap" \in Env /\ Said(Answer("OK", "NAMING"))
       \/ sock = "RUNNING" /\ notify /\ "connect" \notin events
    /\ Tells(Datagram(Incoming[Sent(told) + 1]))
    /\ UNCHANGED <<session, out, in, handler, tcp, up, owner, stream, asked, got, heard>>

\* A peer sends its first line.
PeerSends ==
    /\ tcp = "open" /\ ~peer
    /\ \/ kind = "client" /\ Said(Answer("OK", "CONNECT"))
       \/ /\ kind = "accepter" /\ Said(Answer("OK", "ACCEPT"))
          /\ "eager" \in Env \/ (sock = "TRANSFERRED" /\ handler = "none")
    /\ peer' = TRUE /\ down' = down \o Units(PeerLine)
    /\ UNCHANGED <<session, out, in, handler, tcp, up, owner, taken, asked, heard, router>>

RouterDies ==
    /\ "lost" \in Env /\ tcp = "open"
    /\ tcp' = "closed"
    /\ UNCHANGED <<session, out, in, handler, up, down, owner, stream, asked, heard, router>>

----
Handler == ReadLine \/ ReadPayload \/ Dispatch \/ NextMessage \/ Write \/ ReadOrWriteFails
Events == OnConnection \/ OnLost \/ OnInput \/ OnOutput
Owner == SendTo \/ RecvFrom \/ udp_server_connected \/ SetNetworkStarted \/ Read
Router == RouterGets \/ RouterTells \/ PeerSends \/ RouterDies

Next == Handler \/ Events \/ Owner \/ Router

Spec == Init /\ [][Next]_vars

\* A handler that began ends and the loop serves every event; bytes that are
\* sent arrive; the router answers.
Fairness ==
    /\ WF_vars(Handler) /\ WF_vars(OnConnection) /\ WF_vars(RouterGets)
    /\ SF_vars(OnLost) /\ SF_vars(OnInput) /\ SF_vars(OnOutput) /\ SF_vars(RecvFrom)
    /\ SF_vars(udp_server_connected) /\ SF_vars(SetNetworkStarted)
    /\ SF_vars((ReadLine \/ ReadPayload) /\ down' # down)
    /\ SF_vars(Write /\ up' # up)

FairSpec == Spec /\ Fairness

----
\* However lines, payloads and commands are cut by the connection, and whatever
\* handler is left in the middle of one, both sides get what was said whole, in
\* order and once (the contexts of sam_handle_input_reentrant, sam_read2 and
\* sam_handle_output).
Link == INSTANCE SamLink
IsLink == Link!Spec

\* What a peer sends belongs to the application: none of it is taken for an
\* answer of the router, or lost between the session and the application that
\* share the socket.
Stream == taken \o unread \o down
OfPeer(s) == {k \in DOMAIN s : s[k][1] = PeerLine}
PeerStreamIsWhole ==
    /\ peer => \E k \in DOMAIN Stream : /\ OfPeer(Stream) = {k, k + 1}
                                        /\ SubSeq(Stream, k, k + 1) = Units(PeerLine)
    /\ state = "ON" => OfPeer(taken) = DOMAIN taken

\* A session comes up, or its owner is told that it is lost, also when it is lost
\* later, if the owner listens then: a CONNECTION or LOST event is posted by each
\* path through the state machines.  The code excepts a client that is refused
\* or loses the router before it is connected, which is told nothing
\* (connect_failed), and no other client.  While a session is up, what is said
\* is heard, and Kad reads every datagram that is kept for it.
IsUp == \/ sock = "RUNNING"
        \/ kind = "client" /\ "connect" \in events
        \/ kind = "accepter" /\ state = "ON"
NotTold == /\ kind = "client" /\ sock = "TRANSFERRED" /\ state # "ON"
           /\ tcp = "closed" \/ \E k \in DOMAIN told : told[k][1] = "ERROR"
Listens == \/ kind = "server"
           \/ kind = "accepter" /\ taken = <<>>
           \/ kind = "datagram" /\ sock = "RUNNING" /\ notify /\ "connect" \notin events
SessionSettles ==
    /\ <>(IsUp \/ "lost" \in events \/ NotTold)
    /\ tcp = "closed" /\ Listens ~> ("lost" \in events \/ taken # <<>>)
    /\ got # asked ~> (got = asked \/ tcp = "closed" \/ failed)
    /\ heard # told ~> (heard = told \/ tcp = "closed" \/ failed)
    /\ inbox # <<>> ~> (inbox = <<>> \/ failed)
====
