---- MODULE Throttler ----
(***************************************************************************)
(* The sending half of the peer connections: the packet queues of a socket *)
(* (EMSocket.cpp) and the upload bandwidth throttler that calls the sockets *)
(* (UploadBandwidthThrottler.cpp).                                          *)
(*                                                                         *)
(* The throttler is a coroutine woken by a timer.  One wake-up is one pass: *)
(* it calls the sockets that asked to send control packets, then trickles   *)
(* data to the upload slots that were not called for a second, then shares  *)
(* what is left of the bandwidth among the slots.  Nothing else of the      *)
(* program runs during a pass, so every other action waits for it to end;   *)
(* the pass is cut into steps only to name what each of its loops does.     *)
(*                                                                         *)
(* Sizes are counted in units; Frag units are one minFragSize, and          *)
(* doubleSendSize is Double.  The bandwidth of a pass (bytesToSpend, from   *)
(* the clock and the preferences) is any member of Budgets.                *)
(* Whether lastCalledSend and lastSent are more than a second old is left   *)
(* open wherever the code asks.                                             *)
(***************************************************************************)
EXTENDS Integers, Sequences, SequencesExt, FiniteSets

CONSTANTS
    Sockets,     \* the CEMSocket objects the program may create
    Frag,        \* minFragSize, in units
    Double,      \* doubleSendSize, in units
    Sizes,       \* the sizes of packets, in units
    Budgets,     \* what a pass may have to spend, in units
    MaxPackets,  \* how many packets the sockets are given in all
    MaxEntries,  \* how often a socket may stand in the queues before OnSend waits
    Env          \* which of the events of EnvFeatures happen

EnvFeatures == {"slots", "lose", "disconnect", "end", "errors"}

ASSUME ThrottlerAssumption ==
    /\ Frag \in Nat \ {0} /\ Double \in Nat \ {0}
    /\ Budgets \subseteq Nat \ {0} /\ Sizes \subseteq Nat \ {0}
    /\ MaxPackets \in Nat /\ MaxEntries \in Nat \ {0}
    /\ Env \subseteq EnvFeatures

VARIABLES
    sock,     \* per socket: its connection, its queues, the packet in sendbuffer
    ubt,      \* the lists of the throttler, m_doRun, rememberedSlotCounter
    pass,     \* where the coroutine stands in its pass, and in which call of Send
    holders,  \* the sockets whose client is in the uploading list of the upload queue
    made,     \* the packets made so far
    wire      \* per socket: the packet last put on the connection, and which of its units

vars == <<sock, ubt, pass, holders, made, wire>>

(* A packet: its number, its size, whether it is a control packet.          *)
None == [id |-> 0, size |-> 0, control |-> FALSE]

(* con is byConnected, with the two ends of the object's life: "unborn",     *)
(* "connecting", "connected", "disconnected", "deleted"; a connection whose *)
(* handshake or obfuscation is not through yet counts as connecting.        *)
NewSocket ==
    [con |-> "unborn", control |-> <<>>, standard |-> <<>>,
     buffer |-> None, sent |-> 0, isControl |-> FALSE,
     busy |-> FALSE, hasSent |-> FALSE]

NoSocket == "none"

NoCall == [sock |-> NoSocket, max |-> 0, frag |-> 1, only |-> FALSE,
           long |-> FALSE, standard |-> 0, control |-> 0, error |-> FALSE, back |-> "idle"]

Idle == [at |-> "idle", budget |-> 0, spent |-> 0, slots |-> 0, counter |-> 0, call |-> NoCall]

Init ==
    /\ sock = [s \in Sockets |-> NewSocket]
    /\ ubt = [run |-> TRUE, tempFirst |-> <<>>, temp |-> <<>>,
              first |-> <<>>, control |-> <<>>, order |-> <<>>, remembered |-> 0]
    /\ pass = Idle
    /\ holders = {}
    /\ made = 0
    /\ wire = [s \in Sockets |-> [packet |-> None, to |-> 0]]

----
(* Operations of the throttler, as functions of its lists.                 *)

\* Slip: the socket joins the queue that the pass is emptying.
QueueForSendingControlPacket_Slip(u, s, hasSent) ==
    IF u.run THEN [u EXCEPT !.first = Append(@, s)] ELSE u

QueueForSendingControlPacket(u, s, hasSent) ==
    CASE ~u.run            -> u
      [] u.run /\ hasSent  -> [u EXCEPT !.tempFirst = Append(@, s)]
      [] u.run /\ ~hasSent -> [u EXCEPT !.temp = Append(@, s)]

(* The list, in its order, but for the entries of s (EraseValue).           *)
Without(list, s) ==
    LET kept    == {i \in 1..Len(list) : list[i] # s}
        rank(i) == Cardinality({j \in kept : j <= i})
    IN [k \in 1..Cardinality(kept) |-> list[CHOOSE i \in kept : rank(i) = k]]

\* Slip: only the two queues of the sockets that have not sent yet are searched.
RemoveFromAllQueues_Slip(u, s) ==
    IF ~u.run THEN u
    ELSE [u EXCEPT !.control = Without(@, s), !.temp = Without(@, s),
                   !.order = Without(@, s)]

RemoveFromAllQueues(u, s) ==
    IF ~u.run THEN u
    ELSE [u EXCEPT !.first = Without(@, s), !.control = Without(@, s),
                   !.tempFirst = Without(@, s), !.temp = Without(@, s),
                   !.order = Without(@, s)]

(* The socket joins at an index, or last if there are fewer.               *)
AddToStandardList(u, index, s) ==
    LET others == Without(u.order, s)
        place  == IF index > Len(others) THEN Len(others) ELSE index
    IN [u EXCEPT !.order = InsertAt(others, place + 1, s)]

----
(* Operations of a socket.                                                 *)

Pending(s) == \* a control packet waits to be sent, or the rest of one
    \/ sock[s].control # <<>>
    \/ sock[s].buffer # None /\ sock[s].isControl

ClearQueues(k) == [k EXCEPT !.control = <<>>, !.standard = <<>>, !.buffer = None, !.sent = 0]

Undisturbed == pass.at \in {"idle", "ended"} \* no pass is going on

(* A socket is made for a client, and connects; or it is accepted.         *)
Create(s) ==
    /\ Undisturbed
    /\ sock[s].con = "unborn"
    /\ sock' = [sock EXCEPT ![s].con = "connecting"]
    /\ UNCHANGED <<ubt, pass, holders, made, wire>>

(* Packets with client data are only made for a client that is uploaded to. *)
SendPacket(s, size, control) ==
    /\ Undisturbed
    /\ sock[s].con \in {"connecting", "connected"}
    /\ made < MaxPackets
    /\ control \/ s \in holders
    /\ LET p == [id |-> made + 1, size |-> size, control |-> control] IN
       /\ sock' = [sock EXCEPT ![s].control = IF control THEN Append(@, p) ELSE @,
                               ![s].standard = IF control THEN @ ELSE Append(@, p)]
       /\ made' = made + 1
       /\ ubt' = IF control THEN QueueForSendingControlPacket(ubt, s, sock[s].hasSent) ELSE ubt
    /\ UNCHANGED <<pass, holders, wire>>

Entries(s) == \* a socket may stand in the queues several times
    Len(SelectSeq(ubt.tempFirst \o ubt.temp \o ubt.first \o ubt.control, LAMBDA x : x = s))

(* The connection can take data again, or for the first time.              *)
OnSend(s) ==
    /\ Undisturbed /\ Entries(s) < MaxEntries
    /\ sock[s].con = "connecting" \/ (sock[s].con = "connected" /\ sock[s].busy)
    /\ sock' = [sock EXCEPT ![s].busy = FALSE, ![s].con = "connected"]
    /\ ubt' = IF sock[s].isControl
              THEN QueueForSendingControlPacket(ubt, s, sock[s].hasSent) ELSE ubt
    /\ UNCHANGED <<pass, holders, made, wire>>

(* CClientTCPSocket::Disconnect: the client leaves the upload queue, the    *)
(* object stays until the event loop is idle.                              *)
Disconnect(s) ==
    /\ Undisturbed /\ "disconnect" \in Env
    /\ sock[s].con \in {"connecting", "connected"}
    /\ sock' = [sock EXCEPT ![s].con = "disconnected",
                            ![s].standard = IF s \in holders THEN <<>> ELSE @]
    /\ holders' = holders \ {s}
    /\ UNCHANGED <<ubt, pass, made, wire>>

(* ~CEMSocket, after Destroy                                               *)
Delete(s) ==
    /\ Undisturbed
    /\ sock[s].con = "disconnected"
    /\ ubt' = RemoveFromAllQueues(ubt, s)
    /\ sock' = [sock EXCEPT ![s] = [ClearQueues(@) EXCEPT !.con = "deleted"]]
    /\ UNCHANGED <<pass, holders, made, wire>>

----
(* The upload queue gives a slot to the client of a socket, and takes it.  *)

SlotGiven(s) ==
    /\ Undisturbed /\ "slots" \in Env
    /\ sock[s].con \in {"connecting", "connected"}
    /\ s \notin holders
    /\ ubt' = AddToStandardList(ubt, Cardinality(holders), s)
    /\ holders' = holders \cup {s}
    /\ UNCHANGED <<sock, pass, made, wire>>

SlotTaken(s) ==
    /\ Undisturbed /\ "lose" \in Env
    /\ s \in holders
    /\ holders' = holders \ {s}
    /\ sock' = [sock EXCEPT ![s].standard = <<>>]
    /\ UNCHANGED <<ubt, pass, made, wire>>

----
(* CEMSocket::Send, called from the loops of the pass.                     *)

RoundUp(n, frag) == IF n % frag = 0 THEN n ELSE frag * (n \div frag + 1) \* GetNextFragSize

Total(c) == c.standard + c.control

Call(s, max, frag, only, back) ==
    [NoCall EXCEPT !.sock = s, !.max = max, !.frag = frag, !.only = only, !.back = back]

(* The call returns to the loop that made it, which adds what was sent.    *)
Return(c) == pass' = [pass EXCEPT !.at = c.back, !.spent = @ + Total(c), !.call = NoCall]

\* Slip: the packet that was sent in part is forgotten.
Requeue_Slip(c) ==
    ubt' = IF c.only /\ sock[c.sock].control # <<>>
           THEN QueueForSendingControlPacket(ubt, c.sock, sock[c.sock].hasSent) ELSE ubt

(* A socket that was only to send control packets and still has some asks   *)
(* to be called again.                                                     *)
Requeue(c) ==
    ubt' = IF c.only /\ Pending(c.sock)
           THEN QueueForSendingControlPacket(ubt, c.sock, sock[c.sock].hasSent) ELSE ubt

\* Slip: a socket that is still connecting is refused like one that is closed.
Refused_Slip(c, k) == k.con # "connected" \/ (k.busy /\ c.only)

Refused(c, k) == k.con \in {"disconnected", "deleted"} \/ (k.busy /\ c.only)

(* The first lines of Send: what keeps a socket from sending at all.       *)
Enter ==
    /\ pass.at = "enter"
    /\ LET c == pass.call
           k == sock[c.sock] IN
       \/ /\ Refused(c, k)
          /\ Return(c)
          /\ UNCHANGED <<sock, ubt>>
       \/ /\ ~Refused(c, k) /\ (k.con = "connecting" \/ k.busy)
          /\ Return(c)
          /\ Requeue(c)
          /\ UNCHANGED sock
       \/ /\ k.con = "connected" /\ ~k.busy
          /\ \E long \in BOOLEAN :
                pass' = [pass EXCEPT !.at = "send", !.call.long = long,
                                     !.call.max = RoundUp(c.max, c.frag)]
          /\ UNCHANGED <<sock, ubt>>
    /\ UNCHANGED <<holders, made, wire>>

(* Whether the outer loop of Send goes round once more.                    *)
Continues(c, k) ==
    /\ Total(c) < c.max /\ ~c.error
    /\ k.control # <<>> \/ k.standard # <<>> \/ k.buffer # None
    /\ \/ ~c.only
       \/ Total(c) > 0 /\ Total(c) % c.frag # 0
       \/ k.buffer = None /\ k.control # <<>>
       \/ k.buffer # None /\ k.isControl
       \/ /\ k.buffer # None /\ ~k.isControl
          /\ c.long /\ k.control # <<>> /\ k.standard = <<>> /\ Total(c) < c.frag

\* Slip: a control packet does not wait for the packet in progress.
PickPacket_Slip(k) ==
    CASE k.control # <<>> ->
            [k EXCEPT !.buffer = Head(k.control), !.control = Tail(@), !.sent = 0, !.isControl = TRUE]
      [] k.control = <<>> /\ k.buffer # None -> k
      [] k.control = <<>> /\ k.buffer = None ->
            [k EXCEPT !.buffer = Head(k.standard), !.standard = Tail(@), !.sent = 0, !.isControl = FALSE]

(* The next packet to send, when none is in progress: a control packet if   *)
(* there is one.                                                           *)
PickPacket(k) ==
    CASE k.buffer # None -> k
      [] k.buffer = None /\ k.control # <<>> ->
            [k EXCEPT !.buffer = Head(k.control), !.control = Tail(@), !.sent = 0, !.isControl = TRUE]
      [] k.buffer = None /\ k.control = <<>> ->
            [k EXCEPT !.buffer = Head(k.standard), !.standard = Tail(@), !.sent = 0, !.isControl = FALSE]

SendLoop ==
    /\ pass.at = "send"
    /\ LET c == pass.call
           k == sock[c.sock] IN
       \/ /\ Continues(c, k)
          /\ sock' = [sock EXCEPT ![c.sock] = PickPacket(k)]
          /\ pass' = [pass EXCEPT !.at = "write"]
          /\ UNCHANGED ubt
       \/ /\ ~Continues(c, k)
          /\ Return(c)
          /\ Requeue(c)
          /\ UNCHANGED sock
    /\ UNCHANGED <<holders, made, wire>>

(* Whether the inner loop of Send writes some more of the packet.          *)
Writes(c, k) ==
    /\ k.sent < k.buffer.size /\ Total(c) < c.max /\ ~c.error
    /\ \/ ~c.only
       \/ k.isControl
       \/ c.long /\ Total(c) < c.frag
       \/ Total(c) % c.frag # 0

ToSend(c, k) ==
    LET left == k.buffer.size - k.sent
        room == CASE ~c.only \/ k.isControl -> c.max - Total(c)
                  [] c.only /\ ~k.isControl /\ c.long /\ Total(c) < c.frag -> c.frag - Total(c)
                  [] OTHER -> RoundUp(Total(c), c.frag) - Total(c)
    IN IF left < room THEN left ELSE room

(* The connection takes n units of what is offered to it.                  *)
WriteSome(s) ==
    /\ pass.at = "write" /\ pass.call.sock = s
    /\ Writes(pass.call, sock[s])
    /\ \E n \in 1..ToSend(pass.call, sock[s]) :
          LET k == sock[s] IN
          /\ sock' = [sock EXCEPT ![s].sent = @ + n, ![s].busy = FALSE,
                                  ![s].hasSent = TRUE]
          /\ wire' = [wire EXCEPT ![s] = [packet |-> k.buffer, to |-> k.sent + n]]
          /\ pass' = [pass EXCEPT !.call.control = IF k.isControl THEN @ + n ELSE @,
                                  !.call.standard = IF k.isControl THEN @ ELSE @ + n]
    /\ UNCHANGED <<ubt, holders, made>>

(* It can take nothing now (OnSend follows), which leaves Send at once; or  *)
(* it fails otherwise.                                                     *)
WriteFails ==
    /\ pass.at = "write"
    /\ LET c == pass.call IN
       /\ Writes(c, sock[c.sock])
       /\ \/ /\ sock' = [sock EXCEPT ![c.sock].busy = TRUE]
             /\ Return(c)
          \/ /\ "errors" \in Env
             /\ pass' = [pass EXCEPT !.call.error = TRUE]
             /\ UNCHANGED sock
    /\ UNCHANGED <<ubt, holders, made, wire>>

(* The packet is through, or no more of it may go out in this call.        *)
WriteEnds ==
    /\ pass.at = "write"
    /\ LET c == pass.call
           k == sock[c.sock] IN
       /\ ~Writes(c, k)
       /\ sock' = IF k.sent = k.buffer.size
                  THEN [sock EXCEPT ![c.sock].buffer = None, ![c.sock].sent = 0] ELSE sock
    /\ pass' = [pass EXCEPT !.at = "send"]
    /\ UNCHANGED <<ubt, holders, made, wire>>

----
(* The pass: Entry.                                                        *)

(* The timer wakes the coroutine, which leaves its loop if it was told to.  *)
(* The queue of the sockets that sent before is not cleared then.          *)
Stop ==
    /\ pass.at = "idle" /\ ~ubt.run
    /\ ubt' = [ubt EXCEPT !.temp = <<>>, !.tempFirst = <<>>, !.control = <<>>, !.order = <<>>]
    /\ pass' = [pass EXCEPT !.at = "ended"]
    /\ UNCHANGED <<sock, holders, made, wire>>

(* Otherwise the sockets that asked since the last pass join the queues.   *)
Wake(budget) ==
    /\ pass.at = "idle" /\ ubt.run
    /\ ubt' = [ubt EXCEPT !.first = @ \o ubt.tempFirst, !.control = @ \o ubt.temp,
                          !.tempFirst = <<>>, !.temp = <<>>]
    /\ pass' = [Idle EXCEPT !.at = "control", !.budget = budget]
    /\ UNCHANGED <<sock, holders, made, wire>>

Left == pass.budget - pass.spent

ControlLoop ==
    /\ pass.at = "control"
    /\ \/ /\ Left > 0 /\ ubt.first # <<>>
          /\ ubt' = [ubt EXCEPT !.first = Tail(@)]
          /\ pass' = [pass EXCEPT !.at = "enter", !.call = Call(Head(ubt.first), Left, Frag, TRUE, "control")]
       \/ /\ Left > 0 /\ ubt.first = <<>> /\ ubt.control # <<>>
          /\ ubt' = [ubt EXCEPT !.control = Tail(@)]
          /\ pass' = [pass EXCEPT !.at = "enter", !.call = Call(Head(ubt.control), Left, Frag, TRUE, "control")]
       \/ /\ (Left <= 0 \/ (ubt.first = <<>> /\ ubt.control = <<>>))
          /\ pass' = [pass EXCEPT !.at = "trickle", !.slots = Len(ubt.order), !.counter = 0]
          /\ UNCHANGED ubt
    /\ UNCHANGED <<sock, holders, made, wire>>

(* GetNeededBytes: nothing without client data to send, else what the clock *)
(* asks for.                                                               *)
NeededBytes(k) ==
    LET size == IF k.buffer # None /\ ~k.isControl THEN k.buffer.size - k.sent
                ELSE IF k.standard # <<>> THEN Head(k.standard).size ELSE 0
    IN IF k.con \in {"disconnected", "deleted"} \/ size = 0 THEN {0} ELSE {1, size}

TrickleLoop ==
    /\ pass.at = "trickle"
    /\ \/ /\ pass.counter < pass.slots
          /\ LET s == ubt.order[pass.counter + 1] IN
             \E needed \in {0} \cup NeededBytes(sock[s]) :
                pass' = [pass EXCEPT !.counter = @ + 1,
                           !.at = IF needed > 0 THEN "enter" ELSE @,
                           !.call = IF needed > 0 THEN Call(s, needed, Frag, FALSE, "trickle") ELSE @]
       \/ /\ pass.counter >= pass.slots
          /\ pass' = [pass EXCEPT !.at = "share", !.counter = 0]
    /\ UNCHANGED <<sock, ubt, holders, made, wire>>

(* The slots take turns, starting after the last one of the pass before:    *)
(* first doubleSendSize each, then as much as there is.                    *)
ShareLoop ==
    /\ pass.at = "share"
    /\ \/ /\ pass.counter < 2 * pass.slots /\ Left > 0
          /\ LET i == IF ubt.remembered >= pass.slots THEN 0 ELSE ubt.remembered
                 data == IF pass.counter < pass.slots - 1 THEN Double ELSE Left IN
             /\ pass' = [pass EXCEPT !.at = "enter", !.counter = @ + 1,
                                     !.call = Call(ubt.order[i + 1], data, Double, FALSE, "share")]
             /\ ubt' = [ubt EXCEPT !.remembered = i + 1]
       \/ /\ pass.counter >= 2 * pass.slots \/ Left <= 0
          /\ pass' = Idle
          /\ UNCHANGED ubt
    /\ UNCHANGED <<sock, holders, made, wire>>

EndThread ==
    /\ Undisturbed /\ "end" \in Env
    /\ ubt.run
    /\ ubt' = [ubt EXCEPT !.run = FALSE]
    /\ UNCHANGED <<sock, pass, holders, made, wire>>

----
Calls == Enter \/ SendLoop \/ (\E s \in Sockets : WriteSome(s)) \/ WriteFails \/ WriteEnds
Entry == Stop \/ (\E b \in Budgets : Wake(b)) \/ ControlLoop \/ TrickleLoop \/ ShareLoop

Next ==
    \/ Calls
    \/ Entry
    \/ EndThread
    \/ \E s \in Sockets :
          \/ Create(s)
          \/ OnSend(s)
          \/ Disconnect(s)
          \/ Delete(s)
          \/ SlotGiven(s)
          \/ SlotTaken(s)
          \/ \E size \in Sizes, control \in BOOLEAN : SendPacket(s, size, control)

(* The timer goes on firing and the calls end; the system tells when a busy *)
(* connection has room again (strong fairness: the event may only be posted *)
(* between two passes), and a connection that is tried for ever takes       *)
(* something in the end.                                                   *)
Fairness ==
    /\ WF_vars(Calls \/ Entry)
    /\ \A s \in Sockets : SF_vars(OnSend(s))
    /\ \A s \in Sockets : SF_vars(WriteSome(s))

Spec == Init /\ [][Next]_vars
FairSpec == Spec /\ Fairness

----
(* What is claimed.                                                        *)

(* The throttler never calls, and while it runs never lists, a socket that  *)
(* was deleted: the raw pointers in its lists are good, although sockets    *)
(* die in the middle of sending and after the thread was told to end.       *)
CalledIsAlive ==
    /\ pass.at \in {"enter", "send", "write"} => sock[pass.call.sock].con # "deleted"
    /\ ubt.run => \A l \in {"tempFirst", "temp", "first", "control", "order"} :
                     \A i \in 1..Len(ubt[l]) : sock[ubt[l][i]].con # "deleted"

Asked(s) == \E l \in {"tempFirst", "temp", "first", "control", "order"} : Contains(ubt[l], s)

(* A connection with a control packet to send is on its way to be called:   *)
(* in a queue of the throttler, an upload slot, or waiting for OnSend, which *)
(* puts it back in the queue only if a control packet was in progress.      *)
(* Send leaves the queue in each of its returns, and only some put it back. *)
NoneForgotten ==
    \A s \in Sockets :
       (Undisturbed /\ ubt.run /\ sock[s].con \in {"connecting", "connected"} /\ Pending(s)) =>
           Asked(s) \/ (sock[s].busy /\ sock[s].isControl)

(* What a peer receives is whole packets, one after the other: no packet is *)
(* interrupted by another, started twice or resumed at the wrong place,     *)
(* although calls, limits, blocking and truncation cut the sending anywhere. *)
WireIsWhole ==
    [][\A s \in Sockets :
          LET old == wire[s]
              new == wire'[s] IN
          new # old =>
             \/ new.packet = old.packet /\ sock[s].sent = old.to /\ new.to > old.to
             \/ new.packet # old.packet /\ sock[s].sent = 0 /\ old.to = old.packet.size]_wire

(* Every control packet of a connection goes out, or the connection ends.   *)
ControlGoesOut ==
    \A s \in Sockets :
       (sock[s].con = "connected" /\ Pending(s)) ~>
           (sock[s].con # "connected" \/ ~Pending(s) \/ ~ubt.run)

(* Every pass ends: a socket that asks to be called again is not called     *)
(* again in the same pass, even when it sends nothing.                     *)
PassEnds == ~Undisturbed ~> Undisturbed
====
