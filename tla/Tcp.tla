-------------------------------- MODULE Tcp --------------------------------
(***************************************************************************)
(* TCP over the RTL8139 card: the socket pool and the interrupt handler of *)
(* rtl8139.c, and the VFS calls (disk.c) by which programs reach them.     *)
(* System calls and the handler run with interrupts off, so each is one    *)
(* step.  What the card sends reaches the other end at once or is lost     *)
(* (while ARP is unresolved, it does not send); what the other end sends   *)
(* waits in the card's ring, of which the handler takes one frame per      *)
(* interrupt.                                                              *)
(*                                                                         *)
(* The other end (QEMU's user network and the server behind it) is not in  *)
(* the repository.  It is modelled as an endpoint for every connection     *)
(* that keeps TCP's rules: it answers a SYN, sends in order, and sends     *)
(* again what was not acknowledged.  Sequence numbers count from each      *)
(* side's first; the k-th byte of a connection is number k.                *)
(***************************************************************************)
EXTENDS Integers, Sequences

CONSTANTS
    Apps,           \* tasks that use the network, one descriptor each
    MaxSockets,     \* sockets in the pool (16)
    Connections,    \* bound: connections ever opened
    PortSpace,      \* local ports: values of an unsigned short (65536)
    RxCap,          \* bytes that a socket buffers (8190)
    StreamBound,    \* bound: bytes the other end sends on a connection
    WriteBound,     \* bound: writes on a connection
    LossBound,      \* bound: segments with a number that a connection loses
    RingBound,      \* bound: frames waiting in the card
    NoSocket

ASSUME BoundsAssumption ==
    /\ MaxSockets \in Nat /\ Connections \in Nat
    /\ PortSpace \in Nat \ {0} /\ LossBound \in Nat
    /\ RxCap \in Nat /\ StreamBound \in Nat
    /\ NoSocket \notin Int

Socket == 0 .. MaxSockets - 1
Connection == 1 .. Connections
Port == 0 .. PortSpace      \* local ports, counted from 55555; 0 is none

VARIABLES
    socks,          \* tcp_sockets
    nextPort,       \* next_local_port
    arpAsked,       \* an ARP request is out
    arpResolved,    \* arp_resolved
    fd,             \* the socket behind every program's descriptor
    peer,           \* the other end of every connection
    opened,         \* history: connections opened so far
    conn,           \* history: the connection every socket was opened for
    lost,           \* history: segments with a number that every connection lost
    ring,           \* frames received and not yet handled
    irq             \* the card's interrupt is pending

net == <<ring, irq, arpAsked, arpResolved>>
pool == <<nextPort, opened, conn>>
vars == <<socks, pool, fd, peer, lost, net>>

\* port: the local port it answers; rcv: the number it expects next; open and
\* fin: it has sent SYN-ACK, FIN; sent: bytes sent; acked: highest
\* acknowledgement heard.
Silent == [port |-> 0, rcv |-> 0, open |-> FALSE, sent |-> 0, fin |-> FALSE, acked |-> 0]

Init ==
    /\ socks = [s \in Socket |-> [active |-> FALSE, state |-> "CLOSED", port |-> 0,
                                  seq |-> 0, ack |-> 0, rx |-> <<>>, ready |-> FALSE]]
    /\ nextPort = 1
    /\ arpAsked = FALSE /\ arpResolved = FALSE
    /\ fd = [a \in Apps |-> NoSocket]
    /\ peer = [c \in Connection |-> Silent]
    /\ opened = 0
    /\ conn = [s \in Socket |-> 0]
    /\ lost = [c \in Connection |-> 0]
    /\ ring = <<>> /\ irq = FALSE

-----------------------------------------------------------------------------
(* net_tcp_send.  Without a router address it sends nothing, changes       *)
(* nothing and returns -1.                                                 *)

\* The numbers a segment takes: one for SYN, FIN or a (one-byte) write.
Takes(flag) == IF flag = "ACK" THEN 0 ELSE 1

Sent(sock, flag) ==
    IF arpResolved THEN [sock EXCEPT !.seq = @ + Takes(flag)] ELSE sock

\* The other end takes a SYN first of all, every acknowledgement, and of the
\* rest only the number it expects next.
Heard(p, sock, flag) ==
    IF (p.rcv = 0) # (flag = "SYN") THEN p
    ELSE [p EXCEPT !.port = sock.port,
                   !.rcv = IF sock.seq = @ THEN @ + Takes(flag) ELSE @,
                   !.acked = IF sock.ack > @ THEN sock.ack ELSE @]

\* A segment is lost; nothing ever sends it again.
Loses(c, flag) ==
    /\ Takes(flag) > 0 => lost[c] < LossBound
    /\ lost' = [lost EXCEPT ![c] = @ + Takes(flag)]

\* The socket s becomes sock and sends a segment, which arrives or is lost.
SendFrom(s, c, sock, flag) ==
    /\ socks' = [socks EXCEPT ![s] = Sent(sock, flag)]
    /\ \/ ~arpResolved /\ UNCHANGED <<peer, lost>>
       \/ arpResolved /\ UNCHANGED lost /\ peer' = [peer EXCEPT ![c] = Heard(@, sock, flag)]
       \/ arpResolved /\ UNCHANGED peer /\ Loses(c, flag)

-----------------------------------------------------------------------------
(* System calls of program a.                                              *)

\* The scan of the pool stops at the first socket that fits.
IsFirst(s, S) == s \in S /\ \A t \in S : s <= t

FreeSockets == {s \in Socket : ~socks[s].active}

\* A port of its own for every socket of the pool.
PortOfSocket(s) == s + 1

\* The local port of a new connection.
NewPort(s) == nextPort

\* net_socket_create.
NewSocket(s) == [active |-> TRUE, state |-> "CLOSED", port |-> NewPort(s),
                 seq |-> 0, ack |-> 0, rx |-> <<>>, ready |-> FALSE]

\* net_tcp_connect: it asks for the router's address if that is unknown and
\* sends the SYN.
Connect(s, c) ==
    /\ SendFrom(s, c, [NewSocket(s) EXCEPT !.state = "SYN_SENT"], "SYN")
    /\ arpAsked' = ~arpResolved

\* vfs_open("NET", "TCP").
Open(a) ==
    /\ fd[a] = NoSocket
    /\ opened < Connections
    /\ \E s \in Socket :
         /\ IsFirst(s, FreeSockets)
         /\ fd' = [fd EXCEPT ![a] = s]
         /\ conn' = [conn EXCEPT ![s] = opened + 1]
         /\ Connect(s, opened + 1)
    /\ nextPort' = (nextPort % PortSpace) + 1
    /\ opened' = opened + 1
    /\ UNCHANGED <<arpResolved, ring, irq>>

\* sys_system_action(3): ask for the router's address or, once it is known,
\* send it a ping.
AskArp ==
    /\ arpAsked' = ~arpResolved
    /\ UNCHANGED <<socks, pool, fd, peer, lost, ring, irq, arpResolved>>

Usable(a) == fd[a] # NoSocket /\ socks[fd[a]].active

\* vfs_write, of one byte.
Write(a) ==
    /\ Usable(a)
    /\ socks[fd[a]].state = "ESTABLISHED"
    /\ socks[fd[a]].seq <= WriteBound
    /\ SendFrom(fd[a], conn[fd[a]], socks[fd[a]], "PSH")
    /\ UNCHANGED <<pool, fd, net>>

\* vfs_read: what it does not copy is lost all the same.
Read(a) ==
    /\ Usable(a)
    /\ socks[fd[a]].state = "ESTABLISHED"
    /\ socks[fd[a]].ready
    /\ socks' = [socks EXCEPT ![fd[a]].ready = FALSE, ![fd[a]].rx = <<>>]
    /\ UNCHANGED <<pool, fd, peer, lost, net>>

\* vfs_close: FIN, and the socket returns to the pool.
Close(a) ==
    /\ fd[a] # NoSocket
    /\ IF Usable(a)
       THEN SendFrom(fd[a], conn[fd[a]], [socks[fd[a]] EXCEPT !.active = FALSE], "FIN")
       ELSE UNCHANGED <<socks, peer, lost>>
    /\ fd' = [fd EXCEPT ![a] = NoSocket]
    /\ UNCHANGED <<pool, net>>

\* The task is killed and started again: its descriptors go with its TCB,
\* nobody closes its socket.
Kill(a) ==
    /\ fd[a] # NoSocket
    /\ fd' = [fd EXCEPT ![a] = NoSocket]
    /\ UNCHANGED <<socks, pool, peer, lost, net>>

-----------------------------------------------------------------------------
(* rtl8139_handler_main: one frame, and the interrupt is acknowledged.     *)

Frame == Head(ring)

\* The first socket in use, whatever the port.
FirstActive(port) == {s \in Socket : socks[s].active}

\* The socket that a port belongs to.
Addressees(port) == {s \in Socket : socks[s].active /\ socks[s].port = port}

OnArp ==
    /\ Frame.kind = "arp"
    /\ arpResolved' = TRUE
    /\ UNCHANGED <<socks, peer, lost>>

OnSynAck(s) ==
    /\ Frame.kind = "synack"
    /\ SendFrom(s, conn[s], [socks[s] EXCEPT !.ack = Frame.seq + 1,
                                             !.state = "ESTABLISHED"], "ACK")

\* The acknowledgement that counts the segment's first byte twice.
AckBeyond(seq) == seq + 2

\* What a one-byte segment is acknowledged with.
AckOf(seq) == seq + 1

\* There is room for another byte.
Room(rx) == Len(rx) < RxCap

\* Data is taken in any state; a full buffer drops it, and it is acknowledged.
OnData(s) ==
    /\ Frame.kind = "data"
    /\ LET sock == socks[s]
       IN  SendFrom(s, conn[s],
                    [sock EXCEPT !.ack = AckOf(Frame.seq), !.ready = TRUE,
                                 !.rx = IF Room(@)
                                        THEN Append(@, <<Frame.conn, Frame.seq>>) ELSE @],
                    "ACK")

\* A FIN that returns the socket to the pool.
AfterFinFree(sock) == [sock EXCEPT !.state = "CLOSED", !.active = FALSE]

\* A FIN closes the connection; the program still owns the socket.
AfterFin(sock) == [sock EXCEPT !.state = "CLOSED"]

OnFin(s) ==
    /\ Frame.kind = "fin"
    /\ SendFrom(s, conn[s], AfterFin([socks[s] EXCEPT !.ack = Frame.seq + 1]), "FIN")

Handler ==
    /\ irq
    /\ IF Frame.kind = "arp" THEN OnArp
       ELSE /\ UNCHANGED arpResolved
            /\ IF Addressees(Frame.port) = {} THEN UNCHANGED <<socks, peer, lost>>
               ELSE \E s \in Socket : /\ IsFirst(s, Addressees(Frame.port))
                                      /\ OnSynAck(s) \/ OnData(s) \/ OnFin(s)
    /\ ring' = Tail(ring)
    /\ irq' = FALSE
    /\ UNCHANGED <<pool, fd, arpAsked>>

-----------------------------------------------------------------------------
(* The other end (external).                                               *)

\* A frame enters the card's ring and raises the interrupt.
Arrives(frame) ==
    /\ Len(ring) < RingBound
    /\ ring' = Append(ring, frame)
    /\ irq' = TRUE
    /\ UNCHANGED <<socks, pool, fd, lost, arpAsked, arpResolved>>

Segment(c, kind, seq) == [kind |-> kind, conn |-> c, port |-> peer[c].port, seq |-> seq]

ArpReply ==
    /\ arpAsked /\ ~arpResolved
    /\ Arrives([kind |-> "arp", conn |-> 0, port |-> 0, seq |-> 0])
    /\ UNCHANGED peer

PeerSynAck(c) ==
    /\ peer[c].rcv > 0 /\ peer[c].acked = 0
    /\ Arrives(Segment(c, "synack", 0))
    /\ peer' = [peer EXCEPT ![c].open = TRUE]

\* The handshake is over: the next byte, or one that was not acknowledged.
PeerData(c) ==
    /\ peer[c].acked > 0
    /\ \E k \in peer[c].acked .. peer[c].sent + 1 :
         /\ k <= IF peer[c].fin THEN peer[c].sent ELSE StreamBound
         /\ Arrives(Segment(c, "data", k))
         /\ peer' = [peer EXCEPT ![c].sent = IF k > @ THEN k ELSE @]

PeerFin(c) ==
    /\ peer[c].acked \in 1 .. peer[c].sent + 1
    /\ Arrives(Segment(c, "fin", peer[c].sent + 1))
    /\ peer' = [peer EXCEPT ![c].fin = TRUE]

-----------------------------------------------------------------------------
Next ==
    \/ \E a \in Apps : Open(a) \/ Write(a) \/ Read(a) \/ Close(a) \/ Kill(a)
    \/ AskArp
    \/ Handler
    \/ ArpReply
    \/ \E c \in Connection : PeerSynAck(c) \/ PeerData(c) \/ PeerFin(c)

Spec == Init /\ [][Next]_vars

-----------------------------------------------------------------------------
(* Properties.                                                             *)

SocketRecord == [active : BOOLEAN, state : {"CLOSED", "SYN_SENT", "ESTABLISHED"},
                 port : Port, seq : Nat, ack : Nat,
                 rx : Seq(Connection \X (1 .. StreamBound)), ready : BOOLEAN]

PeerRecord == [port : Port, rcv : Nat, open : BOOLEAN, sent : 0 .. StreamBound,
               fin : BOOLEAN, acked : Nat]

FrameRecord == [kind : {"arp", "synack", "data", "fin"}, conn : 0 .. Connections,
                port : Port, seq : 0 .. StreamBound + 1]

TypeOK ==
    /\ socks \in [Socket -> SocketRecord]
    /\ \A s \in Socket : Len(socks[s].rx) <= RxCap
    /\ nextPort \in 1 .. PortSpace
    /\ arpAsked \in BOOLEAN /\ arpResolved \in BOOLEAN /\ irq \in BOOLEAN
    /\ fd \in [Apps -> Socket \cup {NoSocket}]
    /\ peer \in [Connection -> PeerRecord]
    /\ opened \in 0 .. Connections
    /\ conn \in [Socket -> 0 .. Connections]
    /\ lost \in [Connection -> 0 .. LossBound]
    /\ ring \in Seq(FrameRecord)

Established == {s \in Socket : socks[s].active /\ socks[s].state = "ESTABLISHED"}

\* Every port was handed out, and the first ones a second time, whether or not
\* their sockets are still in use: what the ports keep apart is promised until
\* then.
PortsUsedUp == opened > PortSpace
PortsLast == ~PortsUsedUp

\* Until the ports repeat, the bytes in a socket's buffer are bytes of the
\* connection it was opened for: a late frame of a connection that was closed
\* or whose program was killed never reaches the socket that took its place in
\* the pool.
OwnBytesOnly ==
    \/ PortsUsedUp
    \/ \A s \in Socket : socks[s].active =>
           \A i \in 1 .. Len(socks[s].rx) : socks[s].rx[i][1] = conn[s]

\* Until the ports repeat, the two ends of an established connection agree: the
\* other end has accepted it and expects no number that the socket has not
\* reached, and the very number it sends next if no segment that carried one
\* was lost; after any mix of writes, acknowledgements and repeated segments.
EndsAgree ==
    \/ PortsUsedUp
    \/ \A s \in Established :
           /\ peer[conn[s]].open
           /\ socks[s].seq >= peer[conn[s]].rcv
           /\ lost[conn[s]] = 0 => socks[s].seq = peer[conn[s]].rcv

\* The numbers the other end has used, its SYN being number 0.
NumbersSent(p) == IF ~p.open THEN 0 ELSE IF p.fin THEN p.sent + 2 ELSE p.sent + 1

\* Until the ports repeat, a socket never acknowledges what the other end did
\* not send.
AcksOnlySent ==
    \/ PortsUsedUp
    \/ \A s \in Socket : socks[s].active => socks[s].ack <= NumbersSent(peer[conn[s]])

\* Two programs never hold the same socket, and the socket behind an open
\* descriptor is never back in the pool: vfs_close is the only way there,
\* whatever the other end sends.
SocketsNotShared ==
    /\ \A a \in Apps : fd[a] # NoSocket => socks[fd[a]].active
    /\ \A a, b \in Apps : a # b /\ fd[a] # NoSocket => fd[a] # fd[b]
=============================================================================
