------------------------------ MODULE TcpTransport ------------------------------
(***************************************************************************)
(* TcpTransport: one table of connections by remote endpoint, which worker  *)
(* threads fill when they send, the acceptor when a peer connects, readers  *)
(* clean when a connection breaks, and stop empties.                        *)
(*                                                                          *)
(* A section under connections_mutex or socket_mutex is one step; between   *)
(* two of them everybody else may act.  The condition variable is modelled  *)
(* by who sleeps and who notifies.                                          *)
(*                                                                          *)
(* Abstractions.                                                            *)
(*  - A connection is a number; one that never gets into the table is not   *)
(*    given any, and one that nobody refers to is taken as closed.          *)
(*  - What a peer sends is one stream of units on each connection it makes: *)
(*    lines of a header, the empty line that ends it with the length of the *)
(*    body, units of the body, some of which look like an empty line.       *)
(*  - A connect and a write return, and a write fails only once the peer is *)
(*    gone.                                                                 *)
(*  - MaxSends, MaxConns and MaxBreaks bound the messages, the connections   *)
(*    and how many of those break.                                          *)
(***************************************************************************)
EXTENDS Integers, Sequences, FiniteSets

CONSTANTS
    Worker,     \* threads that send
    Remote,     \* endpoints, the keys of the table
    None,
    Stream,     \* units a peer sends, each with the number of its message
    MaxSends, MaxConns, MaxBreaks

Unit == [message: Nat, kind: {"text", "blank"}, length: Nat]

ASSUME TransportAssumption ==
    /\ Stream \in Seq(Unit)
    /\ MaxSends \in Nat /\ MaxConns \in Nat /\ MaxBreaks \in Nat
    /\ None \notin Nat

VARIABLES
    table,        \* connections: the connection to each remote, or None
    connecting,   \* remotes somebody connects to
    conn,         \* every connection there has been
    sender,       \* where each worker is in send
    acceptor,     \* where the accept handler is, and the connection it has
    stopped,
    stopper,      \* where stop is, and the connections it still has to close
    sends

vars == <<table, connecting, conn, sender, acceptor, stopped, stopper, sends>>

Id == 1 .. MaxConns

\* up: whether the peer is there.  taken, buffer, delivered: the units read, those
\* not extracted yet, and the messages extracted.
Connection ==
    [remote: Remote, accepted: BOOLEAN, open: BOOLEAN, socket: BOOLEAN, up: BOOLEAN,
     reader: {"new", "armed", "framing", "closing", "shutting", "ended"},
     taken: 0 .. Len(Stream), buffer: Seq(Unit), delivered: Seq(Seq(Unit))]

\* then: where it goes on after notify_all.
Sender ==
    [at: {"idle", "asleep", "awake", "connect", "notify", "start", "have", "writing", "unregister"},
     dest: Remote \cup {None}, conn: Id \cup {None}, then: {"idle", "start", "have"}]

Idle == [at |-> "idle", dest |-> None, conn |-> None, then |-> "idle"]

TypeOK ==
    /\ table \in [Remote -> Id \cup {None}]
    /\ connecting \subseteq Remote
    /\ conn \in Seq(Connection) /\ Len(conn) <= MaxConns
    /\ sender \in [Worker -> Sender]
    /\ acceptor \in [at: {"armed", "accepted", "starting", "ended"}, conn: Id \cup {None}]
    /\ stopped \in BOOLEAN
    /\ stopper \in [at: {"none", "acceptor", "table", "notify", "close", "shut", "done"},
                    active: SUBSET Id, conn: Id \cup {None}]
    /\ sends \in 0 .. MaxSends

Init ==
    /\ table = [k \in Remote |-> None]
    /\ connecting = {} /\ conn = <<>>
    /\ sender = [w \in Worker |-> Idle]
    /\ acceptor = [at |-> "armed", conn |-> None]
    /\ stopped = FALSE
    /\ stopper = [at |-> "none", active |-> {}, conn |-> None]
    /\ sends = 0

-----------------------------------------------------------------------------
(* Connection. *)

New(k, accepted) ==
    [remote |-> k, accepted |-> accepted, open |-> TRUE, socket |-> TRUE, up |-> TRUE,
     reader |-> "new", taken |-> 0, buffer |-> <<>>, delivered |-> <<>>]

Usable(c) == conn[c].open /\ conn[c].socket /\ ~stopped

\* socket_mutex is free; a write holds it until it returns.
Unlocked(c) == \A w \in Worker : ~(sender[w].at = "writing" /\ sender[w].conn = c)

\* The connection once nobody is going to read from it; what has been read is gone.
Unread(c, reader) ==
    [conn[c] EXCEPT !.reader = reader, !.taken = 0, !.buffer = <<>>, !.delivered = <<>>]

DoRead(c) == IF Usable(c) THEN [conn[c] EXCEPT !.reader = "armed"] ELSE Unread(c, "ended")

\* Faulty variant: the entry of the remote goes, whoever's it is.
UnregisteredByKey(c) == [table EXCEPT ![conn[c].remote] = None]

\* The table after unregisterConnection.
Unregistered(c) ==
    IF table[conn[c].remote] = c THEN [table EXCEPT ![conn[c].remote] = None] ELSE table

Incoming(c) == IF conn[c].accepted THEN Stream ELSE <<>>

\* The handler of async_read_some appends what has come.
Reads(c) ==
    /\ conn[c].reader = "armed" /\ conn[c].socket
    /\ \E n \in conn[c].taken + 1 .. Len(Incoming(c)) :
          conn' = [conn EXCEPT ![c] =
              [conn[c] EXCEPT !.reader = "framing", !.taken = n,
                              !.buffer = @ \o SubSeq(Stream, conn[c].taken + 1, n)]]
    /\ UNCHANGED <<table, connecting, sender, acceptor, stopped, stopper, sends>>

\* The empty line that ends the header.
HeaderEnds(buffer, i) == buffer[i].kind = "blank" /\ \A j \in 1 .. i - 1 : buffer[j].kind # "blank"

\* The first n units are a header and its body.
IsMessage(buffer, n) == \E i \in 1 .. n : HeaderEnds(buffer, i) /\ n = i + buffer[i].length

Extractable(buffer) == \E n \in 1 .. Len(buffer) : IsMessage(buffer, n)

\* tryExtractSipMessage and handleIncomingMessage.
Extracted(c) ==
    LET buffer == conn[c].buffer
        n == CHOOSE n \in 1 .. Len(buffer) : IsMessage(buffer, n) IN
    [conn[c] EXCEPT !.buffer = SubSeq(buffer, n + 1, Len(buffer)),
                    !.delivered = Append(@, SubSeq(buffer, 1, n))]

\* Faulty variant: one message for each read.
FramesOne(c) ==
    /\ conn[c].reader = "framing"
    /\ conn' = [conn EXCEPT ![c] = IF Extractable(conn[c].buffer) /\ Usable(c)
                                   THEN [Extracted(c) EXCEPT !.reader = "armed"] ELSE DoRead(c)]
    /\ UNCHANGED <<table, connecting, sender, acceptor, stopped, stopper, sends>>

\* One message after the other, and the next read when there is none any more.
Frames(c) ==
    /\ conn[c].reader = "framing"
    /\ conn' = [conn EXCEPT ![c] = IF Extractable(conn[c].buffer) THEN Extracted(c) ELSE DoRead(c)]
    /\ UNCHANGED <<table, connecting, sender, acceptor, stopped, stopper, sends>>

\* Faulty variant: the entry stays.
ReadFailsStaying(c) ==
    /\ conn[c].reader = "armed" /\ ~(conn[c].up /\ conn[c].socket)
    /\ conn' = [conn EXCEPT ![c] = Unread(c, "closing")]
    /\ UNCHANGED <<table, connecting, sender, acceptor, stopped, stopper, sends>>

\* The peer has gone, or the socket has been closed.
ReadFails(c) ==
    /\ conn[c].reader = "armed" /\ ~(conn[c].up /\ conn[c].socket)
    /\ table' = Unregistered(c)
    /\ conn' = [conn EXCEPT ![c] = Unread(c, "closing")]
    /\ UNCHANGED <<connecting, sender, acceptor, stopped, stopper, sends>>

\* close: whoever clears open first shuts the socket.
Closes(c) ==
    /\ conn[c].reader = "closing"
    /\ conn' = [conn EXCEPT ![c] =
          [conn[c] EXCEPT !.reader = IF conn[c].open THEN "shutting" ELSE "ended", !.open = FALSE]]
    /\ UNCHANGED <<table, connecting, sender, acceptor, stopped, stopper, sends>>

Shuts(c) ==
    /\ conn[c].reader = "shutting" /\ Unlocked(c)
    /\ conn' = [conn EXCEPT ![c] = [conn[c] EXCEPT !.reader = "ended", !.socket = FALSE]]
    /\ UNCHANGED <<table, connecting, sender, acceptor, stopped, stopper, sends>>

ReaderStep(c) == Reads(c) \/ Frames(c) \/ ReadFails(c) \/ Closes(c) \/ Shuts(c)

PeerGoes(c) ==
    /\ conn[c].up /\ Cardinality({d \in DOMAIN conn : ~conn[d].up}) < MaxBreaks
    /\ conn' = [conn EXCEPT ![c].up = FALSE]
    /\ UNCHANGED <<table, connecting, sender, acceptor, stopped, stopper, sends>>

-----------------------------------------------------------------------------
(* send. *)

Goes(w, k, at) ==
    sender' = [sender EXCEPT ![w] = [at |-> at, dest |-> k, conn |-> None, then |-> "idle"]]

Has(w, k, c) == [at |-> "have", dest |-> k, conn |-> c, then |-> "idle"]

\* Faulty variant: nobody waits for a connect of somebody else.
LooksUpRegardless(w, k) ==
    \/ stopped /\ sender' = [sender EXCEPT ![w] = Idle] /\ UNCHANGED connecting
    \/ /\ ~stopped /\ table[k] # None
       /\ sender' = [sender EXCEPT ![w] = Has(w, k, table[k])] /\ UNCHANGED connecting
    \/ /\ ~stopped /\ table[k] = None
       /\ Goes(w, k, "connect") /\ connecting' = connecting \cup {k}

\* The first section of getOrCreateConnection.
LooksUp(w, k) ==
    \/ stopped /\ sender' = [sender EXCEPT ![w] = Idle] /\ UNCHANGED connecting
    \/ ~stopped /\ k \in connecting /\ Goes(w, k, "asleep") /\ UNCHANGED connecting
    \/ /\ ~stopped /\ k \notin connecting /\ table[k] # None
       /\ sender' = [sender EXCEPT ![w] = Has(w, k, table[k])] /\ UNCHANGED connecting
    \/ /\ ~stopped /\ k \notin connecting /\ table[k] = None
       /\ Goes(w, k, "connect") /\ connecting' = connecting \cup {k}

Send(w, k) ==
    /\ sender[w].at = "idle" /\ sends < MaxSends
    /\ sends' = sends + 1
    /\ LooksUp(w, k)
    /\ UNCHANGED <<table, conn, acceptor, stopped, stopper>>

LooksAgain(w) ==
    /\ sender[w].at = "awake"
    /\ LooksUp(w, sender[w].dest)
    /\ UNCHANGED <<table, conn, acceptor, stopped, stopper, sends>>

\* What is left to do once the key has been erased: notify_all, then go on with c.
\* Two branches of the code notify before they unlock: here the others may come in
\* between in all of them.
Notifying(w, c, then) ==
    sender' = [sender EXCEPT ![w] = [at |-> "notify", dest |-> sender[w].dest, conn |-> c,
                                     then |-> then]]

\* Faulty variant: the failure is nobody else's business.
ConnectFailsQuietly(w) ==
    /\ sender[w].at = "connect"
    /\ connecting' = connecting \ {sender[w].dest}
    /\ sender' = [sender EXCEPT ![w] = Idle]
    /\ UNCHANGED <<table, conn, acceptor, stopped, stopper, sends>>

ConnectFails(w) ==
    /\ sender[w].at = "connect"
    /\ connecting' = connecting \ {sender[w].dest}
    /\ Notifying(w, None, "idle")
    /\ UNCHANGED <<table, conn, acceptor, stopped, stopper, sends>>

\* Faulty variant: the transport may have been stopped meanwhile.
ConnectedUnaware(w) ==
    LET k == sender[w].dest IN
    /\ sender[w].at = "connect"
    /\ connecting' = connecting \ {k}
    /\ \/ /\ table[k] # None
          /\ Notifying(w, table[k], "have") /\ UNCHANGED <<table, conn>>
       \/ /\ table[k] = None /\ Len(conn) < MaxConns
          /\ conn' = Append(conn, New(k, FALSE))
          /\ table' = [table EXCEPT ![k] = Len(conn')]
          /\ Notifying(w, Len(conn'), "start")
    /\ UNCHANGED <<acceptor, stopped, stopper, sends>>

\* The last section of getOrCreateConnection: the new connection is closed again if
\* the transport was stopped, or the peer has connected meanwhile.
Connected(w) ==
    LET k == sender[w].dest IN
    /\ sender[w].at = "connect"
    /\ connecting' = connecting \ {k}
    /\ \/ stopped /\ Notifying(w, None, "idle") /\ UNCHANGED <<table, conn>>
       \/ /\ ~stopped /\ table[k] # None
          /\ Notifying(w, table[k], "have") /\ UNCHANGED <<table, conn>>
       \/ /\ ~stopped /\ table[k] = None /\ Len(conn) < MaxConns
          /\ conn' = Append(conn, New(k, FALSE))
          /\ table' = [table EXCEPT ![k] = Len(conn')]
          /\ Notifying(w, Len(conn'), "start")
    /\ UNCHANGED <<acceptor, stopped, stopper, sends>>

\* notify_all: all that sleep look again.
Woken ==
    [v \in Worker |->
        IF sender[v].at = "asleep" THEN [sender[v] EXCEPT !.at = "awake"] ELSE sender[v]]

Notifies(w) ==
    /\ sender[w].at = "notify"
    /\ sender' = [Woken EXCEPT ![w] = IF sender[w].then = "idle" THEN Idle
                                      ELSE [sender[w] EXCEPT !.at = sender[w].then, !.then = "idle"]]
    /\ UNCHANGED <<table, connecting, conn, acceptor, stopped, stopper, sends>>

Starts(w) ==
    /\ sender[w].at = "start"
    /\ conn' = [conn EXCEPT ![sender[w].conn] = DoRead(sender[w].conn)]
    /\ sender' = [sender EXCEPT ![w].at = "have"]
    /\ UNCHANGED <<table, connecting, acceptor, stopped, stopper, sends>>

\* Connection::send.
BeginsWrite(w) ==
    /\ sender[w].at = "have" /\ Unlocked(sender[w].conn)
    /\ sender' = [sender EXCEPT ![w].at = IF Usable(sender[w].conn) THEN "writing" ELSE "unregister"]
    /\ UNCHANGED <<table, connecting, conn, acceptor, stopped, stopper, sends>>

EndsWrite(w) ==
    /\ sender[w].at = "writing"
    /\ \/ sender' = [sender EXCEPT ![w] = Idle]
       \/ ~conn[sender[w].conn].up /\ sender' = [sender EXCEPT ![w].at = "unregister"]
    /\ UNCHANGED <<table, connecting, conn, acceptor, stopped, stopper, sends>>

\* The connection that failed is left to its reader.
Unregisters(w) ==
    /\ sender[w].at = "unregister"
    /\ table' = Unregistered(sender[w].conn)
    /\ sender' = [sender EXCEPT ![w] = Idle]
    /\ UNCHANGED <<connecting, conn, acceptor, stopped, stopper, sends>>

SenderStep(w) ==
    \/ LooksAgain(w) \/ ConnectFails(w) \/ Connected(w) \/ Notifies(w)
    \/ Starts(w) \/ BeginsWrite(w) \/ EndsWrite(w) \/ Unregisters(w)

-----------------------------------------------------------------------------
(* doAccept. *)

\* A peer that has a connection from this endpoint cannot make another one.
PeerConnects(k) ==
    /\ acceptor.at = "armed" /\ Len(conn) < MaxConns
    /\ \A c \in DOMAIN conn : ~(conn[c].remote = k /\ conn[c].accepted /\ conn[c].up)
    /\ conn' = Append(conn, New(k, TRUE))
    /\ acceptor' = [at |-> "accepted", conn |-> Len(conn')]
    /\ UNCHANGED <<table, connecting, sender, stopped, stopper, sends>>

\* The handler takes the place of whatever was there.
Registers ==
    /\ acceptor.at = "accepted"
    /\ table' = [table EXCEPT ![conn[acceptor.conn].remote] = acceptor.conn]
    /\ acceptor' = [acceptor EXCEPT !.at = "starting"]
    /\ UNCHANGED <<connecting, conn, sender, stopped, stopper, sends>>

AcceptsNext ==
    /\ acceptor.at = "starting"
    /\ conn' = [conn EXCEPT ![acceptor.conn] = DoRead(acceptor.conn)]
    /\ acceptor' = [at |-> IF stopped THEN "ended" ELSE "armed", conn |-> None]
    /\ UNCHANGED <<table, connecting, sender, stopped, stopper, sends>>

AcceptorStep == Registers \/ AcceptsNext

-----------------------------------------------------------------------------
(* stop. *)

Stop ==
    /\ ~stopped
    /\ stopped' = TRUE
    /\ stopper' = [stopper EXCEPT !.at = "acceptor"]
    /\ UNCHANGED <<table, connecting, conn, sender, acceptor, sends>>

StopsAccepting ==
    /\ stopper.at = "acceptor"
    /\ stopper' = [stopper EXCEPT !.at = "table"]
    /\ acceptor' = IF acceptor.at = "armed" THEN [acceptor EXCEPT !.at = "ended"] ELSE acceptor
    /\ UNCHANGED <<table, connecting, conn, sender, stopped, sends>>

\* Faulty variant: the table is looked at as it is.
EmptiesBlindly ==
    /\ stopper.at = "table"
    /\ connecting' = {}
    /\ stopper' = [stopper EXCEPT !.at = "notify", !.active = {table[k] : k \in Remote}]
    /\ table' = [k \in Remote |-> None]
    /\ UNCHANGED <<conn, sender, acceptor, stopped, sends>>

Empties ==
    /\ stopper.at = "table"
    /\ connecting' = {}
    /\ stopper' = [stopper EXCEPT !.at = "notify", !.active = {table[k] : k \in Remote} \ {None}]
    /\ table' = [k \in Remote |-> None]
    /\ UNCHANGED <<conn, sender, acceptor, stopped, sends>>

StopNotifies ==
    /\ stopper.at = "notify"
    /\ stopper' = [stopper EXCEPT !.at = "close"]
    /\ sender' = Woken
    /\ UNCHANGED <<table, connecting, conn, acceptor, stopped, sends>>

StopCloses ==
    /\ stopper.at = "close"
    /\ \/ /\ stopper.active = {}
          /\ stopper' = [stopper EXCEPT !.at = "done"] /\ UNCHANGED conn
       \/ \E c \in stopper.active :
             /\ conn' = [conn EXCEPT ![c].open = FALSE]
             /\ stopper' = IF conn[c].open THEN [stopper EXCEPT !.at = "shut", !.conn = c]
                           ELSE [stopper EXCEPT !.active = @ \ {c}]
    /\ UNCHANGED <<table, connecting, sender, acceptor, stopped, sends>>

StopShuts ==
    /\ stopper.at = "shut" /\ Unlocked(stopper.conn)
    /\ conn' = [conn EXCEPT ![stopper.conn].socket = FALSE]
    /\ stopper' = [at |-> "close", active |-> stopper.active \ {stopper.conn}, conn |-> None]
    /\ UNCHANGED <<table, connecting, sender, acceptor, stopped, sends>>

StopperStep == StopsAccepting \/ Empties \/ StopNotifies \/ StopCloses \/ StopShuts

-----------------------------------------------------------------------------
Next ==
    \/ \E w \in Worker, k \in Remote : Send(w, k)
    \/ \E w \in Worker : SenderStep(w)
    \/ \E c \in DOMAIN conn : ReaderStep(c) \/ PeerGoes(c)
    \/ \E k \in Remote : PeerConnects(k)
    \/ AcceptorStep
    \/ Stop
    \/ StopperStep

Spec == Init /\ [][Next]_vars

\* Threads go on, the driver calls its handlers, connects and writes return.
FairSpec ==
    /\ Spec
    /\ \A w \in Worker : WF_vars(SenderStep(w))
    /\ \A c \in Id : WF_vars(c \in DOMAIN conn /\ ReaderStep(c))
    /\ WF_vars(AcceptorStep) /\ WF_vars(StopperStep)

-----------------------------------------------------------------------------
\* Never two connects for one remote at a time.
OneConnectPerRemote ==
    \A v, w \in Worker :
        v # w /\ sender[v].at = "connect" /\ sender[w].at = "connect" => sender[v].dest # sender[w].dest

\* Whoever sleeps waits for somebody who connects to the same remote, or is about to
\* be woken.
SleepersWillWake ==
    \A w \in Worker : sender[w].at = "asleep" =>
        \/ \E v \in Worker : sender[v].at = "connect" /\ sender[v].dest = sender[w].dest
        \/ \E v \in Worker : sender[v].at = "notify"
        \/ stopper.at \in {"acceptor", "table", "notify"}

\* A connection in the table has a reader that will notice its end, or somebody who
\* is about to start it.
EntriesWatched ==
    \A k \in Remote : table[k] # None /\ ~stopped =>
        /\ conn[table[k]].reader \in {"new", "armed", "framing"}
        /\ conn[table[k]].reader = "new" =>
              \/ acceptor.conn = table[k]
              \/ \E w \in Worker : sender[w].conn = table[k] /\ sender[w].at \in {"notify", "start"}

\* The variables have their types, and the table, who connects, who sleeps and who
\* reads fit together.
ConnectionsConsistent == TypeOK /\ OneConnectPerRemote /\ SleepersWillWake /\ EntriesWatched

\* Only a broken connection leaves the table: neither a send that failed nor a
\* reader that ends takes the fresh one of the same remote with it.
HealthyStays ==
    [][\A k \in Remote :
          table[k] # None /\ table'[k] = None /\ ~stopped => ~conn[table[k]].up]_vars

\* The table and the connections in it keep each other alive.  Once stop has emptied
\* it, no connect that was under way puts one there; only the acceptor may.
NoneOfOursStays ==
    stopper.at \in {"notify", "close", "shut", "done"} =>
        \A k \in Remote : table[k] # None => conn[table[k]].accepted

MessageNumber(i) == SelectSeq(Stream, LAMBDA unit : unit.message = i)

\* cut[i] is where message i ends.
Cuts(cut) ==
    /\ cut[0] = 0
    /\ \A i \in 1 .. Len(Stream) + 1 :
          LET message == MessageNumber(i) IN
          /\ cut[i - 1] <= cut[i] /\ message = SubSeq(Stream, cut[i - 1] + 1, cut[i])
          /\ IF message = <<>> THEN cut[i] = Len(Stream) ELSE IsMessage(message, Len(message))

\* The peer sends one message after the other, each a header and the body it announces.
StreamOfMessages == \E cut \in [0 .. Len(Stream) + 1 -> 0 .. Len(Stream)] : Cuts(cut)

\* However the stream is cut, its messages are delivered whole and in order, and
\* none is kept back while the next read waits.
WholeInOrder ==
    \A c \in DOMAIN conn :
        LET n == Len(conn[c].delivered) IN
        /\ \A i \in 1 .. n : conn[c].delivered[i] = MessageNumber(i)
        /\ conn[c].reader = "armed" =>
              MessageNumber(n + 1) = <<>> \/ Len(conn[c].buffer) < Len(MessageNumber(n + 1))

\* Every send returns and stop returns: there are finitely many of them, so there is
\* a time without any.
CallsReturn ==
    LET underWay == (\E w \in Worker : sender[w].at # "idle") \/ stopper.at \notin {"none", "done"}
    IN  underWay ~> ~underWay
=============================================================================
