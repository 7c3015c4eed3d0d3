--------------------------- MODULE TcpTransportProofs ---------------------------
(***************************************************************************)
(* Theorems about TcpTransport: the table, who connects, who sleeps and     *)
(* who reads fit together; only a broken connection leaves the table; stop  *)
(* leaves none of ours behind; messages come whole and in order.            *)
(*                                                                          *)
(* The argument is about who is responsible.  A remote is in connecting     *)
(* just as long as one worker connects to it, so whoever sleeps has someone *)
(* to wake him.  A new connection has one starter, the worker or the        *)
(* acceptor that made it, until its reader runs.  As long as the transport  *)
(* is not stopped, a reader gives up only a connection whose peer is gone,  *)
(* and one that is not given up can be written to.                          *)
(*                                                                          *)
(* The messages are a second argument on top of this one.  The ends of the  *)
(* messages cut the stream; a connection has delivered those before one of  *)
(* the cuts, and its buffer holds what has been read since.  A header ends  *)
(* at its first empty line, so only one prefix of the buffer can be a       *)
(* message: the next one.                                                   *)
(***************************************************************************)
EXTENDS TcpTransport, SequenceTheorems, TLAPS

\* Every connection that a place refers to is there, and the table knows each by
\* its remote.
PlacesFit ==
    /\ \A w \in Worker :
          /\ sender[w].at \in {"asleep", "awake", "connect"} => sender[w].dest \in Remote
          /\ sender[w].at \in {"start", "have", "writing", "unregister"} =>
                sender[w].conn \in DOMAIN conn
          /\ sender[w].at = "notify" /\ sender[w].then # "idle" => sender[w].conn \in DOMAIN conn
    /\ acceptor.at \in {"accepted", "starting"} => acceptor.conn \in DOMAIN conn
    /\ acceptor.at \in {"armed", "ended"} => acceptor.conn = None
    /\ stopper.active \subseteq DOMAIN conn
    /\ stopper.at = "shut" => stopper.conn \in DOMAIN conn
    /\ stopped <=> stopper.at # "none"
    /\ \A k \in Remote : table[k] # None =>
          table[k] \in DOMAIN conn /\ conn[table[k]].remote = k

\* A remote is marked just as long as somebody connects to it.
ConnectingTrue ==
    stopper.at \in {"none", "acceptor", "table"} =>
        \A k \in Remote :
            k \in connecting <=> \E w \in Worker : sender[w].at = "connect" /\ sender[w].dest = k

\* The connection a worker has made and will start.
Starting ==
    [w \in Worker |->
        IF sender[w].at = "start" \/ (sender[w].at = "notify" /\ sender[w].then = "start")
        THEN sender[w].conn ELSE None]

\* A new connection has one starter, and is started once.
StartedOnce ==
    /\ \A w \in Worker : Starting[w] # None =>
          conn[Starting[w]].reader = "new" /\ Starting[w] # acceptor.conn
    /\ \A v, w \in Worker : Starting[v] # None /\ v # w => Starting[v] # Starting[w]
    /\ acceptor.conn # None => conn[acceptor.conn].reader = "new" /\ conn[acceptor.conn].accepted

Watched ==
    ~stopped => \A k \in Remote : table[k] # None =>
        /\ conn[table[k]].reader \in {"new", "armed", "framing"}
        /\ conn[table[k]].reader = "new" =>
              acceptor.conn = table[k] \/ \E w \in Worker : Starting[w] = table[k]

\* Until stop, only connections whose peer is gone are given up.
GivenUpWhenBroken ==
    ~stopped =>
        /\ \A c \in DOMAIN conn :
              IF conn[c].reader \in {"new", "armed", "framing"}
              THEN conn[c].open /\ conn[c].socket
              ELSE ~conn[c].up
        /\ \A w \in Worker : sender[w].at = "unregister" => ~conn[sender[w].conn].up

\* A reader goes on with connection c, which becomes r: it neither starts it nor gives
\* it up before its time, and the table loses at most what is given up.
GoesOn(c, r) ==
    /\ r.remote = conn[c].remote /\ r.accepted = conn[c].accepted /\ (r.up => conn[c].up)
    /\ r.reader = "new" <=> conn[c].reader = "new"
    /\ ~stopped => IF r.reader \in {"new", "armed", "framing"} THEN r.open /\ r.socket ELSE ~r.up
    /\ table' \in [Remote -> Id \cup {None}]
    /\ \A k \in Remote : /\ table'[k] \in {table[k], None}
                         /\ ~stopped /\ table'[k] = c => r.reader \in {"new", "armed", "framing"}

IInv ==
    /\ TypeOK
    /\ PlacesFit
    /\ ConnectingTrue
    /\ OneConnectPerRemote
    /\ SleepersWillWake
    /\ StartedOnce
    /\ Watched
    /\ GivenUpWhenBroken
    /\ NoneOfOursStays
-----------------------------------------------------------------------------
(* The operators on connections. *)

\* One connection changes, and keeps its place.
LEMMA Updated ==
    ASSUME NEW s \in Seq(Connection), NEW c \in DOMAIN s, NEW r \in Connection
    PROVE  LET u == [s EXCEPT ![c] = r] IN
           /\ u \in Seq(Connection) /\ Len(u) = Len(s) /\ DOMAIN u = DOMAIN s
           /\ \A d \in DOMAIN s : u[d] = IF d = c THEN r ELSE s[d]
BY ExceptSeq, LenProperties

\* A connection that is made gets the next number.
LEMMA Appended ==
    ASSUME NEW s \in Seq(Connection), NEW r \in Connection
    PROVE  LET u == Append(s, r) IN
           /\ u \in Seq(Connection) /\ Len(u) = Len(s) + 1 /\ DOMAIN u = DOMAIN s \cup {Len(u)}
           /\ Len(u) \notin DOMAIN s
           /\ u[Len(u)] = r /\ \A d \in DOMAIN s : u[d] = s[d]
BY AppendProperties, LenProperties

LEMMA NewTyped ==
    ASSUME NEW k \in Remote, NEW accepted \in BOOLEAN
    PROVE  /\ New(k, accepted) \in Connection
           /\ New(k, accepted).remote = k /\ New(k, accepted).accepted = accepted
           /\ New(k, accepted).reader = "new" /\ New(k, accepted).up
           /\ New(k, accepted).open /\ New(k, accepted).socket
<1>1. <<>> \in Seq(Unit) /\ <<>> \in Seq(Seq(Unit)) /\ 0 \in 0 .. Len(Stream)
  BY TransportAssumption, LenProperties, EmptySeq
<1> QED
  BY <1>1 DEF New, Connection

\* Units that were read, a message that was extracted and what is left of the buffer.
LEMMA ReadTyped ==
    ASSUME NEW s \in Connection, NEW n \in s.taken + 1 .. Len(Stream)
    PROVE  /\ n \in 0 .. Len(Stream)
           /\ s.buffer \o SubSeq(Stream, s.taken + 1, n) \in Seq(Unit)
<1>1. s.taken \in Nat /\ s.buffer \in Seq(Unit) /\ Len(Stream) \in Nat
  BY TransportAssumption, LenProperties DEF Connection
<1>2. SubSeq(Stream, s.taken + 1, n) \in Seq(Unit)
  <2>1. \A i \in s.taken + 1 .. n : Stream[i] \in Unit
    BY <1>1, TransportAssumption, ElementOfSeq
  <2> QED
    BY <1>1, <2>1, SubSeqProperties
<1> QED
  BY <1>1, <1>2, ConcatProperties

LEMMA ExtractTyped ==
    ASSUME NEW buffer \in Seq(Unit), NEW n \in 1 .. Len(buffer)
    PROVE  SubSeq(buffer, 1, n) \in Seq(Unit) /\ SubSeq(buffer, n + 1, Len(buffer)) \in Seq(Unit)
<1>1. Len(buffer) \in Nat /\ \A i \in 1 .. Len(buffer) : buffer[i] \in Unit
  BY LenProperties, ElementOfSeq
<1> QED
  BY <1>1, SubSeqProperties

LEMMA ExtractedTyped ==
    ASSUME NEW c \in DOMAIN conn, conn[c] \in Connection, Extractable(conn[c].buffer)
    PROVE  /\ Extracted(c) \in Connection
           /\ Extracted(c).remote = conn[c].remote /\ Extracted(c).accepted = conn[c].accepted
           /\ Extracted(c).up = conn[c].up /\ Extracted(c).open = conn[c].open
           /\ Extracted(c).socket = conn[c].socket /\ Extracted(c).reader = conn[c].reader
<1> DEFINE buffer == conn[c].buffer
           n == CHOOSE n \in 1 .. Len(buffer) : IsMessage(buffer, n)
           rest == SubSeq(buffer, n + 1, Len(buffer))
           all == Append(conn[c].delivered, SubSeq(buffer, 1, n))
<1>1. buffer \in Seq(Unit) /\ conn[c].delivered \in Seq(Seq(Unit))
  BY DEF Connection
<1>2. n \in 1 .. Len(buffer)
  BY DEF Extractable
<1>3. rest \in Seq(Unit) /\ all \in Seq(Seq(Unit))
  BY <1>1, <1>2, ExtractTyped, AppendProperties
<1>4. Extracted(c) = [conn[c] EXCEPT !.buffer = rest, !.delivered = all]
  BY DEF Extracted
<1> HIDE DEF rest, all
<1> QED
  BY <1>3, <1>4 DEF Connection

LEMMA UnreadTyped ==
    ASSUME NEW c \in DOMAIN conn, conn[c] \in Connection, NEW reader \in {"closing", "ended"}
    PROVE  /\ Unread(c, reader) \in Connection
           /\ Unread(c, reader).remote = conn[c].remote
           /\ Unread(c, reader).accepted = conn[c].accepted
           /\ Unread(c, reader).up = conn[c].up /\ Unread(c, reader).reader = reader
<1>1. <<>> \in Seq(Unit) /\ <<>> \in Seq(Seq(Unit)) /\ 0 \in 0 .. Len(Stream)
  BY TransportAssumption, LenProperties, EmptySeq
<1> QED
  BY <1>1 DEF Unread, Connection

\* A reader that goes on reads, or gives a connection up that cannot be used.
LEMMA DoReadTyped ==
    ASSUME NEW c \in DOMAIN conn, conn[c] \in Connection
    PROVE  /\ DoRead(c) \in Connection
           /\ DoRead(c).remote = conn[c].remote /\ DoRead(c).accepted = conn[c].accepted
           /\ DoRead(c).up = conn[c].up
           /\ Usable(c) => /\ DoRead(c).reader = "armed"
                           /\ DoRead(c).open = conn[c].open /\ DoRead(c).socket = conn[c].socket
           /\ ~Usable(c) => DoRead(c).reader = "ended"
<1>1. CASE Usable(c)
  BY <1>1 DEF DoRead, Connection
<1>2. CASE ~Usable(c)
  BY <1>2, UnreadTyped DEF DoRead
<1> QED
  BY <1>1, <1>2

\* Before start there is no connection and nobody waits.
LEMMA InitInvariant == Init => IInv
<1> SUFFICES ASSUME Init PROVE IInv
  OBVIOUS
<1>1. conn \in Seq(Connection) /\ Len(conn) = 0 /\ DOMAIN conn = {}
  BY EmptySeq, LenProperties DEF Init
<1>2. Idle \in Sender
  BY DEF Idle, Sender
<1>3. TypeOK
  <2>1. conn \in Seq(Connection) /\ Len(conn) <= MaxConns /\ sender \in [Worker -> Sender]
    BY <1>1, <1>2, TransportAssumption DEF Init
  <2>2. sends \in 0 .. MaxSends
    BY TransportAssumption DEF Init
  <2> QED
    BY <2>1, <2>2 DEF Init, TypeOK
<1> QED
  BY <1>1, <1>3, TransportAssumption DEF Init, IInv, PlacesFit, ConnectingTrue, OneConnectPerRemote,
     SleepersWillWake, Starting, StartedOnce, Watched, GivenUpWhenBroken, NoneOfOursStays, Idle

\* Every step keeps the invariant: one step of the proof for each kind of section.
LEMMA StepInvariant == IInv /\ [Next]_vars => IInv'
<1> SUFFICES ASSUME IInv, [Next]_vars PROVE IInv'
  OBVIOUS
<1>a. None \notin Id /\ None \notin Nat /\ MaxConns \in Nat
  BY TransportAssumption DEF Id
<1>t. /\ table \in [Remote -> Id \cup {None}] /\ connecting \subseteq Remote
      /\ conn \in Seq(Connection) /\ Len(conn) \in Nat /\ DOMAIN conn = 1 .. Len(conn)
      /\ DOMAIN conn \subseteq Id /\ Len(conn) <= MaxConns
      /\ sender \in [Worker -> Sender] /\ stopped \in BOOLEAN
      /\ acceptor \in [at: {"armed", "accepted", "starting", "ended"}, conn: Id \cup {None}]
      /\ stopper \in [at: {"none", "acceptor", "table", "notify", "close", "shut", "done"},
                      active: SUBSET Id, conn: Id \cup {None}]
  <2>1. conn \in Seq(Connection) /\ Len(conn) <= MaxConns
    BY DEF IInv, TypeOK
  <2>2. Len(conn) \in Nat /\ DOMAIN conn = 1 .. Len(conn)
    BY <2>1, LenProperties
  <2> QED
    BY <1>a, <2>1, <2>2 DEF IInv, TypeOK, Id
<1>s. /\ \A w \in Worker : Starting[w] # None => Starting[w] \in DOMAIN conn
      /\ acceptor.conn # None => acceptor.conn \in DOMAIN conn
      /\ \A k \in Remote : table[k] # None => table[k] \in DOMAIN conn
  <2>1. \A w \in Worker : Starting[w] # None => Starting[w] \in DOMAIN conn
    BY DEF IInv, PlacesFit, Starting
  <2> QED
    BY <2>1, <1>t DEF IInv, PlacesFit
<1>w. \A w \in Worker : sender[w] \in Sender
  BY <1>t
<1>c. \A c \in DOMAIN conn : conn[c] \in Connection
  BY <1>t, ElementOfSeq
<1>1. CASE UNCHANGED vars
  BY <1>1 DEF IInv, vars, TypeOK, PlacesFit, ConnectingTrue, OneConnectPerRemote, SleepersWillWake,
     Starting, StartedOnce, Watched, GivenUpWhenBroken, NoneOfOursStays
\* The first section of getOrCreateConnection.
<1>2. ASSUME NEW w \in Worker, NEW k \in Remote, sender[w].at \in {"idle", "awake"}, LooksUp(w, k),
             sends' \in 0 .. MaxSends, UNCHANGED <<table, conn, acceptor, stopped, stopper>>
      PROVE  IInv'
  <2>1. /\ UNCHANGED <<table, conn, acceptor, stopped, stopper>> /\ sends' \in 0 .. MaxSends
        /\ sender[w].at \in {"idle", "awake"}
    BY <1>2
  <2>2. /\ sender' \in [Worker -> Sender]
        /\ \A v \in Worker \ {w} : sender'[v] = sender[v]
        /\ \/ sender'[w].at = "idle" /\ UNCHANGED connecting
           \/ /\ ~stopped /\ sender'[w].at = "asleep" /\ sender'[w].dest = k
              /\ k \in connecting /\ UNCHANGED connecting
           \/ /\ sender'[w].at = "have" /\ sender'[w].conn = table[k] /\ table[k] # None
              /\ UNCHANGED connecting
           \/ /\ ~stopped /\ sender'[w].at = "connect" /\ sender'[w].dest = k
              /\ k \notin connecting /\ connecting' = connecting \cup {k}
    <3> DEFINE P(at, d, c) == [at |-> at, dest |-> d, conn |-> c, then |-> "idle"]
    <3>1. Idle \in Sender /\ Idle.at = "idle"
      BY DEF Idle, Sender
    <3>2. \A at \in {"asleep", "connect"} : P(at, k, None) \in Sender
      BY DEF Sender
    <3>3. table[k] # None => Has(w, k, table[k]) \in Sender
      BY <1>t DEF Has, Sender
    <3>4. \E s \in Sender : sender' = [sender EXCEPT ![w] = s]
      BY <1>2, <3>1, <3>2, <3>3 DEF LooksUp, Goes
    <3>5. sender' \in [Worker -> Sender] /\ \A v \in Worker \ {w} : sender'[v] = sender[v]
      BY <3>4, <1>t
    <3> QED
      BY <1>2, <3>1, <3>5, <1>t DEF LooksUp, Goes, Has, Idle
  <2>3. Starting' = Starting
    BY <1>t, <2>1, <2>2 DEF Starting
  <2>4. TypeOK'
    BY <2>1, <2>2, <2>3 DEF IInv, TypeOK
  <2>5. PlacesFit'
    BY <1>a, <1>t, <1>s, <2>1, <2>2, <2>3 DEF IInv, PlacesFit
  <2>6. ConnectingTrue'
    BY <1>t, <2>1, <2>2 DEF IInv, ConnectingTrue
  <2>7. OneConnectPerRemote'
    BY <1>t, <2>1, <2>2 DEF IInv, OneConnectPerRemote, ConnectingTrue, PlacesFit
  <2>8. SleepersWillWake'
    <3> SUFFICES ASSUME NEW v \in Worker, sender'[v].at = "asleep",
                        stopper'.at \notin {"acceptor", "table", "notify"},
                        \A u \in Worker : sender'[u].at # "notify"
                 PROVE  \E u \in Worker : sender'[u].at = "connect" /\ sender'[u].dest = sender'[v].dest
      BY DEF SleepersWillWake
    <3>1. CASE v = w
      BY <3>1, <2>1, <2>2 DEF IInv, ConnectingTrue, PlacesFit
    <3>2. CASE v # w
      BY <3>2, <2>1, <2>2 DEF IInv, SleepersWillWake
    <3> QED
      BY <3>1, <3>2
  <2>9. StartedOnce'
    BY <1>a, <1>t, <1>s, <2>1, <2>2, <2>3 DEF IInv, StartedOnce
  <2>10. Watched'
    BY <1>a, <1>t, <1>s, <2>1, <2>2, <2>3 DEF IInv, Watched
  <2>11. GivenUpWhenBroken'
    BY <1>a, <1>t, <1>s, <2>1, <2>2, <2>3 DEF IInv, GivenUpWhenBroken
  <2>12. NoneOfOursStays'
    BY <1>a, <1>t, <1>s, <2>1, <2>2, <2>3 DEF IInv, NoneOfOursStays
  <2> QED
    BY <2>4, <2>5, <2>6, <2>7, <2>8, <2>9, <2>10, <2>11, <2>12 DEF IInv
\* A connect that ended without a connection of its own.
<1>3. ASSUME NEW w \in Worker, NEW c \in DOMAIN conn \cup {None}, NEW then \in {"idle", "have"},
             sender[w].at = "connect", then = "have" => c # None, Notifying(w, c, then),
             connecting' = connecting \ {sender[w].dest}, UNCHANGED <<table, conn, acceptor, stopped, stopper, sends>>
      PROVE  IInv'
  <2>1. /\ UNCHANGED <<table, conn, acceptor, stopped, stopper, sends>>
        /\ sender[w].at = "connect"
        /\ connecting' = connecting \ {sender[w].dest}
    BY <1>3
  <2>2. /\ sender' \in [Worker -> Sender]
        /\ \A v \in Worker \ {w} : sender'[v] = sender[v]
        /\ sender'[w].at = "notify" /\ sender'[w].conn = c /\ sender'[w].then = then
    <3> DEFINE s == [at |-> "notify", dest |-> sender[w].dest, conn |-> c, then |-> then]
    <3>1. s \in Sender
      BY <1>3, <1>t, <1>w DEF Sender
    <3>2. sender' = [sender EXCEPT ![w] = s]
      BY <1>3 DEF Notifying
    <3> QED
      BY <3>1, <3>2, <1>t
  <2>3. Starting' = Starting
    BY <1>t, <2>1, <2>2 DEF Starting
  <2>4. TypeOK'
    BY <2>1, <2>2, <2>3 DEF IInv, TypeOK
  <2>5. PlacesFit'
    BY <1>a, <1>t, <1>s, <2>1, <2>2, <2>3, <1>3 DEF IInv, PlacesFit
  <2>6. ConnectingTrue'
    BY <2>1, <2>2 DEF IInv, ConnectingTrue, OneConnectPerRemote, PlacesFit
  <2>7. OneConnectPerRemote'
    BY <1>a, <1>t, <1>s, <2>1, <2>2, <2>3 DEF IInv, OneConnectPerRemote
  <2>8. SleepersWillWake'
    BY <1>a, <1>t, <1>s, <2>1, <2>2, <2>3 DEF IInv, SleepersWillWake
  <2>9. StartedOnce'
    BY <1>a, <1>t, <1>s, <2>1, <2>2, <2>3 DEF IInv, StartedOnce
  <2>10. Watched'
    BY <1>a, <1>t, <1>s, <2>1, <2>2, <2>3 DEF IInv, Watched
  <2>11. GivenUpWhenBroken'
    BY <1>a, <1>t, <1>s, <2>1, <2>2, <2>3 DEF IInv, GivenUpWhenBroken
  <2>12. NoneOfOursStays'
    BY <1>a, <1>t, <1>s, <2>1, <2>2, <2>3 DEF IInv, NoneOfOursStays
  <2> QED
    BY <2>4, <2>5, <2>6, <2>7, <2>8, <2>9, <2>10, <2>11, <2>12 DEF IInv
\* notify_all.
<1>4. ASSUME NEW w \in Worker, Notifies(w) PROVE IInv'
  <2>1. /\ UNCHANGED <<table, connecting, conn, acceptor, stopped, stopper, sends>>
        /\ sender[w].at = "notify"
    BY <1>4 DEF Notifies
  <2>2. \A v \in Worker : Woken[v] \in Sender /\ Woken[v].dest = sender[v].dest /\ Woken[v].conn = sender[v].conn
           /\ Woken[v].then = sender[v].then
           /\ Woken[v].at = IF sender[v].at = "asleep" THEN "awake" ELSE sender[v].at
    BY <1>w DEF Woken, Sender
  <2>3. /\ sender' \in [Worker -> Sender]
        /\ \A v \in Worker \ {w} : sender'[v] = Woken[v]
        /\ sender'[w].at = sender[w].then /\ (sender[w].then # "idle" => sender'[w].conn = sender[w].conn)
    <3> DEFINE s == IF sender[w].then = "idle" THEN Idle
                      ELSE [sender[w] EXCEPT !.at = sender[w].then, !.then = "idle"]
    <3>1. /\ s \in Sender /\ s.at = sender[w].then
          /\ sender[w].then # "idle" => s.conn = sender[w].conn
      BY <1>w DEF Idle, Sender
    <3>2. sender' = [Woken EXCEPT ![w] = s]
      BY <1>4 DEF Notifies
    <3>3. Woken \in [Worker -> Sender]
      BY <2>2 DEF Woken
    <3> HIDE DEF s
    <3> QED
      BY <3>1, <3>2, <3>3
  <2>4. Starting' = Starting
    BY <1>t, <1>w, <2>1, <2>2, <2>3 DEF Starting, Sender
  <2>5. TypeOK'
    BY <2>1, <2>2, <2>3, <2>4 DEF IInv, TypeOK
  <2>6. PlacesFit'
    BY <1>w, <2>1, <2>2, <2>3 DEF IInv, PlacesFit, Sender
  <2>7. ConnectingTrue'
    BY <1>w, <2>1, <2>2, <2>3 DEF IInv, ConnectingTrue, Sender
  <2>8. OneConnectPerRemote'
    BY <1>w, <2>1, <2>2, <2>3 DEF IInv, OneConnectPerRemote, Sender
  <2>9. SleepersWillWake'
    BY <1>w, <2>1, <2>2, <2>3 DEF IInv, SleepersWillWake, Sender
  <2>10. StartedOnce'
    BY <1>a, <1>t, <1>s, <2>1, <2>2, <2>3, <2>4 DEF IInv, StartedOnce
  <2>11. Watched'
    BY <1>a, <1>t, <1>s, <2>1, <2>2, <2>3, <2>4 DEF IInv, Watched
  <2>12. GivenUpWhenBroken'
    BY <1>w, <2>1, <2>2, <2>3 DEF IInv, GivenUpWhenBroken, Sender
  <2>13. NoneOfOursStays'
    BY <1>a, <1>t, <1>s, <2>1, <2>2, <2>3, <2>4 DEF IInv, NoneOfOursStays
  <2> QED
    BY <2>5, <2>6, <2>7, <2>8, <2>9, <2>10, <2>11, <2>12, <2>13 DEF IInv
<1>5. ASSUME StopNotifies PROVE IInv'
  <2>1. /\ UNCHANGED <<table, connecting, conn, acceptor, stopped, sends>>
        /\ stopper.at = "notify" /\ stopper' = [stopper EXCEPT !.at = "close"]
    BY <1>5 DEF StopNotifies
  <2>2. /\ sender' \in [Worker -> Sender]
        /\ \A v \in Worker : /\ sender'[v].dest = sender[v].dest /\ sender'[v].conn = sender[v].conn
                             /\ sender'[v].then = sender[v].then
                             /\ sender'[v].at = IF sender[v].at = "asleep" THEN "awake" ELSE sender[v].at
    BY <1>5, <1>w DEF StopNotifies, Woken, Sender
  <2>3. Starting' = Starting
    BY <2>2 DEF Starting
  <2>4. TypeOK'
    BY <2>1, <2>2, <2>3 DEF IInv, TypeOK
  <2>5. PlacesFit'
    BY <1>a, <1>t, <1>s, <2>1, <2>2, <2>3 DEF IInv, PlacesFit
  <2>6. ConnectingTrue'
    BY <1>a, <1>t, <1>s, <2>1, <2>2, <2>3 DEF IInv, ConnectingTrue
  <2>7. OneConnectPerRemote'
    BY <1>a, <1>t, <1>s, <2>1, <2>2, <2>3 DEF IInv, OneConnectPerRemote
  <2>8. SleepersWillWake'
    BY <1>a, <1>t, <1>s, <2>1, <2>2, <2>3 DEF IInv, SleepersWillWake
  <2>9. StartedOnce'
    BY <1>a, <1>t, <1>s, <2>1, <2>2, <2>3 DEF IInv, StartedOnce
  <2>10. Watched'
    BY <1>a, <1>t, <1>s, <2>1, <2>2, <2>3 DEF IInv, Watched
  <2>11. GivenUpWhenBroken'
    BY <1>a, <1>t, <1>s, <2>1, <2>2, <2>3 DEF IInv, GivenUpWhenBroken
  <2>12. NoneOfOursStays'
    BY <1>a, <1>t, <1>s, <2>1, <2>2, <2>3 DEF IInv, NoneOfOursStays
  <2> QED
    BY <2>4, <2>5, <2>6, <2>7, <2>8, <2>9, <2>10, <2>11, <2>12 DEF IInv
<1>6. ASSUME NEW w \in Worker, BeginsWrite(w) PROVE IInv'
  <2>1. /\ UNCHANGED <<table, connecting, conn, acceptor, stopped, stopper, sends>>
        /\ sender[w].at = "have"
    BY <1>6 DEF BeginsWrite
  <2>2. /\ sender' \in [Worker -> Sender]
        /\ \A v \in Worker \ {w} : sender'[v] = sender[v]
        /\ sender'[w].conn = sender[w].conn
        /\ \/ sender'[w].at = "writing"
           \/ sender'[w].at = "unregister" /\ ~Usable(sender[w].conn)
    <3>1. \A at \in {"writing", "unregister"} : [sender[w] EXCEPT !.at = at] \in Sender
      BY <1>w DEF Sender
    <3>2. Idle \in Sender
      BY DEF Idle, Sender
    <3> QED
      BY <1>6, <1>t, <1>w, <3>1, <3>2 DEF BeginsWrite, Idle, Sender
  <2>3. Starting' = Starting
    BY <1>t, <2>1, <2>2 DEF Starting
  <2>4. TypeOK'
    BY <2>1, <2>2, <2>3 DEF IInv, TypeOK
  <2>5. PlacesFit'
    BY <1>a, <1>t, <1>s, <2>1, <2>2, <2>3 DEF IInv, PlacesFit
  <2>6. ConnectingTrue'
    BY <1>a, <1>t, <1>s, <2>1, <2>2, <2>3 DEF IInv, ConnectingTrue
  <2>7. OneConnectPerRemote'
    BY <1>a, <1>t, <1>s, <2>1, <2>2, <2>3 DEF IInv, OneConnectPerRemote
  <2>8. SleepersWillWake'
    BY <1>a, <1>t, <1>s, <2>1, <2>2, <2>3 DEF IInv, SleepersWillWake
  <2>9. StartedOnce'
    BY <1>a, <1>t, <1>s, <2>1, <2>2, <2>3 DEF IInv, StartedOnce
  <2>10. Watched'
    BY <1>a, <1>t, <1>s, <2>1, <2>2, <2>3 DEF IInv, Watched
  <2>11. GivenUpWhenBroken'
    BY <1>t, <2>1, <2>2 DEF IInv, GivenUpWhenBroken, PlacesFit, Usable
  <2>12. NoneOfOursStays'
    BY <1>a, <1>t, <1>s, <2>1, <2>2, <2>3 DEF IInv, NoneOfOursStays
  <2> QED
    BY <2>4, <2>5, <2>6, <2>7, <2>8, <2>9, <2>10, <2>11, <2>12 DEF IInv
<1>7. ASSUME NEW w \in Worker, EndsWrite(w) PROVE IInv'
  <2>1. /\ UNCHANGED <<table, connecting, conn, acceptor, stopped, stopper, sends>>
        /\ sender[w].at = "writing"
    BY <1>7 DEF EndsWrite
  <2>2. /\ sender' \in [Worker -> Sender]
        /\ \A v \in Worker \ {w} : sender'[v] = sender[v]
        /\ \/ sender'[w].at = "idle"
           \/ /\ sender'[w].at = "unregister" /\ sender'[w].conn = sender[w].conn
              /\ ~conn[sender[w].conn].up
    <3>1. \A at \in {"unregister"} : [sender[w] EXCEPT !.at = at] \in Sender
      BY <1>w DEF Sender
    <3>2. Idle \in Sender
      BY DEF Idle, Sender
    <3> QED
      BY <1>7, <1>t, <1>w, <3>1, <3>2 DEF EndsWrite, Idle, Sender
  <2>3. Starting' = Starting
    BY <1>t, <2>1, <2>2 DEF Starting
  <2>4. TypeOK'
    BY <2>1, <2>2, <2>3 DEF IInv, TypeOK
  <2>5. PlacesFit'
    BY <1>a, <1>t, <1>s, <2>1, <2>2, <2>3 DEF IInv, PlacesFit
  <2>6. ConnectingTrue'
    BY <2>1, <2>2 DEF IInv, ConnectingTrue
  <2>7. OneConnectPerRemote'
    BY <2>1, <2>2 DEF IInv, OneConnectPerRemote
  <2>8. SleepersWillWake'
    BY <2>1, <2>2 DEF IInv, SleepersWillWake
  <2>9. StartedOnce'
    BY <1>a, <1>t, <1>s, <2>1, <2>2, <2>3 DEF IInv, StartedOnce
  <2>10. Watched'
    BY <1>a, <1>t, <1>s, <2>1, <2>2, <2>3 DEF IInv, Watched
  <2>11. GivenUpWhenBroken'
    BY <1>a, <1>t, <1>s, <2>1, <2>2, <2>3 DEF IInv, GivenUpWhenBroken
  <2>12. NoneOfOursStays'
    BY <1>a, <1>t, <1>s, <2>1, <2>2, <2>3 DEF IInv, NoneOfOursStays
  <2> QED
    BY <2>4, <2>5, <2>6, <2>7, <2>8, <2>9, <2>10, <2>11, <2>12 DEF IInv
<1>8. ASSUME NEW w \in Worker, Unregisters(w) PROVE IInv'
  <2>1. /\ UNCHANGED <<connecting, conn, acceptor, stopped, stopper, sends>>
        /\ sender[w].at = "unregister"
    BY <1>8 DEF Unregisters
  <2>2. /\ sender' \in [Worker -> Sender]
        /\ \A v \in Worker \ {w} : sender'[v] = sender[v]
        /\ sender'[w].at = "idle"
    <3>1. \A at \in {"idle"} : [sender[w] EXCEPT !.at = at] \in Sender
      BY <1>w DEF Sender
    <3>2. Idle \in Sender
      BY DEF Idle, Sender
    <3> QED
      BY <1>8, <1>t, <1>w, <3>1, <3>2 DEF Unregisters, Idle, Sender
  <2>3. table' \in [Remote -> Id \cup {None}] /\ \A k \in Remote : table'[k] \in {table[k], None}
    <3>1. conn[sender[w].conn].remote \in Remote
      BY <1>c, <2>1 DEF IInv, PlacesFit, Connection
    <3> QED
      BY <1>8, <1>t, <3>1 DEF Unregisters, Unregistered
  <2>4. Starting' = Starting
    BY <1>t, <2>1, <2>2 DEF Starting
  <2>5. TypeOK'
    BY <2>1, <2>2, <2>3, <2>4 DEF IInv, TypeOK
  <2>6. PlacesFit'
    BY <1>a, <1>t, <1>s, <2>1, <2>2, <2>3, <2>4 DEF IInv, PlacesFit
  <2>7. ConnectingTrue'
    BY <1>a, <1>t, <1>s, <2>1, <2>2, <2>3, <2>4 DEF IInv, ConnectingTrue
  <2>8. OneConnectPerRemote'
    BY <1>a, <1>t, <1>s, <2>1, <2>2, <2>3, <2>4 DEF IInv, OneConnectPerRemote
  <2>9. SleepersWillWake'
    BY <2>1, <2>2 DEF IInv, SleepersWillWake
  <2>10. StartedOnce'
    BY <1>a, <1>t, <1>s, <2>1, <2>2, <2>3, <2>4 DEF IInv, StartedOnce
  <2>11. Watched'
    BY <1>a, <1>t, <1>s, <2>1, <2>2, <2>3, <2>4 DEF IInv, Watched
  <2>12. GivenUpWhenBroken'
    BY <1>a, <1>t, <1>s, <2>1, <2>2, <2>3, <2>4 DEF IInv, GivenUpWhenBroken
  <2>13. NoneOfOursStays'
    BY <1>a, <1>t, <1>s, <2>1, <2>2, <2>3, <2>4 DEF IInv, NoneOfOursStays
  <2> QED
    BY <2>5, <2>6, <2>7, <2>8, <2>9, <2>10, <2>11, <2>12, <2>13 DEF IInv
<1>9. ASSUME Registers PROVE IInv'
  <2>1. /\ UNCHANGED <<connecting, conn, sender, stopped, stopper, sends>>
        /\ acceptor.at = "accepted"
        /\ acceptor' = [acceptor EXCEPT !.at = "starting"]
        /\ acceptor.conn \in DOMAIN conn /\ conn[acceptor.conn].remote \in Remote
    BY <1>9, <1>c DEF Registers, IInv, PlacesFit, Connection
  <2>2. /\ table' \in [Remote -> Id \cup {None}]
        /\ \A k \in Remote : table'[k] = IF k = conn[acceptor.conn].remote THEN acceptor.conn ELSE table[k]
    BY <1>9, <1>t, <2>1 DEF Registers
  <2>3. acceptor'.conn = acceptor.conn /\ acceptor'.at = "starting"
    BY <1>t, <2>1
  <2>4. Starting' = Starting
    BY <2>1 DEF Starting
  <2>5. TypeOK'
    BY <2>1, <2>2, <2>3, <2>4 DEF IInv, TypeOK
  <2>6. PlacesFit'
    BY <1>a, <1>t, <1>s, <2>1, <2>2, <2>3, <2>4 DEF IInv, PlacesFit
  <2>7. ConnectingTrue'
    BY <1>a, <1>t, <1>s, <2>1, <2>2, <2>3, <2>4 DEF IInv, ConnectingTrue
  <2>8. OneConnectPerRemote'
    BY <1>a, <1>t, <1>s, <2>1, <2>2, <2>3, <2>4 DEF IInv, OneConnectPerRemote
  <2>9. SleepersWillWake'
    BY <1>a, <1>t, <1>s, <2>1, <2>2, <2>3, <2>4 DEF IInv, SleepersWillWake
  <2>10. StartedOnce'
    BY <1>a, <1>t, <1>s, <2>1, <2>2, <2>3, <2>4 DEF IInv, StartedOnce
  <2>11. Watched'
    BY <1>a, <1>t, <2>1, <2>2, <2>3, <2>4 DEF IInv, Watched, StartedOnce
  <2>12. GivenUpWhenBroken'
    BY <1>a, <1>t, <1>s, <2>1, <2>2, <2>3, <2>4 DEF IInv, GivenUpWhenBroken
  <2>13. NoneOfOursStays'
    BY <1>a, <1>t, <2>1, <2>2, <2>3, <2>4 DEF IInv, NoneOfOursStays, StartedOnce
  <2> QED
    BY <2>5, <2>6, <2>7, <2>8, <2>9, <2>10, <2>11, <2>12, <2>13 DEF IInv
<1>10. ASSUME Stop PROVE IInv'
  <2>1. /\ UNCHANGED <<table, connecting, conn, sender, acceptor, sends>> /\ ~stopped /\ stopped'
        /\ stopper' = [stopper EXCEPT !.at = "acceptor"]
    BY <1>10 DEF Stop
  <2>2. Starting' = Starting
    BY <2>1 DEF Starting
  <2>3. stopper.at = "none"
    BY <1>t, <2>1 DEF IInv, PlacesFit
  <2>4. TypeOK'
    BY <1>10, <1>t DEF Stop, IInv, TypeOK
  <2>5. PlacesFit'
    BY <1>a, <1>t, <1>s, <2>1, <2>2, <2>3 DEF IInv, PlacesFit
  <2>6. ConnectingTrue'
    BY <1>a, <1>t, <1>s, <2>1, <2>2, <2>3 DEF IInv, ConnectingTrue
  <2>7. OneConnectPerRemote'
    BY <1>a, <1>t, <1>s, <2>1, <2>2, <2>3 DEF IInv, OneConnectPerRemote
  <2>8. SleepersWillWake'
    BY <1>a, <1>t, <1>s, <2>1, <2>2, <2>3 DEF IInv, SleepersWillWake
  <2>9. StartedOnce'
    BY <1>a, <1>t, <1>s, <2>1, <2>2, <2>3 DEF IInv, StartedOnce
  <2>10. Watched'
    BY <1>a, <1>t, <1>s, <2>1, <2>2, <2>3 DEF IInv, Watched
  <2>11. GivenUpWhenBroken'
    BY <1>a, <1>t, <1>s, <2>1, <2>2, <2>3 DEF IInv, GivenUpWhenBroken
  <2>12. NoneOfOursStays'
    BY <1>a, <1>t, <1>s, <2>1, <2>2, <2>3 DEF IInv, NoneOfOursStays
  <2> QED
    BY <2>4, <2>5, <2>6, <2>7, <2>8, <2>9, <2>10, <2>11, <2>12 DEF IInv
<1>11. ASSUME StopsAccepting PROVE IInv'
  <2>1. /\ UNCHANGED <<table, connecting, conn, sender, stopped, sends>>
        /\ stopper.at = "acceptor"
        /\ stopper' = [stopper EXCEPT !.at = "table"]
        /\ acceptor' = IF acceptor.at = "armed" THEN [acceptor EXCEPT !.at = "ended"] ELSE acceptor
    BY <1>11 DEF StopsAccepting
  <2>2. acceptor'.conn = acceptor.conn
    BY <1>t, <2>1
  <2>3. Starting' = Starting
    BY <2>1 DEF Starting
  <2>4. TypeOK'
    BY <2>1, <2>2, <2>3 DEF IInv, TypeOK
  <2>5. PlacesFit'
    BY <1>a, <1>t, <1>s, <2>1, <2>2, <2>3 DEF IInv, PlacesFit
  <2>6. ConnectingTrue'
    BY <1>a, <1>t, <1>s, <2>1, <2>2, <2>3 DEF IInv, ConnectingTrue
  <2>7. OneConnectPerRemote'
    BY <1>a, <1>t, <1>s, <2>1, <2>2, <2>3 DEF IInv, OneConnectPerRemote
  <2>8. SleepersWillWake'
    BY <1>a, <1>t, <1>s, <2>1, <2>2, <2>3 DEF IInv, SleepersWillWake
  <2>9. StartedOnce'
    BY <1>a, <1>t, <1>s, <2>1, <2>2, <2>3 DEF IInv, StartedOnce
  <2>10. Watched'
    BY <1>a, <1>t, <1>s, <2>1, <2>2, <2>3 DEF IInv, Watched
  <2>11. GivenUpWhenBroken'
    BY <1>a, <1>t, <1>s, <2>1, <2>2, <2>3 DEF IInv, GivenUpWhenBroken
  <2>12. NoneOfOursStays'
    BY <1>a, <1>t, <1>s, <2>1, <2>2, <2>3 DEF IInv, NoneOfOursStays
  <2> QED
    BY <2>4, <2>5, <2>6, <2>7, <2>8, <2>9, <2>10, <2>11, <2>12 DEF IInv
<1>12. ASSUME Empties PROVE IInv'
  <2>1. /\ UNCHANGED <<conn, sender, acceptor, stopped, sends>> /\ stopper.at = "table"
        /\ connecting' = {} /\ table' = [k \in Remote |-> None]
        /\ stopper' = [stopper EXCEPT !.at = "notify", !.active = {table[k] : k \in Remote} \ {None}]
    BY <1>12 DEF Empties
  <2>2. Starting' = Starting
    BY <2>1 DEF Starting
  <2>3. stopper'.at = "notify" /\ stopper'.active = {table[k] : k \in Remote} \ {None} /\ stopped
    BY <1>t, <2>1 DEF IInv, PlacesFit
  <2>4. TypeOK'
    <3>1. {table[k] : k \in Remote} \ {None} \in SUBSET Id
      BY <1>t
    <3>2. stopper' \in [at: {"none", "acceptor", "table", "notify", "close", "shut", "done"},
                       active: SUBSET Id, conn: Id \cup {None}]
      BY <1>t, <2>1, <3>1
    <3> QED
      BY <2>1, <3>2 DEF IInv, TypeOK
  <2>5. PlacesFit'
    BY <1>a, <1>t, <1>s, <2>1, <2>2, <2>3 DEF IInv, PlacesFit
  <2>6. ConnectingTrue'
    BY <1>a, <1>t, <1>s, <2>1, <2>2, <2>3 DEF IInv, ConnectingTrue
  <2>7. OneConnectPerRemote'
    BY <1>a, <1>t, <1>s, <2>1, <2>2, <2>3 DEF IInv, OneConnectPerRemote
  <2>8. SleepersWillWake'
    BY <1>a, <1>t, <1>s, <2>1, <2>2, <2>3 DEF IInv, SleepersWillWake
  <2>9. StartedOnce'
    BY <1>a, <1>t, <1>s, <2>1, <2>2, <2>3 DEF IInv, StartedOnce
  <2>10. Watched'
    BY <1>a, <1>t, <1>s, <2>1, <2>2, <2>3 DEF IInv, Watched
  <2>11. GivenUpWhenBroken'
    BY <1>a, <1>t, <1>s, <2>1, <2>2, <2>3 DEF IInv, GivenUpWhenBroken
  <2>12. NoneOfOursStays'
    BY <1>a, <1>t, <1>s, <2>1, <2>2, <2>3 DEF IInv, NoneOfOursStays
  <2> QED
    BY <2>4, <2>5, <2>6, <2>7, <2>8, <2>9, <2>10, <2>11, <2>12 DEF IInv
\* A reader goes on with its connection, or its peer goes.
<1>13. ASSUME NEW c \in DOMAIN conn, NEW r \in Connection, conn' = [conn EXCEPT ![c] = r],
             GoesOn(c, r), UNCHANGED <<connecting, sender, acceptor, stopped, stopper, sends>>
      PROVE  IInv'
  <2>1. /\ conn' \in Seq(Connection) /\ Len(conn') = Len(conn) /\ DOMAIN conn' = DOMAIN conn
        /\ \A d \in DOMAIN conn : conn'[d] = IF d = c THEN r ELSE conn[d]
    BY <1>13, <1>t, Updated
  <2>2. Starting' = Starting
    BY <1>13 DEF Starting
  <2>3. TypeOK'
    BY <1>t, <2>1, <2>2, <1>13 DEF GoesOn, IInv, TypeOK
  <2>4. PlacesFit'
    BY <1>a, <1>t, <1>s, <2>1, <2>2, <1>13 DEF GoesOn, IInv, PlacesFit
  <2>5. ConnectingTrue'
    BY <1>a, <1>t, <1>s, <2>1, <2>2, <1>13 DEF GoesOn, IInv, ConnectingTrue
  <2>6. OneConnectPerRemote'
    BY <1>a, <1>t, <1>s, <2>1, <2>2, <1>13 DEF GoesOn, IInv, OneConnectPerRemote
  <2>7. SleepersWillWake'
    BY <1>a, <1>t, <1>s, <2>1, <2>2, <1>13 DEF GoesOn, IInv, SleepersWillWake
  <2>8. StartedOnce'
    BY <1>a, <1>t, <1>s, <2>1, <2>2, <1>13 DEF GoesOn, IInv, StartedOnce
  <2>9. Watched'
    BY <1>a, <1>t, <1>s, <2>1, <2>2, <1>13 DEF GoesOn, IInv, Watched
  <2>10. GivenUpWhenBroken'
    BY <1>a, <1>t, <1>s, <2>1, <2>2, <1>13 DEF GoesOn, IInv, GivenUpWhenBroken
  <2>11. NoneOfOursStays'
    BY <1>a, <1>t, <1>s, <2>1, <2>2, <1>13 DEF GoesOn, IInv, NoneOfOursStays
  <2> QED
    BY <2>3, <2>4, <2>5, <2>6, <2>7, <2>8, <2>9, <2>10, <2>11 DEF IInv
<1>14. ASSUME NEW c \in DOMAIN conn, NEW n \in conn[c].taken + 1 .. Len(Incoming(c)),
             conn[c].reader = "armed", conn' = [conn EXCEPT ![c] =
                 [conn[c] EXCEPT !.reader = "framing", !.taken = n,
                                 !.buffer = @ \o SubSeq(Stream, conn[c].taken + 1, n)]],
             UNCHANGED <<table, connecting, sender, acceptor, stopped, stopper, sends>>
      PROVE  IInv'
  <2>1. conn[c] \in Connection
    BY <1>c
  <2>2. /\ n \in 0 .. Len(Stream)
        /\ conn[c].buffer \o SubSeq(Stream, conn[c].taken + 1, n) \in Seq(Unit)
    BY <2>1, EmptySeq, LenProperties, ReadTyped, TransportAssumption DEF Incoming, Connection
  <2> DEFINE r == [conn[c] EXCEPT !.reader = "framing", !.taken = n,
                                  !.buffer = @ \o SubSeq(Stream, conn[c].taken + 1, n)]
  <2>3. r \in Connection
    BY <2>1, <2>2 DEF Connection
  <2>4. /\ conn' = [conn EXCEPT ![c] = r]
        /\ UNCHANGED <<connecting, sender, acceptor, stopped, stopper, sends>>
        /\ UNCHANGED table
    BY <1>14, <2>1, <2>2 DEF Connection, IInv, GivenUpWhenBroken
  <2>5. GoesOn(c, r)
    <3>1. /\ r.remote = conn[c].remote /\ r.accepted = conn[c].accepted /\ (r.up => conn[c].up)
          /\ r.reader = "new" <=> conn[c].reader = "new"
          /\ ~stopped => IF r.reader \in {"new", "armed", "framing"} THEN r.open /\ r.socket ELSE ~r.up
          /\ ~stopped /\ (\E k \in Remote : table[k] = c) => r.reader \in {"new", "armed", "framing"}
      BY <1>14, <2>1, <2>2 DEF Connection, IInv, GivenUpWhenBroken
    <3> HIDE DEF r
    <3> QED
      BY <1>t, <2>4, <3>1 DEF GoesOn
  <2> HIDE DEF r
  <2> QED
    BY <1>13, <2>3, <2>4, <2>5
<1>15. ASSUME NEW c \in DOMAIN conn, Frames(c) PROVE IInv'
  <2>1. conn[c] \in Connection /\ c \in DOMAIN conn
    BY <1>c
  <2>2. /\ conn[c].reader = "framing"
        /\ UNCHANGED <<table, connecting, sender, acceptor, stopped, stopper, sends>>
    BY <1>15 DEF Frames
  <2>3. ~stopped => Usable(c)
    BY <2>2 DEF IInv, GivenUpWhenBroken, Usable
  <2> DEFINE r == IF Extractable(conn[c].buffer) THEN Extracted(c) ELSE DoRead(c)
  <2>4. r \in Connection
    BY <2>1, ExtractedTyped, DoReadTyped
  <2>5. /\ conn' = [conn EXCEPT ![c] = r]
        /\ UNCHANGED <<connecting, sender, acceptor, stopped, stopper, sends>>
        /\ UNCHANGED table
    BY <1>15, <2>1, <2>2, <2>3, ExtractedTyped, DoReadTyped DEF Frames, IInv, GivenUpWhenBroken
  <2>6. GoesOn(c, r)
    <3>1. /\ r.remote = conn[c].remote /\ r.accepted = conn[c].accepted /\ (r.up => conn[c].up)
          /\ r.reader = "new" <=> conn[c].reader = "new"
          /\ ~stopped => IF r.reader \in {"new", "armed", "framing"} THEN r.open /\ r.socket ELSE ~r.up
          /\ ~stopped /\ (\E k \in Remote : table[k] = c) => r.reader \in {"new", "armed", "framing"}
      BY <1>15, <2>1, <2>2, <2>3, ExtractedTyped, DoReadTyped DEF Frames, IInv, GivenUpWhenBroken
    <3> HIDE DEF r
    <3> QED
      BY <1>t, <2>5, <3>1 DEF GoesOn
  <2> HIDE DEF r
  <2> QED
    BY <1>13, <2>4, <2>5, <2>6
<1>16. ASSUME NEW c \in DOMAIN conn, ReadFails(c) PROVE IInv'
  <2>1. conn[c] \in Connection /\ c \in DOMAIN conn /\ conn[c].remote \in Remote
    BY <1>c DEF Connection
  <2>2. /\ conn[c].reader = "armed" /\ (~stopped => ~conn[c].up)
        /\ UNCHANGED <<connecting, sender, acceptor, stopped, stopper, sends>>
    BY <1>16 DEF ReadFails, IInv, GivenUpWhenBroken
  <2>3. /\ table' \in [Remote -> Id \cup {None}]
        /\ \A k \in Remote : table'[k] \in {table[k], None} /\ table'[k] # c
    BY <1>16, <1>a, <1>t, <2>1 DEF ReadFails, Unregistered, IInv, PlacesFit
  <2> DEFINE r == Unread(c, "closing")
  <2>4. r \in Connection
    BY <2>1, UnreadTyped
  <2>5. /\ conn' = [conn EXCEPT ![c] = r]
        /\ UNCHANGED <<connecting, sender, acceptor, stopped, stopper, sends>>
    BY <1>16, <2>1, <2>2, <2>3, UnreadTyped DEF ReadFails
  <2>6. GoesOn(c, r)
    <3>1. /\ r.remote = conn[c].remote /\ r.accepted = conn[c].accepted /\ (r.up => conn[c].up)
          /\ r.reader = "new" <=> conn[c].reader = "new"
          /\ ~stopped => IF r.reader \in {"new", "armed", "framing"} THEN r.open /\ r.socket ELSE ~r.up
      BY <1>16, <2>1, <2>2, <2>3, UnreadTyped DEF ReadFails
    <3> HIDE DEF r
    <3> QED
      BY <1>t, <2>5, <3>1, <2>2, <2>3, <2>1 DEF GoesOn
  <2> HIDE DEF r
  <2> QED
    BY <1>13, <2>4, <2>5, <2>6
<1>17. ASSUME NEW c \in DOMAIN conn, Closes(c) PROVE IInv'
  <2>1. conn[c] \in Connection /\ c \in DOMAIN conn
    BY <1>c
  <2>2. ~stopped => ~conn[c].up /\ \A k \in Remote : table[k] # c
    BY <1>17, <1>a, <1>t DEF Closes, IInv, GivenUpWhenBroken, Watched
  <2> DEFINE r == [conn[c] EXCEPT !.reader = IF conn[c].open THEN "shutting" ELSE "ended", !.open = FALSE]
  <2>3. r \in Connection
    BY <2>1 DEF Connection
  <2>4. /\ conn' = [conn EXCEPT ![c] = r]
        /\ UNCHANGED <<connecting, sender, acceptor, stopped, stopper, sends>>
        /\ UNCHANGED table
    BY <1>17, <2>1, <2>2 DEF Closes, Connection
  <2>5. GoesOn(c, r)
    <3>1. /\ r.remote = conn[c].remote /\ r.accepted = conn[c].accepted /\ (r.up => conn[c].up)
          /\ r.reader = "new" <=> conn[c].reader = "new"
          /\ ~stopped => IF r.reader \in {"new", "armed", "framing"} THEN r.open /\ r.socket ELSE ~r.up
          /\ ~stopped /\ (\E k \in Remote : table[k] = c) => r.reader \in {"new", "armed", "framing"}
      BY <1>17, <2>1, <2>2 DEF Closes, Connection
    <3> HIDE DEF r
    <3> QED
      BY <1>t, <2>4, <3>1 DEF GoesOn
  <2> HIDE DEF r
  <2> QED
    BY <1>13, <2>3, <2>4, <2>5
<1>18. ASSUME NEW c \in DOMAIN conn, Shuts(c) PROVE IInv'
  <2>1. conn[c] \in Connection /\ c \in DOMAIN conn
    BY <1>c
  <2>2. ~stopped => ~conn[c].up /\ \A k \in Remote : table[k] # c
    BY <1>18, <1>a, <1>t DEF Shuts, IInv, GivenUpWhenBroken, Watched
  <2> DEFINE r == [conn[c] EXCEPT !.reader = "ended", !.socket = FALSE]
  <2>3. r \in Connection
    BY <2>1 DEF Connection
  <2>4. /\ conn' = [conn EXCEPT ![c] = r]
        /\ UNCHANGED <<connecting, sender, acceptor, stopped, stopper, sends>>
        /\ UNCHANGED table
    BY <1>18, <2>1, <2>2 DEF Shuts, Connection
  <2>5. GoesOn(c, r)
    <3>1. /\ r.remote = conn[c].remote /\ r.accepted = conn[c].accepted /\ (r.up => conn[c].up)
          /\ r.reader = "new" <=> conn[c].reader = "new"
          /\ ~stopped => IF r.reader \in {"new", "armed", "framing"} THEN r.open /\ r.socket ELSE ~r.up
          /\ ~stopped /\ (\E k \in Remote : table[k] = c) => r.reader \in {"new", "armed", "framing"}
      BY <1>18, <2>1, <2>2 DEF Shuts, Connection
    <3> HIDE DEF r
    <3> QED
      BY <1>t, <2>4, <3>1 DEF GoesOn
  <2> HIDE DEF r
  <2> QED
    BY <1>13, <2>3, <2>4, <2>5
<1>19. ASSUME NEW c \in DOMAIN conn, PeerGoes(c) PROVE IInv'
  <2>1. conn[c] \in Connection /\ c \in DOMAIN conn
    BY <1>c
  <2> DEFINE r == [conn[c] EXCEPT !.up = FALSE]
  <2>2. r \in Connection
    BY <2>1 DEF Connection
  <2>3. /\ conn' = [conn EXCEPT ![c] = r]
        /\ UNCHANGED <<connecting, sender, acceptor, stopped, stopper, sends>>
        /\ UNCHANGED table
    BY <1>19, <1>t, <1>a, <2>1 DEF PeerGoes, Connection, IInv, GivenUpWhenBroken, Watched
  <2>4. GoesOn(c, r)
    <3>1. /\ r.remote = conn[c].remote /\ r.accepted = conn[c].accepted /\ (r.up => conn[c].up)
          /\ r.reader = "new" <=> conn[c].reader = "new"
          /\ ~stopped => IF r.reader \in {"new", "armed", "framing"} THEN r.open /\ r.socket ELSE ~r.up
          /\ ~stopped /\ (\E k \in Remote : table[k] = c) => r.reader \in {"new", "armed", "framing"}
      BY <1>19, <1>t, <1>a, <2>1 DEF PeerGoes, Connection, IInv, GivenUpWhenBroken, Watched
    <3> HIDE DEF r
    <3> QED
      BY <1>t, <2>3, <3>1 DEF GoesOn
  <2> HIDE DEF r
  <2> QED
    BY <1>13, <2>2, <2>3, <2>4
\* The worker starts the connection it has made.
<1>20. ASSUME NEW w \in Worker, Starts(w) PROVE IInv'
  <2>1. PICK c \in DOMAIN conn : /\ c = sender[w].conn /\ sender[w].at = "start" /\ conn[c] \in Connection
                                 /\ Starting[w] = c /\ c # None
    BY <1>20, <1>a, <1>t, <1>c DEF Starts, IInv, PlacesFit, Starting
  <2>2. /\ conn[c].reader = "new" /\ c # acceptor.conn /\ (~stopped => Usable(c))
        /\ \A v \in Worker \ {w} : Starting[v] # c
    BY <2>1, <1>a DEF IInv, StartedOnce, GivenUpWhenBroken, Usable
  <2>3. PICK r \in Connection :
          /\ conn' = [conn EXCEPT ![c] = r]
          /\ r.remote = conn[c].remote /\ r.accepted = conn[c].accepted /\ r.up = conn[c].up
          /\ ~stopped => r.reader = "armed" /\ r.open /\ r.socket
    BY <1>20, <2>1, <2>2, DoReadTyped DEF Starts, Usable
  <2>4. /\ conn' \in Seq(Connection) /\ Len(conn') = Len(conn) /\ DOMAIN conn' = DOMAIN conn
        /\ \A d \in DOMAIN conn : conn'[d] = IF d = c THEN r ELSE conn[d]
    BY <1>t, <2>3, Updated
  <2>5. /\ sender' \in [Worker -> Sender]
        /\ \A v \in Worker \ {w} : sender'[v] = sender[v]
        /\ sender'[w].at = "have" /\ sender'[w].conn = c
        /\ UNCHANGED <<table, connecting, acceptor, stopped, stopper, sends>>
    <3>1. [sender[w] EXCEPT !.at = "have"] \in Sender
      BY <1>w DEF Sender
    <3> QED
      BY <1>20, <1>t, <1>w, <2>1, <3>1 DEF Starts, Sender
  <2>6. /\ Starting'[w] = None
        /\ \A v \in Worker \ {w} : Starting'[v] = Starting[v]
    BY <2>5 DEF Starting
  <2>7. TypeOK'
    BY <2>1, <2>2, <2>3, <2>4, <2>5, <2>6 DEF IInv, TypeOK
  <2>8. PlacesFit'
    BY <1>a, <1>t, <1>s, <2>1, <2>2, <2>3, <2>4, <2>5, <2>6 DEF IInv, PlacesFit
  <2>9. ConnectingTrue'
    BY <2>1, <2>5 DEF IInv, ConnectingTrue
  <2>10. OneConnectPerRemote'
    BY <1>a, <1>t, <1>s, <2>1, <2>2, <2>3, <2>4, <2>5, <2>6 DEF IInv, OneConnectPerRemote
  <2>11. SleepersWillWake'
    BY <2>1, <2>5 DEF IInv, SleepersWillWake
  <2>12. StartedOnce'
    BY <1>a, <1>t, <1>s, <2>1, <2>2, <2>3, <2>4, <2>5, <2>6 DEF IInv, StartedOnce
  <2>13. Watched'
    BY <1>a, <1>t, <1>s, <2>1, <2>2, <2>3, <2>4, <2>5, <2>6 DEF IInv, Watched
  <2>14. GivenUpWhenBroken'
    BY <1>a, <1>t, <1>s, <2>1, <2>2, <2>3, <2>4, <2>5, <2>6 DEF IInv, GivenUpWhenBroken
  <2>15. NoneOfOursStays'
    BY <1>a, <1>t, <1>s, <2>1, <2>2, <2>3, <2>4, <2>5, <2>6 DEF IInv, NoneOfOursStays
  <2> QED
    BY <2>7, <2>8, <2>9, <2>10, <2>11, <2>12, <2>13, <2>14, <2>15 DEF IInv
\* The acceptor starts the connection it has registered.
<1>21. ASSUME AcceptsNext PROVE IInv'
  <2>1. PICK c \in DOMAIN conn : /\ c = acceptor.conn /\ acceptor.at = "starting" /\ conn[c] \in Connection
                                 /\ c # None
    BY <1>21, <1>a, <1>t, <1>c DEF AcceptsNext, IInv, PlacesFit
  <2>2. /\ conn[c].reader = "new" /\ (~stopped => Usable(c))
        /\ \A v \in Worker : Starting[v] # c
    BY <2>1, <1>a DEF IInv, StartedOnce, GivenUpWhenBroken, Usable
  <2>3. PICK r \in Connection :
          /\ conn' = [conn EXCEPT ![c] = r]
          /\ r.remote = conn[c].remote /\ r.accepted = conn[c].accepted /\ r.up = conn[c].up
          /\ ~stopped => r.reader = "armed" /\ r.open /\ r.socket
    BY <1>21, <2>1, <2>2, DoReadTyped DEF AcceptsNext, Usable
  <2>4. /\ conn' \in Seq(Connection) /\ Len(conn') = Len(conn) /\ DOMAIN conn' = DOMAIN conn
        /\ \A d \in DOMAIN conn : conn'[d] = IF d = c THEN r ELSE conn[d]
    BY <1>t, <2>3, Updated
  <2>5. /\ acceptor'.at \in {"armed", "ended"} /\ acceptor'.conn = None
        /\ acceptor' \in [at: {"armed", "accepted", "starting", "ended"}, conn: Id \cup {None}]
        /\ UNCHANGED <<table, connecting, sender, stopped, stopper, sends>>
    BY <1>21 DEF AcceptsNext
  <2>6. Starting' = Starting
    BY <2>5 DEF Starting
  <2>7. TypeOK'
    BY <2>1, <2>2, <2>3, <2>4, <2>5, <2>6 DEF IInv, TypeOK
  <2>8. PlacesFit'
    BY <1>a, <1>t, <1>s, <2>1, <2>2, <2>3, <2>4, <2>5, <2>6 DEF IInv, PlacesFit
  <2>9. ConnectingTrue'
    BY <1>a, <1>t, <1>s, <2>1, <2>2, <2>3, <2>4, <2>5, <2>6 DEF IInv, ConnectingTrue
  <2>10. OneConnectPerRemote'
    BY <1>a, <1>t, <1>s, <2>1, <2>2, <2>3, <2>4, <2>5, <2>6 DEF IInv, OneConnectPerRemote
  <2>11. SleepersWillWake'
    BY <1>a, <1>t, <1>s, <2>1, <2>2, <2>3, <2>4, <2>5, <2>6 DEF IInv, SleepersWillWake
  <2>12. StartedOnce'
    BY <1>a, <1>t, <1>s, <2>1, <2>2, <2>3, <2>4, <2>5, <2>6 DEF IInv, StartedOnce
  <2>13. Watched'
    BY <1>a, <1>t, <1>s, <2>1, <2>2, <2>3, <2>4, <2>5, <2>6 DEF IInv, Watched
  <2>14. GivenUpWhenBroken'
    BY <1>a, <1>t, <1>s, <2>1, <2>2, <2>3, <2>4, <2>5, <2>6 DEF IInv, GivenUpWhenBroken
  <2>15. NoneOfOursStays'
    BY <1>a, <1>t, <1>s, <2>1, <2>2, <2>3, <2>4, <2>5, <2>6 DEF IInv, NoneOfOursStays
  <2> QED
    BY <2>7, <2>8, <2>9, <2>10, <2>11, <2>12, <2>13, <2>14, <2>15 DEF IInv
\* A connect that made a connection.
<1>22. ASSUME NEW w \in Worker, NEW k \in Remote, sender[w].at = "connect", sender[w].dest = k,
             ~stopped, table[k] = None, Len(conn) < MaxConns, connecting' = connecting \ {k},
             conn' = Append(conn, New(k, FALSE)), table' = [table EXCEPT ![k] = Len(conn')],
             Notifying(w, Len(conn'), "start"), UNCHANGED <<acceptor, stopped, stopper, sends>>
      PROVE  IInv'
  <2>1. /\ New(k, FALSE) \in Connection /\ New(k, FALSE).remote = k
        /\ New(k, FALSE).accepted = FALSE
        /\ New(k, FALSE).reader = "new" /\ New(k, FALSE).open /\ New(k, FALSE).socket
    BY NewTyped
  <2>2. PICK i \in Id :
          /\ i = Len(conn') /\ i \notin DOMAIN conn /\ i <= MaxConns
          /\ conn' \in Seq(Connection) /\ DOMAIN conn' = DOMAIN conn \cup {i}
          /\ conn'[i].remote = k /\ conn'[i].accepted = FALSE /\ conn'[i].reader = "new"
          /\ conn'[i].open /\ conn'[i].socket
          /\ \A d \in DOMAIN conn : conn'[d] = conn[d]
    <3> DEFINE u == Append(conn, New(k, FALSE))
    <3>1. /\ u \in Seq(Connection) /\ Len(u) = Len(conn) + 1
          /\ DOMAIN u = DOMAIN conn \cup {Len(u)}
          /\ Len(u) \notin DOMAIN conn
          /\ u[Len(u)] = New(k, FALSE) /\ \A d \in DOMAIN conn : u[d] = conn[d]
      BY <1>t, <2>1, Appended
    <3>2. conn' = u /\ Len(conn) < MaxConns
      BY <1>22
    <3> HIDE DEF u
    <3>3. Len(u) \in Id /\ Len(u) <= MaxConns
      BY <1>a, <1>t, <3>1, <3>2 DEF Id
    <3> QED
      BY <2>1, <3>1, <3>2, <3>3
  <2>3. /\ table' \in [Remote -> Id \cup {None}] /\ table'[k] = i
        /\ \A j \in Remote \ {k} : table'[j] = table[j]
    BY <1>22, <1>t, <2>2
  <2>4. /\ UNCHANGED <<acceptor, stopped, stopper, sends>> /\ ~stopped /\ stopper.at = "none"
        /\ sender[w].at = "connect" /\ sender[w].dest = k /\ connecting' = connecting \ {k}
    BY <1>22 DEF IInv, PlacesFit
  <2>5. /\ sender' \in [Worker -> Sender]
        /\ \A v \in Worker \ {w} : sender'[v] = sender[v]
        /\ sender'[w].at = "notify" /\ sender'[w].conn = i /\ sender'[w].then = "start"
    <3> DEFINE s == [at |-> "notify", dest |-> sender[w].dest, conn |-> i, then |-> "start"]
    <3>1. s \in Sender
      BY <1>22, <1>t, <1>w, <2>2 DEF Sender
    <3>2. sender' = [sender EXCEPT ![w] = s]
      BY <1>22, <2>2 DEF Notifying
    <3> QED
      BY <3>1, <3>2, <1>t
  <2>6. /\ Starting'[w] = i
        /\ \A v \in Worker \ {w} : Starting'[v] = Starting[v]
    BY <2>2, <2>5 DEF Starting
  <2>7. i # None /\ i \in DOMAIN conn'
    BY <2>2, <1>a
  <2>8. TypeOK'
    BY <2>1, <2>2, <2>3, <2>4, <2>5, <2>6, <2>7 DEF IInv, TypeOK
  <2>9. PlacesFit'
    BY <1>a, <1>s, <2>2, <2>3, <2>4, <2>5, <2>6, <2>7 DEF IInv, PlacesFit
  <2>10. ConnectingTrue'
    BY <2>4, <2>5 DEF IInv, ConnectingTrue, OneConnectPerRemote
  <2>11. OneConnectPerRemote'
    BY <2>4, <2>5 DEF IInv, OneConnectPerRemote
  <2>12. SleepersWillWake'
    BY <2>4, <2>5 DEF IInv, SleepersWillWake
  <2>13. StartedOnce'
    BY <1>a, <1>s, <2>2, <2>3, <2>4, <2>5, <2>6, <2>7 DEF IInv, StartedOnce
  <2>14. Watched'
    <3> SUFFICES ASSUME NEW j \in Remote, table'[j] # None, ~stopped'
                 PROVE  /\ conn'[table'[j]].reader \in {"new", "armed", "framing"}
                        /\ conn'[table'[j]].reader = "new" =>
                              acceptor'.conn = table'[j] \/ \E v \in Worker : Starting'[v] = table'[j]
      BY DEF Watched
    <3>1. CASE j = k
      BY <3>1, <2>2, <2>3, <2>6
    <3>2. CASE j # k
      <4>1. table'[j] = table[j] /\ table[j] \in DOMAIN conn /\ conn'[table[j]] = conn[table[j]]
        BY <3>2, <2>2, <2>3, <1>s
      <4>2. \A v \in Worker : Starting[v] = table[j] => Starting'[v] = table[j]
        BY <4>1, <2>6, <1>a, <1>t, <2>4 DEF Starting
      <4> QED
        BY <4>1, <4>2, <2>4 DEF IInv, Watched
    <3> QED
      BY <3>1, <3>2
  <2>15. GivenUpWhenBroken'
    <3>1. ASSUME NEW d \in DOMAIN conn', ~stopped'
          PROVE  IF conn'[d].reader \in {"new", "armed", "framing"}
                 THEN conn'[d].open /\ conn'[d].socket ELSE ~conn'[d].up
      <4>1. CASE d = i
        BY <4>1, <2>2
      <4>2. CASE d # i
        BY <4>2, <3>1, <2>2, <2>4, <2>5 DEF IInv, GivenUpWhenBroken
      <4> QED
        BY <4>1, <4>2
    <3>2. ASSUME NEW v \in Worker, ~stopped', sender'[v].at = "unregister"
          PROVE  ~conn'[sender'[v].conn].up
      <4>1. v # w /\ sender'[v] = sender[v] /\ sender[v].conn \in DOMAIN conn
        BY <3>2, <2>4, <2>5 DEF IInv, PlacesFit
      <4> QED
        BY <4>1, <3>2, <2>2, <2>4, <2>5 DEF IInv, GivenUpWhenBroken
    <3> QED
      BY <3>1, <3>2 DEF GivenUpWhenBroken
  <2>16. NoneOfOursStays'
    BY <1>a, <1>t, <1>s, <2>1, <2>2, <2>3, <2>4, <2>5, <2>6, <2>7 DEF IInv, NoneOfOursStays
  <2> QED
    BY <2>8, <2>9, <2>10, <2>11, <2>12, <2>13, <2>14, <2>15, <2>16 DEF IInv
<1>23. ASSUME NEW k \in Remote, PeerConnects(k) PROVE IInv'
  <2>1. /\ New(k, TRUE) \in Connection /\ New(k, TRUE).remote = k /\ New(k, TRUE).accepted = TRUE
        /\ New(k, TRUE).reader = "new" /\ New(k, TRUE).open /\ New(k, TRUE).socket
    BY NewTyped
  <2>2. PICK i \in Id :
          /\ i = Len(conn') /\ i \notin DOMAIN conn /\ i <= MaxConns
          /\ conn' \in Seq(Connection) /\ DOMAIN conn' = DOMAIN conn \cup {i}
          /\ conn'[i].remote = k /\ conn'[i].accepted = TRUE /\ conn'[i].reader = "new"
          /\ conn'[i].open /\ conn'[i].socket
          /\ \A d \in DOMAIN conn : conn'[d] = conn[d]
    <3> DEFINE u == Append(conn, New(k, TRUE))
    <3>1. /\ u \in Seq(Connection) /\ Len(u) = Len(conn) + 1
          /\ DOMAIN u = DOMAIN conn \cup {Len(u)}
          /\ Len(u) \notin DOMAIN conn
          /\ u[Len(u)] = New(k, TRUE) /\ \A d \in DOMAIN conn : u[d] = conn[d]
      BY <1>t, <2>1, Appended
    <3>2. conn' = u /\ Len(conn) < MaxConns
      BY <1>23 DEF PeerConnects
    <3> HIDE DEF u
    <3>3. Len(u) \in Id /\ Len(u) <= MaxConns
      BY <1>a, <1>t, <3>1, <3>2 DEF Id
    <3> QED
      BY <2>1, <3>1, <3>2, <3>3
  <2>3. /\ acceptor.at = "armed" /\ acceptor.conn = None
        /\ UNCHANGED <<table, connecting, sender, stopped, stopper, sends>>
        /\ acceptor' = [at |-> "accepted", conn |-> i]
    BY <1>23, <2>2 DEF PeerConnects, IInv, PlacesFit
  <2>4. Starting' = Starting
    BY <2>3 DEF Starting
  <2>5. TypeOK'
    BY <2>1, <2>2, <2>3, <2>4 DEF IInv, TypeOK
  <2>6. PlacesFit'
    BY <1>a, <1>t, <1>s, <2>1, <2>2, <2>3, <2>4 DEF IInv, PlacesFit
  <2>7. ConnectingTrue'
    BY <1>a, <1>t, <1>s, <2>1, <2>2, <2>3, <2>4 DEF IInv, ConnectingTrue
  <2>8. OneConnectPerRemote'
    BY <1>a, <1>t, <1>s, <2>1, <2>2, <2>3, <2>4 DEF IInv, OneConnectPerRemote
  <2>9. SleepersWillWake'
    BY <1>a, <1>t, <1>s, <2>1, <2>2, <2>3, <2>4 DEF IInv, SleepersWillWake
  <2>10. StartedOnce'
    BY <1>a, <1>t, <1>s, <2>1, <2>2, <2>3, <2>4 DEF IInv, StartedOnce
  <2>11. Watched'
    BY <1>a, <1>t, <1>s, <2>1, <2>2, <2>3, <2>4 DEF IInv, Watched
  <2>12. GivenUpWhenBroken'
    <3>1. ASSUME NEW d \in DOMAIN conn', ~stopped'
          PROVE  IF conn'[d].reader \in {"new", "armed", "framing"}
                 THEN conn'[d].open /\ conn'[d].socket ELSE ~conn'[d].up
      <4>1. CASE d = i
        BY <4>1, <2>2
      <4>2. CASE d # i
        BY <4>2, <3>1, <2>2, <2>3 DEF IInv, GivenUpWhenBroken
      <4> QED
        BY <4>1, <4>2
    <3>2. ASSUME NEW v \in Worker, ~stopped', sender'[v].at = "unregister"
          PROVE  ~conn'[sender'[v].conn].up
      <4>1. sender'[v] = sender[v] /\ sender[v].conn \in DOMAIN conn
        BY <3>2, <2>3 DEF IInv, PlacesFit
      <4> QED
        BY <4>1, <3>2, <2>2, <2>3 DEF IInv, GivenUpWhenBroken
    <3> QED
      BY <3>1, <3>2 DEF GivenUpWhenBroken
  <2>13. NoneOfOursStays'
    BY <1>a, <1>t, <1>s, <2>1, <2>2, <2>3, <2>4 DEF IInv, NoneOfOursStays
  <2> QED
    BY <2>5, <2>6, <2>7, <2>8, <2>9, <2>10, <2>11, <2>12, <2>13 DEF IInv
<1>24. ASSUME StopCloses PROVE IInv'
  <2>1. stopped /\ stopper.at = "close" /\ stopper.active \subseteq DOMAIN conn
        /\ UNCHANGED <<table, connecting, sender, acceptor, stopped, sends>>
    BY <1>24 DEF StopCloses, IInv, PlacesFit
  <2>2. /\ stopper'.at \in {"done", "shut", "close"} /\ stopper'.active \subseteq DOMAIN conn
        /\ stopper'.at = "shut" => stopper'.conn \in DOMAIN conn
        /\ stopper' \in [at: {"none", "acceptor", "table", "notify", "close", "shut", "done"},
                        active: SUBSET Id, conn: Id \cup {None}]
    <3>1. CASE stopper' = [stopper EXCEPT !.at = "done"]
      BY <3>1, <1>t, <2>1
    <3>2. ASSUME NEW c \in stopper.active, stopper' = [stopper EXCEPT !.at = "shut", !.conn = c]
          PROVE  /\ stopper'.at = "shut" /\ stopper'.active = stopper.active /\ stopper'.conn = c
                 /\ stopper' \in [at: {"none", "acceptor", "table", "notify", "close", "shut", "done"},
                                 active: SUBSET Id, conn: Id \cup {None}]
      BY <3>2, <1>t, <2>1
    <3>3. ASSUME NEW c \in stopper.active, stopper' = [stopper EXCEPT !.active = @ \ {c}]
          PROVE  /\ stopper'.at = "close" /\ stopper'.active = stopper.active \ {c}
                 /\ stopper' \in [at: {"none", "acceptor", "table", "notify", "close", "shut", "done"},
                                 active: SUBSET Id, conn: Id \cup {None}]
      BY <3>3, <1>t, <2>1
    <3> QED
      BY <1>24, <2>1, <3>1, <3>2, <3>3 DEF StopCloses
  <2>3. /\ conn' \in Seq(Connection) /\ Len(conn') = Len(conn) /\ DOMAIN conn' = DOMAIN conn
        /\ \A d \in DOMAIN conn : /\ conn'[d].remote = conn[d].remote /\ conn'[d].accepted = conn[d].accepted
                                  /\ conn'[d].reader = conn[d].reader
    <3>1. \/ conn' = conn
          \/ \E c \in DOMAIN conn : conn' = [conn EXCEPT ![c] = [conn[c] EXCEPT !.open = FALSE]]
      BY <1>24, <2>1 DEF StopCloses
    <3>2. ASSUME NEW c \in DOMAIN conn, conn' = [conn EXCEPT ![c] = [conn[c] EXCEPT !.open = FALSE]]
          PROVE  /\ conn' \in Seq(Connection) /\ Len(conn') = Len(conn) /\ DOMAIN conn' = DOMAIN conn
                 /\ \A d \in DOMAIN conn : /\ conn'[d].remote = conn[d].remote
                                           /\ conn'[d].accepted = conn[d].accepted
                                           /\ conn'[d].reader = conn[d].reader
      <4> DEFINE r == [conn[c] EXCEPT !.open = FALSE]
      <4>1. /\ r \in Connection /\ r.remote = conn[c].remote /\ r.accepted = conn[c].accepted
            /\ r.reader = conn[c].reader
        BY <1>c DEF Connection
      <4> HIDE DEF r
      <4> QED
        BY <3>2, <4>1, <1>t, Updated DEF r
    <3> QED
      BY <3>1, <3>2, <1>t
  <2>4. Starting' = Starting
    BY <2>1 DEF Starting
  <2>5. TypeOK'
    BY <2>1, <2>2, <2>3, <2>4 DEF IInv, TypeOK
  <2>6. PlacesFit'
    BY <1>a, <1>t, <1>s, <2>1, <2>2, <2>3, <2>4 DEF IInv, PlacesFit
  <2>7. ConnectingTrue'
    BY <1>a, <1>t, <1>s, <2>1, <2>2, <2>3, <2>4 DEF IInv, ConnectingTrue
  <2>8. OneConnectPerRemote'
    BY <1>a, <1>t, <1>s, <2>1, <2>2, <2>3, <2>4 DEF IInv, OneConnectPerRemote
  <2>9. SleepersWillWake'
    BY <1>a, <1>t, <1>s, <2>1, <2>2, <2>3, <2>4 DEF IInv, SleepersWillWake
  <2>10. StartedOnce'
    BY <1>a, <1>t, <1>s, <2>1, <2>2, <2>3, <2>4 DEF IInv, StartedOnce
  <2>11. Watched'
    BY <1>a, <1>t, <1>s, <2>1, <2>2, <2>3, <2>4 DEF IInv, Watched
  <2>12. GivenUpWhenBroken'
    BY <1>a, <1>t, <1>s, <2>1, <2>2, <2>3, <2>4 DEF IInv, GivenUpWhenBroken
  <2>13. NoneOfOursStays'
    BY <1>a, <1>t, <1>s, <2>1, <2>2, <2>3, <2>4 DEF IInv, NoneOfOursStays
  <2> QED
    BY <2>5, <2>6, <2>7, <2>8, <2>9, <2>10, <2>11, <2>12, <2>13 DEF IInv
<1>25. ASSUME StopShuts PROVE IInv'
  <2>1. stopped /\ stopper.at = "shut" /\ stopper.active \subseteq DOMAIN conn /\ stopper.conn \in DOMAIN conn
        /\ UNCHANGED <<table, connecting, sender, acceptor, stopped, sends>>
    BY <1>25 DEF StopShuts, IInv, PlacesFit
  <2>2. stopper' = [at |-> "close", active |-> stopper.active \ {stopper.conn}, conn |-> None]
    BY <1>25 DEF StopShuts
  <2>3. /\ conn' \in Seq(Connection) /\ Len(conn') = Len(conn) /\ DOMAIN conn' = DOMAIN conn
        /\ \A d \in DOMAIN conn : /\ conn'[d].remote = conn[d].remote /\ conn'[d].accepted = conn[d].accepted
                                  /\ conn'[d].reader = conn[d].reader
    <3> DEFINE c == stopper.conn
               r == [conn[c] EXCEPT !.socket = FALSE]
    <3>c. conn[c] \in Connection
      BY <1>c, <2>1
    <3>1. /\ r \in Connection /\ r.remote = conn[c].remote /\ r.accepted = conn[c].accepted
          /\ r.reader = conn[c].reader
      BY <3>c DEF Connection
    <3>2. conn' = [conn EXCEPT ![c] = r]
      BY <1>25 DEF StopShuts
    <3> HIDE DEF r
    <3> QED
      BY <2>1, <3>1, <3>2, <1>t, Updated
  <2>4. Starting' = Starting
    BY <2>1 DEF Starting
  <2>5. TypeOK'
    BY <2>1, <2>2, <2>3, <2>4 DEF IInv, TypeOK
  <2>6. PlacesFit'
    BY <1>a, <1>t, <1>s, <2>1, <2>2, <2>3, <2>4 DEF IInv, PlacesFit
  <2>7. ConnectingTrue'
    BY <1>a, <1>t, <1>s, <2>1, <2>2, <2>3, <2>4 DEF IInv, ConnectingTrue
  <2>8. OneConnectPerRemote'
    BY <1>a, <1>t, <1>s, <2>1, <2>2, <2>3, <2>4 DEF IInv, OneConnectPerRemote
  <2>9. SleepersWillWake'
    BY <1>a, <1>t, <1>s, <2>1, <2>2, <2>3, <2>4 DEF IInv, SleepersWillWake
  <2>10. StartedOnce'
    BY <1>a, <1>t, <1>s, <2>1, <2>2, <2>3, <2>4 DEF IInv, StartedOnce
  <2>11. Watched'
    BY <1>a, <1>t, <1>s, <2>1, <2>2, <2>3, <2>4 DEF IInv, Watched
  <2>12. GivenUpWhenBroken'
    BY <1>a, <1>t, <1>s, <2>1, <2>2, <2>3, <2>4 DEF IInv, GivenUpWhenBroken
  <2>13. NoneOfOursStays'
    BY <1>a, <1>t, <1>s, <2>1, <2>2, <2>3, <2>4 DEF IInv, NoneOfOursStays
  <2> QED
    BY <2>5, <2>6, <2>7, <2>8, <2>9, <2>10, <2>11, <2>12, <2>13 DEF IInv
<1>26. ASSUME NEW w \in Worker, NEW k \in Remote, Send(w, k) PROVE IInv'
  BY <1>26, <1>2, TransportAssumption DEF Send, IInv, TypeOK
<1>27. ASSUME NEW w \in Worker, LooksAgain(w) PROVE IInv'
  <2>1. sender[w].dest \in Remote /\ sends \in 0 .. MaxSends
    BY <1>27 DEF LooksAgain, IInv, PlacesFit, TypeOK
  <2> QED
    BY <1>27, <2>1, <1>2 DEF LooksAgain
<1>28. ASSUME NEW w \in Worker, ConnectFails(w) PROVE IInv'
  BY <1>28, <1>3 DEF ConnectFails
<1>29. ASSUME NEW w \in Worker, Connected(w) PROVE IInv'
  <2>1. sender[w].at = "connect" /\ sender[w].dest \in Remote
    BY <1>29 DEF Connected, IInv, PlacesFit
  <2>2. CASE stopped /\ Notifying(w, None, "idle") /\ UNCHANGED <<table, conn>>
    BY <1>29, <2>1, <2>2, <1>3 DEF Connected
  <2>3. CASE /\ table[sender[w].dest] # None /\ Notifying(w, table[sender[w].dest], "have")
             /\ UNCHANGED <<table, conn>>
    <3>1. table[sender[w].dest] \in DOMAIN conn
      BY <2>1, <2>3 DEF IInv, PlacesFit
    <3> QED
      BY <1>29, <2>1, <2>3, <3>1, <1>3 DEF Connected
  <2>4. CASE ~stopped /\ table[sender[w].dest] = None
    BY <1>29, <2>1, <2>4, <1>22 DEF Connected
  <2> QED
    BY <1>29, <2>2, <2>3, <2>4 DEF Connected
<1>30. ASSUME NEW c \in DOMAIN conn, Reads(c) PROVE IInv'
  BY <1>30, <1>14 DEF Reads
<1> QED
  BY <1>1, <1>2, <1>3, <1>4, <1>5, <1>6, <1>7, <1>8, <1>9, <1>10, <1>11, <1>12, <1>13, <1>14,
     <1>15, <1>16, <1>17, <1>18, <1>19, <1>20, <1>21, <1>22, <1>23, <1>24, <1>25, <1>26, <1>27,
     <1>28, <1>29, <1>30 DEF Next, SenderStep, ReaderStep, AcceptorStep, StopperStep

-----------------------------------------------------------------------------
(* Cutting the stream into messages. *)

\* The units of a connection fit the cut: what has been delivered is the first
\* messages, and the buffer holds what has been read since the end of the last one.
Fits(cut, r) ==
    LET n == Len(r.delivered) IN
    /\ n <= Len(Stream) /\ n <= cut[n] /\ cut[n] <= r.taken
    /\ \A i \in 1 .. n : r.delivered[i] = MessageNumber(i)
    /\ r.buffer = SubSeq(Stream, cut[n] + 1, r.taken)
    /\ r.reader = "new" => r.taken = 0
    /\ r.reader = "armed" => ~Extractable(r.buffer)

UnitsFit(cut) == \A c \in DOMAIN conn : Fits(cut, conn[c])

Cut == [0 .. Len(Stream) + 1 -> 0 .. Len(Stream)]

\* A part of the stream.
LEMMA Part ==
    ASSUME NEW a \in Nat, NEW t \in Nat, a <= t, t <= Len(Stream)
    PROVE  LET part == SubSeq(Stream, a + 1, t) IN
           /\ part \in Seq(Unit) /\ Len(part) = t - a
           /\ \A j \in 1 .. t - a : part[j] = Stream[a + j]
<1>1. Stream \in Seq(Unit) /\ Len(Stream) \in Nat
  BY TransportAssumption, LenProperties
<1>2. \A i \in a + 1 .. t : Stream[i] \in Unit
  BY <1>1, ElementOfSeq
<1>3. /\ SubSeq(Stream, a + 1, t) \in Seq(Unit)
      /\ Len(SubSeq(Stream, a + 1, t)) = IF a + 1 <= t THEN t - (a + 1) + 1 ELSE 0
      /\ \A i \in 1 .. t - (a + 1) + 1 : SubSeq(Stream, a + 1, t)[i] = Stream[a + 1 + i - 1]
  BY <1>1, <1>2, SubSeqProperties
<1> QED
  BY <1>3

LEMMA PartOfPart ==
    ASSUME NEW a \in Nat, NEW t \in Nat, a <= t, t <= Len(Stream),
           NEW x \in Nat, NEW y \in Nat, x <= y, y <= t - a,
           NEW i, i = x + 1, NEW u, u = a + x + 1, NEW v, v = a + y
    PROVE  SubSeq(SubSeq(Stream, a + 1, t), i, y) = SubSeq(Stream, u, v)
<1> DEFINE whole == SubSeq(Stream, a + 1, t)
           left == SubSeq(whole, x + 1, y)
           right == SubSeq(Stream, a + x + 1, a + y)
<1>l. Len(Stream) \in Nat
  BY TransportAssumption, LenProperties
<1>1. /\ whole \in Seq(Unit) /\ Len(whole) = t - a
      /\ \A j \in 1 .. t - a : whole[j] = Stream[a + j]
  BY Part
<1>2. /\ right \in Seq(Unit) /\ Len(right) = y - x
      /\ \A j \in 1 .. y - x : right[j] = Stream[a + x + j]
  <2>1. a + x \in Nat /\ a + y \in Nat /\ a + x <= a + y /\ a + y <= Len(Stream)
        /\ (a + y) - (a + x) = y - x
    BY <1>l
  <2> QED
    BY <2>1, Part
<1> HIDE DEF whole
<1>3. \A k \in x + 1 .. y : whole[k] \in Unit
  BY <1>1, ElementOfSeq
<1>4. /\ left \in Seq(Unit) /\ Len(left) = IF x + 1 <= y THEN y - (x + 1) + 1 ELSE 0
      /\ \A k \in 1 .. y - (x + 1) + 1 : left[k] = whole[x + 1 + k - 1]
  BY <1>3, SubSeqProperties
<1> HIDE DEF left, right
<1>5. Len(left) = y - x
  BY <1>4
<1>6. ASSUME NEW k \in 1 .. Len(left) PROVE left[k] = right[k]
  <2>1. k \in 1 .. y - (x + 1) + 1 /\ k \in 1 .. y - x /\ x + k \in 1 .. t - a
    BY <1>5
  <2>2. left[k] = whole[x + k]
    <3>1. left[k] = whole[x + 1 + k - 1] /\ x + 1 + k - 1 = x + k
      BY <1>4, <2>1
    <3> QED
      BY <3>1
  <2>3. right[k] = Stream[a + x + k] /\ whole[x + k] = Stream[a + (x + k)]
    BY <1>1, <1>2, <2>1
  <2>4. a + x + k = a + (x + k)
    BY <2>1
  <2> QED
    BY <2>2, <2>3, <2>4
<1>7. left = right
  BY <1>2, <1>4, <1>5, <1>6, SeqEqual
<1> QED
  BY <1>7 DEF left, right, whole

\* A header ends at its first empty line, so what begins with a message does not
\* begin with a longer or a shorter one.
LEMMA OneMessage ==
    ASSUME NEW p \in Seq(Unit), NEW q \in Seq(Unit), NEW m \in 1 .. Len(p), NEW n \in 1 .. Len(q),
           \A j \in 1 .. Len(p) : j <= Len(q) => p[j] = q[j],
           IsMessage(p, m), IsMessage(q, n)
    PROVE  m = n
<1>l. Len(p) \in Nat /\ Len(q) \in Nat
  BY LenProperties
<1>1. PICK i \in 1 .. m : HeaderEnds(p, i) /\ m = i + p[i].length
  BY DEF IsMessage
<1>2. PICK k \in 1 .. n : HeaderEnds(q, k) /\ n = k + q[k].length
  BY DEF IsMessage
<1>3. i <= k
  <2> SUFFICES ASSUME k < i PROVE FALSE
    BY <1>l
  <2> QED
    BY <1>l, <1>1, <1>2 DEF HeaderEnds
<1>4. k <= i
  <2> SUFFICES ASSUME i < k PROVE FALSE
    BY <1>l
  <2> QED
    BY <1>l, <1>1, <1>2 DEF HeaderEnds
<1>5. i = k /\ p[i] = q[i]
  BY <1>l, <1>3, <1>4
<1> QED
  BY <1>1, <1>2, <1>5

\* What has been read since the end of message n is as much of message n + 1 as has
\* been read and what comes after it.
LEMMA NextMessage ==
    ASSUME NEW cut \in Cut, Cuts(cut), NEW n \in 0 .. Len(Stream), NEW t \in Nat,
           cut[n] <= t, t <= Len(Stream)
    PROVE  LET message == MessageNumber(n + 1)
               read == SubSeq(Stream, cut[n] + 1, t) IN
           /\ message \in Seq(Unit) /\ read \in Seq(Unit)
           /\ cut[n] \in Nat /\ cut[n + 1] \in Nat /\ cut[n + 1] <= Len(Stream)
           /\ Len(message) = cut[n + 1] - cut[n] /\ Len(read) = t - cut[n]
           /\ \A j \in 1 .. Len(read) : j <= Len(message) => read[j] = message[j]
           /\ message = SubSeq(Stream, cut[n] + 1, cut[n + 1])
           /\ cut[n] <= cut[n + 1]
           /\ IF cut[n] = cut[n + 1] THEN message = <<>> /\ Len(read) = 0
              ELSE IsMessage(message, Len(message))
<1> DEFINE message == MessageNumber(n + 1)
           read == SubSeq(Stream, cut[n] + 1, t)
<1>l. Len(Stream) \in Nat
  BY TransportAssumption, LenProperties
<1>1. cut[n] \in Nat /\ cut[n + 1] \in Nat /\ cut[n + 1] <= Len(Stream)
  BY <1>l DEF Cut
<1>2. /\ cut[n] <= cut[n + 1] /\ message = SubSeq(Stream, cut[n] + 1, cut[n + 1])
      /\ IF message = <<>> THEN cut[n + 1] = Len(Stream) ELSE IsMessage(message, Len(message))
  <2>1. n + 1 \in 1 .. Len(Stream) + 1 /\ (n + 1) - 1 = n
    BY <1>l
  <2> QED
    BY <2>1 DEF Cuts
<1>3. /\ message \in Seq(Unit) /\ Len(message) = cut[n + 1] - cut[n]
      /\ \A j \in 1 .. cut[n + 1] - cut[n] : message[j] = Stream[cut[n] + j]
  <2> HIDE DEF message
  <2> QED
    BY <1>1, <1>2, Part
<1>4. /\ read \in Seq(Unit) /\ Len(read) = t - cut[n]
      /\ \A j \in 1 .. t - cut[n] : read[j] = Stream[cut[n] + j]
  BY <1>1, Part
<1>5. message = <<>> <=> cut[n] = cut[n + 1]
  BY <1>1, <1>3, EmptySeq, LenProperties
<1> HIDE DEF message, read
<1>6. \A j \in 1 .. Len(read) : j <= Len(message) => read[j] = message[j]
  BY <1>1, <1>3, <1>4
<1>7. cut[n] = cut[n + 1] => Len(read) = 0
  BY <1>1, <1>2, <1>4, <1>5
<1> QED
  BY <1>1, <1>2, <1>3, <1>4, <1>5, <1>6, <1>7 DEF message, read

\* tryExtractSipMessage finds the next message, and the whole of it.
LEMMA ExtractsNext ==
    ASSUME NEW cut \in Cut, Cuts(cut), NEW n \in 0 .. Len(Stream), NEW t \in Nat,
           cut[n] <= t, t <= Len(Stream), NEW m \in 1 .. Len(SubSeq(Stream, cut[n] + 1, t)),
           IsMessage(SubSeq(Stream, cut[n] + 1, t), m)
    PROVE  LET read == SubSeq(Stream, cut[n] + 1, t) IN
           /\ cut[n] < cut[n + 1] /\ cut[n + 1] <= t
           /\ SubSeq(read, 1, m) = MessageNumber(n + 1)
           /\ SubSeq(read, m + 1, Len(read)) = SubSeq(Stream, cut[n + 1] + 1, t)
<1> DEFINE message == MessageNumber(n + 1)
           read == SubSeq(Stream, cut[n] + 1, t)
           a == cut[n]
           b == cut[n + 1]
<1>1. /\ message \in Seq(Unit) /\ read \in Seq(Unit)
      /\ \A j \in 1 .. Len(read) : j <= Len(message) => read[j] = message[j]
  BY NextMessage
<1>2. /\ a \in Nat /\ b \in Nat /\ a <= b /\ b <= Len(Stream)
      /\ Len(message) = b - a /\ Len(read) = t - a
      /\ message = SubSeq(Stream, a + 1, b) /\ read = SubSeq(Stream, a + 1, t)
  BY NextMessage
<1>3. a = b => Len(read) = 0
  BY NextMessage
<1>4. a # b => IsMessage(message, Len(message))
  BY NextMessage
<1>5. m \in 1 .. Len(read) /\ IsMessage(read, m) /\ a <= t
  OBVIOUS
<1> HIDE DEF message, read, a, b
<1>6. a < b /\ Len(message) \in 1 .. Len(message)
  BY <1>2, <1>3, <1>5
<1>7. m = Len(message)
  <2>1. IsMessage(message, Len(message))
    BY <1>2, <1>4, <1>6
  <2> DEFINE k == Len(message)
  <2>2. k \in 1 .. Len(message) /\ IsMessage(message, k)
    BY <1>6, <2>1
  <2> HIDE DEF k
  <2>3. m = k
    BY <1>1, <1>5, <2>2, OneMessage
  <2> QED
    BY <2>3 DEF k
<1>8. m \in Nat /\ m = b - a /\ b <= t
  BY <1>2, <1>5, <1>7
<1>9. SubSeq(read, 1, m) = message
  <2>1. /\ 0 \in Nat /\ 0 <= m /\ m <= t - a
        /\ 1 = 0 + 1 /\ a + 1 = a + 0 + 1 /\ b = a + m
    BY <1>2, <1>8
  <2> QED
    BY <1>2, <1>5, <1>8, <2>1, PartOfPart
<1>10. SubSeq(read, m + 1, Len(read)) = SubSeq(Stream, b + 1, t)
  <2>1. /\ t - a \in Nat /\ m <= t - a
        /\ b + 1 = a + m + 1 /\ t = a + (t - a)
    BY <1>2, <1>5, <1>8
  <2>2. SubSeq(read, m + 1, t - a) = SubSeq(Stream, b + 1, t)
    BY <1>2, <1>5, <1>8, <2>1, PartOfPart
  <2> QED
    BY <1>2, <2>2
<1>11. a < b /\ b <= t /\ SubSeq(read, 1, m) = message
       /\ SubSeq(read, m + 1, Len(read)) = SubSeq(Stream, b + 1, t)
  BY <1>6, <1>8, <1>9, <1>10
<1> QED
  BY <1>11 DEF message, read, a, b

\* A message that is complete is found, so none is kept back.
LEMMA NothingKeptBack ==
    ASSUME NEW cut \in Cut, Cuts(cut), NEW n \in 0 .. Len(Stream), NEW t \in Nat,
           cut[n] <= t, t <= Len(Stream), ~Extractable(SubSeq(Stream, cut[n] + 1, t))
    PROVE  \/ MessageNumber(n + 1) = <<>>
           \/ Len(SubSeq(Stream, cut[n] + 1, t)) < Len(MessageNumber(n + 1))
<1> DEFINE message == MessageNumber(n + 1)
           read == SubSeq(Stream, cut[n] + 1, t)
<1>1. /\ message \in Seq(Unit) /\ read \in Seq(Unit)
      /\ \A j \in 1 .. Len(read) : j <= Len(message) => read[j] = message[j]
      /\ message # <<>> => IsMessage(message, Len(message))
  BY NextMessage
<1> SUFFICES ASSUME message # <<>>, ~(Len(read) < Len(message)) PROVE Extractable(read)
  OBVIOUS
<1> HIDE DEF message, read
<1>2. Len(message) \in Nat /\ Len(read) \in Nat /\ Len(message) <= Len(read)
  BY <1>1, LenProperties
<1>3. PICK i \in 1 .. Len(message) : HeaderEnds(message, i) /\ Len(message) = i + message[i].length
  BY <1>1 DEF IsMessage
<1>4. \A j \in 1 .. Len(message) : read[j] = message[j]
  BY <1>1, <1>2
<1>5. HeaderEnds(read, i) /\ Len(message) = i + read[i].length
  BY <1>2, <1>3, <1>4 DEF HeaderEnds
<1>6. Len(message) \in 1 .. Len(read) /\ IsMessage(read, Len(message))
  BY <1>2, <1>3, <1>5 DEF IsMessage
<1> QED
  BY <1>6 DEF Extractable

\* A connection from which nothing has been read fits.
LEMMA NothingReadFits ==
    ASSUME NEW cut \in Cut, Cuts(cut), NEW r,
           r.taken = 0, r.buffer = <<>>, r.delivered = <<>>
    PROVE  Fits(cut, r)
<1>1. Len(Stream) \in Nat /\ Len(r.delivered) = 0 /\ Len(r.buffer) = 0 /\ cut[0] = 0
  BY TransportAssumption, LenProperties DEF Cuts
<1>2. SubSeq(Stream, 0 + 1, 0) = <<>>
  BY SubSeqEmpty
<1> QED
  BY <1>1, <1>2 DEF Fits, Extractable

\* A connection that keeps its units goes on fitting, unless its reader waits.
LEMMA SameUnitsFit ==
    ASSUME NEW cut \in Cut, NEW s, NEW r, Fits(cut, s),
           r.taken = s.taken, r.buffer = s.buffer, r.delivered = s.delivered,
           r.reader \in {s.reader, "framing", "closing", "shutting", "ended"}
    PROVE  Fits(cut, r)
BY DEF Fits

\* Reads: what comes continues what has been read.
LEMMA ReadFits ==
    ASSUME NEW cut \in Cut, Cuts(cut), NEW s \in Connection, Fits(cut, s),
           NEW t \in s.taken + 1 .. Len(Stream), NEW r,
           r.taken = t, r.buffer = s.buffer \o SubSeq(Stream, s.taken + 1, t),
           r.delivered = s.delivered, r.reader = "framing"
    PROVE  Fits(cut, r)
<1> DEFINE n == Len(s.delivered)
<1>1. n \in Nat /\ n <= Len(Stream) /\ s.taken \in Nat /\ Stream \in Seq(Unit) /\ Len(Stream) \in Nat
      /\ cut[n] \in Nat /\ cut[n] <= s.taken
  <2>1. n \in Nat /\ s.taken \in Nat /\ Len(Stream) \in Nat /\ Stream \in Seq(Unit)
    BY TransportAssumption, LenProperties DEF Connection
  <2>2. n <= Len(Stream) /\ cut[n] <= s.taken
    BY DEF Fits
  <2> QED
    BY <2>1, <2>2 DEF Cut
<1>2. s.buffer = SubSeq(Stream, cut[n] + 1, s.taken)
  BY DEF Fits
<1>3. /\ cut[n] + 1 \in 1 .. Len(Stream) + 1 /\ s.taken \in (cut[n] + 1) - 1 .. Len(Stream)
      /\ t \in s.taken .. Len(Stream)
  <2> DEFINE a == cut[n]
  <2>1. a \in Nat /\ a <= s.taken
    BY <1>1
  <2>2. s.taken <= t /\ t <= Len(Stream) /\ t \in Int
    BY <1>1
  <2> HIDE DEF a, n
  <2>3. a + 1 \in 1 .. Len(Stream) + 1 /\ s.taken \in (a + 1) - 1 .. Len(Stream)
    BY <1>1, <2>1, <2>2
  <2> QED
    BY <1>1, <2>2, <2>3 DEF a
<1>4. r.buffer = SubSeq(Stream, cut[n] + 1, t)
  BY <1>1, <1>2, <1>3, ConcatAdjacentSubSeq
<1>5. n <= cut[n] /\ cut[n] <= t /\ \A i \in 1 .. n : s.delivered[i] = MessageNumber(i)
  <2>1. n <= cut[n] /\ \A i \in 1 .. n : s.delivered[i] = MessageNumber(i)
    BY DEF Fits
  <2> QED
    BY <2>1, <1>1
<1>6. Len(r.delivered) = n
  OBVIOUS
<1> HIDE DEF n
<1> QED
  BY <1>1, <1>4, <1>5, <1>6 DEF Fits

\* Frames: the message that is extracted is the next one.
LEMMA ExtractedFits ==
    ASSUME NEW cut \in Cut, Cuts(cut), NEW c \in DOMAIN conn, conn[c] \in Connection,
           Fits(cut, conn[c]), conn[c].reader = "framing", Extractable(conn[c].buffer)
    PROVE  Fits(cut, Extracted(c))
<1> DEFINE s == conn[c]
           n == Len(s.delivered)
           m == CHOOSE m \in 1 .. Len(s.buffer) : IsMessage(s.buffer, m)
           piece == SubSeq(s.buffer, 1, m)
           rest == SubSeq(s.buffer, m + 1, Len(s.buffer))
           r == Extracted(c)
<1>1. n \in Nat /\ s.taken \in 0 .. Len(Stream) /\ Len(Stream) \in Nat /\ s.delivered \in Seq(Seq(Unit))
      /\ s.buffer \in Seq(Unit)
  BY TransportAssumption, LenProperties DEF Connection
<1>2. /\ n <= Len(Stream) /\ n <= cut[n] /\ cut[n] <= s.taken
      /\ \A i \in 1 .. n : s.delivered[i] = MessageNumber(i)
      /\ s.buffer = SubSeq(Stream, cut[n] + 1, s.taken)
  BY DEF Fits
<1>3. m \in 1 .. Len(s.buffer) /\ IsMessage(s.buffer, m)
  BY DEF Extractable
<1>4. /\ r.buffer = rest /\ r.delivered = Append(s.delivered, piece)
      /\ r.taken = s.taken /\ r.reader = "framing"
  BY DEF Extracted, Connection
<1> HIDE DEF r, m
<1>5. /\ cut[n] < cut[n + 1] /\ cut[n + 1] <= s.taken
      /\ piece = MessageNumber(n + 1) /\ rest = SubSeq(Stream, cut[n + 1] + 1, s.taken)
  <2>1. n \in 0 .. Len(Stream) /\ s.taken \in Nat /\ s.taken <= Len(Stream)
    BY <1>1, <1>2
  <2>2. /\ m \in 1 .. Len(SubSeq(Stream, cut[n] + 1, s.taken))
        /\ IsMessage(SubSeq(Stream, cut[n] + 1, s.taken), m)
    BY <1>2, <1>3
  <2> DEFINE read == SubSeq(Stream, cut[n] + 1, s.taken)
  <2>3. /\ cut[n] < cut[n + 1] /\ cut[n + 1] <= s.taken
        /\ SubSeq(read, 1, m) = MessageNumber(n + 1)
        /\ SubSeq(read, m + 1, Len(read)) = SubSeq(Stream, cut[n + 1] + 1, s.taken)
    BY <1>2, <2>1, <2>2, ExtractsNext
  <2> QED
    BY <1>2, <2>3
<1>6. piece \in Seq(Unit) /\ cut[n] \in Nat /\ cut[n + 1] \in Nat
  <2>1. n \in 0 .. Len(Stream) + 1 /\ n + 1 \in 0 .. Len(Stream) + 1
    BY <1>1, <1>2
  <2> QED
    BY <1>1, <1>3, <2>1, ExtractTyped DEF Cut
<1> HIDE DEF s, n, piece, rest
<1>7. Len(r.delivered) = n + 1 /\ \A i \in 1 .. n + 1 : r.delivered[i] = MessageNumber(i)
  <2>1. /\ Len(r.delivered) = n + 1 /\ r.delivered[n + 1] = piece
        /\ \A i \in 1 .. n : r.delivered[i] = s.delivered[i]
    BY <1>1, <1>4, <1>6, AppendProperties DEF n
  <2>2. ASSUME NEW i \in 1 .. n + 1 PROVE r.delivered[i] = MessageNumber(i)
    <3>1. CASE i = n + 1
      BY <1>5, <2>1, <3>1
    <3>2. CASE i \in 1 .. n
      BY <1>2, <2>1, <3>2
    <3> QED
      BY <1>1, <3>1, <3>2
  <2> QED
    BY <2>1, <2>2
<1>8. n + 1 <= Len(Stream) /\ n + 1 <= cut[n + 1]
  BY <1>1, <1>2, <1>5, <1>6
<1> QED
  BY <1>4, <1>5, <1>7, <1>8 DEF Fits, r

\* doRead: the next read waits when nothing can be extracted.
LEMMA DoReadFits ==
    ASSUME NEW cut \in Cut, Cuts(cut), NEW c \in DOMAIN conn, conn[c] \in Connection,
           Fits(cut, conn[c]),
           \/ conn[c].reader = "new"
           \/ conn[c].reader = "framing" /\ ~Extractable(conn[c].buffer)
    PROVE  Fits(cut, DoRead(c))
<1> DEFINE r == DoRead(c)
<1>1. CASE ~Usable(c)
  <2>1. r.taken = 0 /\ r.buffer = <<>> /\ r.delivered = <<>>
    BY <1>1 DEF DoRead, Unread, Connection
  <2> HIDE DEF r
  <2>2. Fits(cut, r)
    BY <2>1, NothingReadFits
  <2> QED
    BY <2>2 DEF r
<1>2. CASE Usable(c)
  <2>1. /\ r.taken = conn[c].taken /\ r.buffer = conn[c].buffer /\ r.delivered = conn[c].delivered
        /\ r.reader = "armed"
    BY <1>2 DEF DoRead, Connection
  <2>2. ~Extractable(conn[c].buffer)
    <3>1. ASSUME conn[c].reader = "new" PROVE conn[c].buffer = <<>>
      <4> DEFINE n == Len(conn[c].delivered)
      <4>1. n \in Nat /\ Len(Stream) \in Nat
        BY TransportAssumption, LenProperties DEF Connection
      <4>2. n <= Len(Stream) /\ cut[n] <= 0 /\ conn[c].buffer = SubSeq(Stream, cut[n] + 1, 0)
        BY <3>1 DEF Fits
      <4>3. cut[n] = 0
        BY <4>1, <4>2 DEF Cut
      <4> QED
        BY <4>2, <4>3, SubSeqEmpty
    <3>2. Len(<<>>) = 0
      OBVIOUS
    <3>3. ~Extractable(<<>>)
      BY <3>2 DEF Extractable
    <3> QED
      BY <3>1, <3>3
  <2> HIDE DEF r
  <2>3. Fits(cut, r)
    BY <2>1, <2>2 DEF Fits
  <2> QED
    BY <2>3 DEF r
<1> QED
  BY <1>1, <1>2

LEMMA InitUnits ==
    ASSUME NEW cut
    PROVE  Init => UnitsFit(cut)
BY DEF Init, UnitsFit

\* Every step keeps the units fitting.
LEMMA StepUnits ==
    ASSUME NEW cut \in Cut, Cuts(cut)
    PROVE  IInv /\ UnitsFit(cut) /\ [Next]_vars => UnitsFit(cut)'
<1> SUFFICES ASSUME IInv, UnitsFit(cut), [Next]_vars PROVE UnitsFit(cut)'
  OBVIOUS
<1>t. conn \in Seq(Connection) /\ \A c \in DOMAIN conn : conn[c] \in Connection /\ Fits(cut, conn[c])
  <2>1. conn \in Seq(Connection) /\ DOMAIN conn = 1 .. Len(conn)
    BY LenProperties DEF IInv, TypeOK
  <2> QED
    BY <2>1, ElementOfSeq DEF UnitsFit
<1>1. CASE UNCHANGED conn
  BY <1>1 DEF UnitsFit
<1>2. ASSUME NEW c \in DOMAIN conn, NEW r \in Connection, Fits(cut, r), conn' = [conn EXCEPT ![c] = r]
      PROVE  UnitsFit(cut)'
  <2>1. DOMAIN conn' = DOMAIN conn /\ \A d \in DOMAIN conn : conn'[d] = IF d = c THEN r ELSE conn[d]
    BY <1>2, <1>t, Updated
  <2> QED
    BY <2>1, <1>2, <1>t DEF UnitsFit
<1>3. ASSUME NEW k \in Remote, NEW accepted \in BOOLEAN, conn' = Append(conn, New(k, accepted))
      PROVE  UnitsFit(cut)'
  <2> DEFINE r == New(k, accepted)
  <2>1. r \in Connection
    BY NewTyped
  <2>2. r.taken = 0 /\ r.buffer = <<>> /\ r.delivered = <<>>
    BY DEF New
  <2> HIDE DEF r
  <2>3. Fits(cut, r)
    BY <2>2, NothingReadFits
  <2>4. conn' = Append(conn, r)
    BY <1>3 DEF r
  <2>5. \A d \in DOMAIN conn' : conn'[d] = r \/ (d \in DOMAIN conn /\ conn'[d] = conn[d])
    BY <2>1, <2>4, <1>t, Appended
  <2> QED
    BY <2>3, <2>5, <1>t DEF UnitsFit
\* A connection of which only flags change.
<1>4. ASSUME NEW c \in DOMAIN conn, NEW r \in Connection,
             r.taken = conn[c].taken, r.buffer = conn[c].buffer, r.delivered = conn[c].delivered,
             r.reader \in {conn[c].reader, "framing", "closing", "shutting", "ended"},
             conn' = [conn EXCEPT ![c] = r]
      PROVE  UnitsFit(cut)'
  <2>1. Fits(cut, r)
    BY <1>4, <1>t, SameUnitsFit
  <2> QED
    BY <1>4, <2>1, <1>2
<1>5. ASSUME NEW c \in DOMAIN conn, Reads(c) PROVE UnitsFit(cut)'
  <2>1. PICK n \in conn[c].taken + 1 .. Len(Incoming(c)) :
          conn' = [conn EXCEPT ![c] =
              [conn[c] EXCEPT !.reader = "framing", !.taken = n,
                              !.buffer = @ \o SubSeq(Stream, conn[c].taken + 1, n)]]
    BY <1>5 DEF Reads
  <2>2. n \in conn[c].taken + 1 .. Len(Stream)
    <3>1. conn[c].taken \in Nat /\ Len(<<>>) = 0
      BY <1>t DEF Connection
    <3> QED
      BY <3>1 DEF Incoming
  <2> DEFINE more == conn[c].buffer \o SubSeq(Stream, conn[c].taken + 1, n)
             r == [conn[c] EXCEPT !.reader = "framing", !.taken = n, !.buffer = more]
  <2>3. more \in Seq(Unit) /\ n \in 0 .. Len(Stream)
    BY <1>t, <2>2, ReadTyped
  <2>4. conn' = [conn EXCEPT ![c] = r]
    BY <2>1
  <2> HIDE DEF more
  <2>5. /\ r \in Connection /\ r.taken = n /\ r.buffer = more /\ r.delivered = conn[c].delivered
        /\ r.reader = "framing"
    BY <1>t, <2>3 DEF Connection
  <2> HIDE DEF r
  <2>6. Fits(cut, r)
    BY <1>t, <2>2, <2>5, ReadFits DEF more
  <2> QED
    BY <2>4, <2>5, <2>6, <1>2
<1>6. ASSUME NEW c \in DOMAIN conn, Frames(c) PROVE UnitsFit(cut)'
  <2>1. conn[c].reader = "framing" /\ conn[c] \in Connection /\ Fits(cut, conn[c])
    BY <1>6, <1>t DEF Frames
  <2>2. CASE Extractable(conn[c].buffer)
    <3>1. conn' = [conn EXCEPT ![c] = Extracted(c)]
      BY <1>6, <2>2 DEF Frames
    <3> QED
      BY <2>1, <2>2, <3>1, <1>2, ExtractedTyped, ExtractedFits
  <2>3. CASE ~Extractable(conn[c].buffer)
    <3>1. conn' = [conn EXCEPT ![c] = DoRead(c)]
      BY <1>6, <2>3 DEF Frames
    <3> QED
      BY <2>1, <2>3, <3>1, <1>2, DoReadTyped, DoReadFits
  <2> QED
    BY <2>2, <2>3
<1>7. ASSUME NEW c \in DOMAIN conn, ReadFails(c) PROVE UnitsFit(cut)'
  <2> DEFINE r == Unread(c, "closing")
  <2>1. r \in Connection
    BY <1>t, UnreadTyped
  <2>2. r.taken = 0 /\ r.buffer = <<>> /\ r.delivered = <<>>
    BY <1>t DEF Unread, Connection
  <2>3. conn' = [conn EXCEPT ![c] = r]
    BY <1>7 DEF ReadFails
  <2> HIDE DEF r
  <2> QED
    BY <2>1, <2>2, <2>3, <1>2, NothingReadFits
<1>8. ASSUME NEW c \in DOMAIN conn, Closes(c) PROVE UnitsFit(cut)'
  <2> DEFINE next == IF conn[c].open THEN "shutting" ELSE "ended"
             r == [conn[c] EXCEPT !.reader = next, !.open = FALSE]
  <2>1. next \in {"shutting", "ended"} /\ conn' = [conn EXCEPT ![c] = r]
    BY <1>8 DEF Closes
  <2> HIDE DEF next
  <2>2. /\ r \in Connection /\ r.taken = conn[c].taken /\ r.buffer = conn[c].buffer
        /\ r.delivered = conn[c].delivered /\ r.reader = next
    BY <1>t, <2>1 DEF Connection
  <2> HIDE DEF r
  <2> QED
    BY <2>1, <2>2, <1>4
<1>9. ASSUME NEW c \in DOMAIN conn, Shuts(c) PROVE UnitsFit(cut)'
  <2> DEFINE r == [conn[c] EXCEPT !.reader = "ended", !.socket = FALSE]
  <2>1. conn' = [conn EXCEPT ![c] = r]
    BY <1>9 DEF Shuts
  <2>2. /\ r \in Connection /\ r.taken = conn[c].taken /\ r.buffer = conn[c].buffer
        /\ r.delivered = conn[c].delivered /\ r.reader = "ended"
    BY <1>t DEF Connection
  <2> HIDE DEF r
  <2> QED
    BY <2>1, <2>2, <1>4
<1>10. ASSUME NEW c \in DOMAIN conn, PeerGoes(c) PROVE UnitsFit(cut)'
  <2> DEFINE r == [conn[c] EXCEPT !.up = FALSE]
  <2>1. conn' = [conn EXCEPT ![c] = r]
    BY <1>10 DEF PeerGoes
  <2>2. /\ r \in Connection /\ r.taken = conn[c].taken /\ r.buffer = conn[c].buffer
        /\ r.delivered = conn[c].delivered /\ r.reader = conn[c].reader
    BY <1>t DEF Connection
  <2> HIDE DEF r
  <2> QED
    BY <2>1, <2>2, <1>4
<1>11. ASSUME NEW w \in Worker, Connected(w) PROVE UnitsFit(cut)'
  <2>1. sender[w].dest \in Remote
    BY <1>11 DEF Connected, IInv, PlacesFit
  <2> QED
    BY <1>11, <2>1, <1>1, <1>3 DEF Connected
<1>12. ASSUME NEW w \in Worker, Starts(w) PROVE UnitsFit(cut)'
  <2> DEFINE c == sender[w].conn
  <2>1. c \in DOMAIN conn /\ conn[c].reader = "new"
    <3>1. c \in DOMAIN conn /\ Starting[w] = c
      BY <1>12 DEF Starts, IInv, PlacesFit, Starting
    <3>2. c # None
      BY <3>1, <1>t, LenProperties, TransportAssumption
    <3> QED
      BY <3>1, <3>2 DEF IInv, StartedOnce
  <2>2. conn' = [conn EXCEPT ![c] = DoRead(c)]
    BY <1>12 DEF Starts
  <2> HIDE DEF c
  <2> QED
    BY <2>1, <2>2, <1>t, <1>2, DoReadTyped, DoReadFits
<1>13. ASSUME AcceptsNext PROVE UnitsFit(cut)'
  <2> DEFINE c == acceptor.conn
  <2>1. c \in DOMAIN conn
    BY <1>13 DEF AcceptsNext, IInv, PlacesFit
  <2>2. conn[c].reader = "new"
    <3>1. c # None
      BY <2>1, <1>t, LenProperties, TransportAssumption
    <3> QED
      BY <3>1 DEF IInv, StartedOnce
  <2>3. conn' = [conn EXCEPT ![c] = DoRead(c)]
    BY <1>13 DEF AcceptsNext
  <2> HIDE DEF c
  <2> QED
    BY <2>1, <2>2, <2>3, <1>t, <1>2, DoReadTyped, DoReadFits
<1>14. ASSUME NEW k \in Remote, PeerConnects(k) PROVE UnitsFit(cut)'
  BY <1>14, <1>3 DEF PeerConnects
<1>15. ASSUME StopCloses PROVE UnitsFit(cut)'
  <2>1. CASE UNCHANGED conn
    BY <2>1, <1>1
  <2>2. ASSUME NEW c \in stopper.active, conn' = [conn EXCEPT ![c].open = FALSE]
        PROVE  UnitsFit(cut)'
    <3> DEFINE r == [conn[c] EXCEPT !.open = FALSE]
    <3>1. c \in DOMAIN conn
      BY DEF IInv, PlacesFit
    <3>2. conn' = [conn EXCEPT ![c] = r]
      BY <2>2
    <3>3. /\ r \in Connection /\ r.taken = conn[c].taken /\ r.buffer = conn[c].buffer
          /\ r.delivered = conn[c].delivered /\ r.reader = conn[c].reader
      BY <1>t, <3>1 DEF Connection
    <3> HIDE DEF r
    <3> QED
      BY <3>1, <3>2, <3>3, <1>4
  <2> QED
    BY <1>15, <2>1, <2>2 DEF StopCloses
<1>16. ASSUME StopShuts PROVE UnitsFit(cut)'
  <2> DEFINE c == stopper.conn
             r == [conn[c] EXCEPT !.socket = FALSE]
  <2>1. c \in DOMAIN conn /\ conn' = [conn EXCEPT ![c] = r]
    BY <1>16 DEF StopShuts, IInv, PlacesFit
  <2>2. /\ r \in Connection /\ r.taken = conn[c].taken /\ r.buffer = conn[c].buffer
        /\ r.delivered = conn[c].delivered /\ r.reader = conn[c].reader
    BY <1>t, <2>1 DEF Connection
  <2> HIDE DEF r
  <2> QED
    BY <2>1, <2>2, <1>4
<1>17. ASSUME NEW c \in DOMAIN conn, ReaderStep(c) \/ PeerGoes(c) PROVE UnitsFit(cut)'
  BY <1>17, <1>5, <1>6, <1>7, <1>8, <1>9, <1>10 DEF ReaderStep
<1>18. ASSUME NEW w \in Worker, SenderStep(w) PROVE UnitsFit(cut)'
  BY <1>18, <1>1, <1>11, <1>12
     DEF SenderStep, LooksAgain, ConnectFails, Notifies, BeginsWrite, EndsWrite, Unregisters
<1>19. CASE AcceptorStep
  BY <1>19, <1>1, <1>13 DEF AcceptorStep, Registers
<1>20. CASE Stop \/ StopperStep
  BY <1>20, <1>1, <1>15, <1>16 DEF Stop, StopperStep, StopsAccepting, Empties, StopNotifies
<1>21. CASE UNCHANGED vars
  BY <1>21, <1>1 DEF vars
<1> QED
  BY <1>1, <1>14, <1>17, <1>18, <1>19, <1>20, <1>21 DEF Next, Send

\* Units that fit are messages that come whole.
LEMMA FitIsWhole ==
    ASSUME NEW cut \in Cut, Cuts(cut), IInv, UnitsFit(cut)
    PROVE  WholeInOrder
<1> SUFFICES ASSUME NEW c \in DOMAIN conn
             PROVE  LET n == Len(conn[c].delivered) IN
                    /\ \A i \in 1 .. n : conn[c].delivered[i] = MessageNumber(i)
                    /\ conn[c].reader = "armed" =>
                          MessageNumber(n + 1) = <<>> \/ Len(conn[c].buffer) < Len(MessageNumber(n + 1))
  BY DEF WholeInOrder
<1> DEFINE s == conn[c]
           n == Len(s.delivered)
<1>1. n \in Nat /\ s.taken \in 0 .. Len(Stream) /\ Len(Stream) \in Nat
  <2>1. conn \in Seq(Connection) /\ DOMAIN conn = 1 .. Len(conn)
    BY LenProperties DEF IInv, TypeOK
  <2>2. s \in Connection
    BY <2>1, ElementOfSeq
  <2> QED
    BY <2>2, TransportAssumption, LenProperties DEF Connection
<1>2. Fits(cut, s)
  BY DEF UnitsFit
<1> HIDE DEF s
<1>3. /\ n <= Len(Stream) /\ n <= cut[n] /\ cut[n] <= s.taken
      /\ \A i \in 1 .. n : s.delivered[i] = MessageNumber(i)
      /\ s.buffer = SubSeq(Stream, cut[n] + 1, s.taken)
      /\ s.reader = "armed" => ~Extractable(s.buffer)
  BY <1>2 DEF Fits
<1>4. ASSUME s.reader = "armed"
      PROVE  MessageNumber(n + 1) = <<>> \/ Len(s.buffer) < Len(MessageNumber(n + 1))
  <2>1. n \in 0 .. Len(Stream) /\ s.taken \in Nat /\ s.taken <= Len(Stream)
    BY <1>1, <1>3
  <2> HIDE DEF n
  <2> QED
    BY <1>3, <1>4, <2>1, NothingKeptBack
<1> QED
  BY <1>3, <1>4 DEF s

-----------------------------------------------------------------------------
(* The theorems. *)

\* Every reachable state has the invariant.
THEOREM InductiveInvariant == Spec => []IInv
BY InitInvariant, StepInvariant, PTL DEF Spec

\* getOrCreateConnection, doAccept and doRead: the variables keep their types; two
\* workers never connect to the same remote, nobody sleeps without somebody who will
\* wake him, and every connection in the table is read from or about to be.
THEOREM ConnectionsFit == Spec => []ConnectionsConsistent
<1>1. IInv => ConnectionsConsistent
  <2> SUFFICES ASSUME IInv PROVE EntriesWatched
    BY DEF IInv, ConnectionsConsistent
  <2> SUFFICES ASSUME NEW k \in Remote, table[k] # None, ~stopped,
                      conn[table[k]].reader = "new", acceptor.conn # table[k]
               PROVE  \E w \in Worker : sender[w].conn = table[k] /\ sender[w].at \in {"notify", "start"}
    BY DEF IInv, Watched, EntriesWatched
  <2>1. PICK w \in Worker : Starting[w] = table[k]
    BY DEF IInv, Watched
  <2> QED
    BY <2>1 DEF Starting
<1> QED
  BY <1>1, InductiveInvariant, PTL

\* getOrCreateConnection and stop: once stop has emptied the table, no connection of
\* ours gets back into it.
THEOREM StopLeavesNothing == Spec => []NoneOfOursStays
<1>1. IInv => NoneOfOursStays
  BY DEF IInv
<1> QED
  BY <1>1, InductiveInvariant, PTL

\* unregisterConnection: only a connection whose peer is gone leaves the table, by
\* whoever's failure.
THEOREM HealthyConnectionsStay == Spec => HealthyStays
<1> DEFINE Step == \A k \in Remote :
              table[k] # None /\ table'[k] = None /\ ~stopped => ~conn[table[k]].up
<1>1. IInv /\ [Next]_vars => [Step]_vars
  <2> SUFFICES ASSUME IInv, [Next]_vars,
                      NEW k \in Remote, table[k] # None, table'[k] = None, ~stopped
               PROVE  ~conn[table[k]].up
    OBVIOUS
  <2>a. table \in [Remote -> Id \cup {None}] /\ None \notin Nat /\ conn \in Seq(Connection)
    BY TransportAssumption DEF IInv, TypeOK
  <2>1. CASE UNCHANGED table
    BY <2>1
  <2>2. ASSUME NEW w \in Worker, Unregisters(w) PROVE ~conn[table[k]].up
    BY <2>2, <2>a DEF Unregisters, Unregistered, IInv, GivenUpWhenBroken
  <2>3. ASSUME NEW c \in DOMAIN conn, ReadFails(c) PROVE ~conn[table[k]].up
    BY <2>3, <2>a DEF ReadFails, Unregistered, IInv, GivenUpWhenBroken
  <2>4. ASSUME NEW w \in Worker, Connected(w) PROVE FALSE
    <3>1. Len(conn) \in Nat /\ table' = [table EXCEPT ![sender[w].dest] = Len(conn')]
          /\ conn' = Append(conn, New(sender[w].dest, FALSE))
      BY <2>4, <2>a, LenProperties DEF Connected
    <3>2. Len(conn') \in Nat
      BY <3>1, <2>a, NewTyped, Appended, <2>4 DEF Connected, IInv, PlacesFit
    <3> QED
      BY <3>1, <3>2, <2>a
  <2>5. ASSUME Registers PROVE FALSE
    BY <2>5, <2>a DEF Registers, IInv, PlacesFit, TypeOK
  <2>6. ASSUME Empties PROVE FALSE
    BY <2>6 DEF Empties, IInv, PlacesFit
  <2>7. ASSUME NEW w \in Worker, SenderStep(w) PROVE ~conn[table[k]].up
    BY <2>7, <2>1, <2>2, <2>4 DEF SenderStep, LooksAgain, ConnectFails, Notifies, Starts, BeginsWrite,
       EndsWrite
  <2>8. ASSUME NEW c \in DOMAIN conn, ReaderStep(c) \/ PeerGoes(c) PROVE ~conn[table[k]].up
    BY <2>8, <2>1, <2>3 DEF ReaderStep, Reads, Frames, Closes, Shuts, PeerGoes
  <2>9. CASE AcceptorStep
    BY <2>9, <2>1, <2>5 DEF AcceptorStep, AcceptsNext
  <2>10. CASE Stop \/ StopperStep
    BY <2>10, <2>1, <2>6 DEF StopperStep, Stop, StopsAccepting, StopNotifies, StopCloses, StopShuts
  <2>11. CASE UNCHANGED vars
    BY <2>11, <2>1 DEF vars
  <2> QED
    BY <2>1, <2>7, <2>8, <2>9, <2>10, <2>11 DEF Next, Send, PeerConnects
<1> QED
  BY <1>1, InductiveInvariant, PTL DEF Spec, HealthyStays

\* handleRead and tryExtractSipMessage: when the peer sends messages, each a header and
\* the body it announces, they are delivered whole and in order however they are cut,
\* and a message that is there is not kept back until something else comes.
THEOREM MessagesComeWhole ==
    ASSUME StreamOfMessages
    PROVE  Spec => []WholeInOrder
<1>1. PICK cut \in Cut : Cuts(cut)
  BY DEF StreamOfMessages, Cut
<1>2. Init => UnitsFit(cut)
  BY InitUnits
<1>3. IInv /\ UnitsFit(cut) /\ [Next]_vars => UnitsFit(cut)'
  BY <1>1, StepUnits
<1>4. IInv /\ UnitsFit(cut) => WholeInOrder
  BY <1>1, FitIsWhole
<1> QED
  BY <1>2, <1>3, <1>4, InductiveInvariant, PTL DEF Spec
=============================================================================
