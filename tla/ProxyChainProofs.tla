---------------------------- MODULE ProxyChainProofs ----------------------------
(***************************************************************************)
(* Theorems about ProxyChain: the Vias of every message are a way back, and  *)
(* a call leaves no session behind.                                          *)
(*                                                                          *)
(* A proxy sends a response to where the request of its transaction came     *)
(* from, and takes its own Via off it: the two agree only if the next Via is *)
(* that node's.  So every Via of a transaction, wherever it has got to, must *)
(* stand on the one of the node the transaction answers (Retraces).  That    *)
(* holds for a transaction of a message that is yet to come because its      *)
(* branch is one that no other request of its kind can have: a request is    *)
(* the only message of its kind while it is under way, and what was          *)
(* forwarded before had more hops left (Sole).  A second request of a kind   *)
(* would break this, so the invariant also says what a device has not sent   *)
(* yet (UnsentFits).                                                         *)
(*                                                                          *)
(* That loops are cut rests on three things.  The P-CSCF is the only one     *)
(* that sends to the I-CSCF a request which has not been there, with two     *)
(* Vias.  The S-CSCF sends a request again only when the I-CSCF has it in    *)
(* between, which looks for its own Via (Parted, OncePastI).  And ACK, for   *)
(* which nobody looks, never takes that way: it is sent when the callee has  *)
(* been reached, and then the session leads to the P-CSCF (RungFits).        *)
(*                                                                          *)
(* That a call leaves no session behind holds while nothing is lost, and is  *)
(* said with its Vias again.  One message decides the call, the INVITE or    *)
(* its final response (DecisionFits), and its Vias tell whether the S-CSCF   *)
(* has the session: it has while its own Via is on the message, and what     *)
(* comes back without it has told it the end (SessionFits).  The INVITE's    *)
(* way was straight if the session leads to the P-CSCF; then a BYE has the   *)
(* hops and the route to the other device, and its 200 passes the S-CSCF     *)
(* (ByesFit).  And every request is accounted for until its sender has its   *)
(* end, by a message or by a transaction (OutstandingFits): when there is    *)
(* neither, the call is over or both devices talk.                           *)
(***************************************************************************)
EXTENDS ProxyChain, SequenceTheorems, FiniteSetTheorems, TLAPS

\* Where a node may send a request.
Edge(src, dst) ==
    \/ src \in Ue /\ dst = P
    \/ src = P /\ dst \in {I, S} \cup Ue
    \/ src = I /\ dst = S
    \/ src = S /\ dst \in {P, I}

\* The device that sent the request is at the bottom, the proxies are above it.
Rooted(via) ==
    /\ Len(via) > 0
    /\ \A k \in 1 .. Len(via) : via[k].node \in Ue <=> k = Len(via)

Avoids(via, n) == \A k \in 1 .. Len(via) : via[k].node # n

\* The I-CSCF has had the message once at most.
OncePastI(via) ==
    \A k, l \in 1 .. Len(via) : via[k].node = I /\ via[l].node = I => k = l

\* Between two visits of the S-CSCF there is one of the I-CSCF.
Parted(via) ==
    \A k, l \in 1 .. Len(via) : k < l /\ via[k].node = S /\ via[l].node = S =>
        \E j \in 1 .. Len(via) : k < j /\ j < l /\ via[j].node = I

WayBack(via) == via \in Seq(Hop) /\ Rooted(via) /\ OncePastI(via) /\ Parted(via)

\* A proxy's branch is named by more hops than the request has left.
BranchesAbove(via, hops) ==
    \A k \in 1 .. Len(via) : via[k].node \in Proxy => via[k].branch > hops

-----------------------------------------------------------------------------
(* The nodes differ. *)

LEMMA FourAtMost ==
    ASSUME NEW a, NEW b, NEW c, NEW d
    PROVE  Cardinality({a, b, c, d}) <= 4
<1>1. IsFiniteSet({}) /\ Cardinality({}) = 0
  BY FS_EmptySet
<1>2. IsFiniteSet({a}) /\ Cardinality({a}) \in 0 .. 1
  <2>1. {a} = {} \cup {a}
    OBVIOUS
  <2> QED
    BY <1>1, <2>1, FS_AddElement
<1>3. IsFiniteSet({a, b}) /\ Cardinality({a, b}) \in 0 .. 2
  <2>1. {a, b} = {a} \cup {b}
    OBVIOUS
  <2> QED
    BY <1>2, <2>1, FS_AddElement
<1>4. IsFiniteSet({a, b, c}) /\ Cardinality({a, b, c}) \in 0 .. 3
  <2>1. {a, b, c} = {a, b} \cup {c}
    OBVIOUS
  <2> QED
    BY <1>3, <2>1, FS_AddElement
<1>5. {a, b, c, d} = {a, b, c} \cup {d}
  OBVIOUS
<1> QED
  BY <1>4, <1>5, FS_AddElement

LEMMA NodesDiffer ==
    /\ caller # callee /\ Ue \cap Proxy = {}
    /\ P # I /\ P # S /\ I # S
    /\ None \notin Node /\ None \notin Code /\ None \notin Message
<1>1. Cardinality(Node) = 5
  BY ChainAssumption
<1>2. Node = {caller, callee, P, I, S}
  BY DEF Node, Ue, Proxy
<1>3. \A a, b, c, d : Node # {a, b, c, d}
  <2> SUFFICES ASSUME NEW a, NEW b, NEW c, NEW d, Node = {a, b, c, d} PROVE FALSE
    OBVIOUS
  <2>1. Cardinality({a, b, c, d}) <= 4
    BY FourAtMost
  <2> QED
    BY <1>1, <2>1
<1>4. caller # callee
  <2> SUFFICES ASSUME caller = callee PROVE FALSE
    OBVIOUS
  <2>1. Node = {caller, P, I, S}
    BY <1>2
  <2> QED
    BY <2>1, <1>3
<1>5. P # I
  <2> SUFFICES ASSUME P = I PROVE FALSE
    OBVIOUS
  <2>1. Node = {caller, callee, P, S}
    BY <1>2
  <2> QED
    BY <2>1, <1>3
<1>6. P # S
  <2> SUFFICES ASSUME P = S PROVE FALSE
    OBVIOUS
  <2>1. Node = {caller, callee, P, I}
    BY <1>2
  <2> QED
    BY <2>1, <1>3
<1>7. I # S
  <2> SUFFICES ASSUME I = S PROVE FALSE
    OBVIOUS
  <2>1. Node = {caller, callee, P, S}
    BY <1>2
  <2> QED
    BY <2>1, <1>3
<1>8. ASSUME NEW u \in Ue, u \in Proxy PROVE FALSE
  <2>1. u = caller => Node = {callee, P, I, S}
    BY <1>2, <1>8 DEF Proxy
  <2>2. u = callee => Node = {caller, P, I, S}
    BY <1>2, <1>8 DEF Proxy
  <2> QED
    BY <2>1, <2>2, <1>3 DEF Ue
<1>9. None \notin Node /\ None \notin Code /\ None \notin Message
  BY ChainAssumption
<1> QED
  BY <1>4, <1>5, <1>6, <1>7, <1>8, <1>9

-----------------------------------------------------------------------------
(* What happens to the Vias. *)

\* A proxy puts its own on top.
LEMMA Pushed ==
    ASSUME NEW via, WayBack(via), NEW n \in Proxy, NEW b \in Nat,
           n = I => Avoids(via, I),
           n = S => Avoids(via, S) \/ via[1].node = I
    PROVE  LET hop == [node |-> n, branch |-> b]
               new == <<hop>> \o via
           IN  /\ WayBack(new)
               /\ Len(new) = Len(via) + 1
               /\ new[1] = hop
               /\ \A k \in 1 .. Len(via) : new[k + 1] = via[k]
<1> DEFINE hop == [node |-> n, branch |-> b]
           new == <<hop>> \o via
<1>1. hop \in Hop /\ <<hop>> \in Seq(Hop) /\ Len(<<hop>>) = 1
  BY DEF Hop, Node
<1>2. /\ new \in Seq(Hop)
      /\ Len(new) = Len(via) + 1
      /\ new[1] = hop
      /\ \A k \in 2 .. Len(new) : new[k] = via[k - 1]
  <2> HIDE DEF hop
  <2>1. \A i \in 1 .. Len(<<hop>>) + Len(via) :
            (<<hop>> \o via)[i] = IF i <= Len(<<hop>>) THEN <<hop>>[i] ELSE via[i - Len(<<hop>>)]
    BY <1>1, ConcatProperties DEF WayBack
  <2>2. new \in Seq(Hop) /\ Len(new) = 1 + Len(via)
    BY <1>1, ConcatProperties DEF WayBack
  <2>3. Len(via) \in Nat
    BY LenProperties DEF WayBack
  <2>4. new[1] = hop
    BY <1>1, <2>1, <2>3
  <2>5. ASSUME NEW k \in 2 .. Len(new) PROVE new[k] = via[k - 1]
    BY <1>1, <2>1, <2>2, <2>3
  <2> QED
    BY <2>2, <2>3, <2>4, <2>5
<1>3. Len(via) \in Nat /\ Len(via) > 0
  BY LenProperties DEF WayBack, Rooted
<1>4. n \notin Ue
  BY NodesDiffer
<1> HIDE DEF new
<1>5. Rooted(new)
  <2>1. ASSUME NEW k \in 1 .. Len(new) PROVE new[k].node \in Ue <=> k = Len(new)
    <3>1. CASE k = 1
      BY <1>2, <1>3, <1>4, <3>1
    <3>2. CASE k > 1
      <4>1. k - 1 \in 1 .. Len(via) /\ new[k] = via[k - 1]
        BY <1>2, <1>3, <3>2
      <4>2. via[k - 1].node \in Ue <=> k - 1 = Len(via)
        BY <4>1 DEF WayBack, Rooted
      <4> QED
        BY <4>1, <4>2, <1>2, <1>3
    <3> QED
      BY <3>1, <3>2, <1>3, <1>2
  <2> QED
    BY <2>1, <1>2, <1>3 DEF Rooted
<1>6. OncePastI(new)
  <2> SUFFICES ASSUME NEW k \in 1 .. Len(new), NEW l \in 1 .. Len(new), k < l,
                      new[k].node = I, new[l].node = I
               PROVE  FALSE
    BY <1>2, <1>3 DEF OncePastI
  <2>1. l - 1 \in 1 .. Len(via) /\ via[l - 1].node = I
    BY <1>2, <1>3
  <2>2. k > 1
    BY <2>1, <1>2, <1>3 DEF Avoids
  <2>3. k - 1 \in 1 .. Len(via) /\ via[k - 1].node = I
    BY <1>2, <1>3, <2>2
  <2> QED
    BY <2>1, <2>3 DEF WayBack, OncePastI
<1>7. Parted(new)
  <2> SUFFICES ASSUME NEW k \in 1 .. Len(new), NEW l \in 1 .. Len(new), k < l,
                      new[k].node = S, new[l].node = S
               PROVE  \E j \in 1 .. Len(new) : k < j /\ j < l /\ new[j].node = I
    BY DEF Parted
  <2>1. l - 1 \in 1 .. Len(via) /\ new[l] = via[l - 1]
    BY <1>2, <1>3
  <2>2. CASE k = 1
    <3>1. n = S /\ via[1].node = I
      BY <2>1, <2>2, <1>2 DEF Avoids
    <3>2. 2 \in 1 .. Len(new) /\ new[2].node = I
      BY <1>2, <1>3, <3>1
    <3>3. l # 2
      BY <3>2, NodesDiffer
    <3> QED
      BY <3>2, <3>3, <2>2
  <2>3. CASE k > 1
    <3>1. k - 1 \in 1 .. Len(via) /\ new[k] = via[k - 1] /\ k - 1 < l - 1
      BY <1>2, <1>3, <2>3
    <3>2. PICK j \in 1 .. Len(via) : k - 1 < j /\ j < l - 1 /\ via[j].node = I
      BY <2>1, <3>1 DEF WayBack, Parted
    <3>3. j + 1 \in 2 .. Len(new) /\ k < j + 1 /\ j + 1 < l
      BY <1>2, <1>3, <3>2
    <3>4. new[j + 1] = via[j]
      BY <1>2, <3>3
    <3> QED
      BY <3>2, <3>3, <3>4
  <2> QED
    BY <2>2, <2>3
<1>8. \A k \in 1 .. Len(via) : new[k + 1] = via[k]
  BY <1>2, <1>3
<1> QED
  BY <1>2, <1>5, <1>6, <1>7, <1>8 DEF WayBack, new

\* ... and takes it off again.
LEMMA Popped ==
    ASSUME NEW via, WayBack(via), Len(via) > 1
    PROVE  /\ WayBack(Tail(via))
           /\ Len(Tail(via)) = Len(via) - 1
           /\ \A k \in 1 .. Len(via) - 1 : Tail(via)[k] = via[k + 1]
<1> DEFINE new == Tail(via)
<1>1. via # <<>> /\ Len(via) \in Nat
  BY LenProperties, EmptySeq DEF WayBack
<1>2. /\ new \in Seq(Hop)
      /\ Len(new) = Len(via) - 1
      /\ \A k \in 1 .. Len(new) : new[k] = via[k + 1]
  BY <1>1, HeadTailProperties DEF WayBack
<1> HIDE DEF new
<1>3. \A k \in 1 .. Len(new) : k + 1 \in 1 .. Len(via)
  BY <1>1, <1>2
<1>4. Rooted(new)
  <2>1. ASSUME NEW k \in 1 .. Len(new) PROVE new[k].node \in Ue <=> k = Len(new)
    BY <1>1, <1>2, <1>3 DEF WayBack, Rooted
  <2> QED
    BY <1>1, <1>2, <2>1 DEF Rooted
<1>5. OncePastI(new)
  <2> SUFFICES ASSUME NEW k \in 1 .. Len(new), NEW l \in 1 .. Len(new),
                      new[k].node = I, new[l].node = I
               PROVE  k = l
    BY DEF OncePastI
  <2>1. k + 1 = l + 1
    BY <1>2, <1>3 DEF WayBack, OncePastI
  <2> QED
    BY <1>2, <2>1
<1>6. Parted(new)
  <2> SUFFICES ASSUME NEW k \in 1 .. Len(new), NEW l \in 1 .. Len(new), k < l,
                      new[k].node = S, new[l].node = S
               PROVE  \E j \in 1 .. Len(new) : k < j /\ j < l /\ new[j].node = I
    BY DEF Parted
  <2>1. k + 1 < l + 1 /\ via[k + 1].node = S /\ via[l + 1].node = S
    BY <1>2
  <2>2. PICK j \in 1 .. Len(via) : k + 1 < j /\ j < l + 1 /\ via[j].node = I
    BY <1>3, <2>1 DEF WayBack, Parted
  <2>3. j - 1 \in 1 .. Len(new) /\ k < j - 1 /\ j - 1 < l
    BY <1>1, <1>2, <2>2
  <2>4. new[j - 1] = via[j]
    BY <1>2, <2>3
  <2> QED
    BY <2>2, <2>3, <2>4
<1> QED
  BY <1>2, <1>4, <1>5, <1>6 DEF WayBack, new

\* sanitizeForUeEgress leaves the device's own.
LEMMA Bottom ==
    ASSUME NEW via, WayBack(via)
    PROVE  /\ WayBack(BottomVia(via))
           /\ Len(BottomVia(via)) = 1
           /\ BottomVia(via)[1] = via[Len(via)]
           /\ via[Len(via)].node \in Ue
<1>1. Len(via) \in Nat /\ Len(via) \in 1 .. Len(via) /\ via[Len(via)] \in Hop
  BY LenProperties, ElementOfSeq DEF WayBack, Rooted
<1>2. via[Len(via)].node \in Ue
  BY <1>1 DEF WayBack, Rooted
<1>3. BottomVia(via) \in Seq(Hop) /\ Len(BottomVia(via)) = 1 /\ BottomVia(via)[1] = via[Len(via)]
  BY <1>1 DEF BottomVia
<1>4. \A k \in 1 .. Len(BottomVia(via)) : k = 1
  BY <1>3
<1> QED
  BY <1>2, <1>3, <1>4 DEF WayBack, Rooted, OncePastI, Parted

-----------------------------------------------------------------------------
(* How often a message has passed a node. *)

LEMMA TwoAtMost ==
    ASSUME NEW A, NEW a, NEW b, A \subseteq {a, b}
    PROVE  Cardinality(A) <= 2
<1>1. IsFiniteSet({a}) /\ Cardinality({a}) = 1
  BY FS_Singleton
<1>2. IsFiniteSet({a, b}) /\ Cardinality({a, b}) \in 1 .. 2
  <2>1. {a, b} = {a} \cup {b}
    OBVIOUS
  <2> QED
    BY <1>1, <2>1, FS_AddElement
<1>3. Cardinality(A) <= Cardinality({a, b}) /\ Cardinality(A) \in Nat
  BY <1>2, FS_Subset, FS_CardinalityType
<1> QED
  BY <1>2, <1>3

LEMMA VisitsBounded ==
    ASSUME NEW m, WayBack(m.via)
    PROVE  Visits(m, I) <= 1 /\ Visits(m, S) <= 2
<1> DEFINE At(n) == {k \in 1 .. Len(m.via) : m.via[k].node = n}
<1>0. Len(m.via) \in Nat
  BY LenProperties DEF WayBack
<1>1. Cardinality(At(I)) <= 1
  <2>0. \A k, l \in At(I) : k = l
    BY DEF WayBack, OncePastI
  <2> HIDE DEF At
  <2>1. CASE At(I) = {}
    BY <2>1, FS_EmptySet
  <2>2. CASE At(I) # {}
    <3>1. PICK k \in At(I) : At(I) = {k}
      BY <2>0, <2>2
    <3>2. Cardinality({k}) = 1
      BY FS_Singleton
    <3> QED
      BY <3>1, <3>2
  <2> QED
    BY <2>1, <2>2
<1>2. Cardinality(At(S)) <= 2
  <2>1. ASSUME NEW k \in At(S), NEW l \in At(S), NEW h \in At(S), k < l, l < h PROVE FALSE
    <3>1. PICK i \in 1 .. Len(m.via) : k < i /\ i < l /\ m.via[i].node = I
      BY <2>1 DEF WayBack, Parted
    <3>2. PICK j \in 1 .. Len(m.via) : l < j /\ j < h /\ m.via[j].node = I
      BY <2>1 DEF WayBack, Parted
    <3>3. i = j
      BY <3>1, <3>2 DEF WayBack, OncePastI
    <3> QED
      BY <3>1, <3>2, <3>3
  <2>2. At(S) \subseteq 1 .. Len(m.via)
    OBVIOUS
  <2> HIDE DEF At
  <2>3. CASE \E k \in At(S) : At(S) \subseteq {k}
    BY <2>3, TwoAtMost
  <2>4. CASE At(S) = {}
    BY <2>4, FS_EmptySet
  <2>5. CASE \E k, l \in At(S) : k < l
    <3>1. PICK k \in At(S), l \in At(S) : k < l
      BY <2>5
    <3>2. At(S) \subseteq {k, l}
      <4> SUFFICES ASSUME NEW h \in At(S), h # k, h # l PROVE FALSE
        OBVIOUS
      <4>1. h < k \/ (k < h /\ h < l) \/ l < h
        BY <1>0, <2>2, <3>1
      <4> QED
        BY <2>1, <3>1, <4>1
    <3> QED
      BY <3>2, TwoAtMost
  <2>6. (\E k \in At(S) : At(S) \subseteq {k}) \/ At(S) = {} \/ \E k, l \in At(S) : k < l
    BY <1>0, <2>2
  <2> QED
    BY <2>3, <2>4, <2>5, <2>6
<1> QED
  BY <1>1, <1>2 DEF Visits

-----------------------------------------------------------------------------
(* Messages. *)

RequestFits(m) ==
    /\ TopVia(m).node = m.src
    /\ Edge(m.src, m.dst)
    /\ m.src = P /\ m.dst \notin Ue => Len(m.via) = 2
    /\ m.type = "ACK" /\ m.src = S => m.dst # I
    /\ BranchesAbove(m.via, m.hops)

ResponseFits(m) == m.type # "ACK" /\ TopVia(m).node = m.dst

\* The Vias of a message lead from where it is to the device that sent the request.
\* Only the callee's BYE is meant for the caller, and INVITEs are none of the callee's.
Fits(m) ==
    /\ m \in Message
    /\ WayBack(m.via)
    /\ m.peer = caller => m.type = "BYE"
    /\ m.type = "INVITE" => Avoids(m.via, callee)
    /\ IF IsRequest(m) THEN RequestFits(m) ELSE ResponseFits(m)

\* createResponse
LEMMA AnswerFits ==
    ASSUME NEW m, Fits(m), IsRequest(m), m.type # "ACK", NEW code \in Code
    PROVE  LET r == Response(m, code)
           IN  /\ Fits(r) /\ ~IsRequest(r)
               /\ r.code = code /\ r.type = m.type /\ r.peer = m.peer /\ r.via = m.via
<1> DEFINE r == Response(m, code)
<1>1. /\ r \in Message
      /\ r.code = code /\ r.type = m.type /\ r.peer = m.peer /\ r.via = m.via
      /\ r.dst = m.src
  BY DEF Fits, Response, Message
<1>2. ~IsRequest(r)
  BY <1>1, NodesDiffer DEF IsRequest
<1> HIDE DEF r
<1>3. Fits(r)
  BY <1>1, <1>2 DEF Fits, RequestFits, ResponseFits, TopVia
<1> QED
  BY <1>1, <1>2, <1>3 DEF r

\* prepareRequestForForward, by a proxy that may forward the request.
LEMMA PreparedFits ==
    ASSUME NEW m \in Message, IsRequest(m), WayBack(m.via), BranchesAbove(m.via, m.hops),
           m.peer = caller => m.type = "BYE",
           m.type = "INVITE" => Avoids(m.via, callee),
           m.hops > 0,
           NEW n \in Proxy, NEW dst, Edge(n, dst),
           n = I => Avoids(m.via, I),
           n = S => Avoids(m.via, S) \/ m.via[1].node = I,
           n = P /\ dst \notin Ue => Len(m.via) = 1,
           m.type = "ACK" /\ n = S => dst # I
    PROVE  LET x == Prepared(m, n, dst)
           IN  /\ Fits(x) /\ IsRequest(x)
               /\ x.type = m.type /\ x.peer = m.peer /\ x.src = n /\ x.dst = dst
               /\ x.hops = m.hops - 1
               /\ Len(x.via) = Len(m.via) + 1
               /\ x.via[1] = [node |-> n, branch |-> m.hops]
               /\ \A k \in 1 .. Len(m.via) : x.via[k + 1] = m.via[k]
<1> DEFINE x == Prepared(m, n, dst)
           hop == [node |-> n, branch |-> m.hops]
<1>1. m.hops \in Nat
  BY DEF Message
<1>2. /\ WayBack(<<hop>> \o m.via)
      /\ Len(<<hop>> \o m.via) = Len(m.via) + 1
      /\ (<<hop>> \o m.via)[1] = hop
      /\ \A k \in 1 .. Len(m.via) : (<<hop>> \o m.via)[k + 1] = m.via[k]
  BY <1>1, Pushed
<1>3. /\ x.via = <<hop>> \o m.via
      /\ x.type = m.type /\ x.peer = m.peer /\ x.src = n /\ x.dst = dst
      /\ x.hops = m.hops - 1 /\ x.code = m.code
  BY DEF Prepared, Message
<1>4. x \in Message
  <2>1. dst \in Node /\ n \in Node /\ m.hops - 1 \in Nat
    BY <1>1 DEF Edge, Node, Proxy
  <2> QED
    BY <1>2, <2>1 DEF Prepared, Message, WayBack
<1>5. Len(m.via) \in Nat /\ Len(m.via) > 0
  BY LenProperties DEF WayBack, Rooted
<1> HIDE DEF x
<1>6. BranchesAbove(x.via, x.hops)
  <2> SUFFICES ASSUME NEW k \in 1 .. Len(x.via), x.via[k].node \in Proxy
               PROVE  x.via[k].branch > m.hops - 1
    BY <1>3 DEF BranchesAbove
  <2>1. CASE k = 1
    BY <1>1, <1>2, <1>3, <2>1
  <2>2. CASE k > 1
    <3>1. k - 1 \in 1 .. Len(m.via) /\ x.via[k] = m.via[k - 1]
      BY <1>2, <1>3, <1>5, <2>2
    <3>2. m.via[k - 1] \in Hop
      BY <3>1, ElementOfSeq DEF WayBack
    <3>3. m.via[k - 1].branch > m.hops
      BY <3>1 DEF BranchesAbove
    <3> QED
      BY <1>1, <3>1, <3>2, <3>3 DEF Hop
  <2> QED
    BY <1>2, <1>3, <1>5, <2>1, <2>2
<1>7. RequestFits(x)
  BY <1>2, <1>3, <1>5, <1>6 DEF RequestFits, TopVia
<1>8. IsRequest(x)
  BY <1>3 DEF IsRequest
<1>9. m.type = "INVITE" => Avoids(x.via, callee)
  <2> SUFFICES ASSUME m.type = "INVITE", NEW k \in 1 .. Len(x.via) PROVE x.via[k].node # callee
    BY DEF Avoids
  <2>1. CASE k = 1
    BY <1>2, <1>3, <2>1, NodesDiffer DEF Ue
  <2>2. CASE k > 1
    <3>1. k - 1 \in 1 .. Len(m.via) /\ x.via[k] = m.via[k - 1]
      BY <1>2, <1>3, <1>5, <2>2
    <3> QED
      BY <3>1 DEF Avoids
  <2> QED
    BY <1>2, <1>3, <1>5, <2>1, <2>2
<1> QED
  BY <1>2, <1>3, <1>4, <1>7, <1>8, <1>9 DEF Fits, x

\* An ACK with the Via of a user agent alone, sent on to a user agent by P.
LEMMA AckPrepared ==
    ASSUME NEW m \in Message, IsRequest(m), m.type = "ACK", WayBack(m.via), m.hops > 0,
           BranchesAbove(m.via, m.hops), m.peer \in Ue, m.peer # caller
    PROVE  LET x == Prepared(m, P, m.peer)
           IN  Fits(x) /\ IsRequest(x) /\ x.type = "ACK" /\ x.peer = m.peer
<1> DEFINE x == Prepared(m, P, m.peer)
<1>1. m.type # "INVITE" /\ P # I /\ P # S
  BY NodesDiffer
<1>2. P \in Proxy /\ Edge(P, m.peer)
  BY DEF Proxy, Edge
<1>3. Fits(x) /\ IsRequest(x)
  BY <1>1, <1>2, PreparedFits
<1>4. x.type = "ACK" /\ x.peer = m.peer
  BY DEF Prepared, Message
<1> QED
  BY <1>3, <1>4

\* What a proxy keeps of a request it has forwarded.
TxnFits(t) ==
    /\ t \in [hop: Hop, type: Request, peer: Ue, source: Node, media: BOOLEAN]
    /\ t.type # "ACK" /\ t.hop.node \in Proxy
    /\ t.media => t.source \in Ue

Upstream(m, t) == [m EXCEPT !.via = UpstreamVia(t, @), !.src = m.dst, !.dst = t.source]

\* A Via is followed by the one it was put on.
Follows(new, old) ==
    \A k \in 1 .. Len(new) : \E j \in 1 .. Len(old) :
        /\ new[k] = old[j]
        /\ k < Len(new) => j < Len(old) /\ new[k + 1] = old[j + 1]

\* forwardResponseUpstream: the Via below the proxy's own is that of the node its
\* server transaction answers.
LEMMA UpstreamFits ==
    ASSUME NEW m, Fits(m), ~IsRequest(m), m.dst \in Proxy,
           NEW t, TxnFits(t), m.via[2].node = t.source
    PROVE  LET x == Upstream(m, t)
           IN  /\ Fits(x) /\ ~IsRequest(x)
               /\ x.type = m.type /\ x.peer = m.peer /\ x.code = m.code
               /\ Follows(x.via, m.via)
<1> DEFINE x == Upstream(m, t)
           new == UpstreamVia(t, m.via)
<1> HIDE DEF x, new
<1>1. WayBack(m.via) /\ m.via[1].node = m.dst /\ m \in Message /\ m.type # "ACK"
  BY DEF Fits, ResponseFits, TopVia
<1>2. Len(m.via) \in Nat /\ Len(m.via) > 1
  <2>1. Len(m.via) \in Nat /\ Len(m.via) > 0
    BY <1>1, LenProperties DEF WayBack, Rooted
  <2>2. Len(m.via) # 1
    BY <1>1, <2>1, NodesDiffer DEF WayBack, Rooted
  <2>3. \A n \in Nat : n > 0 /\ n # 1 => n > 1
    OBVIOUS
  <2> QED
    BY <2>1, <2>2, <2>3
<1>3. WayBack(new) /\ new[1].node = t.source /\ Follows(new, m.via)
  <2>1. CASE ~t.media
    <3>1. new = Tail(m.via)
      BY <1>2, <2>1 DEF UpstreamVia, new
    <3>2. /\ WayBack(new) /\ Len(new) = Len(m.via) - 1
          /\ \A k \in 1 .. Len(m.via) - 1 : new[k] = m.via[k + 1]
      BY <1>1, <1>2, <3>1, Popped
    <3>3. Follows(new, m.via)
      <4> SUFFICES ASSUME NEW k \in 1 .. Len(new)
                   PROVE  \E j \in 1 .. Len(m.via) :
                             /\ new[k] = m.via[j]
                             /\ k < Len(new) => j < Len(m.via) /\ new[k + 1] = m.via[j + 1]
        BY DEF Follows
      <4>1. k + 1 \in 1 .. Len(m.via) /\ new[k] = m.via[k + 1]
        BY <1>2, <3>2
      <4>2. k < Len(new) => k + 1 < Len(m.via) /\ new[k + 1] = m.via[k + 1 + 1]
        BY <1>2, <3>2
      <4> QED
        BY <4>1, <4>2
    <3> QED
      BY <1>2, <3>2, <3>3
  <2>2. CASE t.media
    <3>1. /\ WayBack(BottomVia(m.via)) /\ Len(BottomVia(m.via)) = 1
          /\ BottomVia(m.via)[1] = m.via[Len(m.via)]
      BY <1>1, Bottom
    <3>2. new = BottomVia(m.via)
      <4> DEFINE bottom == BottomVia(m.via)
      <4>1. new = IF Len(bottom) > 1 THEN Tail(bottom) ELSE bottom
        BY <2>2 DEF UpstreamVia, new
      <4> HIDE DEF bottom
      <4>2. Len(bottom) = 1
        BY <3>1 DEF bottom
      <4> QED
        BY <4>1, <4>2 DEF bottom
    <3>3. 2 = Len(m.via)
      <4>1. 2 \in 1 .. Len(m.via)
        BY <1>2
      <4>2. m.via[2].node \in Ue
        BY <2>2 DEF TxnFits
      <4> QED
        BY <1>1, <4>1, <4>2 DEF WayBack, Rooted
    <3>4. Follows(new, m.via)
      BY <1>2, <3>1, <3>2 DEF Follows
    <3> QED
      BY <3>1, <3>2, <3>3, <3>4
  <2> QED
    BY <2>1, <2>2 DEF TxnFits
<1>4. /\ x \in Message
      /\ x.via = new /\ x.type = m.type /\ x.peer = m.peer /\ x.code = m.code
      /\ x.dst = t.source
  <2>1. new \in Seq(Hop) /\ t.source \in Node
    BY <1>3 DEF WayBack, TxnFits
  <2> QED
    BY <1>1, <2>1 DEF Upstream, Message, new, x
<1>5. ~IsRequest(x)
  BY <1>4 DEF IsRequest
<1>6. m.type = "INVITE" => Avoids(new, callee)
  BY <1>3 DEF Fits, Avoids, Follows
<1>7. Fits(x)
  BY <1>1, <1>3, <1>4, <1>5, <1>6 DEF Fits, ResponseFits, TopVia
<1> QED
  BY <1>3, <1>4, <1>5, <1>7 DEF x

\* A request as a device sends it.
LEMMA NewFits ==
    ASSUME NEW type \in Request, NEW from \in Ue, NEW hops \in Nat,
           from = caller \/ type \in {"BYE", "REGISTER"}
    PROVE  LET x == NewRequest(type, from, hops)
           IN  /\ Fits(x) /\ IsRequest(x)
               /\ x.type = type /\ x.src = from /\ x.dst = P
               /\ x.peer = IF from = caller \/ type = "REGISTER" THEN callee ELSE caller
               /\ x.hops = hops
               /\ Len(x.via) = 1 /\ x.via[1].node = from
<1> DEFINE x == NewRequest(type, from, hops)
           hop == [node |-> from, branch |-> hops]
<1>1. hop \in Hop /\ <<hop>> \in Seq(Hop) /\ Len(<<hop>>) = 1 /\ <<hop>>[1] = hop
  BY DEF Hop, Node
<1>2. /\ x.via = <<hop>> /\ x.type = type /\ x.src = from /\ x.dst = P /\ x.hops = hops
      /\ x.peer = IF from = caller \/ type = "REGISTER" THEN callee ELSE caller
      /\ x.code = None
  BY DEF NewRequest
<1>3. x \in Message
  <2>1. P \in Node /\ from \in Node /\ caller \in Ue /\ callee \in Ue
    BY DEF Node, Proxy, Ue
  <2> QED
    BY <1>1, <2>1 DEF NewRequest, Message
<1> HIDE DEF x
<1>4. WayBack(x.via)
  <2>1. \A k \in 1 .. Len(x.via) : k = 1
    BY <1>1, <1>2
  <2>2. Rooted(x.via)
    BY <1>1, <1>2, <2>1 DEF Rooted
  <2>3. OncePastI(x.via) /\ Parted(x.via)
    BY <2>1 DEF OncePastI, Parted
  <2> QED
    BY <1>1, <1>2, <2>2, <2>3 DEF WayBack
<1>5. x.peer = caller => x.type = "BYE"
  BY <1>2, NodesDiffer
<1>6. RequestFits(x)
  <2>1. from # P /\ from # S /\ from \notin Proxy
    BY NodesDiffer DEF Proxy
  <2>2. BranchesAbove(x.via, x.hops)
    BY <1>1, <1>2, <2>1 DEF BranchesAbove
  <2> QED
    BY <1>1, <1>2, <2>1, <2>2 DEF RequestFits, TopVia, Edge
<1>7. type = "INVITE" => Avoids(x.via, callee)
  BY <1>1, <1>2, NodesDiffer DEF Avoids
<1> QED
  BY <1>1, <1>2, <1>3, <1>4, <1>5, <1>6, <1>7 DEF Fits, IsRequest, x

-----------------------------------------------------------------------------
(* The network: messages, those held at a device, and transactions. *)

Alike(x, y) == x.type = y.type /\ x.peer = y.peer

OfferedFits == offered # None => Fits(offered) /\ IsRequest(offered) /\ offered.type = "INVITE"

WireFits == \A m \in wire : Fits(m)

TxnsFit == \A t \in txns : TxnFits(t)

\* Below the Via of a transaction is the one of the node it answers.
Retraced(t, via) == \A k \in 1 .. Len(via) : via[k] = t.hop => via[k + 1].node = t.source

Retraces ==
    \A t \in txns :
        /\ \A m \in wire : Alike(t, m) => Retraced(t, m.via)
        /\ offered # None /\ Alike(t, offered) => Retraced(t, offered.via)

\* A request on its way is the only message of its kind, and so is a response but that
\* of an INVITE.  What was forwarded before had more hops left.
Sole ==
    \A m \in wire :
        /\ m.type # "ACK" /\ (IsRequest(m) \/ m.type # "INVITE") =>
              \A n \in wire : Alike(m, n) => n = m
        /\ m.type # "ACK" /\ IsRequest(m) =>
              /\ \A t \in txns : Alike(t, m) => t.hop.branch > m.hops
              /\ m.type = "INVITE" => offered = None

\* The messages and transactions fit each other.
NetFits == OfferedFits /\ WireFits /\ TxnsFit /\ Retraces /\ Sole

\* All INVITEs are meant for the callee.
LEMMA InvitesAlike ==
    ASSUME NEW x, NEW y, Fits(x), Fits(y), x.type = "INVITE", y.type = "INVITE"
    PROVE  Alike(x, y)
BY DEF Fits, Message, Ue, Alike

\* A request is answered where it is.
LEMMA NetAnswer ==
    ASSUME NetFits, NEW m \in wire, IsRequest(m), m.type # "ACK", NEW code \in Code,
           wire' = (wire \ {m}) \cup {Response(m, code)}, txns' = txns,
           offered' = offered \/ (m.type = "INVITE" /\ offered' = m)
    PROVE  NetFits'
<1> DEFINE r == Response(m, code)
<1>1. Fits(m)
  BY DEF NetFits, WireFits
<1>2. /\ Fits(r) /\ ~IsRequest(r)
      /\ r.type = m.type /\ r.peer = m.peer /\ r.via = m.via
  BY <1>1, AnswerFits
<1> HIDE DEF r
<1>3. wire' = (wire \ {m}) \cup {r}
  BY DEF r
<1>4. OfferedFits' /\ WireFits' /\ TxnsFit'
  BY <1>1, <1>2, <1>3 DEF NetFits, OfferedFits, WireFits, TxnsFit
<1>5. Retraces'
  BY <1>2, <1>3 DEF NetFits, Retraces, Alike, Retraced
<1>6. Sole'
  <2>1. ASSUME NEW x \in wire \ {m}, Alike(x, m) PROVE FALSE
    BY <2>1 DEF NetFits, Sole, Alike
  <2>2. ASSUME NEW x \in wire',
               x.type # "ACK" /\ (IsRequest(x) \/ x.type # "INVITE"),
               NEW n \in wire', Alike(x, n)
        PROVE  n = x
    BY <1>2, <1>3, <2>1, <2>2 DEF NetFits, Sole, Alike
  <2>3. ASSUME NEW x \in wire', x.type # "ACK" /\ IsRequest(x)
        PROVE  /\ \A t \in txns' : Alike(t, x) => t.hop.branch > x.hops
               /\ x.type = "INVITE" => offered' = None
    <3>1. x \in wire \ {m}
      BY <1>2, <1>3, <2>3
    <3>2. x.type = "INVITE" => m.type # "INVITE"
      BY <1>1, <2>1, <3>1, InvitesAlike DEF NetFits, WireFits
    <3> QED
      BY <2>3, <3>1, <3>2 DEF NetFits, Sole
  <2> QED
    BY <2>2, <2>3 DEF Sole
<1> QED
  BY <1>4, <1>5, <1>6 DEF NetFits

\* What is dropped, picked up or forgotten leaves the rest as it is.
LEMMA NetLess ==
    ASSUME NetFits, wire' \subseteq wire, txns' \subseteq txns, offered' = offered
    PROVE  NetFits'
<1>1. OfferedFits' /\ WireFits' /\ TxnsFit' /\ Retraces'
  BY DEF NetFits, OfferedFits, WireFits, TxnsFit, Retraces
<1>2. Sole'
  BY DEF NetFits, Sole
<1> QED
  BY <1>1, <1>2 DEF NetFits

\* A proxy sends a request on and keeps a transaction.
LEMMA NetSendOn ==
    ASSUME NetFits, NEW m \in wire, IsRequest(m), m.type # "ACK", m.hops > 0,
           NEW n \in Proxy, NEW dst, NEW media \in BOOLEAN, m.dst = n, Edge(n, dst),
           n = I => Avoids(m.via, I),
           n = P /\ dst \notin Ue => m.src \in Ue,
           media => m.src \in Ue,
           wire' = (wire \ {m}) \cup {Prepared(m, n, dst)},
           txns' = txns \cup {Transaction(m, n, media)},
           offered' = offered
    PROVE  NetFits'
<1> DEFINE x == Prepared(m, n, dst)
           t == Transaction(m, n, media)
<1> HIDE DEF x, t
<1>1. /\ Fits(m) /\ m \in Message /\ WayBack(m.via) /\ RequestFits(m)
      /\ m.peer = caller => m.type = "BYE"
  BY DEF NetFits, WireFits, Fits
<1>2. n = P /\ dst \notin Ue => Len(m.via) = 1
  <2> SUFFICES ASSUME m.src \in Ue PROVE Len(m.via) = 1
    OBVIOUS
  <2>1. 1 \in 1 .. Len(m.via)
    BY <1>1, LenProperties DEF WayBack, Rooted
  <2> QED
    BY <1>1, <2>1 DEF RequestFits, TopVia, WayBack, Rooted
<1>3. n = S => Avoids(m.via, S) \/ m.via[1].node = I
  <2> SUFFICES ASSUME n = S, m.src # I PROVE Avoids(m.via, S)
    BY <1>1 DEF RequestFits, TopVia
  <2>1. m.src = P /\ m.dst \notin Ue
    BY <1>1, NodesDiffer DEF RequestFits, Edge
  <2>2. Len(m.via) = 2 /\ m.via[1].node = P /\ m.via[2].node \in Ue
    BY <1>1, <2>1 DEF RequestFits, TopVia, WayBack, Rooted
  <2> QED
    BY <2>2, NodesDiffer DEF Avoids, Proxy
<1>4. /\ Fits(x) /\ IsRequest(x)
      /\ x.type = m.type /\ x.peer = m.peer
      /\ x.hops = m.hops - 1
      /\ Len(x.via) = Len(m.via) + 1
      /\ x.via[1] = [node |-> n, branch |-> m.hops]
      /\ \A k \in 1 .. Len(m.via) : x.via[k + 1] = m.via[k]
  BY <1>1, <1>2, <1>3, PreparedFits DEF RequestFits, Fits, x
<1>5. /\ TxnFits(t) /\ t.hop = [node |-> n, branch |-> m.hops]
      /\ t.type = m.type /\ t.peer = m.peer /\ t.source = m.src
  BY <1>1 DEF t, Transaction, TxnFits, Message, Hop, Node, Proxy
<1>6. wire' = (wire \ {m}) \cup {x} /\ txns' = txns \cup {t}
  BY DEF x, t
<1>7. OfferedFits' /\ WireFits' /\ TxnsFit'
  BY <1>4, <1>5, <1>6 DEF NetFits, OfferedFits, WireFits, TxnsFit
<1>8. ASSUME NEW y \in wire \ {m}, Alike(y, m) PROVE FALSE
  BY <1>8 DEF NetFits, Sole, Alike
<1>9. Len(m.via) \in Nat /\ Len(m.via) > 0 /\ m.hops \in Nat
  BY <1>1, LenProperties DEF WayBack, Rooted, Message
<1>10. Retraces'
  <2>1. Retraced(t, x.via)
    <3> SUFFICES ASSUME NEW k \in 1 .. Len(x.via), x.via[k] = t.hop
                 PROVE  x.via[k + 1].node = m.src
      BY <1>5 DEF Retraced
    <3>1. CASE k = 1
      BY <1>1, <1>4, <1>9, <3>1 DEF RequestFits, TopVia
    <3>2. CASE k > 1
      <4>1. k - 1 \in 1 .. Len(m.via) /\ x.via[k] = m.via[k - 1]
        BY <1>4, <1>9, <3>2
      <4>2. m.via[k - 1].branch > m.hops
        BY <1>1, <1>5, <4>1 DEF RequestFits, BranchesAbove
      <4> QED
        BY <1>5, <1>9, <4>1, <4>2
    <3> QED
      BY <1>4, <1>9, <3>1, <3>2
  <2>2. ASSUME NEW u \in txns, Alike(u, x) PROVE Retraced(u, x.via)
    <3>1. u.hop.branch > m.hops /\ Retraced(u, m.via) /\ TxnFits(u)
      BY <1>4, <2>2 DEF NetFits, Sole, Retraces, Alike, TxnsFit
    <3> SUFFICES ASSUME NEW k \in 1 .. Len(x.via), x.via[k] = u.hop
                 PROVE  x.via[k + 1].node = u.source
      BY DEF Retraced
    <3>2. k # 1
      BY <1>4, <1>9, <3>1
    <3>3. k - 1 \in 1 .. Len(m.via) /\ x.via[k] = m.via[k - 1]
      BY <1>4, <1>9, <3>2
    <3>4. m.via[k - 1].node \notin Ue
      BY <3>1, <3>3, NodesDiffer DEF TxnFits
    <3>5. k \in 1 .. Len(m.via)
      BY <1>1, <1>9, <3>3, <3>4 DEF WayBack, Rooted
    <3>6. m.via[(k - 1) + 1].node = u.source
      BY <3>1, <3>3 DEF Retraced
    <3> QED
      BY <1>4, <3>5, <3>6
  <2>3. ASSUME NEW y \in wire \ {m} PROVE ~Alike(t, y)
    BY <1>5, <1>8, <2>3 DEF Alike
  <2>4. offered # None => ~Alike(t, offered)
    BY <1>5 DEF NetFits, Sole, OfferedFits, Alike
  <2> QED
    BY <1>6, <2>1, <2>2, <2>3, <2>4 DEF NetFits, Retraces
<1>11. Sole'
  <2>1. ASSUME NEW y \in wire',
               y.type # "ACK" /\ (IsRequest(y) \/ y.type # "INVITE"),
               NEW z \in wire', Alike(y, z)
        PROVE  z = y
    BY <1>4, <1>6, <1>8, <2>1 DEF NetFits, Sole, Alike
  <2>2. ASSUME NEW y \in wire', y.type # "ACK" /\ IsRequest(y), NEW u \in txns', Alike(u, y)
        PROVE  u.hop.branch > y.hops
    <3>1. CASE y = x
      <4>1. CASE u = t
        BY <1>4, <1>5, <1>9, <3>1, <4>1
      <4>2. CASE u \in txns
        <5>1. u.hop.branch > m.hops /\ u.hop.branch \in Nat
          BY <1>4, <2>2, <3>1, <4>2 DEF NetFits, Sole, Alike, TxnsFit, TxnFits, Hop
        <5> QED
          BY <1>4, <1>9, <3>1, <5>1
      <4> QED
        BY <1>6, <4>1, <4>2
    <3>2. CASE y \in wire \ {m}
      <4>1. u \in txns
        BY <1>5, <1>6, <1>8, <2>2, <3>2 DEF Alike
      <4> QED
        BY <2>2, <3>2, <4>1 DEF NetFits, Sole
    <3> QED
      BY <1>6, <3>1, <3>2
  <2>3. ASSUME NEW y \in wire', y.type = "INVITE" /\ IsRequest(y) PROVE offered' = None
    BY <1>4, <1>6, <2>3 DEF NetFits, Sole
  <2> QED
    BY <2>1, <2>2, <2>3 DEF Sole
<1> QED
  BY <1>7, <1>10, <1>11 DEF NetFits

\* An ACK is sent, or sent on, without a transaction.
LEMMA NetAck ==
    ASSUME NetFits, NEW m \in wire,
           NEW x, Fits(x), IsRequest(x), x.type = "ACK",
           wire' = (wire \ {m}) \cup {x}, txns' = txns, offered' = offered
    PROVE  NetFits'
<1>1. OfferedFits' /\ WireFits' /\ TxnsFit'
  BY DEF NetFits, OfferedFits, WireFits, TxnsFit
<1>2. Retraces'
  BY DEF NetFits, Retraces, TxnsFit, TxnFits, Alike
<1>3. Sole'
  BY DEF NetFits, Sole, Alike
<1> QED
  BY <1>1, <1>2, <1>3 DEF NetFits

\* What is left of the Vias after some were taken off says the same.
LEMMA RetracedFollows ==
    ASSUME NEW t, TxnFits(t), NEW new, NEW old, Follows(new, old), Rooted(new), Retraced(t, old)
    PROVE  Retraced(t, new)
<1> SUFFICES ASSUME NEW k \in 1 .. Len(new), new[k] = t.hop PROVE new[k + 1].node = t.source
  BY DEF Retraced
<1>1. k # Len(new)
  BY NodesDiffer DEF TxnFits, Rooted
<1>2. PICK j \in 1 .. Len(old) :
        new[k] = old[j] /\ (k < Len(new) => j < Len(old) /\ new[k + 1] = old[j + 1])
  BY DEF Follows
<1>3. k < Len(new)
  BY <1>1
<1> QED
  BY <1>2, <1>3 DEF Retraced

\* A proxy sends a response on.
LEMMA NetUpstream ==
    ASSUME NetFits, NEW m \in wire, ~IsRequest(m), m.dst \in Proxy, NEW t \in TxnOf(m),
           wire' = (wire \ {m}) \cup {Upstream(m, t)}, txns' \subseteq txns, offered' = offered
    PROVE  NetFits'
<1> DEFINE x == Upstream(m, t)
<1> HIDE DEF x
<1>1. Fits(m) /\ t \in txns /\ TxnFits(t) /\ t.hop = m.via[1] /\ Alike(t, m)
  BY DEF NetFits, WireFits, TxnsFit, TxnOf, TopVia, Alike
<1>2. m.via[2].node = t.source
  <2>1. 1 \in 1 .. Len(m.via)
    BY <1>1, LenProperties DEF Fits, WayBack, Rooted
  <2>2. Retraced(t, m.via)
    BY <1>1 DEF NetFits, Retraces
  <2>3. m.via[1 + 1].node = t.source
    BY <1>1, <2>1, <2>2 DEF Retraced
  <2> QED
    BY <2>3
<1>3. /\ Fits(x) /\ ~IsRequest(x)
      /\ x.type = m.type /\ x.peer = m.peer /\ x.code = m.code
      /\ Follows(x.via, m.via)
  BY <1>1, <1>2, UpstreamFits DEF x
<1>4. wire' = (wire \ {m}) \cup {x}
  BY DEF x
<1>5. OfferedFits' /\ WireFits' /\ TxnsFit'
  BY <1>3, <1>4 DEF NetFits, OfferedFits, WireFits, TxnsFit
<1>6. Retraces'
  <2>1. ASSUME NEW u \in txns, Alike(u, x) PROVE Retraced(u, x.via)
    <3>1. TxnFits(u) /\ Retraced(u, m.via)
      BY <1>3, <2>1 DEF NetFits, Retraces, TxnsFit, Alike
    <3> QED
      BY <1>3, <3>1, RetracedFollows DEF Fits, WayBack
  <2> QED
    BY <1>4, <2>1 DEF NetFits, Retraces
<1>7. Sole'
  <2>1. ASSUME NEW y \in wire',
               y.type # "ACK" /\ (IsRequest(y) \/ y.type # "INVITE"),
               NEW z \in wire', Alike(y, z)
        PROVE  z = y
    BY <1>3, <1>4, <2>1 DEF NetFits, Sole, Alike
  <2>2. ASSUME NEW y \in wire', y.type # "ACK" /\ IsRequest(y)
        PROVE  y \in wire
    BY <1>3, <1>4, <2>2
  <2> QED
    BY <2>1, <2>2 DEF NetFits, Sole
<1> QED
  BY <1>5, <1>6, <1>7 DEF NetFits

\* There is neither a message nor a transaction of this kind.
NothingOf(type, peer) ==
    /\ \A m \in wire : ~(m.type = type /\ m.peer = peer)
    /\ \A t \in txns : ~(t.type = type /\ t.peer = peer)

\* A device sends the first request of its kind, or an ACK.
LEMMA NetNew ==
    ASSUME NetFits, NEW x, Fits(x), IsRequest(x),
           x.type = "ACK" \/ NothingOf(x.type, x.peer),
           x.type = "INVITE" => offered = None,
           wire' = wire \cup {x}, txns' = txns, offered' = offered
    PROVE  NetFits'
<1>1. OfferedFits' /\ WireFits' /\ TxnsFit'
  BY DEF NetFits, OfferedFits, WireFits, TxnsFit
<1>2. Retraces'
  BY DEF NetFits, Retraces, TxnsFit, TxnFits, Alike, NothingOf
<1>3. Sole'
  BY DEF NetFits, Sole, Alike, NothingOf
<1> QED
  BY <1>1, <1>2, <1>3 DEF NetFits

\* The INVITE that rings is answered finally.
LEMMA NetPicksUp ==
    ASSUME NetFits, offered # None, NEW code \in Code,
           wire' = wire \cup {Response(offered, code)}, txns' = txns, offered' = None
    PROVE  NetFits'
<1> DEFINE r == Response(offered, code)
<1>1. Fits(offered) /\ IsRequest(offered) /\ offered.type = "INVITE"
  BY DEF NetFits, OfferedFits
<1>2. /\ Fits(r) /\ ~IsRequest(r)
      /\ r.type = "INVITE" /\ r.peer = offered.peer /\ r.via = offered.via
  BY <1>1, AnswerFits
<1> HIDE DEF r
<1>3. wire' = wire \cup {r}
  BY DEF r
<1>4. OfferedFits' /\ WireFits' /\ TxnsFit'
  BY <1>2, <1>3 DEF NetFits, OfferedFits, WireFits, TxnsFit
<1>5. Retraces'
  BY <1>1, <1>2, <1>3 DEF NetFits, Retraces, Alike
<1>6. Sole'
  <2>1. ASSUME NEW y \in wire', y.type # "ACK" /\ (IsRequest(y) \/ y.type # "INVITE")
        PROVE  y \in wire /\ y.type # "INVITE"
    BY <1>2, <1>3, <2>1 DEF NetFits, Sole
  <2> QED
    BY <1>2, <1>3, <2>1 DEF NetFits, Sole, Alike
<1> QED
  BY <1>4, <1>5, <1>6 DEF NetFits

-----------------------------------------------------------------------------
(* The call. *)

\* Types, and that a session that is there has two ends.
StateFits ==
    /\ config \in [entry: Entries, peer: Peers, known: SUBSET {callee}]
    /\ binding \in {"none", "active", "expired"}
    /\ session \in [from: {P, I, None}, to: {P, I, None}, initial: BOOLEAN,
                    dialog: {"none", "early", "up"}]
    /\ session.initial \/ session.dialog # "none" => session.from # None /\ session.to # None
    /\ phase \in [Ue -> {"idle", "registering", "ready", "calling", "early", "pracked", "ringing",
                         "answered", "up", "leaving", "over", "failed"}]
    /\ lost \in BOOLEAN

\* How far the devices are tells what has not been sent yet.
UnsentFits ==
    /\ phase[callee] = "idle" => NothingOf("REGISTER", callee)
    /\ phase[caller] = "idle" => NothingOf("INVITE", callee) /\ offered = None
    /\ phase[caller] \in {"idle", "calling", "early"} => NothingOf("PRACK", callee)
    /\ phase[caller] \notin {"leaving", "over"} => NothingOf("BYE", callee)
    /\ phase[callee] \notin {"leaving", "over"} => NothingOf("BYE", caller)

\* The INVITE has reached the callee.
Rung == phase[callee] \in {"ringing", "pracked", "answered", "up", "leaving", "over"}

\* The S-CSCF has sent the INVITE on to the P-CSCF.
Settled(m) ==
    m.type = "INVITE" /\ IsRequest(m) /\ (m.dst \in Ue \/ (m.src = S /\ m.dst = P))

\* From then on the way of the dialog is known and no INVITE is under way.
RungFits ==
    /\ Rung => /\ phase[caller] # "idle"
               /\ session.to # I
               /\ \A m \in wire : ~(IsRequest(m) /\ m.type = "INVITE")
    /\ phase[callee] \in {"ringing", "pracked"} => offered # None
    /\ phase[caller] \in {"up", "leaving", "over"} => Rung
    /\ \A m \in wire :
          /\ m.type = "REGISTER" => phase[callee] = "registering"
          /\ m.type = "ACK" => Rung
          /\ m.type = "INVITE" /\ m.code = 200 => Rung
          /\ Settled(m) => session.to # I

IInv == StateFits /\ NetFits /\ UnsentFits /\ RungFits

\* What a step that sends nothing of its own may do to the phases.
PhasesGoOn ==
    /\ phase'[callee] = "idle" => phase[callee] = "idle"
    /\ phase'[caller] = "idle" => phase[caller] = "idle"
    /\ phase'[caller] \in {"idle", "calling", "early"} => phase[caller] \in {"idle", "calling", "early"}
    /\ \A u \in Ue : phase[u] \in {"leaving", "over"} => phase'[u] \in {"leaving", "over"}

\* What makes no message of a new kind leaves unsent what was.
LEMMA UnsentKept ==
    ASSUME UnsentFits, PhasesGoOn,
           \A x \in wire' : \E y \in wire : Alike(x, y),
           \A t \in txns' : (\E y \in wire : Alike(t, y)) \/ (\E u \in txns : Alike(t, u)),
           offered' # None => offered # None \/ \E y \in wire : y.type = "INVITE" /\ y.peer = callee
    PROVE  UnsentFits'
<1> USE DEF Alike
<1>1. \A type, peer : NothingOf(type, peer) => NothingOf(type, peer)'
  BY DEF NothingOf
<1>2. offered' # None => offered # None \/ ~NothingOf("INVITE", callee)
  BY DEF NothingOf
<1>3. phase'[callee] \notin {"leaving", "over"} => phase[callee] \notin {"leaving", "over"}
  BY DEF PhasesGoOn, Ue
<1>4. phase'[caller] \notin {"leaving", "over"} => phase[caller] \notin {"leaving", "over"}
  BY DEF PhasesGoOn, Ue
<1> QED
  BY <1>1, <1>2, <1>3, <1>4 DEF UnsentFits, PhasesGoOn

\* A message that a proxy or a device puts in the place of another one.
InPlaceOf(x, y) ==
    /\ Alike(x, y)
    /\ IsRequest(x) => IsRequest(y)
    /\ x.type = "INVITE" /\ x.code = 200 => y.code = 200

\* The proxies leave the phases alone.
LEMMA ProxyStep ==
    ASSUME UnsentFits, RungFits, phase' = phase, offered' = offered,
           \A x \in wire' : \E y \in wire : InPlaceOf(x, y),
           \A t \in txns' : (\E y \in wire : Alike(t, y)) \/ (\E u \in txns : Alike(t, u)),
           Rung => session'.to # I,
           \A x \in wire' : Settled(x) => session'.to # I
    PROVE  UnsentFits' /\ RungFits'
<1>1. UnsentFits'
  BY UnsentKept DEF PhasesGoOn, InPlaceOf
<1>2. Rung' = Rung
  BY DEF Rung
<1>3. ASSUME NEW x \in wire'
      PROVE  /\ x.type = "REGISTER" => phase[callee] = "registering"
             /\ x.type = "ACK" => Rung
             /\ x.type = "INVITE" /\ x.code = 200 => Rung
             /\ Rung => ~(IsRequest(x) /\ x.type = "INVITE")
  BY DEF RungFits, InPlaceOf, Alike
<1>4. RungFits'
  BY <1>2, <1>3 DEF RungFits
<1> QED
  BY <1>1, <1>4

-----------------------------------------------------------------------------
(* Steps that the proxies share.  None of them touches the phases. *)

\* A message is dropped, or a transaction forgotten.
LEMMA Dropped ==
    ASSUME IInv, wire' \subseteq wire, txns' \subseteq txns, lost' \in BOOLEAN,
           binding' \in {"none", "active", "expired"},
           UNCHANGED <<config, session, offered, phase>>
    PROVE  IInv'
<1>1. NetFits'
  BY NetLess DEF IInv
<1>2. StateFits'
  BY DEF IInv, StateFits
<1>3. /\ \A x \in wire' : \E y \in wire : InPlaceOf(x, y)
      /\ \A t \in txns' : (\E y \in wire : Alike(t, y)) \/ (\E u \in txns : Alike(t, u))
  BY DEF InPlaceOf, Alike
<1>4. (Rung => session'.to # I) /\ \A x \in wire' : Settled(x) => session'.to # I
  BY DEF IInv, RungFits
<1>5. UnsentFits' /\ RungFits'
  BY <1>3, <1>4, ProxyStep DEF IInv
<1> QED
  BY <1>1, <1>2, <1>5 DEF IInv

\* A proxy answers a request itself.
LEMMA Answered ==
    ASSUME IInv, NEW m \in wire, IsRequest(m), m.type # "ACK",
           NEW code \in Code, code = 200 => m.type # "INVITE",
           wire' = (wire \ {m}) \cup {Response(m, code)}, txns' = txns, lost' \in BOOLEAN,
           binding' \in {"none", "active", "expired"},
           UNCHANGED <<config, session, offered, phase>>
    PROVE  IInv'
<1> DEFINE r == Response(m, code)
<1>1. NetFits'
  BY NetAnswer DEF IInv
<1>2. StateFits'
  BY DEF IInv, StateFits
<1>3. Fits(m)
  BY DEF IInv, NetFits, WireFits
<1>4. ~IsRequest(r) /\ r.code = code /\ r.type = m.type /\ r.peer = m.peer
  BY <1>3, AnswerFits
<1> HIDE DEF r
<1>5. wire' = (wire \ {m}) \cup {r}
  BY DEF r
<1>6. /\ \A x \in wire' : \E y \in wire : InPlaceOf(x, y)
      /\ \A t \in txns' : (\E y \in wire : Alike(t, y)) \/ (\E u \in txns : Alike(t, u))
  BY <1>4, <1>5 DEF InPlaceOf, Alike
<1>7. (Rung => session'.to # I) /\ \A x \in wire' : Settled(x) => session'.to # I
  BY <1>4, <1>5 DEF IInv, RungFits, Settled
<1>8. UnsentFits' /\ RungFits'
  BY <1>6, <1>7, ProxyStep DEF IInv
<1> QED
  BY <1>1, <1>2, <1>8 DEF IInv

\* A proxy sends a request on and keeps a transaction.
LEMMA SentOn ==
    ASSUME IInv, NEW m \in wire, IsRequest(m), m.type # "ACK", m.hops > 0,
           NEW n \in Proxy, NEW dst, m.dst = n, Edge(n, dst),
           n = I => Avoids(m.via, I),
           n = P /\ dst \notin Ue => m.src \in Ue,
           n = P /\ dst = config.entry => m.src \in Ue,
           SendOn(m, n, dst), StateFits',
           UNCHANGED <<offered, phase>>,
           Rung => session'.to # I,
           m.type = "INVITE" /\ (dst \in Ue \/ (n = S /\ dst = P)) => session'.to # I,
           \A x \in wire : x # m /\ Settled(x) => session'.to # I
    PROVE  IInv'
<1> DEFINE media == m.type = "INVITE" /\ n = P /\ dst = config.entry
           x == Prepared(m, n, dst)
           t == Transaction(m, n, media)
<1>1. /\ wire' = (wire \ {m}) \cup {x}
      /\ txns' = txns \cup {t}
  BY DEF SendOn
<1>2. NetFits'
  <2>1. media \in BOOLEAN /\ (media => m.src \in Ue)
    OBVIOUS
  <2> HIDE DEF media
  <2> QED
    BY <1>1, <2>1, NetSendOn DEF IInv
<1>3. m \in Message
  BY DEF IInv, NetFits, WireFits, Fits
<1>4. IsRequest(x) /\ x.type = m.type /\ x.peer = m.peer /\ x.code = m.code /\ x.src = n /\ x.dst = dst
  BY <1>3 DEF Prepared, IsRequest, Message
<1>5. t.type = m.type /\ t.peer = m.peer
  BY DEF Transaction
<1> HIDE DEF x, t, media
<1>6. /\ \A y \in wire' : \E z \in wire : InPlaceOf(y, z)
      /\ \A u \in txns' : (\E y \in wire : Alike(u, y)) \/ (\E v \in txns : Alike(u, v))
  BY <1>1, <1>4, <1>5 DEF InPlaceOf, Alike
<1>7. ASSUME NEW y \in wire', Settled(y) PROVE session'.to # I
  <2>1. CASE y = x
    BY <1>4, <1>7, <2>1 DEF Settled
  <2>2. CASE y \in wire /\ y # m
    BY <1>7, <2>2
  <2> QED
    BY <1>1, <2>1, <2>2
<1>8. UnsentFits' /\ RungFits'
  BY <1>6, <1>7, ProxyStep DEF IInv
<1> QED
  BY <1>2, <1>8 DEF IInv

\* A proxy sends an ACK on.
LEMMA AckSentOn ==
    ASSUME IInv, NEW m \in wire, IsRequest(m), m.type = "ACK",
           NEW x, Fits(x), IsRequest(x), x.type = "ACK", x.peer = m.peer,
           wire' = (wire \ {m}) \cup {x},
           UNCHANGED <<txns, lost, config, binding, session, offered, phase>>
    PROVE  IInv'
<1>1. NetFits'
  BY NetAck DEF IInv
<1>2. StateFits'
  BY DEF IInv, StateFits
<1>3. /\ \A y \in wire' : \E z \in wire : InPlaceOf(y, z)
      /\ \A t \in txns' : (\E y \in wire : Alike(t, y)) \/ (\E u \in txns : Alike(t, u))
  BY DEF InPlaceOf, Alike
<1>4. (Rung => session'.to # I) /\ \A y \in wire' : Settled(y) => session'.to # I
  BY DEF IInv, RungFits, Settled
<1>5. UnsentFits' /\ RungFits'
  BY <1>3, <1>4, ProxyStep DEF IInv
<1> QED
  BY <1>1, <1>2, <1>5 DEF IInv

-----------------------------------------------------------------------------
(* Requests at the proxies. *)

\* What a proxy may rely on in a request it gets.
LEMMA RequestsFit ==
    ASSUME IInv, NEW m \in wire, IsRequest(m)
    PROVE  /\ Fits(m) /\ m \in Message /\ WayBack(m.via) /\ RequestFits(m)
           /\ m.peer = caller => m.type = "BYE"
           /\ m.src = P /\ m.dst \notin Ue => Avoids(m.via, I) /\ Avoids(m.via, S)
<1>1. /\ Fits(m) /\ m \in Message /\ WayBack(m.via) /\ RequestFits(m)
      /\ m.peer = caller => m.type = "BYE"
  BY DEF IInv, NetFits, WireFits, Fits
<1>2. ASSUME m.src = P, m.dst \notin Ue PROVE Avoids(m.via, I) /\ Avoids(m.via, S)
  <2>1. Len(m.via) = 2 /\ m.via[1].node = P /\ m.via[2].node \in Ue
    BY <1>1, <1>2 DEF RequestFits, TopVia, WayBack, Rooted
  <2> QED
    BY <2>1, NodesDiffer DEF Avoids, Proxy
<1> QED
  BY <1>1, <1>2

LEMMA ForwardStatefulStep ==
    ASSUME IInv, NEW m \in wire, IsRequest(m), m.type # "ACK",
           NEW n \in {P, I}, NEW dst, NEW detectLoop \in BOOLEAN, m.dst = n, Edge(n, dst),
           n = I => detectLoop /\ dst = S,
           n = P /\ dst \notin Ue => m.src \in Ue,
           n = P /\ dst \in Ue => m.src = S,
           ForwardStateful(m, n, dst, detectLoop),
           UNCHANGED <<config, binding, session, offered, phase>>
    PROVE  IInv'
<1>1. m \in Message /\ m.hops \in Nat
  BY RequestsFit DEF Message
<1>2. lost' \in BOOLEAN
  BY DEF IInv, StateFits, ForwardStateful, Answer, SendOn, CannotSend
<1>3. CASE Answer(m, 482) \/ Answer(m, 483) \/ CannotSend(m)
  <2>1. \E code \in {482, 483, 500} :
            wire' = (wire \ {m}) \cup {Response(m, code)} /\ txns' = txns
    BY <1>3 DEF Answer, CannotSend
  <2>2. PICK code \in {482, 483, 500} :
            wire' = (wire \ {m}) \cup {Response(m, code)} /\ txns' = txns
    BY <2>1
  <2>3. code \in Code /\ code # 200
    BY DEF Code
  <2>4. binding' \in {"none", "active", "expired"}
    BY DEF IInv, StateFits
  <2> QED
    BY <1>2, <2>2, <2>3, <2>4, Answered
<1>4. CASE ~(detectLoop /\ LoopDetected(m, n)) /\ m.hops > 0 /\ SendOn(m, n, dst)
  <2>1. n = I => Avoids(m.via, I)
    BY <1>4 DEF LoopDetected, Avoids
  <2>2. n = P /\ dst = config.entry => m.src \in Ue
    BY ChainAssumption, NodesDiffer DEF IInv, StateFits, Proxy
  <2>3. m.type = "INVITE" /\ (dst \in Ue \/ (n = S /\ dst = P)) => Settled(m)
    BY NodesDiffer DEF Settled, Proxy
  <2>4. StateFits'
    BY <1>2 DEF IInv, StateFits
  <2>5. /\ Rung => session'.to # I
        /\ \A x \in wire : Settled(x) => session'.to # I
    BY DEF IInv, RungFits
  <2> QED
    BY <1>4, <2>1, <2>2, <2>3, <2>4, <2>5, SentOn DEF Proxy
<1> QED
  BY <1>3, <1>4 DEF ForwardStateful

LEMMA PcscfRequestStep ==
    ASSUME IInv, NEW m \in wire, PcscfRequest(m)
    PROVE  IInv'
<1>1. /\ IsRequest(m) /\ m.dst = P
      /\ UNCHANGED <<config, binding, session, offered, phase>>
  BY DEF PcscfRequest
<1>2. /\ Fits(m) /\ m \in Message /\ WayBack(m.via) /\ RequestFits(m)
      /\ m.peer = caller => m.type = "BYE"
  BY <1>1, RequestsFit
<1>3. (~FromCore(m) => m.src \in Ue) /\ (FromCore(m) => m.src = S)
  BY <1>1, <1>2, NodesDiffer DEF RequestFits, Edge, FromCore, Proxy
<1>4. config.entry \in {I, S} /\ config.entry \notin Ue /\ m.peer \in Ue
  BY <1>2, ChainAssumption, NodesDiffer DEF IInv, StateFits, Message, Proxy
<1>5. CASE m.type # "ACK" /\ ~FromCore(m) /\ ForwardStateful(m, P, config.entry, TRUE)
  BY <1>1, <1>3, <1>4, <1>5, NodesDiffer, ForwardStatefulStep DEF Edge
<1>6. CASE m.type # "ACK" /\ FromCore(m) /\ ForwardStateful(m, P, m.peer, FALSE)
  BY <1>1, <1>3, <1>4, <1>6, NodesDiffer, ForwardStatefulStep DEF Edge
<1>7. CASE /\ m.type = "ACK" /\ ~FromCore(m)
           /\ IF LoopDetected(m, P) THEN Drop(m) ELSE SendStateless(m, P, config.entry)
  <2>1. lost' \in BOOLEAN /\ binding' \in {"none", "active", "expired"} /\ txns' = txns
    BY <1>1, <1>7 DEF IInv, StateFits, Drop, SendStateless
  <2>2. CASE wire' = wire \ {m}
    BY <1>1, <2>1, <2>2, Dropped
  <2>3. CASE m.hops > 0 /\ wire' = (wire \ {m}) \cup {Prepared(m, P, config.entry)}
    <3>1. Len(m.via) = 1
      <4>1. 1 \in 1 .. Len(m.via)
        BY <1>2, LenProperties DEF WayBack, Rooted
      <4> QED
        BY <1>2, <1>3, <1>7, <4>1 DEF RequestFits, TopVia, WayBack, Rooted
    <3>2. Edge(P, config.entry) /\ P \in Proxy
      BY <1>4 DEF Edge, Proxy
    <3> DEFINE x == Prepared(m, P, config.entry)
    <3>3. /\ m \in Message /\ IsRequest(m) /\ WayBack(m.via) /\ BranchesAbove(m.via, m.hops)
          /\ m.peer = caller => m.type = "BYE"
          /\ m.type = "ACK" /\ m.type # "INVITE" /\ P # I /\ P # S
      BY <1>1, <1>2, <1>7, NodesDiffer DEF RequestFits
    <3>4. Fits(x) /\ IsRequest(x)
      BY <2>3, <3>1, <3>2, <3>3, PreparedFits
    <3>5. x.type = "ACK" /\ x.peer = m.peer
      BY <3>3 DEF Prepared, Message
    <3> QED
      BY <1>1, <1>7, <2>1, <2>3, <3>4, <3>5, AckSentOn DEF Drop, SendStateless
  <2> QED
    BY <1>7, <2>2, <2>3 DEF Drop, SendStateless
<1>8. CASE /\ m.type = "ACK" /\ FromCore(m)
           /\ wire' = (wire \ {m}) \cup
                  (IF m.hops > 0
                   THEN {Prepared([m EXCEPT !.via = BottomVia(@)], P, m.peer)} ELSE {})
           /\ UNCHANGED <<txns, lost>>
  <2>1. CASE ~(m.hops > 0)
    <3>1. wire' = wire \ {m}
      BY <1>8, <2>1
    <3> QED
      BY <1>1, <1>8, <3>1, Dropped DEF IInv, StateFits
  <2>2. CASE m.hops > 0
    <3> DEFINE cut == [m EXCEPT !.via = BottomVia(@)]
               x == Prepared(cut, P, m.peer)
    <3>1. /\ WayBack(BottomVia(m.via)) /\ Len(BottomVia(m.via)) = 1
          /\ BottomVia(m.via)[1] = m.via[Len(m.via)] /\ m.via[Len(m.via)].node \in Ue
      BY <1>2, Bottom
    <3>2. /\ cut.via = BottomVia(m.via) /\ cut.type = m.type /\ cut.code = m.code
          /\ cut.peer = m.peer /\ cut.hops = m.hops /\ cut \in Message
      BY <1>2, <3>1 DEF Message, WayBack
    <3> HIDE DEF cut
    <3>3. BranchesAbove(cut.via, cut.hops)
      BY <3>1, <3>2, NodesDiffer DEF BranchesAbove
    <3>4. Edge(P, m.peer) /\ P \in Proxy
      BY <1>4 DEF Edge, Proxy
    <3>5. IsRequest(cut)
      BY <1>1, <3>2 DEF IsRequest
    <3>6. Fits(x) /\ IsRequest(x) /\ x.type = "ACK" /\ x.peer = m.peer
      <4>1. /\ WayBack(cut.via) /\ cut.hops > 0 /\ m.peer \in Ue
            /\ cut.peer = caller => cut.type = "BYE"
            /\ cut.type = "ACK" /\ cut.type # "INVITE" /\ P # I /\ P # S
        BY <1>2, <1>4, <1>8, <2>2, <3>1, <3>2, NodesDiffer
      <4>2. /\ cut \in Message /\ cut.type = "ACK" /\ cut.peer = m.peer
            /\ m.peer \in Ue /\ m.peer # caller
        BY <1>8, <3>1, <3>2, <4>1
      <4> QED
        BY <3>2, <3>3, <3>5, <4>1, <4>2, AckPrepared
    <3>7. wire' = (wire \ {m}) \cup {x}
      BY <1>8, <2>2 DEF cut
    <3> HIDE DEF x
    <3> QED
      BY <1>1, <1>8, <3>6, <3>7, AckSentOn
  <2> QED
    BY <2>1, <2>2
<1> QED
  BY <1>5, <1>6, <1>7, <1>8 DEF PcscfRequest

LEMMA IcscfRequestStep ==
    ASSUME IInv, NEW m \in wire, IcscfRequest(m)
    PROVE  IInv'
<1>1. /\ IsRequest(m) /\ m.dst = I
      /\ UNCHANGED <<config, binding, session, offered, phase>>
  BY DEF IcscfRequest
<1>2. /\ Fits(m) /\ m \in Message /\ WayBack(m.via) /\ RequestFits(m)
      /\ m.peer = caller => m.type = "BYE"
      /\ m.src = P /\ m.dst \notin Ue => Avoids(m.via, I)
  BY <1>1, RequestsFit
<1>3. Edge(I, S) /\ I \in Proxy /\ I \notin Ue
  BY NodesDiffer DEF Edge, Proxy
<1>4. CASE m.type # "ACK" /\ ForwardStateful(m, I, S, TRUE)
  BY <1>1, <1>3, <1>4, NodesDiffer, ForwardStatefulStep
<1>5. CASE m.type # "ACK" /\ (Answer(m, 500) \/ Answer(m, 404))
  BY <1>1, <1>5, Answered DEF IInv, StateFits, Answer, Code
<1>6. CASE m.type = "ACK" /\ SendStateless(m, I, S)
  <2>1. CASE ~(m.hops > 0)
    <3>1. wire' = wire \ {m}
      BY <1>6, <2>1 DEF SendStateless
    <3> QED
      BY <1>1, <1>6, <3>1, Dropped DEF IInv, StateFits, SendStateless
  <2>2. CASE m.hops > 0
    <3>1. Avoids(m.via, I)
      BY <1>1, <1>2, <1>3, <1>6, NodesDiffer DEF RequestFits, Edge
    <3> DEFINE x == Prepared(m, I, S)
    <3>2. /\ m \in Message /\ IsRequest(m) /\ WayBack(m.via) /\ BranchesAbove(m.via, m.hops)
          /\ m.peer = caller => m.type = "BYE"
          /\ m.type = "ACK" /\ m.type # "INVITE" /\ I # P /\ I # S
      BY <1>1, <1>2, <1>6, NodesDiffer DEF RequestFits
    <3>3. Fits(x) /\ IsRequest(x)
      BY <1>3, <2>2, <3>1, <3>2, PreparedFits
    <3>4. x.type = "ACK" /\ x.peer = m.peer
      BY <3>2 DEF Prepared, Message
    <3>5. wire' = (wire \ {m}) \cup {Prepared(m, I, S)}
      BY <1>6, <2>2 DEF SendStateless
    <3> QED
      BY <1>1, <1>6, <3>3, <3>4, <3>5, AckSentOn DEF SendStateless
  <2> QED
    BY <2>1, <2>2
<1> QED
  BY <1>4, <1>5, <1>6 DEF IcscfRequest

LEMMA ScscfRegisterStep ==
    ASSUME IInv, NEW m \in wire, ScscfRegister(m)
    PROVE  IInv'
<1>1. /\ IsRequest(m) /\ m.type = "REGISTER"
      /\ UNCHANGED <<config, session, offered, phase>>
  BY DEF ScscfRegister
<1>2. \E code \in {200, 500} : Answer(m, code)
  BY DEF ScscfRegister
<1>3. PICK code \in {200, 500} : Answer(m, code)
  BY <1>2
<1>4. lost' \in BOOLEAN /\ binding' \in {"none", "active", "expired"} /\ code \in Code
  BY <1>3 DEF ScscfRegister, IInv, StateFits, Answer, Code
<1> QED
  BY <1>1, <1>3, <1>4, Answered DEF Answer

\* Of the INVITEs no other one is under way as a request.
LEMMA InviteAlone ==
    ASSUME IInv, NEW m \in wire, IsRequest(m), m.type = "INVITE",
           NEW x \in wire, x.type = "INVITE"
    PROVE  x = m
<1>1. Alike(m, x)
  BY InvitesAlike DEF IInv, NetFits, WireFits
<1> QED
  BY <1>1 DEF IInv, NetFits, Sole

LEMMA ScscfInviteStep ==
    ASSUME IInv, NEW m \in wire, ScscfInvite(m)
    PROVE  IInv'
<1> DEFINE dst == IF binding = "none" THEN config.peer ELSE P
<1>1. /\ IsRequest(m) /\ m.dst = S /\ m.type = "INVITE"
      /\ UNCHANGED <<config, binding, offered, phase>>
  BY DEF ScscfInvite
<1>2. m \in Message /\ RequestFits(m)
  BY <1>1, RequestsFit
<1>3. CASE (Answer(m, 404) \/ Answer(m, 480) \/ Answer(m, 500)) /\ UNCHANGED session
  <2>1. PICK code \in {404, 480, 500} : Answer(m, code)
    BY <1>3
  <2>2. lost' \in BOOLEAN /\ binding' \in {"none", "active", "expired"}
    BY <1>1, <2>1 DEF IInv, StateFits, Answer
  <2>3. code \in Code /\ code # 200
    BY DEF Code
  <2> QED
    BY <1>1, <1>3, <2>1, <2>2, <2>3, Answered DEF Answer
<1>4. CASE /\ dst # None /\ m.hops # 0
           /\ session' = [session EXCEPT !.from = m.src, !.to = dst, !.initial = TRUE]
           /\ SendOrFail(m, dst)
  <2>1. m.src \in {P, I} /\ dst \in {P, I}
    BY <1>1, <1>2, <1>4, ChainAssumption, NodesDiffer DEF RequestFits, Edge, Proxy, IInv, StateFits
  <2>2. ~Rung
    BY <1>1 DEF IInv, RungFits
  <2>3. \A x \in wire : x # m => ~Settled(x)
    BY <1>1, InviteAlone DEF Settled
  <2>4. session'.to = dst
    BY <1>4 DEF IInv, StateFits
  <2>5. lost' \in BOOLEAN
    BY <1>4 DEF SendOrFail, SendOn, IInv, StateFits
  <2>6. StateFits'
    <3>1. /\ session' \in [from: {P, I, None}, to: {P, I, None}, initial: BOOLEAN,
                           dialog: {"none", "early", "up"}]
          /\ session'.from # None /\ session'.to # None
      BY <1>4, <2>1, NodesDiffer DEF IInv, StateFits, Node, Proxy
    <3> QED
      BY <1>1, <2>5, <3>1 DEF IInv, StateFits
  <2> HIDE DEF dst
  <2>7. CASE SendOn(m, S, dst)
    <3>1. S \in Proxy /\ Edge(S, dst) /\ S # I /\ S # P /\ P # I
      BY <2>1, NodesDiffer DEF Edge, Proxy
    <3>2. m.hops > 0
      BY <1>2, <1>4 DEF Message
    <3>3. dst \notin Ue
      BY <2>1, NodesDiffer DEF Proxy
    <3> QED
      BY <1>1, <2>2, <2>3, <2>4, <2>6, <2>7, <3>1, <3>2, <3>3, SentOn
  <2>8. CASE /\ wire' = wire \ {m}
             /\ UNCHANGED txns
    <3>1. NetFits'
      BY <1>1, <2>8, NetLess DEF IInv
    <3>2. /\ \A x \in wire' : \E y \in wire : InPlaceOf(x, y)
          /\ \A t \in txns' : (\E y \in wire : Alike(t, y)) \/ (\E u \in txns : Alike(t, u))
      BY <2>8 DEF InPlaceOf, Alike
    <3>3. \A x \in wire' : ~Settled(x)
      BY <2>3, <2>8
    <3>4. UnsentFits' /\ RungFits'
      BY <1>1, <2>2, <3>2, <3>3, ProxyStep DEF IInv
    <3> QED
      BY <2>6, <3>1, <3>4 DEF IInv
  <2> QED
    BY <1>4, <2>7, <2>8 DEF SendOrFail, dst
<1> QED
  BY <1>3, <1>4 DEF ScscfInvite

LEMMA OtherEndFits ==
    ASSUME IInv, session.dialog # "none", NEW m
    PROVE  OtherEnd(m) \in {P, I}
BY DEF IInv, StateFits, OtherEnd

LEMMA ScscfInDialogStep ==
    ASSUME IInv, NEW m \in wire, ScscfInDialog(m)
    PROVE  IInv'
<1>1. /\ IsRequest(m) /\ m.dst = S /\ m.type \notin {"ACK", "INVITE"}
      /\ UNCHANGED <<config, binding, session, offered, phase>>
  BY DEF ScscfInDialog
<1>2. m \in Message
  BY <1>1, RequestsFit
<1>3. lost' \in BOOLEAN
  BY DEF ScscfInDialog, SendOrFail, SendOn, Answer, IInv, StateFits
<1>4. binding' \in {"none", "active", "expired"} /\ StateFits'
  BY <1>1, <1>3 DEF IInv, StateFits
<1>5. CASE Answer(m, 481) \/ Answer(m, 500)
  <2>1. PICK code \in {481, 500} : Answer(m, code)
    BY <1>5
  <2>2. code \in Code /\ code # 200
    BY DEF Code
  <2> QED
    BY <1>1, <1>3, <1>4, <2>1, <2>2, Answered DEF Answer
<1>6. CASE session.dialog # "none" /\ m.hops # 0 /\ SendOrFail(m, OtherEnd(m))
  <2> DEFINE dst == OtherEnd(m)
  <2>1. dst \in {P, I}
    BY <1>6, OtherEndFits
  <2> HIDE DEF dst
  <2>2. CASE SendOn(m, S, dst)
    <3>1. S \in Proxy /\ Edge(S, dst) /\ S # I /\ S # P
      BY <2>1, NodesDiffer DEF Edge, Proxy
    <3>2. m.hops > 0
      BY <1>2, <1>6 DEF Message
    <3>3. /\ Rung => session'.to # I
          /\ \A x \in wire : Settled(x) => session'.to # I
      BY <1>1 DEF IInv, RungFits
    <3> QED
      BY <1>1, <1>4, <2>2, <3>1, <3>2, <3>3, SentOn
  <2>3. CASE wire' = wire \ {m} /\ UNCHANGED txns
    BY <1>1, <1>3, <1>4, <2>3, Dropped
  <2> QED
    BY <1>6, <2>2, <2>3 DEF SendOrFail, dst
<1> QED
  BY <1>5, <1>6 DEF ScscfInDialog

LEMMA ScscfAckStep ==
    ASSUME IInv, NEW m \in wire, ScscfAck(m)
    PROVE  IInv'
<1>1. /\ IsRequest(m) /\ m.dst = S /\ m.type = "ACK"
      /\ UNCHANGED <<config, binding, session, offered, phase, txns, lost>>
  BY DEF ScscfAck, Drop, SendStateless
<1>2. /\ Fits(m) /\ m \in Message /\ WayBack(m.via) /\ RequestFits(m)
      /\ m.peer = caller => m.type = "BYE"
      /\ m.src = P /\ m.dst \notin Ue => Avoids(m.via, S)
  BY <1>1, RequestsFit
<1>3. CASE wire' = wire \ {m}
  BY <1>1, <1>3, Dropped DEF IInv, StateFits
<1>4. CASE /\ session.dialog # "none" /\ m.hops > 0
           /\ wire' = (wire \ {m}) \cup {Prepared(m, S, OtherEnd(m))}
  <2> DEFINE x == Prepared(m, S, P)
  <2>1. OtherEnd(m) = P
    <3>1. m.peer = callee /\ Rung
      BY <1>1, <1>2 DEF Message, Ue, IInv, RungFits
    <3>2. OtherEnd(m) # I
      BY <3>1 DEF IInv, RungFits, OtherEnd
    <3> QED
      BY <1>4, <3>2, OtherEndFits
  <2>2. Avoids(m.via, S) \/ m.via[1].node = I
    BY <1>1, <1>2, NodesDiffer DEF RequestFits, TopVia, Edge, Proxy
  <2>3. /\ IsRequest(m) /\ BranchesAbove(m.via, m.hops)
        /\ m.type = "ACK" /\ m.type # "INVITE" /\ S # P /\ S # I /\ P # I
    BY <1>1, <1>2, NodesDiffer DEF RequestFits
  <2>4. Edge(S, P) /\ S \in Proxy
    BY DEF Edge, Proxy
  <2>5. Fits(x) /\ IsRequest(x)
    BY <1>2, <1>4, <2>2, <2>3, <2>4, PreparedFits
  <2>6. x.type = "ACK" /\ x.peer = m.peer
    BY <1>1, <1>2 DEF Prepared, Message
  <2> QED
    BY <1>1, <1>4, <2>1, <2>5, <2>6, AckSentOn
<1> QED
  BY <1>3, <1>4 DEF ScscfAck, Drop, SendStateless

-----------------------------------------------------------------------------
(* Responses at the proxies, and what runs out there. *)

\* What the S-CSCF does to the session on a response names no other end.
LEMMA SessionAfterFits ==
    ASSUME StateFits, NEW m \in Message
    PROVE  /\ SessionAfter(m) \in [from: {P, I, None}, to: {P, I, None}, initial: BOOLEAN,
                                   dialog: {"none", "early", "up"}]
           /\ SessionAfter(m).initial \/ SessionAfter(m).dialog # "none" =>
                 SessionAfter(m).from # None /\ SessionAfter(m).to # None
           /\ SessionAfter(m).to \in {session.to, None}
<1>1. /\ NoSession \in [from: {P, I, None}, to: {P, I, None}, initial: BOOLEAN,
                        dialog: {"none", "early", "up"}]
      /\ ~NoSession.initial /\ NoSession.dialog = "none" /\ NoSession.to = None
  BY DEF NoSession
<1>2. CASE SessionAfter(m) = NoSession
  BY <1>1, <1>2
<1>3. CASE SessionAfter(m) = session
  BY <1>3 DEF StateFits
<1>4. CASE SessionAfter(m) = [session EXCEPT !.initial = FALSE]
  BY <1>4 DEF StateFits
<1>5. CASE SessionAfter(m) = [Recorded("up") EXCEPT !.initial = FALSE]
  BY <1>5 DEF StateFits, Recorded
<1>6. CASE SessionAfter(m) = Recorded("early")
  BY <1>6 DEF StateFits, Recorded
<1>7. \/ SessionAfter(m) = NoSession
      \/ SessionAfter(m) = session
      \/ SessionAfter(m) = [session EXCEPT !.initial = FALSE]
      \/ SessionAfter(m) = [Recorded("up") EXCEPT !.initial = FALSE]
      \/ SessionAfter(m) = Recorded("early")
  BY DEF SessionAfter
<1> QED
  BY <1>2, <1>3, <1>4, <1>5, <1>6, <1>7

LEMMA ProxyResponseStep ==
    ASSUME IInv, NEW m \in wire, ProxyResponse(m)
    PROVE  IInv'
<1>1. /\ ~IsRequest(m) /\ m.dst \in Proxy
      /\ UNCHANGED <<config, binding, offered, phase, lost>>
  BY DEF ProxyResponse
<1>2. CASE TxnOf(m) = {}
  BY <1>1, <1>2, Dropped DEF ProxyResponse, IInv, StateFits
<1>3. CASE TxnOf(m) # {}
  <2>1. PICK t \in TxnOf(m) :
              /\ wire' = (wire \ {m}) \cup {Upstream(m, t)}
              /\ txns' = IF Final(m) THEN txns \ {t} ELSE txns
              /\ session' = IF m.dst = S THEN SessionAfter(m) ELSE session
    BY <1>3 DEF ProxyResponse, Upstream
  <2>2. m \in Message
    BY DEF IInv, NetFits, WireFits, Fits
  <2>3. NetFits'
    BY <1>1, <2>1, NetUpstream DEF IInv
  <2>4. StateFits' /\ session'.to \in {session.to, None}
    BY <1>1, <2>1, <2>2, SessionAfterFits DEF IInv, StateFits
  <2> DEFINE x == Upstream(m, t)
  <2>5. x.type = m.type /\ x.peer = m.peer /\ x.code = m.code /\ ~IsRequest(x)
    BY <1>1, <2>2 DEF Upstream, Message, IsRequest
  <2> HIDE DEF x
  <2>6. wire' = (wire \ {m}) \cup {x} /\ txns' \subseteq txns
    BY <2>1 DEF x
  <2>7. /\ \A y \in wire' : \E z \in wire : InPlaceOf(y, z)
        /\ \A u \in txns' : (\E y \in wire : Alike(u, y)) \/ (\E v \in txns : Alike(u, v))
    BY <2>5, <2>6 DEF InPlaceOf, Alike
  <2>8. session.to # I => session'.to # I
    BY <2>4, NodesDiffer DEF Node, Proxy
  <2>9. (Rung => session'.to # I) /\ \A y \in wire' : Settled(y) => session'.to # I
    BY <2>5, <2>6, <2>8 DEF IInv, RungFits, Settled
  <2>10. UnsentFits' /\ RungFits'
    BY <1>1, <2>7, <2>9, ProxyStep DEF IInv
  <2> QED
    BY <2>3, <2>4, <2>10 DEF IInv
<1> QED
  BY <1>2, <1>3

LEMMA TimesOutStep ==
    ASSUME IInv, NEW t \in txns, TimesOut(t)
    PROVE  IInv'
BY Dropped DEF TimesOut, IInv, StateFits

LEMMA BindingExpiresStep ==
    ASSUME IInv, BindingExpires
    PROVE  IInv'
BY Dropped DEF BindingExpires, network, IInv, StateFits

-----------------------------------------------------------------------------
(* Requests of the devices. *)

LEMMA RegistersStep ==
    ASSUME IInv, Registers
    PROVE  IInv'
<1> DEFINE x == NewRequest("REGISTER", callee, Plenty)
<1>1. /\ phase[callee] = "idle" /\ phase' = [phase EXCEPT ![callee] = "registering"]
      /\ wire' = wire \cup {x}
      /\ UNCHANGED <<txns, lost, config, binding, session, offered>>
  BY DEF Registers, Moves, Sends
<1>2. Fits(x) /\ IsRequest(x) /\ x.type = "REGISTER" /\ x.peer = callee
  BY NewFits, ChainAssumption DEF Request, Ue
<1> HIDE DEF x
<1>3. NothingOf("REGISTER", callee)
  BY <1>1 DEF IInv, UnsentFits
<1>4. NetFits'
  BY <1>1, <1>2, <1>3, NetNew DEF IInv
<1>5. /\ phase'[callee] = "registering" /\ phase'[caller] = phase[caller]
      /\ StateFits'
  BY <1>1, NodesDiffer DEF IInv, StateFits, Ue
<1>6. UnsentFits'
  BY <1>1, <1>2, <1>5 DEF IInv, UnsentFits, NothingOf
<1>7. RungFits'
  <2>1. ~Rung /\ ~Rung'
    BY <1>1, <1>5 DEF Rung
  <2> QED
    BY <1>1, <1>2, <1>5, <2>1 DEF IInv, RungFits, Settled
<1> QED
  BY <1>4, <1>5, <1>6, <1>7 DEF IInv

LEMMA CallsStep ==
    ASSUME IInv, NEW hops \in Hops, Calls(hops)
    PROVE  IInv'
<1> DEFINE x == NewRequest("INVITE", caller, hops)
<1>1. /\ phase[caller] = "idle" /\ phase' = [phase EXCEPT ![caller] = "calling"]
      /\ wire' = wire \cup {x}
      /\ UNCHANGED <<txns, lost, config, binding, session, offered>>
  BY DEF Calls, Moves, Sends
<1>2. /\ Fits(x) /\ IsRequest(x) /\ x.type = "INVITE" /\ x.peer = callee
      /\ x.src = caller /\ x.dst = P
  BY NewFits, ChainAssumption DEF Request, Ue
<1> HIDE DEF x
<1>3. NothingOf("INVITE", callee) /\ offered = None
  BY <1>1 DEF IInv, UnsentFits
<1>4. NetFits'
  BY <1>1, <1>2, <1>3, NetNew DEF IInv
<1>5. /\ phase'[callee] = phase[callee] /\ phase'[caller] = "calling"
      /\ StateFits'
  BY <1>1, NodesDiffer DEF IInv, StateFits, Ue
<1>6. UnsentFits'
  BY <1>1, <1>2, <1>5 DEF IInv, UnsentFits, NothingOf
<1>7. RungFits'
  <2>1. ~Rung /\ ~Rung'
    BY <1>1, <1>5 DEF Rung, IInv, RungFits
  <2>2. ~Settled(x)
    BY <1>2, NodesDiffer DEF Settled, Ue, Proxy
  <2>3. x.code # 200
    BY <1>2, NodesDiffer DEF IsRequest, Code
  <2> QED
    BY <1>1, <1>2, <1>5, <2>1, <2>2, <2>3 DEF IInv, RungFits, Rung
<1> QED
  BY <1>4, <1>5, <1>6, <1>7 DEF IInv

LEMMA SendsPrackStep ==
    ASSUME IInv, SendsPrack
    PROVE  IInv'
<1> DEFINE x == NewRequest("PRACK", caller, Plenty)
<1>1. /\ phase[caller] = "early" /\ phase' = [phase EXCEPT ![caller] = "pracked"]
      /\ wire' = wire \cup {x}
      /\ UNCHANGED <<txns, lost, config, binding, session, offered>>
  BY DEF SendsPrack, Moves, Sends
<1>2. Fits(x) /\ IsRequest(x) /\ x.type = "PRACK" /\ x.peer = callee
  BY NewFits, ChainAssumption DEF Request, Ue
<1> HIDE DEF x
<1>3. NothingOf("PRACK", callee)
  BY <1>1 DEF IInv, UnsentFits
<1>4. NetFits'
  BY <1>1, <1>2, <1>3, NetNew DEF IInv
<1>5. /\ phase'[callee] = phase[callee] /\ phase'[caller] = "pracked"
      /\ StateFits'
  BY <1>1, NodesDiffer DEF IInv, StateFits, Ue
<1>6. UnsentFits'
  BY <1>1, <1>2, <1>5 DEF IInv, UnsentFits, NothingOf
<1>7. RungFits'
  BY <1>1, <1>2, <1>5 DEF IInv, RungFits, Settled, Rung
<1> QED
  BY <1>4, <1>5, <1>6, <1>7 DEF IInv

LEMMA HangsUpStep ==
    ASSUME IInv, NEW u \in Ue, HangsUp(u)
    PROVE  IInv'
<1> DEFINE x == NewRequest("BYE", u, Plenty)
           peer == IF u = caller THEN callee ELSE caller
<1>1. /\ phase[u] = "up" /\ phase' = [phase EXCEPT ![u] = "leaving"]
      /\ wire' = wire \cup {x}
      /\ UNCHANGED <<txns, lost, config, binding, session, offered>>
  BY DEF HangsUp, Moves, Sends
<1>2. Fits(x) /\ IsRequest(x) /\ x.type = "BYE" /\ x.peer = peer
  BY NewFits, ChainAssumption DEF Request
<1> HIDE DEF x
<1>3. NothingOf("BYE", peer)
  BY <1>1 DEF IInv, UnsentFits, Ue
<1>4. NetFits'
  BY <1>1, <1>2, <1>3, NetNew DEF IInv
<1>5. /\ phase'[u] = "leaving" /\ \A v \in Ue : v # u => phase'[v] = phase[v]
      /\ StateFits'
  BY <1>1 DEF IInv, StateFits
<1>6. UnsentFits'
  BY <1>1, <1>2, <1>5, NodesDiffer DEF IInv, UnsentFits, NothingOf, Ue
<1>7. RungFits'
  <2>1. Rung /\ Rung'
    BY <1>1, <1>5 DEF IInv, RungFits, Rung, Ue
  <2>2. phase'[caller] # "idle" /\ phase[callee] # "registering"
    BY <1>1, <1>5, <2>1 DEF IInv, RungFits, Rung, Ue
  <2>3. phase'[callee] \notin {"ringing", "pracked"} \/ phase'[callee] = phase[callee]
    BY <1>5 DEF Ue
  <2> QED
    BY <1>1, <1>2, <2>1, <2>2, <2>3 DEF IInv, RungFits, Settled
<1> QED
  BY <1>4, <1>5, <1>6, <1>7 DEF IInv

-----------------------------------------------------------------------------
(* What the devices do with what they get. *)

\* A device answers a request or drops it: the network, and what is not sent yet.
LEMMA DeviceAnswers ==
    ASSUME IInv, NEW m \in wire, IsRequest(m), m.type # "ACK", NEW code \in Code, Answer(m, code),
           offered' = offered \/ (m.type = "INVITE" /\ offered' = m), PhasesGoOn
    PROVE  /\ NetFits' /\ UnsentFits'
           /\ \A x \in wire' :
                 \/ x \in wire /\ x # m
                 \/ x.type = m.type /\ x.code = code /\ ~IsRequest(x)
<1> DEFINE r == Response(m, code)
<1>1. wire' = (wire \ {m}) \cup {r} /\ txns' = txns
  BY DEF Answer
<1>2. NetFits'
  BY <1>1, NetAnswer DEF IInv
<1>3. Fits(m)
  BY DEF IInv, NetFits, WireFits
<1>4. ~IsRequest(r) /\ r.code = code /\ r.type = m.type /\ r.peer = m.peer
  BY <1>3, AnswerFits
<1> HIDE DEF r
<1>5. /\ \A x \in wire' : \E y \in wire : Alike(x, y)
      /\ \A t \in txns' : (\E y \in wire : Alike(t, y)) \/ (\E u \in txns : Alike(t, u))
  BY <1>1, <1>4 DEF Alike
<1>6. m.type = "INVITE" => m.peer = callee
  BY <1>3 DEF Fits, Message, Ue
<1>7. UnsentFits'
  BY <1>5, <1>6, UnsentKept DEF IInv
<1> QED
  BY <1>1, <1>2, <1>4, <1>7

LEMMA DeviceRequestStep ==
    ASSUME IInv, NEW m \in wire, DeviceRequest(m)
    PROVE  IInv'
<1> DEFINE u == m.dst
<1>1. /\ IsRequest(m) /\ u \in Ue
      /\ UNCHANGED <<config, binding, session>>
  BY DEF DeviceRequest
<1>2. Fits(m) /\ m \in Message
  BY <1>1, RequestsFit
<1>3. lost' = lost
  BY DEF DeviceRequest, Answer, Drop
<1> HIDE DEF u
<1>4. CASE /\ m.type = "INVITE" /\ phase[u] = "ready"
           /\ offered' = m /\ phase' = [phase EXCEPT ![u] = "ringing"]
           /\ Answer(m, 183)
  <2>1. /\ phase'[u] = "ringing" /\ \A v \in Ue : v # u => phase'[v] = phase[v]
        /\ StateFits'
    BY <1>1, <1>3, <1>4 DEF IInv, StateFits
  <2>2. PhasesGoOn
    BY <1>1, <1>4, <2>1 DEF PhasesGoOn, Ue
  <2>3. /\ NetFits' /\ UnsentFits'
        /\ \A x \in wire' :
              \/ x \in wire /\ x # m
              \/ x.type = m.type /\ x.code = 183 /\ ~IsRequest(x)
    BY <1>1, <1>4, <2>2, DeviceAnswers DEF Code
  <2>4. \A x \in wire : x # m => x.type # "INVITE"
    BY <1>1, <1>4, InviteAlone
  <2>5. \A x \in wire' : /\ x.type = "REGISTER" \/ x.type = "ACK" => x \in wire
                         /\ ~(IsRequest(x) /\ x.type = "INVITE")
                         /\ ~(x.type = "INVITE" /\ x.code = 200)
    BY <1>4, <2>3, <2>4
  <2>6. /\ phase[caller] # "idle" /\ phase'[caller] # "idle" /\ ~Rung
        /\ session'.to # I /\ offered' # None
    <3>1. phase[caller] # "idle"
      BY <1>2, <1>4 DEF IInv, UnsentFits, NothingOf, Fits, Message, Ue
    <3>2. ~Rung /\ Settled(m) /\ session.to # I
      BY <1>1, <1>4 DEF IInv, RungFits, Settled, u
    <3> QED
      BY <1>1, <1>2, <1>4, <2>1, <3>1, <3>2, NodesDiffer DEF Ue
  <2>7. RungFits'
    <3>1. \A x \in wire' : x.type # "ACK"
      BY <1>4, <2>3, <2>6 DEF IInv, RungFits
    <3>2. \A x \in wire' : x.type = "REGISTER" => phase'[callee] = "registering"
      BY <1>1, <1>4, <2>1, <2>5 DEF IInv, RungFits, Ue
    <3>3. phase'[caller] \notin {"up", "leaving", "over"}
      BY <1>1, <1>4, <2>1, <2>6 DEF IInv, RungFits, Ue
    <3> QED
      BY <2>5, <2>6, <3>1, <3>2, <3>3 DEF RungFits, Settled
  <2> QED
    BY <2>1, <2>3, <2>7 DEF IInv
<1>5. CASE /\ m.type = "INVITE" /\ Answer(m, 486) /\ UNCHANGED <<offered, phase>>
  <2>1. 486 \in Code /\ 486 # 200
    BY DEF Code
  <2>2. lost' \in BOOLEAN /\ binding' \in {"none", "active", "expired"}
    BY <1>1, <1>3 DEF IInv, StateFits
  <2> QED
    BY <1>1, <1>5, <2>1, <2>2, Answered DEF Answer
<1>6. CASE /\ m.type = "PRACK" /\ Answer(m, 200)
           /\ phase' = [phase EXCEPT ![u] = IF @ = "ringing" THEN "pracked" ELSE @]
           /\ UNCHANGED offered
  <2>1. /\ \A v \in Ue : phase'[v] = phase[v] \/ (phase[v] = "ringing" /\ phase'[v] = "pracked")
        /\ StateFits'
    BY <1>1, <1>3, <1>6 DEF IInv, StateFits
  <2>2. PhasesGoOn
    BY <2>1 DEF PhasesGoOn, Ue
  <2>3. /\ NetFits' /\ UnsentFits'
        /\ \A x \in wire' :
              \/ x \in wire /\ x # m
              \/ x.type = m.type /\ x.code = 200 /\ ~IsRequest(x)
    BY <1>1, <1>6, <2>2, DeviceAnswers DEF Code
  <2>4. Rung' = Rung
    BY <2>1 DEF Rung, Ue
  <2>5. RungFits'
    BY <1>1, <1>6, <2>1, <2>3, <2>4 DEF IInv, RungFits, Settled, Ue
  <2> QED
    BY <2>1, <2>3, <2>5 DEF IInv
<1>7. CASE /\ m.type = "BYE" /\ Answer(m, 200)
           /\ phase' = [phase EXCEPT ![u] = "over"] /\ UNCHANGED offered
  <2>1. Rung
    BY <1>2, <1>7 DEF IInv, UnsentFits, NothingOf, RungFits, Rung, Fits, Message, Ue
  <2>2. /\ phase'[u] = "over" /\ \A v \in Ue : v # u => phase'[v] = phase[v]
        /\ StateFits'
    BY <1>1, <1>3, <1>7 DEF IInv, StateFits
  <2>3. PhasesGoOn
    BY <1>1, <2>2 DEF PhasesGoOn, Ue
  <2>4. /\ NetFits' /\ UnsentFits'
        /\ \A x \in wire' :
              \/ x \in wire /\ x # m
              \/ x.type = m.type /\ x.code = 200 /\ ~IsRequest(x)
    BY <1>1, <1>7, <2>3, DeviceAnswers DEF Code
  <2>5. Rung' /\ phase'[caller] # "idle" /\ (phase'[callee] \in {"ringing", "pracked"} => offered # None)
    BY <1>1, <2>1, <2>2 DEF Rung, IInv, RungFits, Ue
  <2>6. \A x \in wire : x.type # "REGISTER"
    BY <2>1 DEF Rung, IInv, RungFits
  <2>7. RungFits'
    BY <1>1, <1>7, <2>1, <2>4, <2>5, <2>6 DEF IInv, RungFits, Settled
  <2> QED
    BY <2>2, <2>4, <2>7 DEF IInv
<1>8. CASE /\ m.type = "ACK" /\ Drop(m)
           /\ phase' = [phase EXCEPT ![u] = IF @ = "answered" THEN "up" ELSE @]
           /\ UNCHANGED offered
  <2>1. Rung
    BY <1>8 DEF IInv, RungFits
  <2>2. /\ \A v \in Ue : phase'[v] = phase[v] \/ (phase[v] = "answered" /\ phase'[v] = "up")
        /\ StateFits'
    BY <1>1, <1>3, <1>8 DEF IInv, StateFits
  <2>3. PhasesGoOn
    BY <2>2 DEF PhasesGoOn, Ue
  <2>4. NetFits'
    BY <1>8, NetLess DEF Drop, IInv
  <2>5. /\ \A x \in wire' : \E y \in wire : Alike(x, y)
        /\ \A t \in txns' : (\E y \in wire : Alike(t, y)) \/ (\E v \in txns : Alike(t, v))
    BY <1>8 DEF Drop, Alike
  <2>6. UnsentFits'
    BY <1>8, <2>3, <2>5, UnsentKept DEF IInv
  <2>7. Rung'
    BY <2>1, <2>2 DEF Rung, Ue
  <2>8. /\ phase'[caller] # "idle"
        /\ phase'[callee] \in {"ringing", "pracked"} => phase[callee] \in {"ringing", "pracked"}
    BY <2>1, <2>2 DEF IInv, RungFits, Ue
  <2>9. \A x \in wire : x.type # "REGISTER"
    BY <2>1 DEF Rung, IInv, RungFits
  <2>10. RungFits'
    BY <1>1, <1>8, <2>1, <2>7, <2>8, <2>9 DEF IInv, RungFits, Settled, Drop
  <2> QED
    BY <2>2, <2>4, <2>6, <2>10 DEF IInv
<1> QED
  BY <1>4, <1>5, <1>6, <1>7, <1>8 DEF DeviceRequest, u

LEMMA PicksUpStep ==
    ASSUME IInv, NEW code \in {200, 486}, PicksUp(code)
    PROVE  IInv'
<1> DEFINE r == Response(offered, code)
<1>1. /\ phase[callee] \in {"ringing", "pracked"}
      /\ \E to \in {"answered", "over"} : phase' = [phase EXCEPT ![callee] = to]
      /\ wire' = wire \cup {r} /\ offered' = None
      /\ UNCHANGED <<txns, lost, config, binding, session>>
  BY DEF PicksUp, Moves
<1>2. Rung /\ offered # None
  BY <1>1 DEF IInv, RungFits, Rung
<1>3. Fits(offered) /\ IsRequest(offered) /\ offered.type = "INVITE" /\ code \in Code
  BY <1>2 DEF IInv, NetFits, OfferedFits, Code
<1>4. ~IsRequest(r) /\ r.type = "INVITE"
  BY <1>3, AnswerFits
<1>5. NetFits'
  BY <1>1, <1>2, <1>3, NetPicksUp DEF IInv
<1> HIDE DEF r
<1>6. /\ phase'[callee] \in {"answered", "over"} /\ phase'[caller] = phase[caller]
      /\ StateFits'
  BY <1>1, NodesDiffer DEF IInv, StateFits, Ue
<1>7. phase[caller] # "idle" /\ Rung'
  BY <1>2, <1>6 DEF IInv, RungFits, Rung
<1>8. UnsentFits'
  BY <1>1, <1>4, <1>6, <1>7 DEF IInv, UnsentFits, NothingOf
<1>9. \A x \in wire : x.type # "REGISTER"
  BY <1>1 DEF IInv, RungFits
<1>10. RungFits'
  BY <1>1, <1>2, <1>4, <1>6, <1>7, <1>9 DEF IInv, RungFits, Settled
<1> QED
  BY <1>5, <1>6, <1>8, <1>10 DEF IInv

LEMMA DeviceResponseStep ==
    ASSUME IInv, NEW m \in wire, DeviceResponse(m)
    PROVE  IInv'
<1> DEFINE u == m.dst
<1>1. /\ ~IsRequest(m) /\ u \in Ue
      /\ wire' = wire \ {m}
      /\ UNCHANGED <<txns, lost, config, binding, session, offered>>
  BY DEF DeviceResponse
<1>2. Fits(m) /\ m \in Message /\ m.type # "ACK"
  BY <1>1 DEF IInv, NetFits, WireFits, Fits, ResponseFits
<1>3. NetFits'
  BY <1>1, NetLess DEF IInv
<1>4. /\ \A x \in wire' : \E y \in wire : Alike(x, y)
      /\ \A t \in txns' : (\E y \in wire : Alike(t, y)) \/ (\E v \in txns : Alike(t, v))
  BY <1>1 DEF Alike
<1>5. PhasesGoOn => UnsentFits'
  BY <1>1, <1>4, UnsentKept DEF IInv
<1>6. m.type = "INVITE" => u = caller
  <2>1. 1 \in 1 .. Len(m.via)
    BY <1>2, LenProperties DEF Fits, WayBack, Rooted
  <2> QED
    BY <1>1, <1>2, <2>1 DEF Fits, ResponseFits, TopVia, Avoids, Ue
<1>7. CASE m.type = "REGISTER" /\ phase' = [phase EXCEPT ![u] = "ready"]
  <2>1. /\ phase'[u] = "ready" /\ \A v \in Ue : v # u => phase'[v] = phase[v]
        /\ StateFits'
    BY <1>1, <1>7 DEF IInv, StateFits
  <2>2. phase[callee] = "registering" /\ ~Rung
    BY <1>7 DEF IInv, RungFits, Rung
  <2>3. phase[caller] \notin {"up", "leaving", "over"}
    BY <2>2 DEF IInv, RungFits
  <2>4. PhasesGoOn
    BY <1>1, <2>1, <2>2, <2>3 DEF PhasesGoOn, Ue
  <2>5. ~Rung' /\ phase'[caller] \notin {"up", "leaving", "over"}
    BY <1>1, <2>1, <2>2, <2>3 DEF Rung, Ue
  <2>6. phase'[callee] \notin {"ringing", "pracked"}
    BY <1>1, <2>1, <2>2 DEF Ue
  <2>7. \A x \in wire' : x.type # "REGISTER"
    <3> SUFFICES ASSUME NEW x \in wire', x.type = "REGISTER" PROVE FALSE
      OBVIOUS
    <3>1. x \in wire /\ x # m
      BY <1>1
    <3>2. x.peer = callee /\ m.peer = callee
      BY <1>2, <1>7, <3>1 DEF IInv, NetFits, WireFits, Fits, Message, Ue
    <3> QED
      BY <1>7, <3>1, <3>2 DEF IInv, NetFits, Sole, Alike
  <2>8. RungFits'
    BY <1>1, <2>2, <2>5, <2>6, <2>7 DEF IInv, RungFits, Settled
  <2> QED
    BY <1>3, <1>5, <2>1, <2>4, <2>8 DEF IInv
<1>8. CASE m.type = "PRACK" /\ UNCHANGED phase
  BY <1>1, <1>8, Dropped DEF IInv, StateFits
<1>9. CASE m.type = "BYE" /\ phase' = [phase EXCEPT ![u] = "over"]
  <2>1. Rung
    BY <1>2, <1>9 DEF IInv, UnsentFits, NothingOf, RungFits, Rung, Fits, Message, Ue
  <2>2. /\ phase'[u] = "over" /\ \A v \in Ue : v # u => phase'[v] = phase[v]
        /\ StateFits'
    BY <1>1, <1>9 DEF IInv, StateFits
  <2>3. PhasesGoOn
    BY <1>1, <2>2 DEF PhasesGoOn, Ue
  <2>4. /\ Rung' /\ phase'[caller] # "idle"
        /\ phase'[callee] \in {"ringing", "pracked"} => offered # None
    BY <1>1, <2>1, <2>2 DEF Rung, IInv, RungFits, Ue
  <2>5. \A x \in wire : x.type # "REGISTER"
    BY <2>1 DEF Rung, IInv, RungFits
  <2>6. RungFits'
    BY <1>1, <2>1, <2>4, <2>5 DEF IInv, RungFits, Settled
  <2> QED
    BY <1>3, <1>5, <2>2, <2>3, <2>6 DEF IInv
<1>10. CASE /\ m.type = "INVITE"
            /\ phase' = [phase EXCEPT ![u] =
                   CASE m.code = 183 /\ @ = "calling" -> "early"
                     [] Final(m) /\ @ \in {"calling", "early", "pracked"} -> "failed"
                     [] OTHER -> @]
  <2>1. /\ \/ phase'[caller] = phase[caller]
           \/ phase[caller] = "calling" /\ phase'[caller] = "early"
           \/ phase[caller] \in {"calling", "early", "pracked"} /\ phase'[caller] = "failed"
        /\ StateFits' /\ phase'[callee] = phase[callee]
    BY <1>1, <1>6, <1>10, NodesDiffer DEF IInv, StateFits, Ue
  <2>2. PhasesGoOn
    BY <2>1 DEF PhasesGoOn, Ue
  <2>3. Rung' = Rung
    BY <2>1 DEF Rung
  <2>4. RungFits'
    BY <1>1, <2>1, <2>3 DEF IInv, RungFits, Settled
  <2> QED
    BY <1>3, <1>5, <2>1, <2>2, <2>4 DEF IInv
<1> QED
  BY <1>7, <1>8, <1>9, <1>10 DEF DeviceResponse

LEMMA AcknowledgesStep ==
    ASSUME IInv, NEW m \in wire, Acknowledges(m)
    PROVE  IInv'
<1> DEFINE x == NewRequest("ACK", caller, Plenty)
<1>1. /\ m.type = "INVITE" /\ m.code = 200
      /\ phase[caller] \in {"calling", "early", "pracked"}
      /\ phase' = [phase EXCEPT ![caller] = "up"]
      /\ wire' = (wire \ {m}) \cup {x}
      /\ UNCHANGED <<txns, lost, config, binding, session, offered>>
  BY DEF Acknowledges, Moves
<1>2. Fits(x) /\ IsRequest(x) /\ x.type = "ACK" /\ x.peer = callee
  BY NewFits, ChainAssumption DEF Request, Ue
<1> HIDE DEF x
<1>3. NetFits'
  BY <1>1, <1>2, NetAck DEF IInv
<1>4. /\ phase'[caller] = "up" /\ phase'[callee] = phase[callee]
      /\ StateFits'
  BY <1>1, NodesDiffer DEF IInv, StateFits, Ue
<1>5. UnsentFits'
  BY <1>1, <1>2, <1>4 DEF IInv, UnsentFits, NothingOf
<1>6. Rung /\ Rung'
  BY <1>1, <1>4 DEF IInv, RungFits, Rung
<1>7. RungFits'
  BY <1>1, <1>2, <1>4, <1>6 DEF IInv, RungFits, Settled
<1> QED
  BY <1>3, <1>4, <1>5, <1>7 DEF IInv

-----------------------------------------------------------------------------
(* The invariant and what follows from it. *)

LEMMA InitIInv ==
    Init => IInv
<1> SUFFICES ASSUME Init PROVE IInv
  OBVIOUS
<1>1. StateFits
  BY DEF Init, StateFits, NoSession
<1>2. NetFits
  BY DEF Init, NetFits, OfferedFits, WireFits, TxnsFit, Retraces, Sole
<1>3. UnsentFits
  BY DEF Init, UnsentFits, NothingOf
<1>4. RungFits
  BY DEF Init, RungFits, Rung, Ue
<1> QED
  BY <1>1, <1>2, <1>3, <1>4 DEF IInv

LEMMA NextIInv ==
    IInv /\ [Next]_vars => IInv'
<1> SUFFICES ASSUME IInv, [Next]_vars PROVE IInv'
  OBVIOUS
<1>1. ASSUME NEW m \in wire, Deliver(m) PROVE IInv'
  BY <1>1, PcscfRequestStep, IcscfRequestStep, ScscfRegisterStep, ScscfInviteStep,
     ScscfInDialogStep, ScscfAckStep, ProxyResponseStep, DeviceRequestStep, DeviceResponseStep,
     AcknowledgesStep DEF Deliver
<1>2. ASSUME NEW t \in txns, TimesOut(t) PROVE IInv'
  BY <1>2, TimesOutStep
<1>3. CASE Registers
  BY <1>3, RegistersStep
<1>4. ASSUME NEW hops \in Hops, Calls(hops) PROVE IInv'
  BY <1>4, CallsStep
<1>5. CASE SendsPrack
  BY <1>5, SendsPrackStep
<1>6. ASSUME NEW code \in {200, 486}, PicksUp(code) PROVE IInv'
  BY <1>6, PicksUpStep
<1>7. ASSUME NEW u \in Ue, HangsUp(u) PROVE IInv'
  BY <1>7, HangsUpStep
<1>8. CASE BindingExpires
  BY <1>8, BindingExpiresStep
<1>9. CASE UNCHANGED vars
  BY <1>9, Dropped DEF vars, network, IInv, StateFits
<1> QED
  BY <1>1, <1>2, <1>3, <1>4, <1>5, <1>6, <1>7, <1>8, <1>9 DEF Next

\* The Vias of a message under way, whatever the proxies have answered, sent on,
\* failed to send or forgotten, are the way back to the device that sent the
\* request: forwardStateful, forwardResponseUpstream and onInviteResponse keep it.
THEOREM InductiveInvariant == Spec => []IInv
<1>1. Init => IInv
  BY InitIInv
<1>2. IInv /\ [Next]_vars => IInv'
  BY NextIInv
<1> QED
  BY <1>1, <1>2, PTL DEF Spec

\* The Via that forwardResponseUpstream finds on top is the receiver's own and the
\* only one at a device, although onInviteResponse cuts the Vias short; and
\* isLoopDetected at the P- and I-CSCF is enough for no request to pass the I-CSCF
\* twice or the S-CSCF, which does not look, more than twice.
THEOREM ViasAreConsistent == Spec => []ViasConsistent
<1>1. IInv => TypeOK
  BY DEF IInv, StateFits, NetFits, OfferedFits, WireFits, TxnsFit, Fits, TxnFits, TypeOK
<1>2. IInv => ViasRetrace
  <2> SUFFICES ASSUME IInv, NEW m \in wire
               PROVE  IF IsRequest(m) THEN TopVia(m).node = m.src
                      ELSE /\ Len(m.via) > 0
                           /\ TopVia(m).node = m.dst
                           /\ m.dst \in Ue => Len(m.via) = 1
    BY DEF ViasRetrace
  <2>1. Fits(m)
    BY DEF IInv, NetFits, WireFits
  <2>2. Len(m.via) > 0 /\ 1 \in 1 .. Len(m.via)
    BY <2>1, LenProperties DEF Fits, WayBack, Rooted
  <2> QED
    BY <2>1, <2>2 DEF Fits, RequestFits, ResponseFits, TopVia, WayBack, Rooted
<1>3. IInv => LoopsCut
  BY VisitsBounded DEF IInv, NetFits, WireFits, Fits, LoopsCut
<1> QED
  BY <1>1, <1>2, <1>3, InductiveInvariant, PTL DEF ViasConsistent

-----------------------------------------------------------------------------
(* What is left of a call: as long as nothing is lost. *)

\* The caller waits for the end of its INVITE.
Open == phase[caller] \in {"calling", "early", "pracked"}

\* It has had the callee's answer.
Talking == phase[caller] \in {"up", "leaving", "over"}

\* The session of the call leads straight to the P-CSCF.
Straight == session.from = P

\* An INVITE, or the final response to it.
Decides(m) == m.type = "INVITE" /\ (IsRequest(m) \/ Final(m))

\* Where the Vias lead to.
Origin(m) == m.via[Len(m.via)].node

\* Who sent the request.
Sender(m) == IF m.peer = callee /\ m.type # "REGISTER" THEN caller ELSE callee

\* The lowest Via is the sender's, and a request that leaves the core has passed
\* the S-CSCF, of which an ACK says nothing any more.
OriginFits(m) ==
    /\ Origin(m) = Sender(m)
    /\ IsRequest(m) /\ m.dst \in Ue =>
          m.dst = m.peer /\ (m.type # "ACK" => ~Avoids(m.via, S))

OriginsFit ==
    /\ \A m \in wire : OriginFits(m)
    /\ offered # None => OriginFits(offered) /\ offered.dst \in Ue

\* One message decides the call, and until it has there is no dialog at the caller.
DecisionFits ==
    /\ \A m \in wire : Decides(m) =>
          Open /\ offered = None /\ \A n \in wire : Decides(n) => n = m
    /\ offered # None => Open
    /\ \A m \in wire : m.type \in {"ACK", "BYE"} => Talking
    /\ phase[callee] \in {"up", "leaving"} => Talking
    /\ session.dialog = "up" =>
          (Open \/ Talking) /\ offered = None /\ \A m \in wire : Decides(m) => m.code = 200

\* SessionRouter has the INVITE's session or a dialog.
InSession == session.initial \/ session.dialog # "none"

\* The S-CSCF has a session of what has passed it, until that has failed or ended.
SessionFits ==
    /\ ~InSession => session = NoSession
    /\ \A m \in wire : m.type = "INVITE" /\ (IsRequest(m) \/ m.code = 200) =>
          IF Avoids(m.via, S) THEN m.code = 200 => session.dialog = "up" /\ ~session.initial
                              ELSE InSession
    /\ offered # None => InSession
    /\ Talking => session = NoSession \/ (session.dialog = "up" /\ ~session.initial)
    /\ phase[caller] = "up" => session # NoSession

\* How many hops an ACK or a BYE has left.
OnItsWay(m) ==
    \/ m.src \in Ue /\ m.hops = Plenty
    \/ m.src = P /\ m.dst \in {I, S} /\ m.hops = Plenty - 1
    \/ m.src = I /\ m.hops = Plenty - 2
    \/ m.src = S /\ m.dst = P /\ m.hops >= Plenty - 3
    \/ m.src = P /\ m.dst \in Ue

\* The callee has answered before the caller talks, and goes on when the ACK arrives.
CalleeFits ==
    /\ \A m \in wire : m.type = "BYE" /\ m.code = 200 => phase[m.peer] = "over"
    /\ \A m \in wire : m.type = "INVITE" /\ m.code = 200 => phase[callee] = "answered"
    /\ Talking => phase[callee] \in {"answered", "up", "leaving", "over"}
    /\ \A m \in wire : m.type = "ACK" => OnItsWay(m)
    /\ phase[caller] = "up" /\ phase[callee] = "answered" => \E m \in wire : m.type = "ACK"

\* While the way is straight a BYE gets to the other device, and its 200 to the S-CSCF.
ByesFit ==
    Straight => \A m \in wire : m.type = "BYE" =>
        IF IsRequest(m) THEN OnItsWay(m) ELSE m.code = 200 /\ ~Avoids(m.via, S)

LeavingFits ==
    Straight /\ phase[caller] = "up" =>
        /\ phase[callee] # "over"
        /\ phase[callee] = "leaving" =>
              \E m \in wire : m.type = "BYE" /\ m.peer = caller /\ IsRequest(m)

\* A request of device u that it or its P-CSCF has not seen the end of.
Outstanding(type, peer, u) ==
    \/ \E m \in wire : /\ m.type = type /\ m.peer = peer
                       /\ IF IsRequest(m) THEN m.src = u ELSE Final(m) /\ m.dst = u
    \/ \E t \in txns : t.type = type /\ t.peer = peer /\ t.source = u

OutstandingFits ==
    /\ Open => Outstanding("INVITE", callee, caller)
    /\ phase[caller] = "leaving" => Outstanding("BYE", callee, caller)
    /\ \A m \in wire : m.type = "BYE" => Outstanding("BYE", m.peer, Sender(m))
    /\ Straight /\ phase[caller] = "over" =>
          Outstanding("BYE", callee, caller) \/ Outstanding("BYE", caller, callee)
    /\ session # NoSession /\ session.dialog # "up" =>
          \E t \in txns : t.type = "INVITE" /\ t.hop.node = S

CallFits ==
    OriginsFit /\ DecisionFits /\ SessionFits /\ CalleeFits /\ ByesFit /\ LeavingFits /\ OutstandingFits

-----------------------------------------------------------------------------
(* Messages on their way, seen from the call. *)

\* A 200 is a final response.
LEMMA OkIsFinal ==
    ASSUME NEW m, m.code = 200
    PROVE  Final(m) /\ ~IsRequest(m)
BY NodesDiffer DEF Final, IsRequest, Code

\* What is sent on leads to the same device, and has passed the proxy as well.
LEMMA PreparedOrigin ==
    ASSUME NEW m \in Message, WayBack(m.via), NEW n \in Proxy, NEW dst
    PROVE  LET x == Prepared(m, n, dst)
           IN  /\ Origin(x) = Origin(m)
               /\ Avoids(x.via, S) <=> n # S /\ Avoids(m.via, S)
<1> DEFINE x == Prepared(m, n, dst)
           hop == [node |-> n, branch |-> m.hops]
<1>1. m.hops \in Nat
  BY DEF Message
<1>2. /\ Len(<<hop>> \o m.via) = Len(m.via) + 1
      /\ (<<hop>> \o m.via)[1] = hop
      /\ \A k \in 1 .. Len(m.via) : (<<hop>> \o m.via)[k + 1] = m.via[k]
  BY <1>1, Pushed
<1>3. x.via = <<hop>> \o m.via
  BY DEF Prepared, Message
<1>4. Len(m.via) \in Nat /\ Len(m.via) > 0
  BY LenProperties DEF WayBack, Rooted
<1> HIDE DEF x
<1>5. Len(m.via) \in 1 .. Len(m.via) /\ x.via[Len(x.via)] = m.via[Len(m.via)]
  BY <1>2, <1>3, <1>4
<1>6. Avoids(x.via, S) => n # S /\ Avoids(m.via, S)
  <2> SUFFICES ASSUME Avoids(x.via, S) PROVE n # S /\ \A k \in 1 .. Len(m.via) : m.via[k].node # S
    BY DEF Avoids
  <2>1. 1 \in 1 .. Len(x.via) /\ \A k \in 1 .. Len(m.via) : k + 1 \in 1 .. Len(x.via)
    BY <1>2, <1>3, <1>4
  <2> QED
    BY <1>2, <1>3, <2>1 DEF Avoids
<1>7. ASSUME n # S, Avoids(m.via, S), NEW k \in 1 .. Len(x.via) PROVE x.via[k].node # S
  <2>1. CASE k = 1
    BY <1>2, <1>3, <1>7, <2>1
  <2>2. CASE k > 1
    <3>1. k - 1 \in 1 .. Len(m.via) /\ x.via[k] = m.via[k - 1]
      BY <1>2, <1>3, <1>4, <2>2
    <3> QED
      BY <1>7, <3>1 DEF Avoids
  <2> QED
    BY <1>2, <1>3, <1>4, <2>1, <2>2
<1> QED
  BY <1>5, <1>6, <1>7 DEF Origin, Avoids, x

\* A device gets only responses to what it has sent, with its own Via alone.
LEMMA AtDevice ==
    ASSUME NEW m, Fits(m), OriginFits(m),
           IF IsRequest(m) THEN m.src \in Ue ELSE m.dst \in Ue
    PROVE  /\ IF IsRequest(m) THEN m.src = Sender(m) ELSE m.dst = Sender(m)
           /\ Avoids(m.via, S)
<1>1. Len(m.via) \in Nat /\ 1 \in 1 .. Len(m.via)
  BY LenProperties DEF Fits, WayBack, Rooted
<1>2. m.via[1].node \in Ue
  BY DEF Fits, RequestFits, ResponseFits, TopVia
<1>3. Len(m.via) = 1
  BY <1>1, <1>2 DEF Fits, WayBack, Rooted
<1>4. m.via[1].node # S
  BY <1>2, NodesDiffer DEF Proxy
<1> QED
  BY <1>3, <1>4 DEF Fits, RequestFits, ResponseFits, TopVia, OriginFits, Origin, Avoids

\* A request is answered finally; if it is a BYE then its way was not straight.
LEMMA CallReplied ==
    ASSUME IInv, CallFits, NEW m \in wire, IsRequest(m), m.type # "ACK",
           m.type = "BYE" => ~Straight,
           NEW x, ~IsRequest(x), Final(x), Alike(x, m), x.via = m.via, x.dst = m.src,
           x.code = 200 => x.type = "REGISTER",
           wire' = (wire \ {m}) \cup {x},
           UNCHANGED <<txns, session, offered, phase>>
    PROVE  CallFits'
<1> USE DEF Alike
<1>1. OriginsFit'
  BY DEF CallFits, OriginsFit, OriginFits, Origin, Sender
<1>2. DecisionFits'
  <2>1. \A y \in wire' : Decides(y) => Open /\ offered = None
    BY DEF CallFits, DecisionFits, Decides
  <2>2. ASSUME NEW y \in wire', NEW z \in wire', Decides(y), Decides(z) PROVE y = z
    BY <2>2 DEF CallFits, DecisionFits, Decides
  <2>3. \A y \in wire' : y.type \in {"ACK", "BYE"} => Talking
    BY DEF CallFits, DecisionFits
  <2>4. session.dialog = "up" => \A y \in wire' : Decides(y) => y.code = 200
    BY OkIsFinal DEF CallFits, DecisionFits, Decides
  <2> QED
    BY <2>1, <2>2, <2>3, <2>4 DEF CallFits, DecisionFits, Open, Talking
<1>3. SessionFits'
  BY DEF CallFits, SessionFits, InSession, Talking
<1>4. CalleeFits'
  BY DEF CallFits, CalleeFits, Talking, OnItsWay
<1>5. ByesFit'
  BY DEF CallFits, ByesFit, Straight, OnItsWay
<1>6. LeavingFits'
  BY DEF CallFits, LeavingFits, Straight
<1>7. OutstandingFits'
  <2>1. ASSUME NEW type, NEW peer, NEW u \in Ue, Outstanding(type, peer, u)
        PROVE  Outstanding(type, peer, u)'
    BY <2>1 DEF Outstanding
  <2>2. caller \in Ue /\ callee \in Ue /\ \A y : Sender(y) \in Ue
    BY DEF Ue, Sender
  <2>3. ASSUME NEW y \in wire', y.type = "BYE" PROVE Outstanding("BYE", y.peer, Sender(y))
    BY <2>3 DEF CallFits, OutstandingFits, Sender
  <2> QED
    BY <2>1, <2>2, <2>3 DEF CallFits, OutstandingFits, Open, Straight
<1> QED
  BY <1>1, <1>2, <1>3, <1>4, <1>5, <1>6, <1>7 DEF CallFits

\* A proxy drops a response of which it knows nothing.
LEMMA CallGone ==
    ASSUME IInv, CallFits, NEW m \in wire, ~IsRequest(m), m.dst \in Proxy,
           wire' = wire \ {m}, UNCHANGED <<txns, session, offered, phase>>
    PROVE  CallFits'
<1>0. m.type # "ACK"
  BY DEF IInv, NetFits, WireFits, Fits, ResponseFits
<1>1. OriginsFit' /\ DecisionFits' /\ SessionFits'
  BY DEF CallFits, OriginsFit, DecisionFits, SessionFits, InSession, Open, Talking
<1>2. CalleeFits' /\ ByesFit' /\ LeavingFits'
  BY <1>0 DEF CallFits, CalleeFits, ByesFit, LeavingFits, Talking, Straight
<1>3. OutstandingFits'
  <2>1. ASSUME NEW type, NEW peer, NEW u \in Ue, Outstanding(type, peer, u)
        PROVE  Outstanding(type, peer, u)'
    BY <2>1, NodesDiffer DEF Outstanding
  <2>2. caller \in Ue /\ callee \in Ue /\ \A y : Sender(y) \in Ue
    BY DEF Ue, Sender
  <2> QED
    BY <2>1, <2>2 DEF CallFits, OutstandingFits, Open, Straight
<1> QED
  BY <1>1, <1>2, <1>3 DEF CallFits

\* A proxy sends a request on and keeps a transaction; only the S-CSCF learns of it,
\* and only when it is the INVITE.
LEMMA CallSentOn ==
    ASSUME IInv, CallFits, NEW m \in wire, IsRequest(m), m.type # "ACK", m.hops > 0,
           NEW n \in Proxy, NEW dst, m.dst = n, SendOn(m, n, dst),
           \/ n = P /\ m.src \in Ue /\ dst \in {I, S}
           \/ n = P /\ m.src = S /\ dst = m.peer
           \/ n = I /\ dst = S
           \/ n = S /\ dst \in {P, I} /\ (m.type = "BYE" /\ Straight => dst = P),
           IF n = S /\ m.type = "INVITE"
           THEN session'.initial /\ session'.dialog = session.dialog
           ELSE session' = session,
           UNCHANGED <<offered, phase>>
    PROVE  CallFits'
<1> DEFINE media == m.type = "INVITE" /\ n = P /\ dst = config.entry
           x == Prepared(m, n, dst)
           t == Transaction(m, n, media)
<1>1. /\ wire' = (wire \ {m}) \cup {x}
      /\ txns' = txns \cup {t}
  BY DEF SendOn
<1>2. Fits(m) /\ m \in Message /\ WayBack(m.via) /\ RequestFits(m) /\ m.hops \in Nat
  BY RequestsFit DEF Message
<1>3. /\ IsRequest(x) /\ Alike(x, m) /\ x.code = m.code
      /\ x.src = n /\ x.dst = dst /\ x.hops = m.hops - 1
  BY <1>2 DEF Prepared, IsRequest, Message, Alike
<1>4. Origin(x) = Origin(m) /\ (Avoids(x.via, S) <=> n # S /\ Avoids(m.via, S))
  BY <1>2, PreparedOrigin
<1>5. t.type = m.type /\ t.peer = m.peer /\ t.source = m.src /\ t.hop.node = n
  BY DEF Transaction
<1> HIDE DEF x, t, media
<1> USE DEF Alike
<1>6. dst \in Ue => n = P /\ m.src = S
  BY NodesDiffer DEF Proxy
<1>7. m.code # 200
  BY OkIsFinal
<1>8. m.type = "INVITE" => Decides(m) /\ Decides(x)
  BY <1>3 DEF Decides
<1>9. OriginsFit'
  <2>1. OriginFits(x)
    <3>1. Origin(x) = Sender(x)
      BY <1>3, <1>4 DEF CallFits, OriginsFit, OriginFits, Sender
    <3>2. m.src = S => ~Avoids(m.via, S)
      <4>1. 1 \in 1 .. Len(m.via)
        BY <1>2, LenProperties DEF WayBack, Rooted
      <4> QED
        BY <1>2, <4>1 DEF RequestFits, TopVia, Avoids
    <3> QED
      BY <1>3, <1>4, <1>6, <3>1, <3>2, NodesDiffer DEF OriginFits, Proxy
  <2> QED
    BY <1>1, <2>1 DEF CallFits, OriginsFit
<1>10. DecisionFits'
  <2>1. Decides(x) <=> Decides(m)
    BY <1>3 DEF Decides, Final
  <2>2. \A y \in wire' : Decides(y) => Open /\ offered = None
    BY <1>1, <2>1 DEF CallFits, DecisionFits
  <2>3. ASSUME NEW y \in wire', NEW z \in wire', Decides(y), Decides(z) PROVE y = z
    BY <1>1, <2>1, <2>3 DEF CallFits, DecisionFits
  <2>4. \A y \in wire' : y.type \in {"ACK", "BYE"} => Talking
    BY <1>1, <1>3 DEF CallFits, DecisionFits
  <2>5. session'.dialog = session.dialog
    OBVIOUS
  <2>6. session.dialog = "up" => \A y \in wire' : Decides(y) => y.code = 200
    BY <1>1, <1>3, <2>1 DEF CallFits, DecisionFits
  <2> QED
    BY <2>2, <2>3, <2>4, <2>5, <2>6 DEF CallFits, DecisionFits, Open, Talking
<1>11. n = S /\ m.type = "INVITE" => Open /\ ~Talking /\ phase[caller] # "up"
  BY <1>8 DEF CallFits, DecisionFits, Open, Talking
<1>12. SessionFits'
  <2>1. InSession => InSession'
    BY DEF InSession
  <2>2. n = S /\ m.type = "INVITE" => InSession'
    BY DEF InSession
  <2>3. ~InSession' => session' = NoSession
    BY <2>1, <2>2 DEF CallFits, SessionFits
  <2>4. ASSUME NEW y \in wire', y.type = "INVITE", IsRequest(y) \/ y.code = 200
        PROVE  IF Avoids(y.via, S) THEN y.code = 200 => session'.dialog = "up" /\ ~session'.initial
                                   ELSE InSession'
    <3>1. CASE y = x
      BY <1>3, <1>4, <1>7, <2>1, <2>2, <2>4, <3>1 DEF CallFits, SessionFits
    <3>2. CASE y \in wire /\ y # m
      <4>1. Decides(y)
        BY <2>4, OkIsFinal DEF Decides
      <4>2. m.type # "INVITE"
        BY <1>8, <3>2, <4>1 DEF CallFits, DecisionFits
      <4> QED
        BY <2>1, <2>4, <3>2, <4>2 DEF CallFits, SessionFits
    <3> QED
      BY <1>1, <3>1, <3>2
  <2> QED
    BY <1>11, <2>1, <2>3, <2>4 DEF CallFits, SessionFits, Talking
<1>13. CalleeFits'
  BY <1>1, <1>3, <1>7 DEF CallFits, CalleeFits, Talking, OnItsWay
<1>14. m.type = "BYE" /\ Straight => OnItsWay(x)
  <2> SUFFICES ASSUME m.type = "BYE", Straight PROVE OnItsWay(x)
    OBVIOUS
  <2>1. OnItsWay(m)
    BY DEF CallFits, ByesFit
  <2>2. Plenty \in Nat
    BY ChainAssumption
  <2>3. m.dst \notin Ue
    BY NodesDiffer
  <2>4. CASE n = P
    <3>1. CASE m.src \in Ue /\ dst \in {I, S}
      <4>1. m.src # P /\ m.src # I /\ m.src # S
        BY <3>1, NodesDiffer DEF Proxy
      <4>2. m.hops = Plenty
        BY <2>1, <4>1 DEF OnItsWay
      <4> QED
        BY <1>3, <2>2, <2>4, <3>1, <4>2 DEF OnItsWay
    <3>2. CASE dst = m.peer
      BY <1>2, <1>3, <2>4, <3>2 DEF OnItsWay, Message
    <3> QED
      BY <2>4, <3>1, <3>2, NodesDiffer
  <2>5. CASE n = I
    BY <1>2, <1>3, <2>1, <2>2, <2>3, <2>5, NodesDiffer DEF OnItsWay, RequestFits, Edge, Proxy
  <2>6. CASE n = S
    BY <1>2, <1>3, <2>1, <2>2, <2>3, <2>6, NodesDiffer DEF OnItsWay, RequestFits, Edge, Proxy
  <2> QED
    BY <2>4, <2>5, <2>6 DEF Proxy
<1>15. ByesFit'
  <2>1. CASE n = S /\ m.type = "INVITE"
    BY <1>1, <1>3, <1>11, <2>1 DEF CallFits, DecisionFits, ByesFit
  <2>2. CASE session' = session
    BY <1>1, <1>3, <1>14, <2>2 DEF CallFits, ByesFit, Straight
  <2> QED
    BY <2>1, <2>2
<1>16. LeavingFits'
  <2>1. CASE n = S /\ m.type = "INVITE"
    BY <1>11, <2>1 DEF LeavingFits
  <2>2. CASE session' = session
    BY <1>1, <1>3, <2>2 DEF CallFits, LeavingFits, Straight
  <2> QED
    BY <2>1, <2>2
<1>17. OutstandingFits'
  <2>1. ASSUME NEW type, NEW peer, NEW u \in Ue, Outstanding(type, peer, u)
        PROVE  Outstanding(type, peer, u)'
    BY <1>1, <1>5, <2>1 DEF Outstanding
  <2>2. caller \in Ue /\ callee \in Ue /\ \A y : Sender(y) \in Ue
    BY DEF Ue, Sender
  <2>3. ASSUME NEW y \in wire', y.type = "BYE" PROVE Outstanding("BYE", y.peer, Sender(y))
    BY <1>1, <1>3, <2>3 DEF CallFits, OutstandingFits, Sender
  <2>4. ASSUME session' # NoSession, session'.dialog # "up"
        PROVE  \E u \in txns' : u.type = "INVITE" /\ u.hop.node = S
    <3>1. CASE n = S /\ m.type = "INVITE"
      BY <1>1, <1>5, <3>1
    <3>2. CASE session' = session
      BY <1>1, <2>4, <3>2 DEF CallFits, OutstandingFits
    <3> QED
      BY <3>1, <3>2
  <2>5. Straight' /\ phase[caller] = "over" => Straight
    BY <1>11 DEF Straight, Open
  <2> QED
    BY <2>1, <2>2, <2>3, <2>4, <2>5 DEF CallFits, OutstandingFits, Open
<1> QED
  BY <1>9, <1>10, <1>12, <1>13, <1>15, <1>16, <1>17 DEF CallFits

\* What has as many hops left as an ACK or a BYE on its way is held up nowhere.
LEMMA Unblocked ==
    ASSUME IInv, Plenty >= 4, NEW m \in wire, IsRequest(m), m.dst \in Proxy, OnItsWay(m)
    PROVE  /\ m.hops > 0
           /\ m.dst = P /\ m.src \in Ue => ~LoopDetected(m, P)
           /\ m.dst = I => m.src = P /\ ~LoopDetected(m, I)
<1>1. /\ Fits(m) /\ m \in Message /\ WayBack(m.via) /\ RequestFits(m) /\ m.hops \in Nat
      /\ m.src = P /\ m.dst \notin Ue => Avoids(m.via, I)
  BY RequestsFit DEF Message
<1>2. Plenty \in Nat /\ m.dst \notin Ue
  BY ChainAssumption, NodesDiffer
<1>3. m.hops > 0
  BY <1>1, <1>2 DEF OnItsWay
<1>4. ASSUME m.src \in Ue PROVE ~LoopDetected(m, P)
  <2>1. Len(m.via) \in Nat /\ 1 \in 1 .. Len(m.via)
    BY <1>1, LenProperties DEF WayBack, Rooted
  <2>2. m.via[1].node \in Ue /\ Len(m.via) = 1
    BY <1>1, <1>4, <2>1 DEF RequestFits, TopVia, WayBack, Rooted
  <2> QED
    BY <2>2, NodesDiffer DEF LoopDetected, Proxy
<1>5. ASSUME m.dst = I PROVE m.src = P /\ ~LoopDetected(m, I)
  <2>1. m.src = P
    <3>1. m.src # S
      BY <1>5, NodesDiffer DEF OnItsWay, Proxy
    <3> QED
      BY <1>1, <1>5, <3>1, NodesDiffer DEF RequestFits, Edge
  <2> QED
    BY <1>1, <1>2, <2>1 DEF LoopDetected, Avoids
<1> QED
  BY <1>3, <1>4, <1>5

\* A proxy sends an ACK on.
LEMMA CallAckSentOn ==
    ASSUME IInv, CallFits, NEW m \in wire, IsRequest(m), m.type = "ACK", m.dst \in Proxy,
           NEW x, IsRequest(x), x.type = "ACK", Origin(x) = Origin(m), Alike(x, m),
           x.dst \in Ue => x.dst = x.peer, OnItsWay(x),
           wire' = (wire \ {m}) \cup {x}, UNCHANGED <<txns, session, offered, phase>>
    PROVE  CallFits'
<1> USE DEF Alike
<1>1. OriginsFit'
  BY DEF CallFits, OriginsFit, OriginFits, Sender
<1>2. DecisionFits'
  BY DEF CallFits, DecisionFits, Decides, Open, Talking
<1>3. x.code # 200
  BY OkIsFinal
<1>4. SessionFits'
  BY DEF CallFits, SessionFits, InSession, Talking
<1>5. CalleeFits'
  BY <1>3 DEF CallFits, CalleeFits, Talking
<1>6. ByesFit' /\ LeavingFits'
  BY DEF CallFits, ByesFit, LeavingFits, Straight
<1>7. OutstandingFits'
  <2>1. ASSUME NEW type, NEW peer, NEW u, type # "ACK", Outstanding(type, peer, u)
        PROVE  Outstanding(type, peer, u)'
    BY <2>1 DEF Outstanding
  <2>2. ASSUME NEW y \in wire', y.type = "BYE" PROVE Outstanding("BYE", y.peer, Sender(y))
    BY <2>2 DEF CallFits, OutstandingFits
  <2> QED
    BY <2>1, <2>2 DEF CallFits, OutstandingFits, Open, Straight
<1> QED
  BY <1>1, <1>2, <1>4, <1>5, <1>6, <1>7 DEF CallFits

\* An ACK is dropped once the caller has hung up.
LEMMA CallAckGone ==
    ASSUME IInv, CallFits, NEW m \in wire, IsRequest(m), m.type = "ACK", phase[caller] # "up",
           wire' = wire \ {m}, UNCHANGED <<txns, session, offered, phase>>
    PROVE  CallFits'
<1>1. OriginsFit' /\ DecisionFits' /\ SessionFits'
  BY DEF CallFits, OriginsFit, DecisionFits, SessionFits, InSession, Open, Talking
<1>2. CalleeFits' /\ ByesFit' /\ LeavingFits'
  BY DEF CallFits, CalleeFits, ByesFit, LeavingFits, Talking, Straight
<1>3. OutstandingFits'
  <2>1. ASSUME NEW type, NEW peer, NEW u, type # "ACK", Outstanding(type, peer, u)
        PROVE  Outstanding(type, peer, u)'
    BY <2>1 DEF Outstanding
  <2> QED
    BY <2>1 DEF CallFits, OutstandingFits, Open, Straight
<1> QED
  BY <1>1, <1>2, <1>3 DEF CallFits

\* What a response does to the session at the S-CSCF.
LEMMA SessionAfterCases ==
    ASSUME NEW m \in Message, ~IsRequest(m), StateFits
    PROVE  LET after == SessionAfter(m)
           IN  \/ /\ m.type = "INVITE" /\ Final(m) /\ m.code # 200 /\ session.dialog # "up"
                  /\ after = NoSession
               \/ m.type = "INVITE" /\ Final(m) /\ m.code # 200 /\ session.dialog = "up"
               \/ /\ m.type = "INVITE" /\ m.code = 200
                  /\ InSession => after.dialog = "up" /\ ~after.initial /\ after.from = session.from
               \/ /\ m.type = "INVITE" /\ ~Final(m) /\ session.dialog = "none"
                  /\ InSession => /\ after.dialog = "early" /\ after.initial = session.initial
                                  /\ after.from = session.from
                  /\ ~InSession => after = session
               \/ m.type = "BYE" /\ m.code = 200 /\ after = NoSession
               \/ /\ m.type = "INVITE" => ~Final(m)
                  /\ m.type = "BYE" => m.code # 200
                  /\ after = session
<1> DEFINE after == SessionAfter(m)
<1>1. m.code \in Nat
  BY DEF Message, IsRequest, Code
<1>2. session \in [from: {P, I, None}, to: {P, I, None}, initial: BOOLEAN,
                   dialog: {"none", "early", "up"}]
  BY DEF StateFits
<1>3. CASE m.type = "INVITE" /\ m.code > 200
  <2>1. Final(m) /\ m.code # 200
    BY <1>1, <1>3 DEF Final
  <2>2. session.dialog # "up" => after = NoSession
    BY <1>3 DEF SessionAfter
  <2> QED
    BY <1>3, <2>1, <2>2
<1>4. CASE m.type = "INVITE" /\ m.code = 200
  <2>1. after = [Recorded("up") EXCEPT !.initial = FALSE]
    BY <1>4 DEF SessionAfter
  <2>2. InSession => after.dialog = "up" /\ ~after.initial /\ after.from = session.from
    BY <1>2, <2>1 DEF Recorded, InSession
  <2> QED
    BY <1>4, <2>2
<1>5. CASE m.type = "INVITE" /\ m.code < 200
  <2>1. ~Final(m)
    BY <1>1, <1>5 DEF Final
  <2>2. CASE session.dialog = "none"
    <3>1. m.code = 183
      BY <1>5, <2>1 DEF Message, IsRequest, Code
    <3>2. after = Recorded("early")
      BY <1>5, <2>2, <3>1 DEF SessionAfter
    <3>3. /\ InSession => /\ after.dialog = "early" /\ after.initial = session.initial
                          /\ after.from = session.from
          /\ ~InSession => after = session
      BY <1>2, <3>2 DEF Recorded, InSession
    <3> QED
      BY <1>5, <2>1, <2>2, <3>3
  <2>3. CASE session.dialog # "none"
    <3>1. after = session
      BY <1>1, <1>5, <2>3 DEF SessionAfter
    <3> QED
      BY <1>5, <2>1, <3>1
  <2> QED
    BY <2>2, <2>3
<1>6. CASE m.type = "BYE" /\ m.code = 200
  BY <1>6 DEF SessionAfter
<1>7. CASE m.type # "INVITE" /\ ~(m.type = "BYE" /\ m.code = 200)
  BY <1>7 DEF SessionAfter
<1> QED
  BY <1>1, <1>3, <1>4, <1>5, <1>6, <1>7

\* What is sent back leads to the same device, and the Vias it has lost are none of
\* the S-CSCF's but where the S-CSCF has sent it back.
LEMMA UpstreamOrigin ==
    ASSUME NEW m, Fits(m), ~IsRequest(m), m.dst \in Proxy,
           NEW t, TxnFits(t), m.via[2].node = t.source
    PROVE  LET x == Upstream(m, t)
           IN  /\ Origin(x) = Origin(m)
               /\ m.dst # S => (Avoids(x.via, S) <=> Avoids(m.via, S))
<1> DEFINE x == Upstream(m, t)
<1>1. /\ Fits(x) /\ Follows(x.via, m.via)
  BY UpstreamFits
<1>2. WayBack(m.via) /\ m.via[1].node = m.dst /\ m \in Message
  BY DEF Fits, ResponseFits, TopVia
<1>3. x.via = UpstreamVia(t, m.via)
  BY <1>2 DEF Upstream, Message
<1> HIDE DEF x
<1>4. WayBack(x.via) /\ Len(x.via) \in Nat /\ Len(x.via) > 0
  BY <1>1, LenProperties DEF Fits, WayBack, Rooted
<1>5. Len(m.via) \in Nat /\ Len(m.via) > 1
  <2>1. Len(m.via) \in Nat /\ Len(m.via) > 0
    BY <1>2, LenProperties DEF WayBack, Rooted
  <2>2. Len(m.via) # 1
    BY <1>2, <2>1, NodesDiffer DEF WayBack, Rooted
  <2>3. \A n \in Nat : n > 0 /\ n # 1 => n > 1
    OBVIOUS
  <2> QED
    BY <2>1, <2>2, <2>3
<1>6. Origin(x) = Origin(m)
  <2>1. Len(x.via) \in 1 .. Len(x.via)
    BY <1>4
  <2>2. PICK j \in 1 .. Len(m.via) : x.via[Len(x.via)] = m.via[j]
    BY <1>1, <2>1 DEF Follows
  <2>3. x.via[Len(x.via)].node \in Ue
    BY <1>4, <2>1 DEF WayBack, Rooted
  <2>4. j = Len(m.via)
    BY <1>2, <2>2, <2>3 DEF WayBack, Rooted
  <2> QED
    BY <2>2, <2>4 DEF Origin
<1>7. Avoids(m.via, S) => Avoids(x.via, S)
  BY <1>1 DEF Follows, Avoids
<1>8. ASSUME m.dst # S, Avoids(x.via, S) PROVE Avoids(m.via, S)
  <2>1. CASE t.media
    <3>1. 2 \in 1 .. Len(m.via) /\ m.via[2].node \in Ue
      BY <1>5, <2>1 DEF TxnFits
    <3>2. Len(m.via) = 2
      BY <1>2, <3>1 DEF WayBack, Rooted
    <3>3. \A k \in 1 .. Len(m.via) : k = 1 \/ k = 2
      BY <3>2
    <3> QED
      BY <1>2, <1>8, <3>1, <3>3, NodesDiffer DEF Avoids, Proxy
  <2>2. CASE ~t.media
    <3>1. x.via = Tail(m.via)
      BY <1>3, <1>5, <2>2 DEF UpstreamVia
    <3>2. Len(x.via) = Len(m.via) - 1 /\ \A k \in 1 .. Len(m.via) - 1 : x.via[k] = m.via[k + 1]
      BY <1>2, <1>5, <3>1, Popped
    <3> SUFFICES ASSUME NEW k \in 1 .. Len(m.via) PROVE m.via[k].node # S
      BY DEF Avoids
    <3>3. CASE k = 1
      BY <1>2, <1>8, <3>3
    <3>4. CASE k > 1
      <4>1. k - 1 \in 1 .. Len(x.via) /\ x.via[k - 1] = m.via[(k - 1) + 1]
        BY <1>5, <3>2, <3>4
      <4>2. (k - 1) + 1 = k
        BY <1>5
      <4> QED
        BY <1>8, <4>1, <4>2 DEF Avoids
    <3> QED
      BY <1>5, <3>3, <3>4
  <2> QED
    BY <2>1, <2>2
<1> QED
  BY <1>6, <1>7, <1>8 DEF x

\* A proxy sends a response on; the S-CSCF takes it into its session.
LEMMA CallReturned ==
    ASSUME IInv, CallFits, NEW m \in wire, ~IsRequest(m), m.dst \in Proxy, NEW t \in TxnOf(m),
           wire' = (wire \ {m}) \cup {Upstream(m, t)},
           txns' = IF Final(m) THEN txns \ {t} ELSE txns,
           session' = IF m.dst = S THEN SessionAfter(m) ELSE session,
           UNCHANGED <<offered, phase>>, IInv'
    PROVE  CallFits'
<1> DEFINE x == Upstream(m, t)
<1>1. Fits(m) /\ m \in Message /\ t \in txns /\ TxnFits(t) /\ t.hop = m.via[1] /\ Alike(t, m)
      /\ t.hop.node = m.dst
  BY DEF IInv, NetFits, WireFits, Fits, TxnsFit, TxnOf, TopVia, Alike
<1>2. m.via[2].node = t.source
  <2>1. 1 \in 1 .. Len(m.via)
    BY <1>1, LenProperties DEF Fits, WayBack, Rooted
  <2>2. Retraced(t, m.via)
    BY <1>1 DEF IInv, NetFits, Retraces
  <2>3. m.via[1 + 1].node = t.source
    BY <1>1, <2>1, <2>2 DEF Retraced
  <2> QED
    BY <2>3
<1>3. /\ ~IsRequest(x) /\ Alike(x, m) /\ x.code = m.code
      /\ x.src = m.dst /\ x.dst = t.source
  BY <1>1 DEF Upstream, IsRequest, Message, Alike, TxnFits
<1>4. /\ Origin(x) = Origin(m)
      /\ m.dst # S => (Avoids(x.via, S) <=> Avoids(m.via, S))
      /\ Follows(x.via, m.via)
  BY <1>1, <1>2, UpstreamOrigin, UpstreamFits
<1>5. /\ m.dst = S => ~Avoids(m.via, S)
      /\ Avoids(m.via, S) => Avoids(x.via, S)
  <2>1. 1 \in 1 .. Len(m.via)
    BY <1>1, LenProperties DEF Fits, WayBack, Rooted
  <2>2. m.via[1].node = m.dst
    BY <1>1 DEF Fits, ResponseFits, TopVia
  <2> QED
    BY <1>4, <2>1, <2>2 DEF Avoids, Follows
<1>6. wire' = (wire \ {m}) \cup {x}
  OBVIOUS
<1> HIDE DEF x
<1> USE DEF Alike
<1>7. m.type # "ACK" /\ (Final(x) <=> Final(m)) /\ (Decides(x) <=> Decides(m))
  BY <1>1, <1>3 DEF Fits, ResponseFits, Final, Decides
<1>8. m.type = "INVITE" /\ Final(m) => Decides(m)
  BY DEF Decides
<1>9. \* What the session becomes.
      LET after == session'
      IN  \/ m.dst = S /\ m.type = "INVITE" /\ Final(m) /\ m.code # 200 /\ after = NoSession
          \/ /\ m.dst = S /\ m.type = "INVITE" /\ m.code = 200 /\ InSession
             /\ after.dialog = "up" /\ ~after.initial /\ after.from = session.from
          \/ /\ m.dst = S /\ m.type = "INVITE" /\ ~Final(m) /\ session.dialog = "none" /\ InSession
             /\ after.dialog = "early" /\ after.initial = session.initial
             /\ after.from = session.from
          \/ m.dst = S /\ m.type = "BYE" /\ m.code = 200 /\ after = NoSession
          \/ /\ m.dst = S => /\ m.type = "INVITE" => ~Final(m)
                             /\ m.type = "BYE" => m.code # 200
             /\ after = session
  <2>1. CASE m.dst # S
    BY <2>1
  <2>2. CASE m.dst = S
    <3>1. ~(m.type = "INVITE" /\ Final(m) /\ m.code # 200 /\ session.dialog = "up")
      BY <1>8 DEF CallFits, DecisionFits
    <3>2. m.type = "INVITE" /\ m.code = 200 => InSession
      BY <1>5, <2>2 DEF CallFits, SessionFits
    <3>3. session' = SessionAfter(m) /\ StateFits
      BY <2>2 DEF IInv
    <3>4. m.type = "INVITE" /\ ~Final(m) => m.code # 200
      BY OkIsFinal
    <3> QED
      BY <1>1, <2>2, <3>1, <3>2, <3>3, <3>4, SessionAfterCases
  <2> QED
    BY <2>1, <2>2
<1>10. NoSession.dialog = "none" /\ ~NoSession.initial /\ NoSession.from = None /\ None # P
  BY NodesDiffer DEF NoSession, Node, Proxy
<1>11. Decides(m) => Open /\ ~Talking /\ offered = None /\ \A y \in wire : Decides(y) => y = m
  BY DEF CallFits, DecisionFits, Open, Talking
<1>12. m.type = "BYE" => /\ Talking /\ ~Open /\ offered = None
                         /\ \A y \in wire : ~Decides(y)
  BY DEF CallFits, DecisionFits, Open, Talking
<1>13. m.type = "BYE" /\ m.code = 200 => phase[caller] # "up"
  <2> SUFFICES ASSUME m.type = "BYE", m.code = 200 PROVE phase[caller] # "up"
    OBVIOUS
  <2>1. CASE m.peer = caller
    BY <2>1 DEF CallFits, CalleeFits
  <2>2. CASE m.peer = callee
    BY <2>2 DEF IInv, UnsentFits, NothingOf
  <2> QED
    BY <1>1, <2>1, <2>2 DEF Message, Ue
<1>14. OriginsFit'
  BY <1>3, <1>4, <1>6 DEF CallFits, OriginsFit, OriginFits, Sender
<1>15. DecisionFits'
  <2>1. \A y \in wire' : Decides(y) => Open /\ offered = None
    BY <1>6, <1>7, <1>11 DEF CallFits, DecisionFits
  <2>2. ASSUME NEW y \in wire', NEW z \in wire', Decides(y), Decides(z) PROVE y = z
    BY <1>6, <1>7, <2>2 DEF CallFits, DecisionFits
  <2>3. \A y \in wire' : y.type \in {"ACK", "BYE"} => Talking
    BY <1>3, <1>6 DEF CallFits, DecisionFits
  <2>4. ASSUME session'.dialog = "up"
        PROVE  (Open \/ Talking) /\ offered = None /\ \A y \in wire' : Decides(y) => y.code = 200
    <3>1. CASE session.dialog = "up"
      BY <1>3, <1>6, <1>7, <3>1 DEF CallFits, DecisionFits
    <3>2. CASE m.type = "INVITE" /\ m.code = 200
      <4>1. Decides(m)
        BY <3>2, OkIsFinal DEF Decides
      <4> QED
        BY <1>3, <1>6, <1>11, <3>2, <4>1
    <3> QED
      BY <1>9, <1>10, <2>4, <3>1, <3>2
  <2> QED
    BY <2>1, <2>2, <2>3, <2>4 DEF CallFits, DecisionFits, Open, Talking
<1>16. SessionFits'
  <2>1. ~InSession' => session' = NoSession
    BY <1>9 DEF CallFits, SessionFits, InSession
  <2>2. ASSUME NEW y \in wire', y.type = "INVITE", IsRequest(y) \/ y.code = 200
        PROVE  IF Avoids(y.via, S) THEN y.code = 200 => session'.dialog = "up" /\ ~session'.initial
                                   ELSE InSession'
    <3>1. Decides(y)
      BY <2>2, OkIsFinal DEF Decides
    <3>2. CASE y = x
      <4>1. Decides(m) /\ m.type = "INVITE" /\ m.code = 200 /\ Final(m)
        BY <1>3, <1>7, <2>2, <3>1, <3>2, OkIsFinal
      <4>2. CASE session'.dialog = "up" /\ ~session'.initial
        BY <4>2 DEF InSession
      <4>3. CASE m.dst # S /\ session' = session
        BY <1>3, <1>4, <3>2, <4>1, <4>3 DEF CallFits, SessionFits, InSession
      <4> QED
        BY <1>9, <4>1, <4>2, <4>3
    <3>3. CASE y \in wire /\ y # m
      <4>1. ~Decides(m) /\ m.type # "BYE"
        BY <1>11, <1>12, <3>1, <3>3
      <4>2. CASE session'.dialog = "early" /\ session.dialog = "none"
        BY <2>2, <3>3, <4>2 DEF CallFits, SessionFits, InSession
      <4>3. CASE session' = session
        BY <2>2, <3>3, <4>3 DEF CallFits, SessionFits, InSession
      <4>4. m.type = "INVITE" => m.code # 200 /\ ~Final(m)
        BY <1>8, <4>1, OkIsFinal
      <4> QED
        BY <1>9, <4>1, <4>2, <4>3, <4>4
    <3> QED
      BY <1>6, <3>2, <3>3
  <2>3. m.type = "INVITE" /\ (Final(m) \/ m.code = 200) => ~Talking /\ offered = None
    BY <1>8, <1>11, OkIsFinal
  <2>4. offered # None => InSession'
    BY <1>9, <1>12, <2>3 DEF CallFits, SessionFits, InSession
  <2>5. Talking => ~(session.dialog = "none" /\ InSession)
    BY <1>10 DEF CallFits, SessionFits, InSession
  <2>6. Talking => session' = NoSession \/ (session'.dialog = "up" /\ ~session'.initial)
    BY <1>9, <2>3, <2>5 DEF CallFits, SessionFits
  <2>7. phase[caller] = "up" => Talking
    BY DEF Talking
  <2>8. phase[caller] = "up" => session' # NoSession
    BY <1>9, <1>13, <2>3, <2>5, <2>7 DEF CallFits, SessionFits
  <2> QED
    BY <2>1, <2>2, <2>4, <2>6, <2>8 DEF SessionFits, Talking
<1>17. CalleeFits'
  BY <1>3, <1>6, <1>7 DEF CallFits, CalleeFits, Talking
<1>18. Straight' => Straight /\ (m.type = "BYE" => m.dst # S \/ m.code # 200)
  BY <1>9, <1>10 DEF Straight
<1>19. ByesFit'
  <2> SUFFICES ASSUME Straight', NEW y \in wire', y.type = "BYE"
               PROVE  IF IsRequest(y) THEN OnItsWay(y) ELSE y.code = 200 /\ ~Avoids(y.via, S)
    BY DEF ByesFit
  <2>1. Straight
    BY <1>18
  <2>2. CASE y = x
    <3>1. m.type = "BYE" /\ m.code = 200 /\ ~Avoids(m.via, S)
      BY <1>3, <2>1, <2>2 DEF CallFits, ByesFit
    <3>2. m.dst # S
      BY <1>18, <3>1
    <3> QED
      BY <1>3, <1>4, <2>2, <3>1, <3>2
  <2>3. CASE y \in wire
    BY <2>1, <2>3 DEF CallFits, ByesFit
  <2> QED
    BY <1>6, <2>2, <2>3
<1>20. LeavingFits'
  BY <1>6, <1>18 DEF CallFits, LeavingFits
<1>21. OutstandingFits'
  <2>1. ASSUME NEW type, NEW peer, NEW u \in Ue, Outstanding(type, peer, u)
        PROVE  Outstanding(type, peer, u)'
    <3>1. CASE \E y \in wire : /\ y.type = type /\ y.peer = peer
                               /\ IF IsRequest(y) THEN y.src = u ELSE Final(y) /\ y.dst = u
      <4>1. PICK y \in wire : /\ y.type = type /\ y.peer = peer
                              /\ IF IsRequest(y) THEN y.src = u ELSE Final(y) /\ y.dst = u
        BY <3>1
      <4>2. y # m
        BY <4>1, NodesDiffer
      <4> QED
        BY <1>6, <4>1, <4>2 DEF Outstanding
    <3>2. CASE \E v \in txns : v.type = type /\ v.peer = peer /\ v.source = u
      <4>1. PICK v \in txns : v.type = type /\ v.peer = peer /\ v.source = u
        BY <3>2
      <4>2. CASE v \in txns'
        BY <4>1, <4>2 DEF Outstanding
      <4>3. CASE v = t /\ Final(m)
        <5>1. x.type = type /\ x.peer = peer /\ ~IsRequest(x) /\ Final(x) /\ x.dst = u /\ x \in wire'
          BY <1>1, <1>3, <1>6, <1>7, <4>1, <4>3
        <5> QED
          BY <5>1 DEF Outstanding
      <4> QED
        BY <4>2, <4>3
    <3> QED
      BY <2>1, <3>1, <3>2 DEF Outstanding
  <2>2. caller \in Ue /\ callee \in Ue /\ \A y : Sender(y) \in Ue
    BY DEF Ue, Sender
  <2>3. ASSUME NEW y \in wire', y.type = "BYE" PROVE Outstanding("BYE", y.peer, Sender(y))
    BY <1>3, <1>6, <2>3 DEF CallFits, OutstandingFits, Sender
  <2>4. ASSUME session' # NoSession, session'.dialog # "up"
        PROVE  \E u \in txns' : u.type = "INVITE" /\ u.hop.node = S
    <3>1. CASE ~Final(m) /\ InSession /\ session.dialog = "none"
      BY <1>10, <3>1 DEF CallFits, OutstandingFits, InSession
    <3>2. CASE session' = session /\ (m.dst = S /\ m.type = "INVITE" => ~Final(m))
      <4>1. PICK u \in txns : u.type = "INVITE" /\ u.hop.node = S
        BY <2>4, <3>2 DEF CallFits, OutstandingFits
      <4>2. u = t => ~Final(m)
        BY <1>1, <3>2, <4>1
      <4> QED
        BY <4>1, <4>2
    <3> QED
      BY <1>9, <2>4, <3>1, <3>2
  <2> QED
    BY <1>18, <2>1, <2>2, <2>3, <2>4 DEF CallFits, OutstandingFits, Open
<1> QED
  BY <1>14, <1>15, <1>16, <1>17, <1>19, <1>20, <1>21 DEF CallFits

-----------------------------------------------------------------------------
(* The proxies, seen from the call. *)

\* The same of createResponse and its status code.
LEMMA CallAnswers ==
    ASSUME IInv, CallFits, NEW m \in wire, IsRequest(m), m.type # "ACK",
           m.type = "BYE" => ~Straight,
           NEW code \in Code, code >= 200, code = 200 => m.type = "REGISTER", Answer(m, code),
           UNCHANGED <<session, offered, phase>>
    PROVE  CallFits'
<1> DEFINE x == Response(m, code)
<1>1. Fits(m) /\ m \in Message
  BY RequestsFit
<1>2. ~IsRequest(x) /\ x.code = code /\ Alike(x, m) /\ x.via = m.via
  BY <1>1, AnswerFits DEF Alike
<1>3. x.dst = m.src /\ Final(x)
  BY <1>1, <1>2 DEF Response, Message, Final
<1>4. wire' = (wire \ {m}) \cup {x} /\ txns' = txns
  BY DEF Answer
<1>5. x.code = 200 => x.type = "REGISTER"
  BY <1>2 DEF Alike
<1> HIDE DEF x
<1> QED
  BY <1>2, <1>3, <1>4, <1>5, CallReplied

\* forwardStateful of the P- and the I-CSCF, where no message is lost.
LEMMA ForwardStatefulCall ==
    ASSUME IInv, CallFits, Plenty >= 4, ~lost', NEW m \in wire, IsRequest(m), m.type # "ACK",
           NEW n \in {P, I}, NEW dst, NEW detectLoop \in BOOLEAN, m.dst = n,
           \/ n = P /\ m.src \in Ue /\ dst \in {I, S}
           \/ n = P /\ m.src = S /\ dst = m.peer /\ ~detectLoop
           \/ n = I /\ dst = S,
           ForwardStateful(m, n, dst, detectLoop),
           UNCHANGED <<session, offered, phase>>
    PROVE  CallFits'
<1>1. m.hops \in Nat
  BY RequestsFit DEF Message
<1>2. n \in Proxy /\ P # I /\ P # S /\ I # S /\ S \notin Ue
  BY NodesDiffer DEF Proxy
<1>3. m.type = "BYE" /\ Straight => m.hops > 0 /\ ~(detectLoop /\ LoopDetected(m, n))
  <2> SUFFICES ASSUME m.type = "BYE", Straight
               PROVE  m.hops > 0 /\ ~(detectLoop /\ LoopDetected(m, n))
    OBVIOUS
  <2>1. OnItsWay(m)
    BY DEF CallFits, ByesFit
  <2> QED
    BY <1>2, <2>1, Unblocked
<1>4. CASE detectLoop /\ LoopDetected(m, n) /\ Answer(m, 482)
  BY <1>2, <1>3, <1>4, CallAnswers DEF Code
<1>5. CASE m.hops = 0 /\ Answer(m, 483)
  BY <1>2, <1>3, <1>5, CallAnswers DEF Code
<1>6. CASE m.hops > 0 /\ SendOn(m, n, dst)
  <2>1. session' = session /\ n # S
    BY <1>2
  <2> QED
    BY <1>2, <1>6, <2>1, CallSentOn
<1>7. ~CannotSend(m)
  BY DEF CannotSend
<1> QED
  BY <1>4, <1>5, <1>6, <1>7 DEF ForwardStateful

LEMMA PcscfRequestCall ==
    ASSUME IInv, CallFits, Plenty >= 4, ~lost', NEW m \in wire, PcscfRequest(m)
    PROVE  CallFits'
<1>1. /\ IsRequest(m) /\ m.dst = P /\ P \in Proxy
      /\ UNCHANGED <<config, binding, session, offered, phase>>
  BY DEF PcscfRequest, Proxy
<1>2. /\ Fits(m) /\ m \in Message /\ WayBack(m.via) /\ RequestFits(m) /\ m.peer \in Ue
  BY <1>1, RequestsFit DEF Message
<1>3. (~FromCore(m) => m.src \in Ue) /\ (FromCore(m) => m.src = S)
  BY <1>1, <1>2, NodesDiffer DEF RequestFits, Edge, FromCore, Proxy
<1>4. config.entry \in {I, S} /\ config.entry \notin Ue
  BY ChainAssumption, NodesDiffer DEF IInv, StateFits, Proxy
<1>5. CASE m.type # "ACK" /\ ~FromCore(m) /\ ForwardStateful(m, P, config.entry, TRUE)
  BY <1>1, <1>3, <1>4, <1>5, ForwardStatefulCall
<1>6. CASE m.type # "ACK" /\ FromCore(m) /\ ForwardStateful(m, P, m.peer, FALSE)
  BY <1>1, <1>3, <1>6, ForwardStatefulCall
<1>7. ASSUME m.type = "ACK" PROVE OnItsWay(m) /\ m.hops > 0 /\ m.hops \in Nat /\ Plenty \in Nat
  <2>1. OnItsWay(m)
    BY <1>7 DEF CallFits, CalleeFits
  <2> QED
    BY <1>1, <1>2, <2>1, Unblocked, ChainAssumption DEF Message
<1>8. CASE /\ m.type = "ACK" /\ ~FromCore(m)
           /\ IF LoopDetected(m, P) THEN Drop(m) ELSE SendStateless(m, P, config.entry)
  <2> DEFINE x == Prepared(m, P, config.entry)
  <2>1. ~LoopDetected(m, P)
    BY <1>1, <1>3, <1>7, <1>8, Unblocked
  <2>2. wire' = (wire \ {m}) \cup {x} /\ UNCHANGED <<txns, lost>>
    BY <1>7, <1>8, <2>1 DEF SendStateless
  <2>3. /\ IsRequest(x) /\ x.type = m.type /\ x.peer = m.peer /\ x.src = P /\ x.dst = config.entry
        /\ x.hops = m.hops - 1
    BY <1>1, <1>2 DEF Prepared, IsRequest, Message
  <2>4. Origin(x) = Origin(m)
    BY <1>1, <1>2, PreparedOrigin
  <2> HIDE DEF x
  <2>5. OnItsWay(x)
    <3>1. m.src # P /\ m.src # I /\ m.src # S
      BY <1>3, <1>8, NodesDiffer DEF Proxy
    <3>2. m.hops = Plenty
      BY <1>7, <1>8, <3>1 DEF OnItsWay
    <3> QED
      BY <1>4, <1>7, <1>8, <2>3, <3>2 DEF OnItsWay
  <2> QED
    BY <1>1, <1>4, <1>8, <2>2, <2>3, <2>4, <2>5, CallAckSentOn DEF Alike
<1>9. CASE /\ m.type = "ACK" /\ FromCore(m)
           /\ wire' = (wire \ {m}) \cup
                  (IF m.hops > 0
                   THEN {Prepared([m EXCEPT !.via = BottomVia(@)], P, m.peer)} ELSE {})
           /\ UNCHANGED <<txns, lost>>
  <2> DEFINE cut == [m EXCEPT !.via = BottomVia(@)]
             x == Prepared(cut, P, m.peer)
  <2>1. /\ WayBack(BottomVia(m.via)) /\ Len(BottomVia(m.via)) = 1
        /\ BottomVia(m.via)[1] = m.via[Len(m.via)]
    BY <1>2, Bottom
  <2>2. /\ cut.via = BottomVia(m.via) /\ cut.type = m.type /\ cut.code = m.code
        /\ cut.peer = m.peer /\ cut.hops = m.hops /\ cut \in Message
    BY <1>2, <2>1 DEF Message, WayBack
  <2> HIDE DEF cut
  <2>3. /\ IsRequest(x) /\ x.type = m.type /\ x.peer = m.peer /\ x.src = P /\ x.dst = m.peer
    BY <1>1, <2>2 DEF Prepared, IsRequest, Message
  <2>4. WayBack(cut.via)
    BY <2>1, <2>2
  <2>5. Origin(x) = Origin(cut)
    BY <1>1, <2>2, <2>4, PreparedOrigin
  <2>6. Origin(cut) = Origin(m)
    BY <2>1, <2>2 DEF Origin
  <2>7. wire' = (wire \ {m}) \cup {x}
    BY <1>7, <1>9 DEF cut
  <2> HIDE DEF x
  <2>8. OnItsWay(x)
    BY <1>2, <2>3 DEF OnItsWay
  <2> QED
    BY <1>1, <1>9, <2>3, <2>5, <2>6, <2>7, <2>8, CallAckSentOn DEF Alike
<1> QED
  BY <1>5, <1>6, <1>8, <1>9 DEF PcscfRequest

LEMMA IcscfRequestCall ==
    ASSUME IInv, CallFits, Plenty >= 4, ~lost', NEW m \in wire, IcscfRequest(m)
    PROVE  CallFits'
<1>1. /\ IsRequest(m) /\ m.dst = I /\ I \in Proxy
      /\ UNCHANGED <<config, binding, session, offered, phase>>
  BY DEF IcscfRequest, Proxy
<1>2. m \in Message /\ WayBack(m.via)
  BY <1>1, RequestsFit
<1>3. CASE m.type # "ACK" /\ ForwardStateful(m, I, S, TRUE)
  BY <1>1, <1>3, ForwardStatefulCall
<1>4. CASE m.type \in {"REGISTER", "INVITE"} /\ (Answer(m, 500) \/ Answer(m, 404))
  <2>1. PICK code \in {404, 500} : Answer(m, code)
    BY <1>4
  <2> QED
    BY <1>1, <1>4, <2>1, CallAnswers DEF Code
<1>5. CASE m.type = "ACK" /\ SendStateless(m, I, S)
  <2> DEFINE x == Prepared(m, I, S)
  <2>1. OnItsWay(m)
    BY <1>5 DEF CallFits, CalleeFits
  <2>2. m.hops > 0 /\ m.hops \in Nat /\ Plenty \in Nat /\ m.src = P
    BY <1>1, <1>2, <2>1, Unblocked, ChainAssumption DEF Message
  <2>3. wire' = (wire \ {m}) \cup {x} /\ UNCHANGED <<txns, lost>>
    BY <1>5, <2>2 DEF SendStateless
  <2>4. /\ IsRequest(x) /\ x.type = m.type /\ x.peer = m.peer /\ x.src = I /\ x.dst = S
        /\ x.hops = m.hops - 1
    BY <1>1, <1>2 DEF Prepared, IsRequest, Message
  <2>5. Origin(x) = Origin(m)
    BY <1>1, <1>2, PreparedOrigin
  <2> HIDE DEF x
  <2>6. OnItsWay(x)
    <3>1. m.hops = Plenty - 1
      BY <1>1, <2>1, <2>2, NodesDiffer DEF OnItsWay, Proxy
    <3> QED
      BY <2>2, <2>4, <3>1 DEF OnItsWay
  <2>7. x.dst \notin Ue
    BY <2>4, NodesDiffer DEF Proxy
  <2> QED
    BY <1>1, <1>5, <2>3, <2>4, <2>5, <2>6, <2>7, CallAckSentOn DEF Alike
<1> QED
  BY <1>3, <1>4, <1>5 DEF IcscfRequest

LEMMA ScscfRegisterCall ==
    ASSUME IInv, CallFits, NEW m \in wire, ScscfRegister(m)
    PROVE  CallFits'
<1>1. /\ IsRequest(m) /\ m.type = "REGISTER" /\ m.dst \in Proxy
      /\ UNCHANGED <<session, offered, phase>>
  BY DEF ScscfRegister, Proxy
<1>2. \E code \in {200, 500} : Answer(m, code)
  BY DEF ScscfRegister
<1>3. PICK code \in {200, 500} : Answer(m, code)
  BY <1>2
<1> QED
  BY <1>1, <1>3, CallAnswers DEF Code

LEMMA ScscfInviteCall ==
    ASSUME IInv, CallFits, ~lost', NEW m \in wire, ScscfInvite(m)
    PROVE  CallFits'
<1> DEFINE dst == IF binding = "none" THEN config.peer ELSE P
<1>1. /\ IsRequest(m) /\ m.dst = S /\ S \in Proxy /\ m.type = "INVITE"
      /\ UNCHANGED <<config, binding, offered, phase>>
  BY DEF ScscfInvite, Proxy
<1>2. m \in Message
  BY <1>1, RequestsFit
<1>3. CASE (Answer(m, 404) \/ Answer(m, 480) \/ Answer(m, 500)) /\ UNCHANGED session
  <2>1. PICK code \in {404, 480, 500} : Answer(m, code)
    BY <1>3
  <2> QED
    BY <1>1, <1>3, <2>1, CallAnswers DEF Code
<1>4. CASE /\ dst # None /\ m.hops # 0
           /\ session' = [session EXCEPT !.from = m.src, !.to = dst, !.initial = TRUE]
           /\ SendOrFail(m, dst)
  <2>1. SendOn(m, S, dst)
    BY <1>4 DEF SendOrFail
  <2>2. dst \in {P, I}
    BY <1>4, ChainAssumption DEF IInv, StateFits
  <2>3. session'.initial /\ session'.dialog = session.dialog
    BY <1>4 DEF IInv, StateFits
  <2>4. m.hops > 0
    BY <1>2, <1>4 DEF Message
  <2> HIDE DEF dst
  <2> QED
    BY <1>1, <2>1, <2>2, <2>3, <2>4, CallSentOn
<1> QED
  BY <1>3, <1>4 DEF ScscfInvite

\* While the way is straight the session is one of an established dialog.
LEMMA StraightTalk ==
    ASSUME IInv, CallFits, Talking, Straight
    PROVE  session.dialog = "up" /\ session.to = P
<1>1. session # NoSession
  BY NodesDiffer DEF Straight, NoSession, Node, Proxy
<1>2. session.dialog = "up"
  BY <1>1 DEF CallFits, SessionFits
<1>3. session.to # I
  BY DEF Talking, IInv, RungFits
<1> QED
  BY <1>2, <1>3 DEF IInv, StateFits

LEMMA ScscfInDialogCall ==
    ASSUME IInv, CallFits, Plenty >= 4, ~lost', NEW m \in wire, ScscfInDialog(m)
    PROVE  CallFits'
<1>1. /\ IsRequest(m) /\ m.dst = S /\ S \in Proxy /\ m.type \notin {"ACK", "INVITE"}
      /\ UNCHANGED <<config, binding, session, offered, phase>>
  BY DEF ScscfInDialog, Proxy
<1>2. m \in Message /\ m.peer \in Ue
  BY <1>1, RequestsFit DEF Message
<1>3. m.type = "BYE" /\ Straight =>
         m.hops > 0 /\ session.dialog # "none" /\ OtherEnd(m) = P
  <2> SUFFICES ASSUME m.type = "BYE", Straight
               PROVE  m.hops > 0 /\ session.dialog # "none" /\ OtherEnd(m) = P
    OBVIOUS
  <2>1. OnItsWay(m) /\ Talking
    BY <1>1 DEF CallFits, ByesFit, DecisionFits
  <2>2. m.hops > 0
    BY <1>1, <2>1, Unblocked
  <2> QED
    BY <2>1, <2>2, StraightTalk DEF OtherEnd, Straight
<1>4. CASE session.dialog = "none" /\ Answer(m, 481)
  BY <1>1, <1>3, <1>4, CallAnswers DEF Code
<1>5. CASE m.hops = 0 /\ Answer(m, 500)
  <2>1. m.type = "BYE" => ~Straight
    BY <1>3, <1>5
  <2> QED
    BY <1>1, <1>5, <2>1, CallAnswers DEF Code
<1>6. CASE session.dialog # "none" /\ m.hops # 0 /\ SendOrFail(m, OtherEnd(m))
  <2>1. SendOn(m, S, OtherEnd(m)) /\ OtherEnd(m) \in {P, I}
    BY <1>6, OtherEndFits DEF SendOrFail
  <2>2. m.hops > 0
    BY <1>2, <1>6 DEF Message
  <2> QED
    BY <1>1, <1>3, <2>1, <2>2, CallSentOn
<1> QED
  BY <1>4, <1>5, <1>6 DEF ScscfInDialog

LEMMA ScscfAckCall ==
    ASSUME IInv, CallFits, Plenty >= 4, NEW m \in wire, ScscfAck(m)
    PROVE  CallFits'
<1>1. /\ IsRequest(m) /\ m.dst = S /\ S \in Proxy /\ m.type = "ACK"
      /\ UNCHANGED <<config, binding, session, offered, phase, txns, lost>>
  BY DEF ScscfAck, Drop, SendStateless, Proxy
<1>2. m \in Message /\ WayBack(m.via) /\ RequestFits(m) /\ (m.peer = caller => m.type = "BYE")
  BY <1>1, RequestsFit
<1>3. CASE session.dialog = "none" /\ Drop(m)
  <2>1. phase[caller] # "up"
    BY <1>3 DEF CallFits, SessionFits, Talking
  <2> QED
    BY <1>1, <1>3, <2>1, CallAckGone DEF Drop
<1>4. CASE session.dialog # "none" /\ SendStateless(m, S, OtherEnd(m))
  <2> DEFINE x == Prepared(m, S, P)
  <2>1. OtherEnd(m) = P
    <3>1. m.peer = callee /\ Rung
      BY <1>1, <1>2 DEF Message, Ue, IInv, RungFits
    <3>2. OtherEnd(m) # I
      BY <3>1 DEF IInv, RungFits, OtherEnd
    <3> QED
      BY <1>4, <3>2, OtherEndFits
  <2>2. OnItsWay(m)
    BY <1>1 DEF CallFits, CalleeFits
  <2>3. m.hops > 0 /\ m.hops \in Nat /\ Plenty \in Nat
    BY <1>1, <1>2, <2>2, Unblocked, ChainAssumption DEF Message
  <2>4. wire' = (wire \ {m}) \cup {x} /\ UNCHANGED <<txns, lost>>
    BY <1>4, <2>1, <2>3 DEF SendStateless
  <2>5. /\ IsRequest(x) /\ x.type = m.type /\ x.peer = m.peer /\ x.src = S /\ x.dst = P
        /\ x.hops = m.hops - 1
    BY <1>1, <1>2 DEF Prepared, IsRequest, Message
  <2>6. Origin(x) = Origin(m)
    BY <1>1, <1>2, PreparedOrigin
  <2> HIDE DEF x
  <2>7. OnItsWay(x)
    <3>1. m.src \in {P, I}
      BY <1>1, <1>2, NodesDiffer DEF RequestFits, Edge, Proxy
    <3>2. m.hops >= Plenty - 2
      BY <1>1, <2>2, <2>3, <3>1, NodesDiffer DEF OnItsWay, Proxy
    <3> QED
      BY <2>3, <2>5, <3>2 DEF OnItsWay
  <2>8. x.dst \notin Ue
    BY <2>5, NodesDiffer DEF Proxy
  <2> QED
    BY <1>1, <2>4, <2>5, <2>6, <2>7, <2>8, CallAckSentOn DEF Alike
<1> QED
  BY <1>3, <1>4 DEF ScscfAck

LEMMA ProxyResponseCall ==
    ASSUME IInv, CallFits, IInv', NEW m \in wire, ProxyResponse(m)
    PROVE  CallFits'
<1>1. /\ ~IsRequest(m) /\ m.dst \in Proxy
      /\ UNCHANGED <<config, binding, offered, phase, lost>>
  BY DEF ProxyResponse
<1>2. CASE TxnOf(m) = {}
  BY <1>1, <1>2, CallGone DEF ProxyResponse
<1>3. CASE TxnOf(m) # {}
  <2>1. PICK t \in TxnOf(m) :
              /\ wire' = (wire \ {m}) \cup {Upstream(m, t)}
              /\ txns' = IF Final(m) THEN txns \ {t} ELSE txns
              /\ session' = IF m.dst = S THEN SessionAfter(m) ELSE session
    BY <1>3 DEF ProxyResponse, Upstream
  <2> QED
    BY <1>1, <2>1, CallReturned
<1> QED
  BY <1>2, <1>3

\* What changes nothing of the call.
LEMMA CallUnchanged ==
    ASSUME CallFits, UNCHANGED <<wire, txns, session, offered, phase>>
    PROVE  CallFits'
<1>1. OriginsFit' /\ DecisionFits' /\ SessionFits' /\ CalleeFits'
  BY DEF CallFits, OriginsFit, DecisionFits, SessionFits, CalleeFits, InSession, Open, Talking
<1>2. ByesFit' /\ LeavingFits' /\ OutstandingFits'
  BY DEF CallFits, ByesFit, LeavingFits, OutstandingFits, Outstanding, Open, Straight
<1> QED
  BY <1>1, <1>2 DEF CallFits

-----------------------------------------------------------------------------
(* The devices, seen from the call. *)

\* A device sends a request.
LEMMA CallNew ==
    ASSUME IInv, CallFits, NEW type \in Request, NEW from \in Ue, NEW hops \in Nat,
           \/ from = caller /\ type # "REGISTER"
           \/ from = callee /\ type \in {"BYE", "REGISTER"},
           wire' = wire \cup {NewRequest(type, from, hops)},
           UNCHANGED <<txns, session, offered>>
    PROVE  LET x == NewRequest(type, from, hops)
           IN  /\ x \in wire' /\ wire' = wire \cup {x}
               /\ IsRequest(x) /\ x.code # 200
               /\ x.type = type /\ x.src = from /\ x.hops = hops /\ Avoids(x.via, S)
               /\ x.peer = IF from = caller \/ type = "REGISTER" THEN callee ELSE caller
               /\ Sender(x) = from
               /\ OriginsFit'
               /\ \A ty, pe : \A u \in Ue : Outstanding(ty, pe, u) => Outstanding(ty, pe, u)'
               /\ Outstanding(type, x.peer, from)'
<1> DEFINE x == NewRequest(type, from, hops)
<1>1. /\ Fits(x) /\ IsRequest(x)
      /\ x.type = type /\ x.src = from /\ x.dst = P
      /\ x.peer = IF from = caller \/ type = "REGISTER" THEN callee ELSE caller
      /\ x.hops = hops
      /\ Len(x.via) = 1 /\ x.via[1].node = from
  BY NewFits
<1>2. wire' = wire \cup {x}
  OBVIOUS
<1> HIDE DEF x
<1>3. x.code # 200 /\ P \notin Ue /\ S \notin Ue /\ caller # callee
  BY <1>1, OkIsFinal, NodesDiffer DEF Proxy
<1>4. Sender(x) = from
  BY <1>1, <1>3 DEF Sender
<1>5. OriginFits(x) /\ Avoids(x.via, S)
  BY <1>1, <1>3, <1>4 DEF OriginFits, Origin, Avoids
<1>6. OriginsFit'
  BY <1>2, <1>5 DEF CallFits, OriginsFit
<1>7. ASSUME NEW ty, NEW pe, NEW u \in Ue, Outstanding(ty, pe, u) PROVE Outstanding(ty, pe, u)'
  BY <1>2, <1>7 DEF Outstanding
<1>8. Outstanding(type, x.peer, from)'
  BY <1>1, <1>2 DEF Outstanding
<1> QED
  BY <1>1, <1>2, <1>3, <1>4, <1>5, <1>6, <1>7, <1>8 DEF x

LEMMA RegistersCall ==
    ASSUME IInv, CallFits, Registers
    PROVE  CallFits'
<1> DEFINE x == NewRequest("REGISTER", callee, Plenty)
<1>1. /\ phase[callee] = "idle" /\ phase' = [phase EXCEPT ![callee] = "registering"]
      /\ wire' = wire \cup {x}
      /\ UNCHANGED <<txns, session, offered>>
  BY DEF Registers, Moves, Sends
<1>2. /\ IsRequest(x) /\ x.type = "REGISTER"
      /\ OriginsFit'
      /\ \A ty, pe : \A u \in Ue : Outstanding(ty, pe, u) => Outstanding(ty, pe, u)'
  BY <1>1, CallNew, ChainAssumption DEF Request, Ue
<1> HIDE DEF x
<1>3. phase'[callee] = "registering" /\ phase'[caller] = phase[caller]
  BY <1>1, NodesDiffer DEF IInv, StateFits, Ue
<1>4. ~Talking
  BY <1>1 DEF CallFits, CalleeFits
<1>5. DecisionFits'
  BY <1>1, <1>2, <1>3 DEF CallFits, DecisionFits, Decides, Open, Talking
<1>6. SessionFits'
  BY <1>1, <1>2, <1>3 DEF CallFits, SessionFits, InSession, Talking
<1>7. CalleeFits'
  <2>1. \A y \in wire' : y.type \in {"BYE", "ACK"} => FALSE
    BY <1>1, <1>2, <1>4 DEF CallFits, DecisionFits
  <2> QED
    BY <1>1, <1>2, <1>3, <1>4, <2>1 DEF CallFits, CalleeFits, Talking
<1>8. ByesFit' /\ LeavingFits'
  BY <1>1, <1>2, <1>3, <1>4 DEF CallFits, ByesFit, LeavingFits, Straight, Talking
<1>9. OutstandingFits'
  <2>1. caller \in Ue /\ callee \in Ue /\ \A y : Sender(y) \in Ue
    BY DEF Ue, Sender
  <2> QED
    BY <1>1, <1>2, <1>3, <2>1 DEF CallFits, OutstandingFits, Open, Straight
<1> QED
  BY <1>2, <1>5, <1>6, <1>7, <1>8, <1>9 DEF CallFits

LEMMA CallsCall ==
    ASSUME IInv, CallFits, NEW hops \in Hops, Calls(hops)
    PROVE  CallFits'
<1> DEFINE x == NewRequest("INVITE", caller, hops)
<1>1. /\ phase[caller] = "idle" /\ phase' = [phase EXCEPT ![caller] = "calling"]
      /\ wire' = wire \cup {x}
      /\ UNCHANGED <<txns, session, offered>>
  BY DEF Calls, Moves, Sends
<1>2. /\ IsRequest(x) /\ x.type = "INVITE" /\ x.code # 200 /\ Avoids(x.via, S)
      /\ OriginsFit'
      /\ \A ty, pe : \A u \in Ue : Outstanding(ty, pe, u) => Outstanding(ty, pe, u)'
      /\ Outstanding("INVITE", callee, caller)'
  BY <1>1, CallNew, ChainAssumption DEF Request, Ue
<1> HIDE DEF x
<1>3. phase'[caller] = "calling" /\ phase'[callee] = phase[callee]
  BY <1>1, NodesDiffer DEF IInv, StateFits, Ue
<1>4. ~Talking /\ ~Open /\ ~Talking' /\ Open'
  BY <1>1, <1>3 DEF Talking, Open
<1>5. /\ offered = None /\ session.dialog # "up" /\ phase[callee] \notin {"up", "leaving"}
      /\ \A y \in wire : ~Decides(y) /\ y.type \notin {"ACK", "BYE"}
  BY <1>4 DEF CallFits, DecisionFits
<1>6. \A y \in wire' : y.type \notin {"ACK", "BYE"} /\ (Decides(y) => y = x)
  BY <1>1, <1>2, <1>5
<1>7. DecisionFits'
  BY <1>1, <1>3, <1>4, <1>5, <1>6 DEF DecisionFits
<1>8. SessionFits'
  BY <1>1, <1>2, <1>3, <1>4 DEF CallFits, SessionFits, InSession
<1>9. CalleeFits'
  BY <1>1, <1>2, <1>3, <1>4, <1>6 DEF CallFits, CalleeFits
<1>10. ByesFit' /\ LeavingFits'
  BY <1>3, <1>6 DEF ByesFit, LeavingFits
<1>11. OutstandingFits'
  BY <1>1, <1>2, <1>3, <1>6 DEF CallFits, OutstandingFits
<1> QED
  BY <1>2, <1>7, <1>8, <1>9, <1>10, <1>11 DEF CallFits

LEMMA SendsPrackCall ==
    ASSUME IInv, CallFits, SendsPrack
    PROVE  CallFits'
<1> DEFINE x == NewRequest("PRACK", caller, Plenty)
<1>1. /\ phase[caller] = "early" /\ phase' = [phase EXCEPT ![caller] = "pracked"]
      /\ wire' = wire \cup {x}
      /\ UNCHANGED <<txns, session, offered>>
  BY DEF SendsPrack, Moves, Sends
<1>2. /\ IsRequest(x) /\ x.type = "PRACK"
      /\ OriginsFit'
      /\ \A ty, pe : \A u \in Ue : Outstanding(ty, pe, u) => Outstanding(ty, pe, u)'
  BY <1>1, CallNew, ChainAssumption DEF Request, Ue
<1> HIDE DEF x
<1>3. phase'[caller] = "pracked" /\ phase'[callee] = phase[callee]
  BY <1>1, NodesDiffer DEF IInv, StateFits, Ue
<1>4. ~Talking /\ Open /\ ~Talking' /\ Open'
  BY <1>1, <1>3 DEF Talking, Open
<1>5. \A y \in wire' : y.type \notin {"ACK", "BYE"} /\ (y.type = "INVITE" => y \in wire)
  BY <1>1, <1>2, <1>4 DEF CallFits, DecisionFits
<1>6. DecisionFits'
  BY <1>1, <1>2, <1>3, <1>4, <1>5 DEF CallFits, DecisionFits, Decides
<1>7. SessionFits'
  BY <1>1, <1>3, <1>4, <1>5 DEF CallFits, SessionFits, InSession
<1>8. CalleeFits'
  BY <1>3, <1>4, <1>5 DEF CallFits, CalleeFits
<1>9. ByesFit' /\ LeavingFits'
  BY <1>3, <1>5 DEF ByesFit, LeavingFits
<1>10. OutstandingFits'
  <2>1. caller \in Ue
    BY DEF Ue
  <2> QED
    BY <1>1, <1>2, <1>3, <1>4, <1>5, <2>1 DEF CallFits, OutstandingFits
<1> QED
  BY <1>2, <1>6, <1>7, <1>8, <1>9, <1>10 DEF CallFits

LEMMA HangsUpCall ==
    ASSUME IInv, CallFits, NEW u \in Ue, HangsUp(u)
    PROVE  CallFits'
<1> DEFINE x == NewRequest("BYE", u, Plenty)
           peer == IF u = caller THEN callee ELSE caller
<1>1. /\ phase[u] = "up" /\ phase' = [phase EXCEPT ![u] = "leaving"]
      /\ wire' = wire \cup {x}
      /\ UNCHANGED <<txns, session, offered>>
  BY DEF HangsUp, Moves, Sends
<1>2. /\ IsRequest(x) /\ x.type = "BYE" /\ x.code # 200 /\ x.src = u /\ x.hops = Plenty
      /\ x.peer = peer /\ Sender(x) = u
      /\ OriginsFit'
      /\ \A ty, pe : \A v \in Ue : Outstanding(ty, pe, v) => Outstanding(ty, pe, v)'
      /\ Outstanding("BYE", peer, u)'
  BY <1>1, CallNew, ChainAssumption DEF Request, Ue
<1> HIDE DEF x
<1>3. /\ phase'[u] = "leaving" /\ \A v \in Ue : v # u => phase'[v] = phase[v]
      /\ caller \in Ue /\ callee \in Ue /\ caller # callee /\ u \in {caller, callee}
  BY <1>1, NodesDiffer DEF IInv, StateFits, Ue
<1>4. Talking /\ ~Open /\ Talking' /\ ~Open'
  BY <1>1, <1>3 DEF CallFits, DecisionFits, Talking, Open
<1>5. offered = None /\ \A y \in wire' : ~Decides(y) /\ (y # x => y \in wire)
  BY <1>1, <1>2, <1>4 DEF CallFits, DecisionFits, Decides
<1>6. DecisionFits'
  BY <1>1, <1>4, <1>5 DEF CallFits, DecisionFits
<1>7. phase'[caller] = "up" => phase[caller] = "up"
  BY <1>1, <1>3
<1>8. SessionFits'
  <2>1. \A y \in wire' : y.type = "INVITE" => ~IsRequest(y) /\ y.code # 200
    BY <1>5, OkIsFinal DEF Decides
  <2> QED
    BY <1>1, <1>4, <1>5, <1>7, <2>1 DEF CallFits, SessionFits, InSession
<1>9. CalleeFits'
  <2>1. ASSUME NEW y \in wire', y.type = "BYE", y.code = 200 PROVE phase'[y.peer] = "over"
    <3>1. y \in wire /\ phase[y.peer] = "over" /\ y.peer \in Ue
      BY <1>2, <1>5, <2>1 DEF CallFits, CalleeFits, IInv, NetFits, WireFits, Fits, Message
    <3> QED
      BY <1>1, <1>3, <3>1
  <2>2. \A y \in wire' : ~(y.type = "INVITE" /\ y.code = 200)
    BY <1>5, OkIsFinal DEF Decides
  <2>3. phase'[callee] \in {"answered", "up", "leaving", "over"}
        /\ (phase'[callee] = "answered" => phase[callee] = "answered")
    BY <1>3, <1>4 DEF CallFits, CalleeFits
  <2>4. \A y \in wire' : y.type = "ACK" => OnItsWay(y)
    BY <1>2, <1>5 DEF CallFits, CalleeFits
  <2>5. phase'[caller] = "up" /\ phase'[callee] = "answered" => \E y \in wire' : y.type = "ACK"
    BY <1>1, <1>7, <2>3 DEF CallFits, CalleeFits
  <2> QED
    BY <2>1, <2>2, <2>3, <2>4, <2>5 DEF CalleeFits
<1>10. ByesFit'
  <2>1. OnItsWay(x)
    BY <1>2 DEF OnItsWay
  <2> QED
    BY <1>1, <1>2, <1>5, <2>1 DEF CallFits, ByesFit, Straight
<1>11. LeavingFits'
  BY <1>1, <1>2, <1>3, <1>7 DEF CallFits, LeavingFits, Straight
<1>12. OutstandingFits'
  <2>1. \A y : Sender(y) \in Ue
    BY DEF Ue, Sender
  <2>2. ASSUME NEW y \in wire', y.type = "BYE" PROVE Outstanding("BYE", y.peer, Sender(y))'
    BY <1>1, <1>2, <1>5, <2>1, <2>2 DEF CallFits, OutstandingFits
  <2>3. phase'[caller] = "leaving" => Outstanding("BYE", callee, caller)'
    BY <1>2, <1>3 DEF CallFits, OutstandingFits
  <2>4. phase'[caller] = "over" => phase[caller] = "over"
    BY <1>3
  <2> QED
    BY <1>1, <1>2, <1>3, <1>4, <2>2, <2>3, <2>4 DEF CallFits, OutstandingFits, Straight
<1> QED
  BY <1>2, <1>6, <1>8, <1>9, <1>10, <1>11, <1>12 DEF CallFits

\* What a device may rely on in a request it gets, and what its answer is.
LEMMA CallAtDevice ==
    ASSUME IInv, CallFits, NEW m \in wire, IsRequest(m), m.dst \in Ue
    PROVE  /\ Fits(m) /\ m \in Message /\ m.dst = m.peer /\ m.src \notin Ue
           /\ m.type # "ACK" => ~Avoids(m.via, S)
           /\ m.type # "BYE" => m.dst = callee
           /\ m.type = "INVITE" => Decides(m)
           /\ \A code \in Code :
                 LET x == Response(m, code)
                 IN  /\ m.type # "ACK" => ~IsRequest(x)
                     /\ x.code = code /\ x.type = m.type /\ x.peer = m.peer /\ x.via = m.via
                     /\ Final(x) <=> code >= 200
           /\ \A type, peer : \A u \in Ue :
                 wire \ {m} \subseteq wire' /\ txns' = txns /\ Outstanding(type, peer, u) =>
                    Outstanding(type, peer, u)'
<1>1. Fits(m) /\ m \in Message /\ RequestFits(m) /\ (m.peer = caller => m.type = "BYE")
  BY RequestsFit
<1>2. m.src = P /\ m.src \notin Ue
  BY <1>1, NodesDiffer DEF RequestFits, Edge, Proxy
<1>3. m.dst = m.peer /\ (m.type # "ACK" => ~Avoids(m.via, S))
  BY DEF CallFits, OriginsFit, OriginFits
<1>4. m.type # "BYE" => m.dst = callee
  BY <1>1, <1>3 DEF Ue
<1>5. m.type = "INVITE" => Decides(m)
  BY DEF Decides
<1>6. ASSUME NEW code \in Code
      PROVE  LET x == Response(m, code)
             IN  /\ m.type # "ACK" => ~IsRequest(x)
                 /\ x.code = code /\ x.type = m.type /\ x.peer = m.peer /\ x.via = m.via
                 /\ Final(x) <=> code >= 200
  BY <1>1, NodesDiffer DEF Response, Message, IsRequest, Final
<1>7. ASSUME NEW type, NEW peer, NEW u \in Ue,
             wire \ {m} \subseteq wire', txns' = txns, Outstanding(type, peer, u)
      PROVE  Outstanding(type, peer, u)'
  BY <1>2, <1>7 DEF Outstanding
<1> QED
  BY <1>1, <1>2, <1>3, <1>4, <1>5, <1>6, <1>7

LEMMA DeviceRingsCall ==
    ASSUME IInv, CallFits, NEW m \in wire, IsRequest(m), m.dst \in Ue, m.type = "INVITE",
           offered' = m, phase' = [phase EXCEPT ![m.dst] = "ringing"], Answer(m, 183),
           UNCHANGED session
    PROVE  CallFits'
<1> DEFINE x == Response(m, 183)
<1>1. /\ Fits(m) /\ m.dst = callee /\ ~Avoids(m.via, S) /\ Decides(m)
      /\ ~IsRequest(x) /\ ~Final(x) /\ x.code = 183 /\ Alike(x, m) /\ x.via = m.via
      /\ \A type, peer : \A u \in Ue :
            wire \ {m} \subseteq wire' /\ txns' = txns /\ Outstanding(type, peer, u) =>
               Outstanding(type, peer, u)'
  BY CallAtDevice DEF Code, Alike
<1>2. wire' = (wire \ {m}) \cup {x} /\ txns' = txns
  BY DEF Answer
<1> HIDE DEF x
<1> USE DEF Alike
<1>3. /\ phase'[callee] = "ringing" /\ phase'[caller] = phase[caller]
      /\ caller \in Ue /\ callee \in Ue /\ \A y : Sender(y) \in Ue
  BY <1>1, NodesDiffer DEF IInv, StateFits, Ue, Sender
<1>4. /\ Open /\ ~Talking /\ Open' /\ ~Talking' /\ session.dialog # "up"
      /\ \A y \in wire : Decides(y) => y = m
  BY <1>1, <1>3, OkIsFinal DEF CallFits, DecisionFits, Open, Talking
<1>5. \A y \in wire' : ~Decides(y) /\ y.type \notin {"ACK", "BYE"}
  BY <1>1, <1>2, <1>4 DEF CallFits, DecisionFits, Decides
<1>6. OriginsFit'
  BY <1>1, <1>2 DEF CallFits, OriginsFit, OriginFits, Origin, Sender
<1>7. DecisionFits'
  BY <1>3, <1>4, <1>5 DEF DecisionFits
<1>8. SessionFits'
  <2>1. InSession
    BY <1>1 DEF CallFits, SessionFits
  <2>2. \A y \in wire' : ~(y.type = "INVITE" /\ (IsRequest(y) \/ y.code = 200))
    BY <1>5, OkIsFinal DEF Decides
  <2> QED
    BY <1>3, <1>4, <2>1, <2>2 DEF CallFits, SessionFits, InSession, Talking
<1>9. CalleeFits'
  BY <1>3, <1>4, <1>5, OkIsFinal DEF CalleeFits, Decides
<1>10. ByesFit' /\ LeavingFits'
  BY <1>3, <1>5 DEF ByesFit, LeavingFits
<1>11. OutstandingFits'
  BY <1>1, <1>2, <1>3, <1>4, <1>5 DEF CallFits, OutstandingFits, Straight
<1> QED
  BY <1>6, <1>7, <1>8, <1>9, <1>10, <1>11 DEF CallFits

LEMMA DevicePrackCall ==
    ASSUME IInv, CallFits, NEW m \in wire, IsRequest(m), m.dst \in Ue, m.type = "PRACK",
           phase' = [phase EXCEPT ![m.dst] = IF @ = "ringing" THEN "pracked" ELSE @],
           Answer(m, 200), UNCHANGED <<session, offered>>
    PROVE  CallFits'
<1> DEFINE x == Response(m, 200)
<1>1. /\ m.dst = callee
      /\ ~IsRequest(x) /\ Alike(x, m) /\ x.via = m.via
      /\ \A type, peer : \A u \in Ue :
            wire \ {m} \subseteq wire' /\ txns' = txns /\ Outstanding(type, peer, u) =>
               Outstanding(type, peer, u)'
  BY CallAtDevice DEF Code, Alike
<1>2. wire' = (wire \ {m}) \cup {x} /\ txns' = txns
  BY DEF Answer
<1> HIDE DEF x
<1> USE DEF Alike
<1>3. /\ \/ phase' = phase
         \/ phase[callee] = "ringing" /\ phase'[callee] = "pracked" /\ phase'[caller] = phase[caller]
      /\ caller \in Ue /\ callee \in Ue /\ \A y : Sender(y) \in Ue
  BY <1>1, NodesDiffer DEF IInv, StateFits, Ue, Sender
<1>4. Open' = Open /\ Talking' = Talking
  BY <1>3 DEF Open, Talking
<1>5. OriginsFit'
  BY <1>1, <1>2 DEF CallFits, OriginsFit, OriginFits, Origin, Sender
<1>6. DecisionFits'
  BY <1>1, <1>2, <1>3, <1>4 DEF CallFits, DecisionFits, Decides
<1>7. SessionFits'
  BY <1>1, <1>2, <1>3, <1>4 DEF CallFits, SessionFits, InSession
<1>8. CalleeFits'
  <2>1. ASSUME NEW y \in wire', y.type = "BYE", y.code = 200 PROVE phase'[y.peer] = "over"
    <3>1. y \in wire /\ phase[y.peer] = "over" /\ y.peer \in Ue
      BY <1>1, <1>2, <2>1 DEF CallFits, CalleeFits, IInv, NetFits, WireFits, Fits, Message
    <3> QED
      BY <1>3, <3>1 DEF Ue
  <2> QED
    BY <1>1, <1>2, <1>3, <1>4, <2>1 DEF CallFits, CalleeFits
<1>9. ByesFit' /\ LeavingFits'
  BY <1>1, <1>2, <1>3 DEF CallFits, ByesFit, LeavingFits, Straight
<1>10. OutstandingFits'
  BY <1>1, <1>2, <1>3, <1>4 DEF CallFits, OutstandingFits, Straight
<1> QED
  BY <1>5, <1>6, <1>7, <1>8, <1>9, <1>10 DEF CallFits

LEMMA DeviceByeCall ==
    ASSUME IInv, CallFits, NEW m \in wire, IsRequest(m), m.dst \in Ue, m.type = "BYE",
           phase' = [phase EXCEPT ![m.dst] = "over"],
           Answer(m, 200), UNCHANGED <<session, offered>>
    PROVE  CallFits'
<1> DEFINE x == Response(m, 200)
           u == m.dst
<1>1. /\ u = m.peer /\ u \in Ue /\ m \in Message
      /\ ~IsRequest(x) /\ x.code = 200 /\ Alike(x, m) /\ x.via = m.via /\ ~Avoids(m.via, S)
      /\ \A type, peer : \A v \in Ue :
            wire \ {m} \subseteq wire' /\ txns' = txns /\ Outstanding(type, peer, v) =>
               Outstanding(type, peer, v)'
  BY CallAtDevice DEF Code, Alike
<1>2. wire' = (wire \ {m}) \cup {x} /\ txns' = txns
  BY DEF Answer
<1>3. /\ phase'[u] = "over" /\ \A v \in Ue : v # u => phase'[v] = phase[v]
      /\ caller \in Ue /\ callee \in Ue /\ \A y : Sender(y) \in Ue
      /\ caller # callee /\ u \in {caller, callee}
  BY NodesDiffer DEF IInv, StateFits, Ue, Sender
<1> HIDE DEF x, u
<1> USE DEF Alike
<1>4. Talking /\ ~Open
  BY DEF CallFits, DecisionFits, Talking, Open
<1>5. /\ Talking' /\ ~Open'
      /\ phase'[caller] = "up" => phase[caller] = "up" /\ u = callee
      /\ phase'[caller] = "leaving" => phase[caller] = "leaving"
  BY <1>3, <1>4 DEF Talking, Open
<1>6. offered = None /\ \A y \in wire' : ~Decides(y) /\ (y # x => y \in wire /\ y # m)
  BY <1>1, <1>2, <1>4 DEF CallFits, DecisionFits, Decides
<1>7. OriginsFit'
  BY <1>1, <1>2 DEF CallFits, OriginsFit, OriginFits, Origin, Sender
<1>8. DecisionFits'
  BY <1>5, <1>6 DEF CallFits, DecisionFits
<1>9. SessionFits'
  <2>1. \A y \in wire' : ~(y.type = "INVITE" /\ (IsRequest(y) \/ y.code = 200))
    BY <1>6, OkIsFinal DEF Decides
  <2> QED
    BY <1>4, <1>5, <1>6, <2>1 DEF CallFits, SessionFits, InSession
<1>10. CalleeFits'
  <2>1. ASSUME NEW y \in wire', y.type = "BYE", y.code = 200 PROVE phase'[y.peer] = "over"
    <3>1. CASE y = x
      BY <1>1, <1>3, <3>1
    <3>2. CASE y \in wire
      <4>1. phase[y.peer] = "over" /\ y.peer \in Ue
        BY <2>1, <3>2 DEF CallFits, CalleeFits, IInv, NetFits, WireFits, Fits, Message
      <4> QED
        BY <1>3, <4>1
    <3> QED
      BY <1>6, <3>1, <3>2
  <2>2. \A y \in wire' : ~(y.type = "INVITE" /\ y.code = 200)
    BY <1>6, OkIsFinal DEF Decides
  <2>3. phase'[callee] \in {"answered", "up", "leaving", "over"}
    BY <1>3, <1>4 DEF CallFits, CalleeFits
  <2>4. \A y \in wire' : y.type = "ACK" => OnItsWay(y)
    BY <1>1, <1>6 DEF CallFits, CalleeFits
  <2>5. phase'[caller] = "up" => phase'[callee] # "answered"
    BY <1>3, <1>5
  <2> QED
    BY <2>1, <2>2, <2>3, <2>4, <2>5 DEF CalleeFits
<1>11. ByesFit'
  BY <1>1, <1>2 DEF CallFits, ByesFit, Straight
<1>12. phase'[caller] # "up"
  <2>1. m.peer = callee => phase[caller] # "up"
    BY DEF IInv, UnsentFits, NothingOf
  <2> QED
    BY <1>1, <1>5, <2>1
<1>13. LeavingFits'
  BY <1>12 DEF LeavingFits
<1>14. OutstandingFits'
  <2>1. ASSUME NEW y \in wire', y.type = "BYE" PROVE Outstanding("BYE", y.peer, Sender(y))'
    <3>1. PICK z \in wire : z.type = "BYE" /\ z.peer = y.peer
      BY <1>1, <1>2, <2>1
    <3>2. Sender(z) = Sender(y)
      BY <2>1, <3>1 DEF Sender
    <3> QED
      BY <1>1, <1>2, <1>3, <3>1, <3>2 DEF CallFits, OutstandingFits
  <2>2. u = caller => Outstanding("BYE", caller, callee)'
    <3> SUFFICES ASSUME u = caller PROVE Outstanding("BYE", caller, callee)'
      OBVIOUS
    <3>1. Sender(m) = callee
      BY <1>1, <1>3 DEF Sender
    <3> QED
      BY <1>1, <1>2, <1>3, <3>1 DEF CallFits, OutstandingFits
  <2>3. u # caller => phase'[caller] = phase[caller]
    BY <1>3
  <2> QED
    BY <1>1, <1>2, <1>3, <1>5, <2>1, <2>2, <2>3 DEF CallFits, OutstandingFits, Straight
<1> QED
  BY <1>7, <1>8, <1>9, <1>10, <1>11, <1>13, <1>14 DEF CallFits

LEMMA DeviceAckCall ==
    ASSUME IInv, CallFits, NEW m \in wire, IsRequest(m), m.dst \in Ue, m.type = "ACK", Drop(m),
           phase' = [phase EXCEPT ![m.dst] = IF @ = "answered" THEN "up" ELSE @],
           UNCHANGED <<session, offered>>
    PROVE  CallFits'
<1>1. /\ m.dst = callee
      /\ \A type, peer : \A v \in Ue :
            wire \ {m} \subseteq wire' /\ txns' = txns /\ Outstanding(type, peer, v) =>
               Outstanding(type, peer, v)'
  BY CallAtDevice
<1>2. wire' = wire \ {m} /\ txns' = txns
  BY DEF Drop
<1>3. /\ phase'[caller] = phase[caller]
      /\ phase'[callee] = IF phase[callee] = "answered" THEN "up" ELSE phase[callee]
      /\ caller \in Ue /\ callee \in Ue /\ \A y : Sender(y) \in Ue
  BY <1>1, NodesDiffer DEF IInv, StateFits, Ue, Sender
<1>4. Talking /\ ~Open /\ Talking' /\ ~Open'
  BY <1>3 DEF CallFits, DecisionFits, Talking, Open
<1>5. OriginsFit' /\ DecisionFits' /\ SessionFits'
  BY <1>2, <1>3, <1>4 DEF CallFits, OriginsFit, DecisionFits, SessionFits, InSession
<1>6. CalleeFits'
  <2>1. ASSUME NEW y \in wire', y.type = "BYE", y.code = 200 PROVE phase'[y.peer] = "over"
    <3>1. y \in wire /\ phase[y.peer] = "over" /\ y.peer \in Ue
      BY <1>2, <2>1 DEF CallFits, CalleeFits, IInv, NetFits, WireFits, Fits, Message
    <3> QED
      BY <1>3, <3>1 DEF Ue
  <2>2. \A y \in wire' : ~(y.type = "INVITE" /\ y.code = 200)
    BY <1>2, <1>4, OkIsFinal DEF CallFits, DecisionFits, Decides
  <2> QED
    BY <1>2, <1>3, <1>4, <2>1, <2>2 DEF CallFits, CalleeFits
<1>7. ByesFit' /\ LeavingFits'
  BY <1>2, <1>3 DEF CallFits, ByesFit, LeavingFits, Straight
<1>8. OutstandingFits'
  BY <1>1, <1>2, <1>3, <1>4 DEF CallFits, OutstandingFits, Straight
<1> QED
  BY <1>5, <1>6, <1>7, <1>8 DEF CallFits

LEMMA DeviceRequestCall ==
    ASSUME IInv, CallFits, NEW m \in wire, DeviceRequest(m)
    PROVE  CallFits'
<1>1. IsRequest(m) /\ m.dst \in Ue /\ session' = session
  BY DEF DeviceRequest
<1>2. CASE m.type = "INVITE" /\ Answer(m, 486) /\ UNCHANGED <<offered, phase>>
  BY <1>1, <1>2, CallAnswers DEF Code
<1> QED
  BY <1>1, <1>2, DeviceRingsCall, DevicePrackCall, DeviceByeCall, DeviceAckCall DEF DeviceRequest

\* The INVITE that rings is answered finally.
LEMMA PicksUpCall ==
    ASSUME IInv, CallFits, NEW code \in {200, 486}, PicksUp(code)
    PROVE  CallFits'
<1> DEFINE x == Response(offered, code)
<1>1. /\ phase[callee] \in {"ringing", "pracked"}
      /\ phase' = [phase EXCEPT ![callee] = IF code = 200 THEN "answered" ELSE "over"]
      /\ wire' = wire \cup {x} /\ offered' = None
      /\ UNCHANGED <<txns, session>>
  BY DEF PicksUp, Moves
<1>2. /\ offered # None /\ Fits(offered) /\ IsRequest(offered) /\ offered.type = "INVITE"
      /\ OriginFits(offered) /\ offered.dst \in Ue
  BY <1>1 DEF IInv, RungFits, NetFits, OfferedFits, CallFits, OriginsFit
<1>3. /\ ~IsRequest(x) /\ Final(x) /\ Decides(x) /\ x.code = code
      /\ Alike(x, offered) /\ x.via = offered.via
  <2>1. code \in Code /\ code >= 200 /\ offered \in Message
    BY <1>2 DEF Code, Fits
  <2> QED
    BY <1>2, <2>1, NodesDiffer DEF Response, Message, Final, IsRequest, Decides, Alike
<1>4. ~Avoids(x.via, S) /\ OriginFits(x)
  BY <1>2, <1>3 DEF OriginFits, Origin, Sender, Alike
<1> HIDE DEF x
<1>5. /\ phase'[callee] = (IF code = 200 THEN "answered" ELSE "over") /\ phase'[caller] = phase[caller]
      /\ caller \in Ue /\ callee \in Ue /\ \A y : Sender(y) \in Ue
  BY <1>1, NodesDiffer DEF IInv, StateFits, Ue, Sender
<1>6. Open /\ ~Talking /\ Open' /\ ~Talking' /\ session.dialog # "up"
  BY <1>2, <1>5 DEF CallFits, DecisionFits, Open, Talking
<1>7. \A y \in wire : ~Decides(y) /\ y.type \notin {"ACK", "BYE"}
  BY <1>2, <1>6 DEF CallFits, DecisionFits
<1>8. OriginsFit'
  BY <1>1, <1>4 DEF CallFits, OriginsFit
<1>9. DecisionFits'
  BY <1>1, <1>2, <1>3, <1>5, <1>6, <1>7 DEF DecisionFits, Alike
<1>10. SessionFits'
  <2>1. InSession
    BY <1>2 DEF CallFits, SessionFits
  <2>2. \A y \in wire' : y.type = "INVITE" /\ (IsRequest(y) \/ y.code = 200) => y = x
    BY <1>1, <1>7, OkIsFinal DEF Decides
  <2> QED
    BY <1>1, <1>4, <1>5, <1>6, <2>1, <2>2 DEF CallFits, SessionFits, InSession, Talking
<1>11. CalleeFits'
  <2>1. \A y \in wire' : y.type \notin {"ACK", "BYE"}
    BY <1>1, <1>2, <1>3, <1>7 DEF Alike
  <2>2. \A y \in wire' : y.type = "INVITE" /\ y.code = 200 => y = x
    BY <1>1, <1>7, OkIsFinal DEF Decides
  <2> QED
    BY <1>3, <1>5, <1>6, <2>1, <2>2 DEF CalleeFits, Talking
<1>12. ByesFit' /\ LeavingFits'
  BY <1>1, <1>2, <1>3, <1>6, <1>7 DEF ByesFit, LeavingFits, Alike, Talking
<1>13. OutstandingFits'
  <2>1. \A type, peer : \A u \in Ue : Outstanding(type, peer, u) => Outstanding(type, peer, u)'
    BY <1>1 DEF Outstanding
  <2>2. \A y \in wire' : y.type # "BYE"
    BY <1>1, <1>2, <1>3, <1>7 DEF Alike
  <2> QED
    BY <1>1, <1>5, <1>6, <2>1, <2>2 DEF CallFits, OutstandingFits, Straight, Talking
<1> QED
  BY <1>8, <1>9, <1>10, <1>11, <1>12, <1>13 DEF CallFits

\* What a device may rely on in a response it gets.
LEMMA AnswerAtDevice ==
    ASSUME IInv, CallFits, NEW m \in wire, ~IsRequest(m), m.dst \in Ue
    PROVE  /\ Fits(m) /\ m \in Message /\ m.type # "ACK" /\ m.dst = Sender(m) /\ Avoids(m.via, S)
           /\ \A type, peer : \A u \in Ue :
                 /\ wire \ {m} \subseteq wire' /\ txns' = txns /\ Outstanding(type, peer, u)
                 /\ m.type # type \/ m.peer # peer \/ ~Final(m)
                 => Outstanding(type, peer, u)'
<1>1. Fits(m) /\ m \in Message /\ m.type # "ACK" /\ OriginFits(m)
  <2>1. Fits(m)
    BY DEF IInv, NetFits, WireFits
  <2>2. OriginFits(m)
    BY DEF CallFits, OriginsFit
  <2> QED
    BY <2>1, <2>2 DEF Fits, ResponseFits
<1>2. m.dst = Sender(m) /\ Avoids(m.via, S)
  BY <1>1, AtDevice
<1>3. ASSUME NEW type, NEW peer, NEW u \in Ue,
             wire \ {m} \subseteq wire', txns' = txns, Outstanding(type, peer, u),
             m.type # type \/ m.peer # peer \/ ~Final(m)
      PROVE  Outstanding(type, peer, u)'
  BY <1>3 DEF Outstanding
<1> QED
  BY <1>1, <1>2, <1>3

LEMMA DeviceRegisteredCall ==
    ASSUME IInv, CallFits, NEW m \in wire, ~IsRequest(m), m.dst \in Ue, m.type = "REGISTER",
           phase' = [phase EXCEPT ![m.dst] = "ready"],
           wire' = wire \ {m}, UNCHANGED <<txns, session, offered>>
    PROVE  CallFits'
<1>1. /\ m.dst = callee
      /\ \A type, peer : \A u \in Ue :
            /\ wire \ {m} \subseteq wire' /\ txns' = txns /\ Outstanding(type, peer, u)
            /\ m.type # type \/ m.peer # peer \/ ~Final(m)
            => Outstanding(type, peer, u)'
  BY AnswerAtDevice DEF Sender
<1>2. /\ phase'[callee] = "ready" /\ phase'[caller] = phase[caller]
      /\ caller \in Ue /\ callee \in Ue /\ \A y : Sender(y) \in Ue
  BY <1>1, NodesDiffer DEF IInv, StateFits, Ue, Sender
<1>3. ~Talking /\ ~Talking' /\ Open' = Open
  <2>1. phase[callee] = "registering"
    BY DEF IInv, RungFits
  <2> QED
    BY <1>2, <2>1 DEF CallFits, CalleeFits, Talking, Open
<1>4. \A y \in wire' : y \in wire /\ y.type \notin {"ACK", "BYE"}
  BY <1>3 DEF CallFits, DecisionFits
<1>5. OriginsFit' /\ DecisionFits' /\ SessionFits'
  BY <1>2, <1>3, <1>4 DEF CallFits, OriginsFit, DecisionFits, SessionFits, InSession, Talking
<1>6. CalleeFits'
  <2>1. \A y \in wire' : ~(y.type = "INVITE" /\ y.code = 200)
    <3> SUFFICES ASSUME NEW y \in wire', y.type = "INVITE", y.code = 200 PROVE FALSE
      OBVIOUS
    <3>1. phase[callee] = "answered" /\ phase[callee] = "registering"
      BY <1>4 DEF CallFits, CalleeFits, IInv, RungFits
    <3> QED
      BY <3>1
  <2> QED
    BY <1>3, <1>4, <2>1 DEF CalleeFits, Talking
<1>7. ByesFit' /\ LeavingFits'
  BY <1>3, <1>4 DEF ByesFit, LeavingFits, Talking
<1>8. OutstandingFits'
  BY <1>1, <1>2, <1>3, <1>4 DEF CallFits, OutstandingFits, Straight, Talking
<1> QED
  BY <1>5, <1>6, <1>7, <1>8 DEF CallFits

\* The answer of a PRACK, and a response to an INVITE that the caller knows the end of.
LEMMA DeviceIgnoresCall ==
    ASSUME IInv, CallFits, NEW m \in wire, ~IsRequest(m), m.dst \in Ue,
           m.type \in {"PRACK", "INVITE"}, m.type = "INVITE" /\ Open => ~Final(m),
           wire' = wire \ {m}, UNCHANGED <<txns, session, offered, phase>>
    PROVE  CallFits'
<1>1. \A type, peer : \A u \in Ue :
            /\ wire \ {m} \subseteq wire' /\ txns' = txns /\ Outstanding(type, peer, u)
            /\ m.type # type \/ m.peer # peer \/ ~Final(m)
            => Outstanding(type, peer, u)'
  BY AnswerAtDevice
<1>2. caller \in Ue /\ callee \in Ue /\ \A y : Sender(y) \in Ue
  BY DEF Ue, Sender
<1>3. Open' = Open /\ Talking' = Talking
  BY DEF Open, Talking
<1>4. OriginsFit' /\ DecisionFits' /\ SessionFits'
  BY <1>3 DEF CallFits, OriginsFit, DecisionFits, SessionFits, InSession
<1>5. CalleeFits' /\ ByesFit' /\ LeavingFits'
  BY <1>3 DEF CallFits, CalleeFits, ByesFit, LeavingFits, Straight
<1>6. OutstandingFits'
  BY <1>1, <1>2, <1>3 DEF CallFits, OutstandingFits, Straight
<1> QED
  BY <1>4, <1>5, <1>6 DEF CallFits

\* A BYE's answer that arrives has passed the S-CSCF only if the way is not straight.
LEMMA DeviceHungUpCall ==
    ASSUME IInv, CallFits, NEW m \in wire, ~IsRequest(m), m.dst \in Ue, m.type = "BYE",
           phase' = [phase EXCEPT ![m.dst] = "over"],
           wire' = wire \ {m}, UNCHANGED <<txns, session, offered>>
    PROVE  CallFits'
<1> DEFINE u == m.dst
<1>1. /\ u = Sender(m) /\ Avoids(m.via, S)
      /\ \A type, peer : \A v \in Ue :
            /\ wire \ {m} \subseteq wire' /\ txns' = txns /\ Outstanding(type, peer, v)
            /\ m.type # type \/ m.peer # peer \/ ~Final(m)
            => Outstanding(type, peer, v)'
  BY AnswerAtDevice
<1>2. /\ phase'[u] = "over" /\ \A v \in Ue : v # u => phase'[v] = phase[v]
      /\ caller \in Ue /\ callee \in Ue /\ \A y : Sender(y) \in Ue
      /\ caller # callee /\ u \in {caller, callee}
  BY NodesDiffer DEF IInv, StateFits, Ue, Sender
<1> HIDE DEF u
<1>3. Talking /\ ~Open
  BY DEF CallFits, DecisionFits, Talking, Open
<1>4. /\ Talking' /\ ~Open'
      /\ phase'[caller] = "up" => phase[caller] = "up" /\ u = callee
  BY <1>2, <1>3 DEF Talking, Open
<1>5. ~Straight /\ ~Straight'
  BY <1>1 DEF CallFits, ByesFit, Straight
<1>6. offered = None /\ \A y \in wire' : ~Decides(y) /\ y \in wire /\ y # m
  BY <1>3 DEF CallFits, DecisionFits
<1>7. OriginsFit' /\ DecisionFits'
  BY <1>4, <1>6 DEF CallFits, OriginsFit, DecisionFits
<1>8. SessionFits'
  <2>1. \A y \in wire' : ~(y.type = "INVITE" /\ (IsRequest(y) \/ y.code = 200))
    BY <1>6, OkIsFinal DEF Decides
  <2> QED
    BY <1>3, <1>4, <1>6, <2>1 DEF CallFits, SessionFits, InSession
<1>9. CalleeFits'
  <2>1. ASSUME NEW y \in wire', y.type = "BYE", y.code = 200 PROVE phase'[y.peer] = "over"
    <3>1. y \in wire /\ phase[y.peer] = "over" /\ y.peer \in Ue
      BY <1>6, <2>1 DEF CallFits, CalleeFits, IInv, NetFits, WireFits, Fits, Message
    <3> QED
      BY <1>2, <3>1
  <2>2. \A y \in wire' : ~(y.type = "INVITE" /\ y.code = 200)
    BY <1>6, OkIsFinal DEF Decides
  <2>3. phase'[callee] \in {"answered", "up", "leaving", "over"}
    BY <1>2, <1>3 DEF CallFits, CalleeFits
  <2>4. \A y \in wire' : y.type = "ACK" => OnItsWay(y)
    BY <1>6 DEF CallFits, CalleeFits
  <2>5. phase'[caller] = "up" => phase'[callee] # "answered"
    BY <1>2, <1>4
  <2> QED
    BY <2>1, <2>2, <2>3, <2>4, <2>5 DEF CalleeFits
<1>10. ByesFit' /\ LeavingFits'
  BY <1>5 DEF ByesFit, LeavingFits
<1>11. OutstandingFits'
  <2>1. ASSUME NEW y \in wire', y.type = "BYE" PROVE Outstanding("BYE", y.peer, Sender(y))'
    <3>1. y.peer # m.peer
      BY <1>6, <2>1 DEF IInv, NetFits, Sole, Alike
    <3> QED
      BY <1>1, <1>2, <1>6, <2>1, <3>1 DEF CallFits, OutstandingFits
  <2>2. phase'[caller] = "leaving" => Outstanding("BYE", callee, caller)'
    <3> SUFFICES ASSUME phase'[caller] = "leaving" PROVE Outstanding("BYE", callee, caller)'
      OBVIOUS
    <3>1. u # caller /\ phase[caller] = "leaving"
      BY <1>2
    <3>2. m.peer # callee
      BY <1>1, <3>1 DEF Sender
    <3> QED
      BY <1>1, <1>2, <3>1, <3>2 DEF CallFits, OutstandingFits
  <2> QED
    BY <1>4, <1>5, <2>1, <2>2 DEF CallFits, OutstandingFits
<1> QED
  BY <1>7, <1>8, <1>9, <1>10, <1>11 DEF CallFits

\* The first provisional response to the INVITE.
LEMMA DeviceEarlyCall ==
    ASSUME IInv, CallFits, NEW m \in wire, ~IsRequest(m), m.dst \in Ue, m.type = "INVITE",
           ~Final(m), phase[caller] = "calling", phase'[caller] = "early",
           phase'[callee] = phase[callee],
           wire' = wire \ {m}, UNCHANGED <<txns, session, offered>>
    PROVE  CallFits'
<1>1. \A type, peer : \A u \in Ue :
            /\ wire \ {m} \subseteq wire' /\ txns' = txns /\ Outstanding(type, peer, u)
            /\ m.type # type \/ m.peer # peer \/ ~Final(m)
            => Outstanding(type, peer, u)'
  BY AnswerAtDevice
<1>2. caller \in Ue /\ callee \in Ue /\ \A y : Sender(y) \in Ue
  BY DEF Ue, Sender
<1>3. Open /\ Open' /\ ~Talking /\ ~Talking'
  BY DEF Open, Talking
<1>4. \A y \in wire' : y \in wire /\ y.type \notin {"ACK", "BYE"}
  BY <1>3 DEF CallFits, DecisionFits
<1>5. OriginsFit' /\ DecisionFits' /\ SessionFits'
  BY <1>3, <1>4 DEF CallFits, OriginsFit, DecisionFits, SessionFits, InSession
<1>6. CalleeFits' /\ ByesFit' /\ LeavingFits'
  BY <1>3, <1>4 DEF CallFits, CalleeFits, ByesFit, LeavingFits, Straight
<1>7. OutstandingFits'
  BY <1>1, <1>2, <1>3, <1>4 DEF CallFits, OutstandingFits, Straight
<1> QED
  BY <1>5, <1>6, <1>7 DEF CallFits

\* The call fails at the caller.
LEMMA DeviceFailedCall ==
    ASSUME IInv, CallFits, NEW m \in wire, ~IsRequest(m), m.dst \in Ue, m.type = "INVITE",
           Final(m), m.code # 200, Open, phase'[caller] = "failed", phase'[callee] = phase[callee],
           wire' = wire \ {m}, UNCHANGED <<txns, session, offered>>
    PROVE  CallFits'
<1>1. ~Open' /\ ~Talking /\ ~Talking'
  BY DEF Open, Talking
<1>2. Decides(m) /\ offered = None /\ session.dialog # "up"
  BY DEF CallFits, DecisionFits, Decides
<1>3. \A y \in wire' : ~Decides(y) /\ y \in wire /\ y.type \notin {"ACK", "BYE"}
  BY <1>1, <1>2 DEF CallFits, DecisionFits
<1>4. \A y \in wire' : ~(y.type = "INVITE" /\ (IsRequest(y) \/ y.code = 200))
  BY <1>3, OkIsFinal DEF Decides
<1>5. OriginsFit' /\ DecisionFits'
  BY <1>1, <1>2, <1>3 DEF CallFits, OriginsFit, DecisionFits
<1>6. SessionFits'
  BY <1>1, <1>2, <1>4 DEF CallFits, SessionFits, InSession
<1>7. CalleeFits' /\ ByesFit' /\ LeavingFits'
  BY <1>1, <1>3, <1>4 DEF CalleeFits, ByesFit, LeavingFits, Talking
<1>8. OutstandingFits'
  BY <1>1, <1>3 DEF CallFits, OutstandingFits, Talking
<1> QED
  BY <1>5, <1>6, <1>7, <1>8 DEF CallFits

LEMMA DeviceResponseCall ==
    ASSUME IInv, CallFits, NEW m \in wire, DeviceResponse(m)
    PROVE  CallFits'
<1>1. /\ ~IsRequest(m) /\ m.dst \in Ue
      /\ wire' = wire \ {m} /\ UNCHANGED <<txns, session, offered>>
  BY DEF DeviceResponse
<1>2. CASE m.type = "INVITE" /\ ~(m.code = 200 /\ phase[m.dst] \in {"calling", "early", "pracked"})
           /\ phase' = [phase EXCEPT ![m.dst] = CASE m.code = 183 /\ @ = "calling" -> "early"
                                             [] Final(m) /\ @ \in {"calling", "early", "pracked"} -> "failed"
                                             [] OTHER -> @]
  <2>1. m.dst = caller /\ caller # callee
    <3>1. Fits(m) /\ m.dst = Sender(m)
      BY <1>1, AnswerAtDevice
    <3>2. m.peer = callee
      BY <1>2, <3>1 DEF Fits, Message, Ue
    <3> QED
      BY <1>2, <3>1, <3>2, NodesDiffer DEF Sender
  <2>2. phase'[callee] = phase[callee]
    BY <1>2, <2>1 DEF IInv, StateFits, Ue
  <2>3. \/ m.code = 183 /\ phase[caller] = "calling" /\ phase'[caller] = "early"
        \/ Final(m) /\ m.code # 200 /\ Open /\ phase'[caller] = "failed"
        \/ phase' = phase /\ (Open => ~Final(m))
    BY <1>2, <2>1 DEF IInv, StateFits, Ue, Open
  <2>4. CASE m.code = 183 /\ phase[caller] = "calling" /\ phase'[caller] = "early"
    <3>1. ~Final(m)
      BY <2>4 DEF Final
    <3> QED
      BY <1>1, <1>2, <2>2, <2>4, <3>1, DeviceEarlyCall
  <2> QED
    BY <1>1, <1>2, <2>2, <2>3, <2>4, DeviceFailedCall, DeviceIgnoresCall
<1>3. CASE m.type = "PRACK" /\ UNCHANGED phase
  BY <1>1, <1>3, DeviceIgnoresCall
<1> QED
  BY <1>1, <1>2, <1>3, DeviceRegisteredCall, DeviceHungUpCall DEF DeviceResponse

LEMMA AcknowledgesCall ==
    ASSUME IInv, CallFits, NEW m \in wire, Acknowledges(m)
    PROVE  CallFits'
<1> DEFINE x == NewRequest("ACK", caller, Plenty)
<1>1. /\ m.dst = caller /\ m.type = "INVITE" /\ m.code = 200
      /\ phase[caller] \in {"calling", "early", "pracked"}
      /\ phase' = [phase EXCEPT ![caller] = "up"]
      /\ wire' = (wire \ {m}) \cup {x}
      /\ UNCHANGED <<txns, session, offered>>
  BY DEF Acknowledges, Moves
<1>2. /\ IsRequest(x) /\ x.type = "ACK" /\ x.src = caller /\ x.dst = P /\ x.peer = callee
      /\ x.hops = Plenty
      /\ Len(x.via) = 1 /\ x.via[1].node = caller
  BY NewFits, ChainAssumption DEF Request, Ue
<1> HIDE DEF x
<1>3. OriginFits(x) /\ OnItsWay(x) /\ ~Decides(x) /\ x.type \notin {"INVITE", "BYE"}
  BY <1>2, NodesDiffer DEF OriginFits, Origin, Sender, OnItsWay, Decides, Ue, Proxy
<1>4. /\ phase'[caller] = "up" /\ phase'[callee] = phase[callee]
      /\ caller \in Ue
  BY <1>1, NodesDiffer DEF IInv, StateFits, Ue
<1>5. Open /\ ~Talking /\ ~Open' /\ Talking'
  BY <1>1, <1>4 DEF Open, Talking
<1>6. ~IsRequest(m) /\ Decides(m)
  BY <1>1, OkIsFinal DEF Decides
<1>7. session.dialog = "up" /\ ~session.initial /\ session # NoSession
  <2>1. Avoids(m.via, S)
    BY <1>1, <1>4, <1>6, AnswerAtDevice
  <2> QED
    BY <1>1, <2>1 DEF CallFits, SessionFits, NoSession
<1>8. offered = None /\ \A y \in wire' : ~Decides(y) /\ y.type # "BYE" /\ (y # x => y \in wire)
  BY <1>1, <1>3, <1>5, <1>6 DEF CallFits, DecisionFits
<1>9. phase[callee] = "answered"
  BY <1>1 DEF CallFits, CalleeFits
<1>10. OriginsFit'
  BY <1>1, <1>3 DEF CallFits, OriginsFit
<1>11. DecisionFits'
  BY <1>1, <1>5, <1>8 DEF DecisionFits
<1>12. \A y \in wire' : ~(y.type = "INVITE" /\ (IsRequest(y) \/ y.code = 200))
  BY <1>8, OkIsFinal DEF Decides
<1>13. SessionFits'
  BY <1>1, <1>7, <1>8, <1>12 DEF SessionFits, InSession
<1>14. CalleeFits'
  BY <1>1, <1>2, <1>3, <1>4, <1>8, <1>9, <1>12 DEF CallFits, CalleeFits
<1>15. ByesFit' /\ LeavingFits'
  BY <1>4, <1>8, <1>9 DEF ByesFit, LeavingFits
<1>16. OutstandingFits'
  BY <1>1, <1>4, <1>5, <1>7, <1>8 DEF OutstandingFits
<1> QED
  BY <1>10, <1>11, <1>13, <1>14, <1>15, <1>16 DEF CallFits

-----------------------------------------------------------------------------
(* As long as nothing is lost. *)

CallInv == ~lost => CallFits

LEMMA InitCallInv ==
    Init => CallInv
<1> SUFFICES ASSUME Init PROVE CallFits
  BY DEF CallInv
<1>1. /\ wire = {} /\ txns = {} /\ session = NoSession /\ offered = None
      /\ phase[caller] = "idle" /\ phase[callee] = "idle"
  BY DEF Init, Ue
<1>2. ~Open /\ ~Talking /\ session.dialog = "none" /\ ~session.initial
  BY <1>1 DEF Open, Talking, NoSession
<1>3. OriginsFit /\ DecisionFits /\ SessionFits
  BY <1>1, <1>2 DEF OriginsFit, DecisionFits, SessionFits, InSession
<1>4. CalleeFits /\ ByesFit /\ LeavingFits /\ OutstandingFits
  BY <1>1, <1>2 DEF CalleeFits, ByesFit, LeavingFits, OutstandingFits
<1> QED
  BY <1>3, <1>4 DEF CallFits

\* What is lost stays lost.
LEMMA LostForever ==
    ASSUME [Next]_vars, ~lost'
    PROVE  ~lost
<1>1. ASSUME NEW m, ForwardStateful(m, P, config.entry, TRUE) PROVE ~lost
  BY <1>1 DEF ForwardStateful, Answer, SendOn, CannotSend
<1>2. ASSUME NEW m, ForwardStateful(m, P, m.peer, FALSE) PROVE ~lost
  BY <1>2 DEF ForwardStateful, Answer, SendOn, CannotSend
<1>3. ASSUME NEW m, PcscfRequest(m) PROVE ~lost
  BY <1>1, <1>2, <1>3 DEF PcscfRequest, Drop, SendStateless
<1>4. ASSUME NEW m, IcscfRequest(m) PROVE ~lost
  BY <1>4 DEF IcscfRequest, ForwardStateful, Answer, SendOn, CannotSend, SendStateless
<1>5. ASSUME NEW m, ScscfRegister(m) \/ ScscfInvite(m) PROVE ~lost
  BY <1>5 DEF ScscfRegister, ScscfInvite, Answer, SendOrFail, SendOn
<1>6. ASSUME NEW m, ScscfInDialog(m) \/ ScscfAck(m) PROVE ~lost
  BY <1>6 DEF ScscfInDialog, ScscfAck, Answer, SendOrFail, SendOn, Drop, SendStateless
<1>7. ASSUME NEW m, ProxyResponse(m) \/ DeviceRequest(m) \/ DeviceResponse(m) \/ Acknowledges(m)
      PROVE  ~lost
  BY <1>7 DEF ProxyResponse, DeviceRequest, DeviceResponse, Acknowledges, Answer, Drop
<1>8. ASSUME NEW t, TimesOut(t) PROVE ~lost
  BY <1>8 DEF TimesOut
<1>9. CASE Registers \/ (\E hops \in Hops : Calls(hops)) \/ SendsPrack \/ (\E u \in Ue : HangsUp(u))
  BY <1>9 DEF Registers, Calls, SendsPrack, HangsUp, Sends
<1>10. CASE (\E code \in {200, 486} : PicksUp(code)) \/ BindingExpires \/ UNCHANGED vars
  BY <1>10 DEF PicksUp, BindingExpires, vars, network
<1> QED
  BY <1>3, <1>4, <1>5, <1>6, <1>7, <1>8, <1>9, <1>10 DEF Next, Deliver

LEMMA NextCallInv ==
    ASSUME Plenty >= 4
    PROVE  IInv /\ IInv' /\ CallInv /\ [Next]_vars => CallInv'
<1> SUFFICES ASSUME IInv, IInv', CallFits, [Next]_vars, ~lost' PROVE CallFits'
  BY LostForever DEF CallInv
<1>1. ASSUME NEW m \in wire, Deliver(m) PROVE CallFits'
  BY <1>1, PcscfRequestCall, IcscfRequestCall, ScscfRegisterCall, ScscfInviteCall,
     ScscfInDialogCall, ScscfAckCall, ProxyResponseCall, DeviceRequestCall, DeviceResponseCall,
     AcknowledgesCall DEF Deliver
<1>2. ASSUME NEW t \in txns, TimesOut(t) PROVE CallFits'
  BY <1>2 DEF TimesOut
<1>3. CASE Registers
  BY <1>3, RegistersCall
<1>4. ASSUME NEW hops \in Hops, Calls(hops) PROVE CallFits'
  BY <1>4, CallsCall
<1>5. CASE SendsPrack
  BY <1>5, SendsPrackCall
<1>6. ASSUME NEW code \in {200, 486}, PicksUp(code) PROVE CallFits'
  BY <1>6, PicksUpCall
<1>7. ASSUME NEW u \in Ue, HangsUp(u) PROVE CallFits'
  BY <1>7, HangsUpCall
<1>8. CASE BindingExpires \/ UNCHANGED vars
  BY <1>8, CallUnchanged DEF BindingExpires, vars, network
<1> QED
  BY <1>1, <1>2, <1>3, <1>4, <1>5, <1>6, <1>7, <1>8 DEF Next

LEMMA QuietFits ==
    IInv /\ CallInv => ReleasedWhenQuiet
<1> SUFFICES ASSUME IInv, CallFits, wire = {}, txns = {}, session.from # I
             PROVE  /\ (session # NoSession) = (phase[caller] = "up")
                    /\ phase[caller] = "up" =>
                          session.dialog = "up" /\ ~session.initial /\ phase[callee] = "up"
  BY DEF CallInv, ReleasedWhenQuiet
<1>1. \A type, peer, u : ~Outstanding(type, peer, u)
  BY DEF Outstanding
<1>2. phase[caller] = "up" => session # NoSession
  BY DEF CallFits, SessionFits
<1>3. ASSUME session # NoSession PROVE session.dialog = "up" /\ Straight /\ phase[caller] = "up"
  <2>1. session.dialog = "up"
    BY <1>3 DEF CallFits, OutstandingFits
  <2>2. Straight
    BY <2>1 DEF IInv, StateFits, Straight
  <2>3. ~Open /\ phase[caller] \notin {"leaving", "over"}
    BY <1>1, <2>2 DEF CallFits, OutstandingFits
  <2>4. Open \/ Talking
    BY <2>1 DEF CallFits, DecisionFits
  <2> QED
    BY <2>1, <2>2, <2>3, <2>4 DEF Talking
<1>4. ASSUME phase[caller] = "up"
      PROVE  session.dialog = "up" /\ ~session.initial /\ phase[callee] = "up"
  <2>1. session.dialog = "up" /\ Straight /\ Talking
    BY <1>2, <1>3, <1>4 DEF Talking
  <2>2. ~session.initial
    BY <1>2, <1>4, <2>1 DEF CallFits, SessionFits
  <2>3. phase[callee] \in {"answered", "up", "leaving", "over"} /\ phase[callee] # "answered"
    BY <1>4, <2>1 DEF CallFits, CalleeFits
  <2>4. phase[callee] \notin {"leaving", "over"}
    BY <1>4, <2>1 DEF CallFits, LeavingFits
  <2> QED
    BY <2>1, <2>2, <2>3, <2>4
<1> QED
  BY <1>2, <1>3, <1>4

\* Whatever way the INVITE took to its end: once nothing is under way and nothing was
\* lost, SessionRouter has a session if and only if both devices are in the call, as
\* handleInviteResponseState and the callback of the BYE see every end of a call that
\* came straight from the P-CSCF.  A BYE that begins with fewer than four hops may not
\* come through; 70 is what the code itself writes.
THEOREM QuietCallsAreReleased ==
    ASSUME Plenty >= 4
    PROVE  Spec => []ReleasedWhenQuiet
<1>1. Init => CallInv
  BY InitCallInv
<1>2. IInv /\ IInv' /\ CallInv /\ [Next]_vars => CallInv'
  BY NextCallInv
<1>3. IInv /\ CallInv => ReleasedWhenQuiet
  BY QuietFits
<1> QED
  BY <1>1, <1>2, <1>3, InductiveInvariant, PTL DEF Spec
=============================================================================
