# SimIMS: specifications and proofs

TLA+ specifications of the core of SimIMS, a small IMS (IP Multimedia Subsystem) in C++: what its
components do when requests, responses, timers, failures and shutdowns meet, and which of their
promises hold. Each module was translated from the sources under `src/`; `PROJECT.json` gives the
lines behind every definition.

## 1. The system

SimIMS is a P-CSCF, an I-CSCF and an S-CSCF on one SIP stack, run as three processes or as one
(`src/allinone`). A boost::asio `io_context` with a few threads runs everything.

| Component | State | Operations | Talks to |
|---|---|---|---|
| SIP transports (`sip/transport.cpp`) | UDP socket, table of TCP connections | send, receive, connect, accept, close, stop | transaction layer (callback per message) |
| Transaction layer (`sip/transaction.cpp`) | `client_txns`, `server_txns`, state, timers and last response of each | sendRequest, processMessage, sendResponse, timers A, B, H, J, shutdown | transports; handlers and response callbacks |
| Stack, proxy functions (`sip/stack.cpp`, `proxy_core.cpp`) | handler table | dispatch, Via/Route processing, stateful and stateless forwarding | transaction layer |
| P-CSCF (`p-cscf/`), media (`rtp/media_session.cpp`) | media sessions by dialog, topology tokens | REGISTER/INVITE/BYE/... towards core or UE, offer and answer through rtpengine | stack, rtpengine client |
| rtpengine client (`rtp/rtpengine_client.cpp`) | pending commands by cookie, receiver thread | offer, answer, delete with timeout | rtpengine over UDP |
| I-CSCF (`i-cscf/`) | none beyond configuration | chooses the S-CSCF, forwards | HSS, stack |
| Registrar (`s-cscf/registrar.cpp`) | none of its own | REGISTER: challenge, verify, register, refresh, de-register | store, providers, HSS |
| S-CSCF service (`s-cscf/scscf_service.cpp`) | its timer, `stopping_` | start, stop, the handler of the cleanup timer | registrar, router, store |
| Registration store (`sip/memory_store.cpp`) | contacts by public identity | lookup, upsert, remove, purge (batches) | registrar, router, cleanup timer |
| AKA provider, digest provider (`s-cscf/*_auth_provider.cpp`) | pending challenges, requests in flight | createChallenge, verifyAuthorization | HSS, credential store |
| Session router (`s-cscf/session_router.cpp`) | sessions by Call-ID and tags | INVITE, responses, CANCEL, ACK, PRACK, BYE | store, stack |
| HSS access (`diameter/`, `db/`) | subscriber documents in MongoDB, their sequence numbers, a pool of database clients | UAR, MAR, SAR, LIR | MongoDB, edited by the web console too |
| reg-event notifier | one eXosip context | NOTIFY | eXosip |
| Milenage, message/URI, bencode, DNS, configuration, logging | none that changes | functions, I/O | - |

**What runs concurrently.** A UDP socket is received from by one chain: the next receive is armed
when the handler of the last message has returned. Every TCP connection is a chain of its own.
Timers run on any io_context thread, beside the chains. Handlers are synchronous: calls to the HSS
and to rtpengine, TCP connects and waits on a `shared_future` block their thread. So two REGISTERs of
one UE over two connections, a response and a timer, or an ACK and the response it acknowledges
really overlap, and a handler may write what it read before a long call.

**What is hard about it** (listed line by line under `hazards` in `PROJECT.json`):

- *Registration.* A handler matches a contact in a copy, asks the HSS, then writes. Correct: removed
  contacts do not come back, older REGISTERs do not win, refreshes apply to all identities of the
  implicit set or none, one device does not disturb another.
- *Authentication.* The response is compared without the lock. Correct: a challenge is accepted at
  most once, is not overwritten while it waits, nobody waits for a future that is never set.
- *Calls.* INVITE, responses of several callee devices, CANCEL, ACK and BYE arrive in any order.
  Correct: a confirmed dialog stays routable until it is released, a failed one leaves nothing.
- *Transactions.* Timers, responses and the sending thread race. Correct: an entry leaves its table
  in the end, and not before it is over; nothing is handled or reported twice.
- *Media.* A handler looks a session up, calls rtpengine, and changes the session, while CANCEL, BYE
  and responses of other branches do the same. Correct: a session is deleted once, an established one
  is kept, a call that is over leaves none.
- *rtpengine.* Answers are matched to commands by cookie while commands time out and the receiver may
  end. Correct: a call returns, once, with its own answer or an error.
- *HSS.* Workers draw sequence numbers with compare-and-set, holding one pooled client and waiting for
  another. Correct: one counter, nobody waits for ever, giving up means that others got on.
- *TCP.* Sends, the acceptor, readers and stop share a table of connections. Correct: one connect at a
  time, nobody sleeps for ever, only broken connections go, framing loses nothing.
- *The chain.* A request crosses up to five proxies and its responses go back by Via and by
  transaction at once. Correct: both ways agree, loops and exhausted hops are answered, a call is
  established and released at both ends.

## 2. The modules

| Module | Models | State and actions |
|---|---|---|
| `RegistrationStore` | `MemoryRegistrationStore` | `contacts` is `bindings_`. Operators `Lookup`, `UpsertContacts`, `RemoveContacts`, `RemoveBindings`, `PurgeExpired`: one step each, as each holds the mutex throughout. No behaviour of its own; `Registrar` extends it. |
| `Registrar` | `Registrar` with the store, sweeps at any time and look-ups by others | A worker is a receive chain; `pc` is its place in `handleRegister`. `Start*` is the part before the first HSS call, `*Sar` the call, `*Commit` the write and the answer. `req`, `fresh`, `targets` are the locals that survive the call. |
| `ScscfService` | `ScscfService`: start, stop, cleanup timer, around `Registrar` | `timer` is where `registration_cleanup_timer_` and its handler stand. `ScheduleCleanup` and `ArmTimer` are the look at `stopping_` and the `async_wait`; `TimerFires`, `TimerFails`, `Sweep`, `SweepFails` the paths of the handler; `Stop` may come between any two. |
| `OneTimeChallenge` | *abstract*: what any `IAuthProvider` promises | `Issue`, `Lapse`, `Accept` on one open challenge per client |
| `AkaAuth` | `ImsAkaAuthProvider` | `pending`, `inFlight` are the two maps; one action per locked section, the MAR between them (`MarAnswered`, `MarFails`), `SetPromise` for the future. Refines `OneTimeChallenge` (`Promise`). |
| `DigestAuth` | `DigestAuthProvider` | the same with two looks around `makeNonce`. Refines `OneTimeChallenge` (`DigestPromise`). |
| `AuthProvider`, `TransactionLayer`, `RtpengineCaller` | the constants two modules share | none: `AkaAuth` and `DigestAuth`, the two sides of the transaction layer, and the two sides of `BlockingCall` extend them, so that one module of proofs can speak of both |
| `SequenceNumbers` | *abstract*: what `advanceSqn` promises | one counter: a caller takes the number in one instant between asking and being answered, or gets none; the console may set the counter |
| `HssAccess` | `MongoHssClient`, `MongoSubscriberRepository`, `MongoClient` | `record` is the subscriber's document, `free` the pool, `run` the place of each worker with its locals; one action per round trip (`Find`, `Read`, `Compare`, `Assign`) and per wait for a client (`PopTo*`); `Fails` is a round trip that fails before or after its effect; `ConsoleSaves` the web console. Refines `SequenceNumbers` (`Sequence`). |
| `SessionRouter` | `SessionRouter` between two user agents | `sessions` is `sessions_`; `Handle*` the handlers and response callbacks, one step each as each takes the mutex once; `Callee*`, `Caller*`, `SendBye` the user agents; `toRouter`, `toCaller` sets of messages, hence reordering |
| `ClientTransactions` | `ClientTransaction`, `client_txns` | `sender` is the thread in `sendRequest`, `incoming` the receive chains, `timerA`, `timerB` the timers: armed, handler due, handler between its sections. `Start`/`ArmTimers` split `start()` where a response may overtake it; `Retransmit`/`Rearm` are the two sections of `retransmit`. |
| `ServerTransactions` | `ServerTransaction`, `server_txns` | `Arrive`/`MakeTransaction`/`Insert`/`Handle` are the sections of `processMessage`; `SendResponse`/`RecordResponse`/`StartTimers` those of `sendResponse`; `phase` and `doomed` the shutdown |
| `BlockingCall` | *abstract*: what `IRtpengineClient` promises | a call returns once, with success or an error (`Call`, `Finish`, `Return`) |
| `RtpengineClient` | `RtpengineClientImpl` | `pending` is `pending_requests_`, `thread` each caller's place in `sendCommand`, `receiver` the receiver thread with the requests it has taken out; one action per section under a mutex; `wire`, `answers` the datagrams, which may be lost, late or reordered, each with the caller it is of for the properties to look at. Refines `BlockingCall` (`Calls`). |
| `MediaSessions` | `PcscfService` with `MediaSessionManager` | `sessions` is `sessions_` of one call; `handler` the place of each chain, with the deletions it has to do (`plans`). `target` is the dialog the last INVITE was sent in. `On*` is the arrival of a message up to the first call of rtpengine, `*Returned` what follows the call. Extends `BlockingCall` for those calls. |
| `ProxyChain` | `ProxyCore`, `IcscfService`, the routing of the P- and S-CSCF | `wire` the messages, `txns` what the proxies have forwarded, `session` and `binding` of the S-CSCF, `config` the configuration. `Deliver` is the whole handler of a node for one message: `PcscfRequest`, `IcscfRequest`, `Scscf*`, `ProxyResponse`, `Device*`. |
| `TcpTransport` | `TcpTransport` and its `Connection`s | `table` is `connections`, `connecting` the set of pending connects, `conn` every connection with its reader and buffer; `sender`, `acceptor`, `stopper` the threads in `send`, the accept handler and `stop`; one action per section under a mutex |
| `RegistrarProofs`, `HssAccessProofs`, `SessionRouterProofs`, `TcpTransportProofs`, `ProxyChainProofs` | theorems about the module they are named after (`RegistrarProofs` also about `ScscfService`) | |
| `AuthProofs`, `TransactionLayerProofs`, `MediaProofs` | theorems about `AkaAuth` and `DigestAuth`, `ClientTransactions` and `ServerTransactions`, `MediaSessions` and `RtpengineClient` | |
| `MC*` | instances for TLC | |

How they fit together:

- `Registrar` holds the providers as a set of pending challenges and the outcome of a comparison as a
  choice; `AkaAuth` and `DigestAuth` say what happens behind that, and `OneTimeChallenge` is what the
  two share. A MAR or SAR is a choice of outcomes in both; `HssAccess` has the round trips behind it.
- `MediaSessions` is built on `BlockingCall`, and `RtpengineClient` implements it: what the P-CSCF
  assumes of rtpengine is no more than what the client keeps when rtpengine keeps silent.
- `ProxyChain` composes the proxies over one network. Of the session table it has what
  `SessionRouter` keeps of one callee, of a transaction that it is open or over; `SessionRouter` has
  forking and CANCEL, and `ClientTransactions` and `ServerTransactions` have timers, copies and races.
- `SessionRouter` takes from the transaction layer that a response finds its open branch or is
  dropped, that timer B closes a branch silently and that a copy of an INVITE is absorbed while its
  server transaction lives.
- `TcpTransport` is the ground for "every TCP connection is a chain of its own", and shows why there
  may be more chains than peers for a while.

Operators named as a *faulty variant* belong to no specification. Each stands before the definition
it distorts, and is what the property named in `PROJECT.json` would catch.

## 3. What the runs check

Each module has one invariant `...Consistent`: its type invariant, `TypeOK` or `...TypeOK`, with the
invariants that bind its variables together, each defined under its own name and each with a faulty variant of its
own. In `Registrar` and `DigestAuth` type correctness is proved instead.

| Run | Instance | Shows |
|---|---|---|
| `registrar_race` | 2 workers, 4 REGISTERs of one device (register, refresh with a later CSeq, removal, wildcard removal), 2 identities, HSS, timer and sweeps may fail, profile may grow, stop, fairness of the timer | `NoRevival`, `StaleRegisterNeverWins`, `RefreshAllOrNothing`, `ExpiredContactsSwept` (the timer is armed again on every path) |
| `registrar_sets` | 2 workers, two devices (instance and reg-id; URI alone), HSS answers the whole profile | `ImplicitSetConsistent`, `NoCollateralLoss` |
| `aka` | 3 workers, one device with two identities, 2 vectors, HSS may fail, fairness | `FlightsConsistent` (one request in flight per key, waiters are served, a vector has one identity), `NoReplay`, `ImplementsOneTimeChallenge`, `CallsReturn` |
| `digest` | 3 workers, one key, 3 nonces | `DigestIsOneTimeChallenge` |
| `hss` | 2 workers, 3 clients, a counter of 3 numbers, 2 attempts, 5 calls, 1 edit, 1 failure, fairness | `PoolConsistent` (clients accounted for, never all waiting), `ConflictMeansProgress`, `OneCounter`, `CallsReturn` |
| `router_calls` | one call whose INVITE arrives up to twice, 2 callee tags, 2 contacts | `InviteConsistent` (CANCEL finds the INVITE), `ByeForwardedUnlessCanceled`, `NoGhostAfterFailure`, `EstablishedKept` |
| `client_table` | INVITE over UDP and CANCEL over TCP, each with its own key, shutdown, fairness | `ClientTableConsistent` (no stranded entry, what runs is listed, one final response to an owner), `TableDrains` |
| `server_table` | 2 chains, INVITE and BYE, 2 objects, shutdown, fairness | `ServerTableConsistent` (open requests are listed), `TerminationToldOnce`, `AnsweredRequestEnds` |
| `media` | 2 INVITEs of one call (a second try, or one within the dialog), 2 callees, 3 chains, rtpengine may fail at every call, fairness | `MediaTableConsistent` (who marks a session deletes it, and nobody else), `NothingEarlyRemains`, `EstablishedKept`, `MediaReleased` |
| `rtpengine` | 2 threads, 5 cookies, 1 answer that may come late, receiver may fail, fairness | `PendingConsistent` (what is listed is awaited, who waits is listed), `OwnAnswerOnly`, `ImplementsBlockingCall` |
| `proxy` | 8 configurations (entry I or S, peer I-CSCF or none, callee provisioned or not), INVITE with 1, 2 or 9 hops, one loss, fairness | `ViasConsistent` (both ways back agree, loops are cut), `ReleasedWhenQuiet`, `CallAnswered`, `HangUpArrives` |
| `tcp` | 2 workers, 1 remote that connects too, 2 sends, 2 connections, 1 break, stream of 4 units in two messages, stop, fairness | `ConnectionsConsistent` (one connect per remote, sleepers are woken, entries are watched), `NoneOfOursStays`, `WholeInOrder`, `HealthyStays`, `CallsReturn` |

**Bounds and why they suffice.** The races of the registrar and of the providers are between two
handlers over one record, so two workers produce them; three are used where a third may wait or come
second (`FlightsConsistent`, refinement). Two identities are the smallest implicit set. `MaxVectors`,
`MaxNonces` bound how often the HSS or the generator is asked; two are enough for a renewal, three for
two racing nonces and a later one. `DefaultExpires` is 2 ticks, so that a contact can be fresh, ageing
and expired. `MaxInvites = 2` gives one repetition; two tags give two callee devices. `Txn` in
`ServerTransactions` bounds how many objects are ever made; two allow a raced creation, a second life of
a key, or one transaction of each of two keys. Tags and contacts are interchangeable in `router_calls`,
which declares symmetry and checks no liveness.

In `hss` the counter comes round after three numbers and five calls are allowed, so that a number that
was read may be there again when it is compared; a conflict takes two workers and two attempts; three
clients for two workers is the smallest pool that `PoolAssumption` allows, and the one that comes
closest to the deadlock. In `media` a third chain beside the caller's is what lets two responses, or a
response and a looped BYE, be between two sections at once; the second INVITE is the retry after a
failure, or an INVITE within the dialog. In `rtpengine` five cookies let a thread call again while an
answer to its last command is late. In `proxy`, 9 hops are more than any loop of the chain takes, 1 and
2 run out at the first and the second proxy; one loss is one transaction that times out or one message
that cannot be sent, wherever it happens. In `tcp` the connection of the peer, ours and a broken one
meet with two; the stream has a message with a body of which a unit looks like an empty line, and one
without a body.

**Deadlock** is checked except where the system really comes to rest: a call that is over, a layer
that is shut down or whose transactions have ended, workers whose calls (`MaxCalls`, `MaxSends`) are
used up.

**Fairness.** Weak fairness of the steps of a handler that has begun: its thread is its own until it
returns. The calls it makes return with an answer or an error: MAR and SAR because the MongoDB driver
has timeouts, rtpengine because `RtpengineClient` implements `BlockingCall`, whose own fairness is that
of a wait with a deadline. Weak fairness of armed timers. For
`ExpiredContactsSwept` the timer of the registrations must not fail every time it is armed and the store
must not refuse every sweep (strong fairness of `TimerFires` and `Sweep`; `MemoryRegistrationStore` never
refuses one); that the timer is armed again is not assumed, and nothing is asked of the handlers of
REGISTER. `ServerTransactions` adds strong fairness of the final response of an owner: an owner of
an answered key ends a finite series of provisional responses by a final one. In `ProxyChain` a
message that is not lost is delivered; nobody has to call, to answer or to hang up. In `TcpTransport`
senders, readers, the acceptor and stop go on, and connects and writes return: a peer that accepts
nothing for ever would hold a writing thread. Nothing else is assumed of user agents, of rtpengine or
of the network.

## 4. What is proved

`tlapm` checks the eight `*Proofs` modules, for every value of the constants that satisfies the named
assumptions. `NoneAssumption`, `RegistrarAssumption`, `AkaAssumption`, `KeyAssumption`,
`DigestAssumption`, `SqnAssumption`, `RouterAssumption`, `MediaAssumption`, `LayerAssumption`,
`ServerAssumption`, the two `ClientAssumption`s and `TransportAssumption` only say that absent values
differ from present ones, that bounds are numbers, that a stream is a sequence and that each transaction
has a key and a receive chain. `ChainAssumption` says so of messages, and that the five nodes of the chain
differ. `PoolAssumption` says that there are fewer workers than database clients: an
installation has a few threads per process, and the driver's default is 100 clients. The invariants `IInv`
named below were checked by TLC on the instances of the runs before they were proved.

*Registrar.* The action properties need more than types: a handler that is about to write must hold
the contact it built from its own request. `InductiveInvariant` adds to `TypeOK` what each place in
the handler implies for `req`, `fresh` and `targets`: without it, a step from an unreachable state
where `fresh` belongs to another Call-ID would let an old CSeq win. From it follow
`RemovedContactsStayRemoved`, `StaleRegistersLose`, `RefreshIsAtomic`, `OtherDevicesUndisturbed`, each with
one step per action; most actions leave the store alone or prune it, and the three commits use lemmas
about the operators of `RegistrationStore`. `ServiceIsRegistrar` carries all of this over to
`ScscfService`, whose steps are steps of `Registrar` or leave it alone, and `OnlyStopEndsCleanup` says
that no path of the timer's handler loses the timer.

`ImplicitSetsStayAlike` states `ImplicitSetConsistent` for sets of any size. It has two hypotheses, and the
instance of `registrar_sets` satisfies both. `ProfilesStay`: the HSS answers, and gives each identity of a
set that same set; without it the code cannot keep the identities alike, since it writes to those it was
given. `ContactsNamedAlike`: a device names its contacts always with instance and reg-id or always
without. Otherwise one selector may find two contacts of an identity; the code replaces the first of its
vector, the model, which has a set, any one of them. The invariant says that selectors find one contact at
most (`StoreNamed`), that a contact about to be written is named as its request names it (`FreshNamed`),
and that handlers commit to whole sets (`TargetsWhole`).

*AkaAuth.* `NoReplay` is not inductive: that a vector is accepted once depends on where it is. The
invariant says that a vector that was fetched is in one place only: carried by the worker that fetched
it, waiting in the entry of one key, or gone; that accepted vectors wait nowhere; and that
`in_flight_auth_` names exactly the workers between its two sections (`SingleFlight`). From it follow
`VectorsAcceptedOnce`, `OneRequestPerKey`, `NoWaiterStranded`, `VectorsNotShared`, together `FlightsFit`, and
`AkaKeepsPromise`: each step of the provider is a step of `OneTimeChallenge` or leaves it unchanged.

*DigestAuth.* The second look decides between two nonces. The invariant says what it decides between:
a nonce on its way into the table is in one hand and was never sent (`MadeApart`), and what is stored
was sent (`StoredIsSent`). Then `Store` is an `Issue` or changes nothing, and `DigestKeepsPromise`
follows.

*HssAccess.* `SqnFromOneCounter` is the refinement of `SequenceNumbers`; it needs that a worker in a
call has no answer yet (`Unanswered`), so that being answered is one step. `NumbersInOrder` carries the
abstract order over: each number follows the one before with `kSqnStep`. That no number repeats before
the counter has come round follows by induction on the number of steps in between, which is beyond the
prover. `ConflictsMeanProgress` rests on `Beaten`: an attempt that failed, or is bound to fail, was
defeated by a change of its own, so that `MaxRetries` failures take as many changes. `ClientsAreAccounted`
counts the pairs in `CheckedOut`: a step adds or takes one pair as it takes or gives one client; with
`PoolAssumption` it gives `NeverAllWait`, and with types `PoolFits`.

*SessionRouter.* Whether the table can be trusted depends on who may still change it. The invariant
says that a response counts only while its INVITE is open and that a call has one open INVITE
(`OpenIsPending`); that what is under way names branches that were given and dialogs that were confirmed
(`Truthful`); that an entry bears the mark of a CANCEL only when one has arrived (`MarksAreTrue`); that the
purge finds no entry of an open INVITE stale (`OpenIsFresh`); and that a dialog the caller knows, or is
about to, was established at the router first (`ConfirmedIsEstablished`). `CancelFindsItsInvite` needs the
first four: the initial entry could be lost to the ACK of a canceled call, to the purge or to a copy of
the INVITE. `ByeFindsItsSession` and `EstablishedSessionsKept` rest on the last. `NothingAfterFailure` says
of the failure that it was the last word, that is, that the INVITE's transaction is gone: while it lives,
a copy of the INVITE is absorbed, but after it a new INVITE makes an entry of its own.

*TransactionLayer, server side.* An open request is found by its copies because, until the layer is shut
down, only what is over leaves the table (`LeavingIsOver`), what is over was answered finally
(`AnswersFit`), and a chain that is about to hand a request on has listed the very transaction it holds
(`ChainsFit`). The step that matters is `try_emplace`: of two chains that made a transaction for one
request, one finds the other's. `ServerTableFits` follows, for any number of chains, keys and
transactions. `TerminationIsToldOnce` needs no invariant: `markTerminatedLocked` looks and marks in one
section.

*TransactionLayer, client side.* `ClientTableConsistent` says that what is over is listed only if somebody
is on his way to remove it, and this is not inductive, because three threads may be on theirs. The
invariant says for the sender, the timers and the chain of the socket what cannot have happened since they
last held the lock: `SendersFit`, `ResponsesFit`, `EntriesFit`; that the one who is to remove an entry is
there (`OverIsLeaving`); and that an owner who has its final response is not found by a second one
(`AnsweredIsHidden`). That last part needs that a socket has one chain, which works on one response at a
time: `ChainOf` is a function, as it is in the code. `ClientTableFits` has the hypothesis `KeysUsedOnce`,
that no two transactions have one key. The code draws a branch for each request it sends
(`proxy_core.cpp:39`), a CANCEL is told from its INVITE by its method, and the instance of `client_table`
satisfies it; section 5 says what becomes of a key that is used again.

*ProxyChain.* A proxy sends a response to where the request of its transaction came from, and takes its own
Via off: these are two pieces of state, and `ViasAreConsistent` says that they agree. The invariant is that
a transaction's Via, in whatever message it is, stands on the one of the node the transaction answers
(`Retraces`). That a new transaction is not mistaken for an older one follows from `Sole`: a request is the
only message of its kind while it is under way, and what was forwarded before had more hops left, which is
what tells branches apart here. Then a request must not be sent twice, so `UnsentFits` says what a device
that has got no further cannot have sent. When the P-CSCF cuts the Vias of an INVITE's response to the last
one, that is the one of the device, as its transaction came from a device (`TxnFits`). That no request
passes the I-CSCF twice, or the S-CSCF three times, holds of any Max-Forwards: the I-CSCF looks for itself,
and between two visits of the S-CSCF there is one of the I-CSCF (`OncePastI`, `Parted`). An ACK has no loop
detection there. It is sent when the callee was reached, and then the session leads to the P-CSCF
(`RungFits`).

`QuietCallsAreReleased` is about one call over all of its ways, and needs a second invariant, `CallInv`:
unless something was lost, `CallFits`. (TLC found it true of every state of the run, with `Plenty` 9 and 4,
before it was proved.)
One message decides the call, the INVITE or its final response, and while there is one the caller waits
(`DecisionFits`). Its Vias tell what the S-CSCF knows: it has the session while its own Via is on that
message, and a response that comes back without it has set the session up, or was a failure (`SessionFits`).
The callee has answered before the caller talks, and an ACK that would bring it into the call is under way
until it is (`CalleeFits`). A BYE and its 200 pass the S-CSCF, which then forgets the call, if the
session leads straight to the P-CSCF (`ByesFit`, `LeavingFits`). And each request is accounted for, by a
message or by a transaction, until its sender has its end (`OutstandingFits`): where there is neither, the
call has failed, ended or both devices talk. The hypothesis `Plenty >= 4` is that ACK, PRACK and BYE begin
with enough hops for the longest way, P, I, S and P. A device chooses its own; 70 is what the tests use and
what the code writes where it writes one (`proxy_core.cpp:222`). The hops of the INVITE are arbitrary.

*MediaSessions.* The invariant follows the INVITE, the first one of a call or one within the dialog.
`OneOwner` says who has which deletion to do; `HandlersFit` what a chain holds at each place between two
calls of rtpengine; `InviteFits` that from the first final response on one chain alone settles the call;
`RequestsFit` what a BYE or CANCEL that is under way says about the call. A session that was ended must not
be made again by a response of the same INVITE: that is so because a new to-tag copies the initial session,
and no dialog has one, unless the answer to a 2xx failed at rtpengine (`EndedIsEnded`). So the deletions that
others still have to do when the caller sends its next INVITE are those of a BYE, or such a 2xx was lost
before, which is what `Renewed` says. `EstablishedIsWinner`: only the dialog of the 2xx is ever established.
Each section of `MediaSessionManager` has a lemma that gives the table after it. `TerminationHasOneOwner`,
`FinalResponseCleansUp` and `EstablishedDialogKept` follow. The invariant was checked by TLC with two and
with three INVITEs (2.3 million states) before it was proved.

*RtpengineClient.* The client compares cookies; `of` in a request, a command and an answer says whose they
are, and is what the properties look at. `MessagesFit` ties the two together: what is on its way under a
thread's cookie is of that thread. It is kept because a number is drawn only when neither table nor thread
nor datagram has it, and because a request leaves the table before its caller leaves `sendCommand`. With it
whoever the receiver finds in the table is given what was answered to him (`HeldFit`), from which
`AnswersReachTheirCommand` follows: with a counter that two threads read at once, or a number drawn again
while a late answer is under way, it fails. What `PendingConsistent` says is not inductive either. A request
is in the table before its caller waits, so that a receiver that fails may complete it first
(`ListedOrHeld`); the receiver takes nothing up before it has completed what it took up last
(`HoldsOnlyAtWork`); and who has a result is listed no more (`CompletedIsTaken`). `ClientKeepsPromise` is the
safety half of `ImplementsBlockingCall`: under the mapping of `Calls` every step is a step of `BlockingCall`
or changes nothing.

*TcpTransport.* The invariant is about responsibility. A remote is in `connecting` just as long as one
worker connects to it (`ConnectingTrue`), so that whoever sleeps has someone to wake him. A new connection
has one starter, the worker or the acceptor that made it, until its reader runs (`StartedOnce`), and the
table holds none whose reader has ended (`Watched`). Until stop, a connection is given up only when its
peer is gone (`GivenUpWhenBroken`). From it follow `ConnectionsFit`, `StopLeavesNothing` and
`HealthyConnectionsStay`; the last needs that `unregisterConnection` compares the connection and not only
its key. `MessagesComeWhole` adds the units: the ends of the messages cut the stream, a connection has
delivered those before one of the cuts, and its buffer holds what has been read since (`Fits`). A header
ends at its first empty line, so of all the prefixes of the buffer only the next message is one
(`OneMessage`). The hypothesis `StreamOfMessages` is that the peer sends messages, each a header and the body
it announces; `MCTcpTransport` assumes it of its stream, so that TLC evaluates it.

**Only model-checked**:

- the liveness properties (`ExpiredContactsSwept`, `CallsReturn`, `TableDrains`, `AnsweredRequestEnds`,
  `MediaReleased`, `CallAnswered`, `HangUpArrives`, the liveness of `ImplementsBlockingCall`): fairness and
  ENABLED are beyond the prover.

## 5. Where the code and its documents differ, and what the properties leave out

The properties hold of the code as it is. Where a document promises more than the code keeps, the
property is stated for what it does keep, and the rest is described here.

*Calls.* `docs/requirements.md:114,117` ask that a BYE is forwarded and nothing leaks.

- A CANCEL that crosses the 200 OK: the dialog inherits `cancel_seen` from the initial entry
  (`session_router.cpp:308`), the ACK erases it, the BYE the caller must now send is answered 481 and the
  callee never learns. `ByeForwardedUnlessCanceled` and `EstablishedKept` leave out canceled calls.
- A BYE answered with a failure, or not at all, leaves the session: the callback
  (`session_router.cpp:266`) acts on a 2xx alone, and the purge (598-606) skips established sessions.
- A send that fails is only logged (`session_router.cpp:206`, 273, 373), and a client transaction that
  times out tells nobody upstream (`transaction.cpp:477`): the caller is left without a final response.
  The properties of `ProxyChain` excuse a call with such a loss.

*Transactions.* `docs/requirements.md:144,145` ask for RFC 3261 and for cleaned-up resources.

- Timer B runs on after a provisional response (`transaction.cpp:319`): a call that rings for 32 s is
  ended and its 200 OK dropped.
- `processResponse` sets Proceeding whatever the state was (`transaction.cpp:371`): a 1xx looked up
  before timer B fires and processed after it revives the transaction outside the table, and its
  retransmissions go on, until `1 << retransmit_count` (409) is undefined. The retransmission and timer B
  have to come within the same delay of the threads.
- A retransmission that is under way when a provisional response is processed arms timer A again (417).
- The ACK of a 2xx is entered in `server_txns` (588) as a transaction nothing ends, as is a request
  whose forwarded copy times out: `AnsweredRequestEnds` says so of answered ones only.
- The callbacks of a client transaction erase by key (474). `RunningIsListed` is checked for keys used
  once: one used again while a late response is under way would lose its new entry.

*Media.*

- When rtpengine does not answer the answer of a 2xx (`pcscf_service.cpp:248`), or a CANCEL meets a 2xx
  with SDP (236), nobody works the 2xx into the table: the sessions of the other branches stay.
  `NothingEarlyRemains` and `MediaReleased` begin where the last INVITE's final response was `settled`.
- An INVITE answered locally, for a loop, for Max-Forwards or for a failing send, leaves the session
  `onInvite` made (515). The next INVITE of the call takes it over; nothing purges the table.
- An INVITE of the caller within the dialog sets the dialog's session back to early
  (`media_session.cpp:43`). When that INVITE fails or is canceled the session is deleted although the
  dialog goes on (`media_session.cpp:203`, 239); when it comes while the session is being deleted for the
  callee's BYE, the session is back and is deleted a second time. `EstablishedKept` names the first case,
  `TerminationOwned` the second (`Renewed`). An INVITE of the callee within the dialog, which makes a
  session of its own under the reverse key, is not modelled.

*The chain.*

- An INVITE to a provisioned user who is not registered goes P, S, I, S, I and ends as a loop with 482;
  `docs/requirements.md:100` says 404. `LoopsCut` and `CallAnswered` hold of it.
- When the INVITE reaches the S-CSCF by the I-CSCF, as the entry or on such a detour, the session has
  the I-CSCF as the caller's endpoint (`session_router.cpp:171`). The callee's BYE is then sent to the
  I-CSCF, answered 482, and the session stays: `ReleasedWhenQuiet` and `HangUpArrives` say for which
  calls they hold.
- P- and I-CSCF forward a CANCEL with a branch of its own (`proxy_core.cpp:39`), so that it is no CANCEL
  of the INVITE's branch for the next hop; the S-CSCF matches by Call-ID. The S-CSCF answers 500, not
  483, at 0 hops, and adds no Record-Route.

*HSS and TCP.*

- The console writes the whole document back, sequence number and serving S-CSCF included
  (`webui/server/index.ts:604`): vectors handed out since the form was filled are handed out again.
  `OneCounter` takes that as setting the counter.
- The accept handler registers without a look at `stopped` (`transport.cpp:513`): a connection accepted
  while stop runs stays in the table, and the two keep each other alive. A send that fails because of
  `stopped` unregisters a connection which stop then misses, as it misses one that an accepted
  connection has replaced. `NoneOfOursStays` is said of the connections this side made.
- An IPv6 endpoint spelled otherwise than the library does is never found by `unregisterConnection`
  (609, 635): endpoints have one spelling in the model. A write holds `socket_mutex` (299), which the
  reader and stop wait for: that writes return is an assumption.

*Registration.* De-registering a whole identity compares no CSeq (`registrar.cpp:407`), so
`StaleRegisterNeverWins` exempts it by name. With two identities under one Call-ID the AKA provider takes
the first entry that fits (`ims_aka_auth_provider.cpp:203`), and a right response to the other one is
refused; what is promised is that vectors are not mixed up.

## 6. Not modelled

- `UdpTransport`, one socket behind a mutex with one receive chain, and `DualTransport`, which picks one
  of two transports: no state that two actors race for.
- Message and URI syntax, Milenage, digest computation, bencode, the subscriber codecs, DNS,
  configuration, logging: functions and I/O without state over time. Modules take what they yield: the
  parsed fields, the outcome of a comparison, the next hop.
- The reg-event notifier, whose state is in the eXosip library; the Diameter stubs, which return
  constants; the web console but for its write to the record; test clients and tools.
- In `Registrar`, SUBSCRIBE beyond its look-up. In `SessionRouter`, the resolution of a Contact and the
  look-ups of PRACK and re-INVITE (PRACK is in `ProxyChain`). In `RtpengineClient`, the destructor. In
  `HssAccess`, `setSqn` and the look-ups no handler makes. In `ProxyChain`, Route headers, CANCEL,
  SUBSCRIBE.

Order of the work to come:

- `StatefulProxy`: `ServerTransactions` and `ClientTransactions` joined by `ProxyCore`, in place of
  one of the narrower runs: what becomes of a lost ACK and of a forwarded copy that times out.
