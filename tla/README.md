# Formal model of android-pessoal-iphone

One iPhone app controls one Android over WebRTC. An API authenticates the user,
keeps one remote session and relays the signalling; a gateway beside the Android
answers the WebRTC offer, streams the screen and turns control messages into
scrcpy events. This directory holds TLA+ modules translated from that code, TLC
configurations that check them on small instances, and theorems that TLAPS
checks for every value of the constants. `PROJECT.json` maps each definition to
the lines it models and lists the hazards, the runs and the theorems.

## Inventory

| Component | State | Operations | Interacts with |
| --- | --- | --- | --- |
| Signalling hub, `internal/signal/hub.go` | rooms, two slots and two pending queues each; per peer a Send channel and a done channel | Join, Forward, Leave, CloseSession (HasGateway is not called) | called by every signal handler and session request, one mutex |
| HTTP handlers, `internal/httpapi/server.go` | nothing of their own; per signal request a reader and a writer goroutine and a WebSocket | createSession, deleteSession, logout, clientSignal, gatewaySignal, websocket; login, refresh | store and hub, in separate steps |
| Store, `internal/store/store.go` | `users`, `refresh_tokens`, `remote_sessions` in SQLite, one connection | one statement or transaction each | HTTP handlers |
| Login limiter, `internal/httpapi/limiter.go` | attempts per address and user | Allow, Success | login |
| Gateway loop, `internal/gateway/gateway.go`, `cmd/gateway` | the session it serves, the peer connection, the signalling connection | Run, activeSession, serveSession, callbacks of the peer connection, streamVideo, streamAudio | polls the API, owns the scrcpy session |
| Opus durations, `internal/gateway/opus.go` | none | opusPacketDuration | streamAudio |
| scrcpy session, `internal/scrcpy/session.go` | active pointers, last sequence, screen revision, last heartbeat, three sockets | Start, HandleControl, watchTouches, ResetVideo, Close, readPacket | data channel callbacks, the watchdog and serveSession's deferred calls, one mutex |
| App: touch surface, `TouchSurfaceView.swift`, `RemoteVideoView.swift` | pointer identifiers, sequence, screen revision, heartbeat timer | touches began, moved, ended, cancelled; rotation | WebRTC client |
| App: WebRTC client, `WebRTCClient.swift` | peer connection, two data channels, pending remote candidates | connect, disconnect, sendControl, receiveSignals, delegate callbacks | API (signalling), gateway (media and control) |
| App: API client and model, `APIClient.swift`, `AppModel.swift` | tokens, phase, current client | refreshIfNeeded, login, logout; signIn, connect, disconnect | API |
| Configuration, passwords and access tokens, keychain, views, scripts, deployment | constants or platform state | | |
| `protocol/control.go` | none; no program imports it | validation, PixelPoint | |

What is hard here, and what makes each part correct:

* **Hub.** A Peer outlives its slot: its reader may still Forward, its writer may
  still drain the channel, and Leave may come after the room was closed or made
  again. Correct means that no room leaks, that whoever lost its slot was told,
  that messages wait only for someone absent and arrive in order and once, that
  they never cross sessions or roles, and that Join, which sends on a channel
  with the mutex held, never blocks.
* **Requests and signal handlers.** They touch the store and the hub in separate
  steps, so that a check or a read may be stale when it is used. Correct means
  one unrevoked session, no slot left behind, and that closed or dead
  connections end.
* **Touch path.** Two channels with different guarantees carry one gesture; one
  sequence number filters all fingers; writes may fail halfway; a timer, two
  callbacks and the closing of the session cancel contacts. Correct means that
  what Android holds down is always remembered, belongs to the current screen
  revision, never goes back in time, and is released in the end.
* **Refresh tokens and the login limit.** A refresh deletes one row and inserts
  another in two statements; the app's calls interleave at every await and repeat
  what was not answered. Correct means that a login never forks, that the app's
  calls do not lock each other out, that a logout is final, and that the limiter
  bounds the attempts without locking anybody out for good.
* **Gateway loop and negotiation.** The gateway polls, joins, may fail at any step
  and tries again; the app sends its offer once; candidates may come before it.
  Correct means that no delay or retry loses an offer before a gateway took it, that
  no answer comes unasked or twice, and that the gateway leaves a session that ended
  and serves the next one.
* **App model.** Every tap starts a task; tasks, and the callbacks of clients old and
  new, interleave at each await and set the same phase. Correct means that an app that
  shows the login view streams nothing and left no session, and that the phase it
  shows does not contradict what became of its client for ever.
* **scrcpy session.** adb accepts a dial when nobody listens, forwards survive
  crashes, the server takes three connections once, and Close needs a mutex that a
  blocked write may hold. Correct means that a session reads and writes the sockets of
  its own server, that a failed or finished session leaves nothing behind, and that
  everything that begins to end does.
* **Media timing.** The RTP clocks follow what packets say. Correct means that no
  packet and no time stamp stops a clock or makes it jump.

## Modules

```
SignalMailbox           what the hub promises (abstract)
  Negotiation             WebRTCClient.swift and gateway.go over the mailbox
    NegotiationProofs       types, use of the mailbox, answers and offers
SignalHub               hub.go; refines SignalMailbox
  SignalHubProofs         invariants of the hub; it implements SignalMailbox
  SignalApi               server.go and store.go around the hub; extends SignalHub
    SignalApiProofs         extends SignalHubProofs: the API uses the hub as specified
TouchControl            touch surface, data channels, scrcpy filter
  TouchControlProofs      types, contacts, revisions and positions
AppModel                AppModel.swift with the requests it awaits
  AppModelProofs          types, SignedOutIsSilent and OneLossIsHarmless
ScrcpySession           Start and Close of session.go, adb and the scrcpy server
  ScrcpySessionProofs     types, SocketsMatch and NothingIsLeft; and of MediaTiming
MediaTiming             opus.go and the durations of media samples (pure)
TokenRotation           login, refresh, logout and the app's APIClient
  TokenRotationProofs     types and safety
LoginLimiter            limiter.go
  LoginLimiterProofs      types, both bounds
MCSignalHub, MCSignalApi, MCNegotiation, MCTouchControl, MCTokenRotation,
MCAppModel, MCScrcpySession   instances for TLC
```

**SignalHub.** `rooms`, `member`, `pending` are `Hub.rooms` and the fields of
`room`; `inbox` and `done` are `Peer.Send` and `Peer.done`; `status` and `at`
record the life of a Peer value and the session it joined (in the code: local
variables of the handler). A Peer is made once, so the sets of peers are the Peer
values a behaviour may make. Every operation holds `Hub.mu` throughout and is one
action; Forward is one action per outcome, Leave one per branch. `sent` and `read`
are history: each message carries its stamp and its sender. `hung` records that
Join would have blocked for ever, which disables everything that needs the mutex.

**SignalMailbox** is the promise without rooms and channels: two seats and two
boxes of mail per session. `SignalHub!Mailbox` maps `mail` to the Send channel of
the peer in the slot or, without one, to what waits in the room.

**SignalApi** adds the rows of `remote_sessions`, up to two concurrent requests
(`op`), and for each peer its handler, its connection and its writer goroutine.
One SQL statement or transaction is one step (the store has one connection), one
hub operation is one step, and anything may happen between them. A connection
fails visibly (`closed`) or silently (`dead`); a write into a dead connection may
succeed. SQL errors are left out.

**TouchControl** follows a finger from the touch surface to Android. `ctl` is the
ordered channel, `tch` a set from which messages are delivered in any order or
never. `Vanish` is the app that is killed or offline: nobody tells the gateway. `Handle` is HandleControl: revision check, stale check, write, in that
order, each write succeeding or failing. `age` counts half seconds since the last
authorised message. `pressed` is what Android holds down, `shown` and `downRev`
are history. Coordinates are left out: the app clamps them to the video, so the
gateway's range check accepts them. The heartbeats' own sequence numbers are left
out because nobody reads them.

**TokenRotation.** A call is one task in the actor `APIClient`; `app` says at which
await it is, `handler` how far the goroutine that answers it came. They are
separate because the handler goes on when the app gave up. `row` keeps what
happened to a deleted row (`consumed`, `revoked`), which the database forgets, and
`owner` the login a token descends from. One SQL statement or transaction is one
step. `HandlerFails` stands for an SQL error, a cancelled context and a restart of
the API. A client is an `APIClient`, of which `signIn` makes one per login. The
session part of logout is in SignalApi.

**LoginLimiter** counts attempts on one key. `left` is the time until the reset,
so time needs no bound; `pending` attempts have been admitted and wait for the
verdict on their password. `within[a]` is history: how many attempts were admitted in the
last `a` units, since the last success.

**Negotiation** composes the app and the gateway over the hub as SignalMailbox
promises it. A client is one WebRTCClient, which creates one session and joins once;
a gateway peer is the connection of one serveSession. `phase` follows serveSession
(`starting`: scrcpy and the dial; `reading`: no offer yet; `gathering`: the offer is
set; `answered`, `connected`), `row` the rows of `remote_sessions`, `body` the contents
of the messages that the mailbox numbers. A signal handler checks the session and then
joins the hub in two steps (`want`: what it found; `Dial`, `GatewayJoins`), and createSession
reads the session whose room it will close before it commits (`previous`; `ReadPrevious`,
`CreateSession`); anything may come between. A handler whose gateway or app is gone does not
know, and may still join. What stays one step is the commit of createSession with the
CloseSession after it, and likewise deleteSession and logout: whoever joins between those
statements is disconnected by the last of them, and SignalApi has them apart. `ApiRestarts` empties
the hub and breaks every connection and request, while the rows stay in the database (a
creation that was committed, and whose answer the restart lost, is left out). `GatewayFails` is every error of serveSession that no other
action stands for, and a restart. The app does not reconnect its signalling, and an
app that lost it is one that may still stream, so the end of its connection counts
as leaving here.

**AppModel.** The k-th `signIn` makes the k-th APIClient, session and WebRTCClient, so
all go by its number; `signIn[k]` and `leaving[d]` say at which await a task is. A
request is `sent`, `served` or gone, and the app may give it up at any of these
points (`lost`), after which the API may still serve it. `spent` are the APIClients whose tokens
no refresh is granted for any more: one was consumed and its answer lost, or refused because the
login was revoked. The access token is used up by then, so that no later request of this
client is sent, neither the deletion nor the logout. `calls` are the tasks that
`onState` started and that have not run yet. The buttons are guards: the login view is
shown when signed out, the session view with its X otherwise. Two facts about the
platform are used: the main queue runs in order, so that callbacks made before a
peer connection was closed run before `disconnect` goes on (`Returned`), and a
closed peer connection reports nothing any more.

**ScrcpySession** follows one call of `Start` after the other. `wired` are the three
connections in the fields of `Session`, each as what it is on the other side: of
which server, taken for which role, or closed by adb. What is assumed of the outside:
adb accepts a dial on a forwarded port and closes the connection if nobody listens; the
scrcpy server takes three connections in order, once, and sends only then; it ends
when its adb process is gone or a write to a closed socket fails; pion reports
`closed` in a goroutine of its own after `peer.Close`. The read of metadata from a
connection that adb closed fails, one from a connection nobody serves yet runs into
its deadline: both are `MetadataMissing`. A gateway that crashes may leave the
forward, and takes its adb process with it (systemd ends the whole control group).
Contacts are TouchControl's subject; here a writer only holds the mutex.

**MediaTiming** holds functions of a packet: its length and first two octets. 0 stands
for a packet that is not ok. The mode table of RFC 6716, which the comments of
`opus.go` refer to, is stated apart from the function that is compared with it.

Operators named after a slip (`ReceiverOfOwnRole`, `ForwardPush`, `ForgetEarly`,
`UnreadableWithoutDeadline`, ...) are not used by any action. Each stands before
the definition it is a faulty variant of; substituting it shows that the property
named in `PROJECT.json` "mutants" notices the fault.

## Runs

| Run | Instance | What it shows |
| --- | --- | --- |
| `hub_safety` | 2 sessions, 2 clients, 2 gateways, queues and channels of 2, 3 messages | all safety invariants of the hub, and the refinement of the mailbox |
| `api_safety` | 2 sessions, 2 clients, 1 gateway, 2 requests, expiry, 1 message | one unrevoked session; a slot always has a running handler |
| `api_liveness` | 1 session, 1 client, 1 gateway, 2 requests, 1 message | dead connections free their slot; closed peers end; deletion disconnects |
| `touch` | 2 fingers, 3 events and keys, of them 1 key, 2 revisions, writes may fail | no forgotten, phantom or outdated contact; positions never go back; a screen nobody touches any more is released, also when the app vanished |
| `token_safety` | 2 clients, 4 calls, 3 tokens | a login has one credential; calls do not lock a client out; a logout is final |
| `login_limit` | limit 3, window 4, 3 pending attempts | two bursts at most; the entry counts its window; a lock-out ends |
| `deleted_session` | 1 session, 1 client, 1 gateway | **violation**: signalling in a deleted session |
| `lift_lost` | 2 fingers, 4 events | **violation**: a lift is refused as stale |
| `negotiation` | 2 sessions, 2 apps, 5 connections of the gateway, 1 event: a candidate, a failure, a restart of the API or an expiry | offers are accounted for, answers awaited; if nothing expires, no session ends between the gateway's check and its join, and no two creations overlap, new sessions are served and revoked ones left |
| `app_model` | 2 signIns, 2 disconnects, 1 lost request | a signed-out app streams nothing, and leaves no session unless its tokens were spent; connecting ends; a takeover is shown |
| `scrcpy_session` | 2 starts, 2 faults | a session uses the sockets of its own server; nothing is left; Start, the return of serveSession and the capture end |
| `expired_session` | the same as `negotiation` | **violation**: the gateway stays in an expired session |

The three violations are places where the code and the repository's documents
disagree:

1. *A deleted session can signal* (`server.go:219-247` against README.md:94). The
   handler reads the row, DELETE revokes it and finds no room to close, the
   handler joins.
2. *A lost lift* (`session.go:273` against README.md:3). With two fingers down, a
   move of one on `touch.v1` overtakes the "up" of the other on `control.v1`;
   `lastSequence` is shared, the "up" is stale, and the heartbeats of the finger
   that stays keep the watchdog from releasing the contact.
3. *An expired session keeps the gateway* (`server.go:178-186` against README.md:3). The
   session of an app that went away expires while the gateway waits in its signalling.
   The next creation revokes it, but ActiveSession did not return it, so its room
   stays open; `Run` never polls again and the new session waits for ever.

**Bounds.** A room has two slots and a message concerns two peers, so two peers per
role show every conflict on a slot and every reconnection; the second session
shows crosstalk. A capacity of 2 lets a queue be empty, ordered, full and
overflowing within three messages. The requests conflict in pairs. A finger's life
takes two events, so three show a life and a new contact after it, or two fingers of which
one moves while the other is down; the lift that a move overtakes takes four (`lift_lost`);
two revisions show a rotation. `Limit` is 3 in the code (1.5 s of half-second
rounds) and 0 in the exhaustive runs: the watchdog may act after any half second of
silence, which includes every order of its rounds and the messages. Four calls are a login, two
refreshes that race and a logout, or two of each for two clients; three tokens let
a token be spent twice over. The limit is 8 attempts in ten minutes in the code; a
limit and a window of a few units already meet at every boundary. In `negotiation`
a session is enough for one app and its failures and retries, the second for being
replaced; the one event, if it is a candidate, comes before the offer or after it, and if it is a failure, at any step (`MaxEvents`;
the theorems `AnswersAreAwaited` and `OffersAreKept` are for any number of them); 4 messages in a box are more than an app sends, so that the
box never overflows (what overflow does is the hub's subject); there are as many gateway
connections as the bounds can use up (`EnoughGateways`). In `app_model` two signIns show an old client beside a new one and two disconnects one
after the other or overtaking, within `MaxTaps` taps, an overtaking one counting twice; one lost
request is what `OneLossIsHarmless` is about. In `scrcpy_session` two starts show what the
first leaves to the second, and two faults a crash of the gateway and one of a server, or
a device that stalls and a crash. `MaxCandidates`, `MaxMessages`, `MaxEvents`, `MaxPointer`, `MaxRevision`,
`MaxKeys`, `MaxPending`, `MaxSignIns`, `MaxDisconnects`, `MaxTaps`, `MaxLost`, `MaxStarts`, `MaxFaults` and the sets `Ops`, `Calls` and `Tokens` bound behaviours that are unbounded in the code; the
theorems hold for all their values.

Deadlock is not checked, except in `login_limit`: users may stop, and the bounded
instances end.

**Fairness.** In `SignalApi`: a goroutine that can proceed does (the steps of a
request after it was accepted, Join, Upgrade), a read on a connection that failed
or was silent for 45 s returns, a writer whose peer is closed leaves its select,
and a write on a closed connection fails. Nothing obliges requests, messages or
failures to come, nor a write into a silent connection to fail. In `TouchControl`:
time passes, the ticker fires while the session is served, the reliable channel
delivers while the app is there, a channel that is being closed ends and its OnClose runs, and a
returning serveSession runs its deferred calls. Nothing makes fingers move and
nothing is promised of `touch.v1`. In `LoginLimiter` only the clock is fair. In `Negotiation`:
Run polls every second, a dial returns, a waiting message is read, gathering
ends within 12 s, a read on a closed connection fails, a peer connection whose remote
side is gone becomes failed, and the API's handlers go on: one that found its session joins or is
refused, one whose connection ended notices it (45 s at most). Nothing obliges an app to do anything. In `AppModel`: tasks and callbacks run, a
request is answered or given up (URLSession's minute), the API serves what it received, the
signalling of a client that closed or whose session was revoked ends, and the link to
a gateway that left fails. Nobody has to tap, and no gateway has to answer. In
`ScrcpySession`: goroutines run and clocks advance, adb commands return (the code sets no
limit), `sync.Mutex` lets every waiter in (strong fairness of `Lock`; Go's mutex
has a starvation mode for that), and a server that lost its adb process or a socket it writes to
ends. No server has to start, and a device that stopped reading need not go on.

**What the properties except.** A disconnect tapped while a signIn is still
on its way to its client, or while another disconnect is not over, may find no client to close or
close the wrong one: the buttons are never disabled (`RemoteSessionView.swift:29`), and a
client can stay open behind the login view. `SignedOutIsSilent`, `OneLossIsHarmless` and
`TakeoverIsShown` therefore except behaviours in which that happened (`overtook`); the runs
contain them. `ConnectingEnds` excepts the wait for the answer to an
offer, which the app does not limit. `OneLossIsHarmless` excepts spent tokens: one
answer to a refresh that is lost in deleteSession leaves a client that can neither delete nor log out,
and its session stays live until it expires (`server.go:121`, `APIClient.swift:55`, `73`, `102`).

`UnexpiredIsServed` and `RevokedIsLeft` hold of behaviours that are `Orderly`, each part of which is needed (TLC finds both properties violated
when any one of the three is left out):
`NoneExpires`, for an expired session's room is not closed by the creation that revokes it (`server.go:178`, the third violation above);
`NoneOvertaken`, for a session that ends between the gateway's check and its join (`server.go:232`, `247`) is joined in a
fresh room that nobody closes, where the gateway waits without limit (`gateway.go:220`), the race of the first violation;
and `NoneOverlap`, for two creations that read the same `previous` (`server.go:178`) close the same room and leave the other open. Of the last,
`OneUnrevokedSession` covers the rows only.
`OfferIsAccountedFor` excuses every loss once a serveSession had joined the session and gave up; so it says
nothing of a candidate that ends serveSession because it came before the offer (`gateway.go:256`), which may take the offer with
it. After a restart of the API the app has no seat, and it says nothing either.
`LogoutEndsLogins` excepts a login for which a refresh was under way: a new token saved after the logout is valid.
`CaptureEnds` is guaranteed twice, by Close and by the cancelled context; the fault that it is shown to notice leaves out both.

## Theorems

All are proved by TLAPS for any sets of sessions and peers, any capacities with
`PendingCap <= SendCap`, and any bounds; the assumptions are the named ASSUMEs of
the modules, which TLC evaluates in the runs, and one hypothesis that is stated in its
theorem (`OffersAreKept`). The inductive invariants were checked by TLC before they were
proved.

* **SignalHubProofs.** `HubInv` is inductive. Its first half, `SlotInv`, adds to the
  invariants of rooms and slots that a Peer that was not made yet is blank
  (`NewIsBlank`): Join relies on it to keep order and to keep done channels open.
  The second half, `QueueInv`, needs the first: a message is appended to the box of
  the peer in the opposite slot, and only because that slot holds a live peer of
  the right role and session is the message at home there. `NeverHung` needs
  `WithinCaps` and `PendingCap <= SendCap`. There is one step per action and under
  it one per conjunct that the action can disturb; lemmas about `Ordered` and
  `SentBy` say what Append and Tail do to them. Theorems: `TypeCorrect`,
  `RoomsAreFreed`, `SlotsStayLive`, `EvictedAreTold`, `JoinNeverBlocks`, `OnlyAbsentWait`,
  `QueuesBounded`, `OrderKept`, `NoCrossTalkEver`.
  `HubImplementsMailbox`: under `HubInv` every action maps
  to one of the mailbox or to a stutter. The invariant is needed where the hub
  discards a queue without looking: the mailbox may drop mail only when the seat or
  the session is empty.
* **SignalApiProofs.** `ApiUsesHub` (`ApiSpec => Spec`) carries every theorem about the
  hub over to the API. `ApiImplementsMailbox` joins it with the refinement:
  what Negotiation builds on is what the API as a whole does. `SlotsHaveHandlers` combines `SlotsAreLive` with
  `HandlerInv`: a joined peer's handler runs. `OneSessionEver` and `ApiTypeCorrect`
  are the rows' and the types' invariants.
* **TouchControlProofs.** `ContactsRemembered`, `ContactsReal` and `ContactsOfOneRevision`
  are proved together (`ContactInv`): an event of a new
  revision may take over because the cancels that it causes reach everything
  Android holds down, which is what the session remembers, and before the first
  event nothing is down. `PositionsNeverBack` by `PositionInv`: what Android was shown of a
  contact carries no sequence later than `lastSequence`, and only a "down" is accepted without being
  compared with that; but a pointer goes down once, and the downs on their way are of pointers that are
  not active. `RevisionFollows` proves `RevisionNeverBack`, which no run of the
  project checks (it takes four events to break, which TLC can check but not in a few minutes):
  only a "down" sets the revision, downs travel in order on `control.v1`, and so each one on
  its way is at least as new as the session (`RevisionInv`).
* **AppModelProofs.** `SignedOutIsSilentEver` by `Unhurried`: while no disconnect overtook,
  one signIn at most is on its way to a client, or one disconnect away from one; an
  open client is the model's current one, and none is open during either or behind the
  login view. `OneLossIsHarmlessEver` by `LossInv`: a live session is the current one's or about to be
  (`Held`), and a disconnect that is past its deleteSession while the session lives has lost that
  request, or its tokens were spent (`Ending`); in the first case a logout that is not sent or not served would be a second
  loss, or would itself have spent the tokens. That a set of
  one element at most has no two is the only fact about cardinality.
* **ScrcpySessionProofs.** `SessionInv` adds to `SocketsMatch` what the dials know: while
  Start dials, the port leads to its own server (`PortLeads`), so whatever a dial got it got from that server,
  later dials later roles (`DialsInOrder`); once the second is "audio", the third can only be
  "control", unless the server died and nothing can be read (`ControlFollows`).
  `NothingIsLeftEver` needs that only the present Start's process runs (`OneProcess`).
  Of MediaTiming, properties of functions, for every input: `FrameSizes`,
  `AudioClockAdvances`, `VideoClockAdvances`. `MCScrcpySession` has TLC evaluate the packets of
  `opus_test.go` and a sample of the octets.
* **TokenRotationProofs.** `IInv` says whose every token is (`Ownership`) and that a
  login is its client's first call (`LoginIsFirst`); without the second, a login
  granted late would be a second credential. `OneCredentialEver` and
  `LogoutIsFinal` (through `EndedInv`: nothing of an ended login is about to be
  saved) follow by one step per action. `NeverLockedOut` needs `AnswerIsUnused`: the
  token in an answer that was not applied yet is held, presented and spent by nobody.

* **LoginLimiterProofs.** The limiter's window is fixed, the promise is about every interval of a
  window's length. The invariant divides the history at the last reset: what was admitted since the present
  window began is `count`, and what was admitted in the length of a window before is at most the limit. `TwoBurstsAtMost`
  adds the two; `WindowIsCounted` is the first half.
* **NegotiationProofs.** Four layers, each on those before it.
  `TypeInv` says which contents may be in whose mail (`Lawful`) and that names in use are real ones, those that a handler found included; lemmas
  say what each operation of the mailbox does to the letters of one content
  (`Taken`, `Posted`, `RefusedMail`, `Emptied`). `BaseInv` adds who sits where (`Seats`), that an
  empty room holds no mail (`Quiet`), that one session at most is live, and that nobody
  knows a session that was not created (`RoomInv`). `NegotiationUsesMailbox` follows: at most one live session
  means that a request closes at most one room, which is a step of `SignalMailbox` (or nothing, if nobody
  is there); only a restart of the API closes all. With `HubImplementsMailbox`
  the two sides meet in the same specification.
  `OfferInv` says where the one offer of a session can be: in the mail, being answered,
  or in an answer, and in one of these places only; in none before it was sent and after its answer was read.
  `AnswersAreAwaited` follows from it.
  `OffersAreKept` is inductive given the rest. It needs that the offer, and the answer, are never refused for lack of
  room: the gateway's box then holds candidates only (`FewBefore`), so the theorem supposes
  `MaxCandidates < MinCap` (of one app, however many apps there are); the app's box is empty when the gateway answers. In
  the code the capacity is 32 (`hub.go:55`, `hub.go:92`) and nothing limits
  the candidates: with 32 of them before the offer and no gateway yet, the hub drops the offer. So
  the hypothesis is about how many candidates the phone gathers in the time that its offer takes.

The type invariants of these modules are proved; the runs check only the limiter's and the
negotiation's besides.

Only model-checked: the liveness properties, because no prover here handles fairness
(`LockoutEnds`, `DeadConnectionFreesSlot`, `ClosedPeerEnds`, `DeletionDisconnects`, `QuietScreenIsReleased`,
`UnexpiredIsServed`, `RevokedIsLeft`, `ConnectingEnds`, `TakeoverIsShown`, `StartEnds`, `ReturnEnds`, `CaptureEnds`). Every
invariant and every action property that a passing run checks is also a theorem.

## Plan

Done, in this order: SignalMailbox, SignalHub and its proofs, the refinement,
SignalApi and its proofs, TouchControl and its proofs, TokenRotation and its proofs,
LoginLimiter, Negotiation, AppModel and its proofs, ScrcpySession and its proofs, MediaTiming
and its proofs, the proofs of the limiter, of Negotiation, of `PositionNeverBack` and of
`OneLossIsHarmless`. Next:

1. A composition of AppModel with Negotiation, in place of `GatewayAnswers` and `SignalEnds`, and the
   theorem that what AppModel supposes of the two is what Negotiation does.
2. The safety parts of the liveness properties: for `QuietScreenIsReleased` and `ReturnEnds`, that no state is
   one from which the helpful action is not enabled.
3. `PixelPoint` of `protocol/control.go` and `aspectFit`, once a program uses the former.

## Not modelled, and why

Argon2id, JWT and random identifiers are library calls without state. Video and audio frames beyond their durations, RTCP, SDP text, JSON, logging, views, keychain,
configuration, scripts, deployment files and CI have no protocol of their own.
`ResetVideo` writes one byte on the control socket: in `ScrcpySession` it is one of the writers
that hold the mutex, and it changes nothing that the properties of `TouchControl` read.
`protocol/control.go` is imported by no program.
