----------------------------- MODULE TouchControl -----------------------------
(***************************************************************************)
(* One finger's way from the iPhone to Android: the touch surface of the   *)
(* app (TouchSurfaceView.swift, RemoteVideoView.swift), the two data       *)
(* channels it sends through (WebRTCClient.swift, gateway.go) and the      *)
(* scrcpy session that filters the events, remembers the active contacts   *)
(* and cancels them when the sender falls silent (scrcpy/session.go).      *)
(*                                                                         *)
(* control.v1 is reliable and ordered, touch.v1 is neither.  "down", "up"  *)
(* and "cancel" take the first, "move" and "heartbeat" the second while it *)
(* is open.  The app runs on its main thread; Session.mu makes each        *)
(* HandleControl, each watchdog round and the first part of Close one step.*)
(* Coordinates are left out (the app clamps them, so the gateway accepts   *)
(* them); the position of an event is its sequence number.  The session    *)
(* and generation of a message are right, and its revision is positive.    *)
(***************************************************************************)
EXTENDS Naturals, Sequences, FiniteSets

CONSTANTS
  MaxPointer,   \* bound: pointer identifiers 1..MaxPointer
  MaxEvents,    \* bound: touch events emitted, and keys
  MaxRevision,  \* bound: screen revisions 1..MaxRevision
  MaxKeys,      \* bound: keys and texts sent
  Limit,        \* 3: a watchdog round cancels after more half seconds than this
  MayBreak      \* whether writes to the scrcpy control socket may fail

ASSUME TouchAssumption ==
  /\ MaxPointer \in Nat /\ MaxEvents \in Nat /\ MaxRevision \in Nat \ {0}
  /\ MaxKeys \in Nat /\ Limit \in Nat /\ MayBreak \in BOOLEAN

VARIABLES
  \* the app
  touching,     \* keys of pointerIDs: fingers on the screen
  nextPointer,  \* nextPointerID
  sequence,     \* sequence, of touch events (that of heartbeats is not read)
  rev,          \* screenRevision of the touch view
  keys,         \* bound: keys sent so far
  app,          \* "on", "left" (disconnect was called), "gone" (killed, offline)
  \* the channels
  ctl,          \* control.v1: messages on their way, in order
  tch,          \* touch.v1: messages on their way, lost if never delivered
  chan,         \* chan[c]: "opening", "open", "ended", "closed" at the gateway
  \* the scrcpy session
  active,       \* activePointers
  lastSequence,
  screenRevision,
  age,          \* half seconds since lastHeartbeat
  sock,         \* the control socket: "ok", "broken", "closed"
  phase,        \* serveSession: "serving", "returned", "cancelled", "closed"
  \* Android
  pressed,      \* contacts that Android holds down
  shown,        \* history: shown[p], sequence of the last event Android got for p
  downRev       \* history: the revision under which p went down

appVars == <<touching, nextPointer, sequence, rev, keys, app>>
netVars == <<ctl, tch>>
filterVars == <<lastSequence, screenRevision>>
contactVars == <<active, pressed, sock>>
ghostVars == <<shown, downRev>>
vars == <<appVars, netVars, chan, filterVars, contactVars, age, phase, ghostVars>>

Pointers == 1..MaxPointer
Channels == {"control.v1", "touch.v1"}
TouchActions == {"down", "move", "up", "cancel"}
Message == [act : TouchActions, p : Pointers, seq : 1..MaxEvents, rev : 1..MaxRevision]
           \cup [act : {"heartbeat", "cancelAll", "key"}]

Touch(act, p, seq) == [act |-> act, p |-> p, seq |-> seq, rev |-> rev]
Plain(act) == [act |-> act]

Init ==
  /\ touching = {}
  /\ nextPointer = 1
  /\ sequence = 0
  /\ rev = 1
  /\ keys = 0
  /\ app = "on"
  /\ ctl = << >>
  /\ tch = {}
  /\ chan = [c \in Channels |-> IF c = "touch.v1" THEN "opening" ELSE "open"]
  /\ active = {}
  /\ lastSequence = 0
  /\ screenRevision = 0
  /\ age = 0
  /\ sock = "ok"
  /\ phase = "serving"
  /\ pressed = {}
  /\ shown = [p \in Pointers |-> 0]
  /\ downRev = [p \in Pointers |-> 0]

-----------------------------------------------------------------------------
(* The app: sendControl picks the channel.                                 *)
Reliably(messages) == ctl' = ctl \o messages /\ UNCHANGED tch

Quickly(m) ==
  IF chan["touch.v1"] = "open"
  THEN tch' = tch \cup {m} /\ UNCHANGED ctl
  ELSE Reliably(<<m>>)

Rest == <<chan, filterVars, contactVars, age, phase, ghostVars>>

TouchBegan ==
  /\ app = "on" /\ nextPointer <= MaxPointer /\ sequence + keys < MaxEvents
  /\ touching' = touching \cup {nextPointer}
  /\ nextPointer' = nextPointer + 1
  /\ sequence' = sequence + 1
  /\ Reliably(<<Touch("down", nextPointer, sequence + 1)>>)
  /\ UNCHANGED <<rev, keys, app, Rest>>

TouchMoved(p) ==
  /\ app = "on" /\ p \in touching /\ sequence + keys < MaxEvents
  /\ sequence' = sequence + 1
  /\ Quickly(Touch("move", p, sequence + 1))
  /\ UNCHANGED <<touching, nextPointer, rev, keys, app, Rest>>

(* touchesEnded and touchesCancelled; the cancels of a view that goes away *)
(* (dismantleUIView) are several of these.                                 *)
TouchEnded(p) ==
  /\ app = "on" /\ p \in touching /\ sequence + keys < MaxEvents
  /\ touching' = touching \ {p}
  /\ sequence' = sequence + 1
  /\ \E act \in {"up", "cancel"} : Reliably(<<Touch(act, p, sequence + 1)>>)
  /\ UNCHANGED <<nextPointer, rev, keys, app, Rest>>

(* cancelAll of the view: one "cancel" per finger, in dictionary order.    *)
Cancels(order) ==
  [i \in 1..Cardinality(touching) |-> Touch("cancel", order[i], sequence + i)]

CancelTouches ==
  /\ sequence + keys + Cardinality(touching) <= MaxEvents
  /\ sequence' = sequence + Cardinality(touching)
  /\ touching' = {}
  /\ \E order \in [1..Cardinality(touching) -> touching] :
       /\ \A p \in touching : \E i \in DOMAIN order : order[i] = p
       /\ Reliably(Cancels(order))

(* setSize with a new size: cancel under the old revision, then a new one. *)
Rotate ==
  /\ app = "on" /\ rev < MaxRevision
  /\ CancelTouches
  /\ rev' = rev + 1
  /\ UNCHANGED <<nextPointer, keys, app, Rest>>

(* The heartbeat timer, every 0.5 s while a finger is down.  One of them   *)
(* on its way is as good as several.                                       *)
Heartbeat ==
  /\ app = "on" /\ touching # {}
  /\ \A i \in DOMAIN ctl : ctl[i].act # "heartbeat"
  /\ Quickly(Plain("heartbeat"))
  /\ UNCHANGED <<appVars, Rest>>

(* sendAndroidKey, sendText: to the filter they are the same.              *)
SendKey ==
  /\ app = "on" /\ keys < MaxKeys /\ sequence + keys < MaxEvents
  /\ keys' = keys + 1
  /\ Reliably(<<Plain("key")>>)
  /\ UNCHANGED <<touching, nextPointer, sequence, rev, app, Rest>>

(* disconnect: cancelAll, then both channels are closed.                   *)
Disconnect ==
  /\ app = "on"
  /\ app' = "left"
  /\ touching' = {}
  /\ Reliably(<<Plain("cancelAll")>>)
  /\ UNCHANGED <<nextPointer, sequence, rev, keys, Rest>>

(* The app is killed, suspended or loses the network: it sends no more, and*)
(* what was on its way, on either channel, arrives or does not.  Nobody    *)
(* tells the gateway; WebRTC notices after a while (ServeReturns).         *)
Vanish ==
  /\ app = "on"
  /\ app' = "gone"
  /\ touching' = {}
  /\ UNCHANGED <<nextPointer, sequence, rev, keys, netVars, Rest>>

-----------------------------------------------------------------------------
(* The scrcpy session.  A write to the control socket succeeds, or fails   *)
(* and keeps failing.                                                      *)
WriteOk == sock = "ok" /\ sock' = sock
WriteFails ==
  \/ sock # "ok" /\ sock' = sock
  \/ MayBreak /\ sock = "ok" /\ sock' = "broken"

(* cancelAllLocked: every contact in map order, until a write fails; a     *)
(* contact is forgotten only once its cancel was written.                  *)
AllCancelled ==
  /\ IF active = {} THEN sock' = sock ELSE WriteOk
  /\ active' = {}
  /\ pressed' = pressed \ active

SomeCancelled ==
  /\ active # {}
  /\ WriteFails
  /\ \E S \in SUBSET active :
       /\ S # active
       /\ sock # "ok" => S = {}
       /\ active' = active \ S
       /\ pressed' = pressed \ S

CancelAllLocked == AllCancelled \/ SomeCancelled

(* The contacts that are left when the revision check is over.             *)
MismatchBackwards(m) == m.rev < screenRevision
Mismatch(m) == screenRevision # 0 /\ m.rev # screenRevision
ActiveFor(m) == IF Mismatch(m) THEN {} ELSE active
PressedFor(m) == IF Mismatch(m) THEN pressed \ active ELSE pressed

RefusedUnlessActive(m) == IF m.act = "down" THEN m.p \in ActiveFor(m)
                                            ELSE m.p \notin ActiveFor(m)
Refused(m) ==
  IF m.act = "down" THEN m.p \in ActiveFor(m)
                    ELSE m.seq <= lastSequence \/ m.p \notin ActiveFor(m)

(* An event of another revision cancels every contact first; if that       *)
(* fails, that is all.                                                     *)
RevisionFails(m) ==
  /\ Mismatch(m)
  /\ SomeCancelled
  /\ UNCHANGED <<filterVars, ghostVars>>

RevisionOk(m) == Mismatch(m) /\ active # {} => sock = "ok"

(* ErrStaleControl: the contacts stay cancelled, nothing else changes.     *)
Refuse(m) ==
  /\ RevisionOk(m)
  /\ Refused(m)
  /\ active' = ActiveFor(m)
  /\ pressed' = PressedFor(m)
  /\ UNCHANGED <<sock, filterVars, ghostVars>>

(* writeTouchLocked: a "down" is remembered before it is written, a lift   *)
(* is forgotten after it was.                                              *)
ForgetEarly(m) ==
  IF m.act = "down" THEN ActiveFor(m) \cup {m.p}
  ELSE IF m.act = "move" THEN ActiveFor(m) ELSE ActiveFor(m) \ {m.p}
Remember(m) == IF m.act = "down" THEN ActiveFor(m) \cup {m.p} ELSE ActiveFor(m)
LiftedByUp(m) == IF m.act = "up" THEN {m.p} ELSE {}
Lifted(m) == IF m.act \in {"up", "cancel"} THEN {m.p} ELSE {}

(* What Android holds down once it got the event.                          *)
Pressing(m) ==
  IF m.act = "down" THEN PressedFor(m) \cup {m.p}
  ELSE IF m.act = "move" THEN PressedFor(m) ELSE PressedFor(m) \ {m.p}

Accept(m) ==
  /\ RevisionOk(m)
  /\ ~Refused(m)
  /\ screenRevision' = m.rev
  /\ lastSequence' = IF m.seq > lastSequence THEN m.seq ELSE lastSequence
  /\ \/ /\ WriteOk
        /\ active' = Remember(m) \ Lifted(m)
        /\ pressed' = Pressing(m)
        /\ shown' = [shown EXCEPT ![m.p] = m.seq]
        /\ downRev' = IF m.act = "down" THEN [downRev EXCEPT ![m.p] = m.rev] ELSE downRev
     \/ /\ WriteFails
        /\ active' = Remember(m)
        /\ pressed' = PressedFor(m)
        /\ UNCHANGED ghostVars

(* HandleControl: every authorised message counts as a heartbeat.          *)
Handle(m) ==
  /\ age' = 0
  /\ \/ m.act = "heartbeat" /\ UNCHANGED <<filterVars, contactVars, ghostVars>>
     \/ m.act = "cancelAll" /\ CancelAllLocked /\ UNCHANGED <<filterVars, ghostVars>>
     \/ /\ m.act = "key"
        /\ WriteOk \/ WriteFails
        /\ UNCHANGED <<filterVars, active, pressed, ghostVars>>
     \/ m.act \in TouchActions /\ (RevisionFails(m) \/ Refuse(m) \/ Accept(m))

-----------------------------------------------------------------------------
(* The channels.                                                           *)
DeliverControl ==
  /\ chan["control.v1"] = "open"
  /\ ctl # << >>
  /\ Handle(Head(ctl))
  /\ ctl' = Tail(ctl)
  /\ UNCHANGED <<appVars, tch, chan, phase>>

DeliverTouch(m) ==
  /\ chan["touch.v1"] = "open"
  /\ Handle(m)
  /\ tch' = tch \ {m}
  /\ UNCHANGED <<appVars, ctl, chan, phase>>

TouchChannelOpens ==
  /\ chan["touch.v1"] = "opening"
  /\ chan' = [chan EXCEPT !["touch.v1"] = "open"]
  /\ UNCHANGED <<appVars, netVars, filterVars, contactVars, age, phase, ghostVars>>

(* A channel ends when either side closes it; what it still carried is     *)
(* gone.  Its OnClose callback, some time later, handles a "cancelAll".    *)
ChannelEnds(c) ==
  /\ chan[c] \in {"opening", "open"}
  /\ app = "left" \/ phase # "serving"
  /\ chan' = [chan EXCEPT ![c] = "ended"]
  /\ ctl' = IF c = "control.v1" THEN << >> ELSE ctl
  /\ tch' = IF c = "touch.v1" THEN {} ELSE tch
  /\ UNCHANGED <<appVars, filterVars, contactVars, age, phase, ghostVars>>

OnClose(c) ==
  /\ chan[c] = "ended"
  /\ chan' = [chan EXCEPT ![c] = "closed"]
  /\ Handle(Plain("cancelAll"))
  /\ UNCHANGED <<appVars, netVars, phase>>

-----------------------------------------------------------------------------
(* Time, and the watchdog, a round every 0.5 s.  It ends with the context, *)
(* which is cancelled last or earlier: rounds after the return are allowed *)
(* but not promised.                                                       *)
Tick ==
  /\ age <= Limit
  /\ age' = age + 1
  /\ UNCHANGED <<appVars, netVars, chan, filterVars, contactVars, phase, ghostVars>>

WatchdogOfTwo ==
  /\ Cardinality(active) > 1 /\ age > Limit
  /\ CancelAllLocked
  /\ UNCHANGED <<appVars, netVars, chan, filterVars, age, phase, ghostVars>>

Watchdog ==
  /\ active # {} /\ age > Limit
  /\ CancelAllLocked
  /\ UNCHANGED <<appVars, netVars, chan, filterVars, age, phase, ghostVars>>

(* serveSession returns (signalling lost, ICE failed), closes the peer     *)
(* connection, and Close cancels under the mutex, releases it, and only    *)
(* then closes the socket: handlers that are still running come between.   *)
ServeReturns ==
  /\ phase = "serving"
  /\ phase' = "returned"
  /\ UNCHANGED <<appVars, netVars, chan, filterVars, contactVars, age, ghostVars>>

CloseCancels ==
  /\ phase = "returned"
  /\ phase' = "cancelled"
  /\ CancelAllLocked
  /\ UNCHANGED <<appVars, netVars, chan, filterVars, age, ghostVars>>

CloseSocket ==
  /\ phase = "cancelled"
  /\ phase' = "closed"
  /\ sock' = "closed"
  /\ UNCHANGED <<appVars, netVars, chan, filterVars, active, pressed, age, ghostVars>>

-----------------------------------------------------------------------------
Next ==
  \/ TouchBegan
  \/ \E p \in Pointers : TouchMoved(p)
  \/ \E p \in Pointers : TouchEnded(p)
  \/ Rotate
  \/ Heartbeat
  \/ SendKey
  \/ Disconnect
  \/ Vanish
  \/ DeliverControl
  \/ \E m \in tch : DeliverTouch(m)
  \/ TouchChannelOpens
  \/ \E c \in Channels : ChannelEnds(c)
  \/ \E c \in Channels : OnClose(c)
  \/ Tick
  \/ Watchdog
  \/ ServeReturns
  \/ CloseCancels
  \/ CloseSocket

Spec == Init /\ [][Next]_vars

(* Time passes, the watchdog's ticker fires, the reliable channel delivers,*)
(* a channel being closed ends and calls back, a returning serveSession    *)
(* runs its deferred calls.  Nothing makes fingers move, and nothing is    *)
(* promised of touch.v1, nor of control.v1 once the app is gone.           *)
Fairness ==
  /\ WF_vars(Tick)
  /\ WF_vars(phase = "serving" /\ Watchdog)
  /\ WF_vars(app # "gone" /\ DeliverControl)
  /\ \A c \in Channels : WF_vars(ChannelEnds(c)) /\ WF_vars(OnClose(c))
  /\ WF_vars(CloseCancels)
  /\ WF_vars(CloseSocket)

FairSpec == Spec /\ Fairness

-----------------------------------------------------------------------------
(* Type invariant of the app, the channels and the scrcpy session.         *)
TypeOK ==
  /\ touching \subseteq Pointers
  /\ nextPointer \in 1..(MaxPointer + 1)
  /\ sequence \in 0..MaxEvents
  /\ rev \in 1..MaxRevision
  /\ keys \in 0..MaxKeys
  /\ app \in {"on", "left", "gone"}
  /\ ctl \in Seq(Message)
  /\ tch \subseteq Message
  /\ chan \in [Channels -> {"opening", "open", "ended", "closed"}]
  /\ active \subseteq Pointers
  /\ lastSequence \in 0..MaxEvents
  /\ screenRevision \in 0..MaxRevision
  /\ age \in 0..(Limit + 1)
  /\ sock \in {"ok", "broken", "closed"}
  /\ phase \in {"serving", "returned", "cancelled", "closed"}
  /\ pressed \subseteq Pointers
  /\ shown \in [Pointers -> 0..MaxEvents]
  /\ downRev \in [Pointers -> 0..MaxRevision]

(* Whatever Android holds down, the session still knows: no failed write,  *)
(* partial cancelAll or revision change makes it forget a contact that the *)
(* watchdog, OnClose or Close should cancel (session.go:311, 330-335, 370).*)
NoForgottenContact == pressed \subseteq active

(* Android never holds contacts of two screen revisions: those pressed     *)
(* under an older one were cancelled first (session.go:263-267).           *)
OneRevision == \A p \in pressed : downRev[p] = screenRevision

(* While writes succeed, the session believes down what is down.           *)
NoPhantomContact == sock = "ok" => active \subseteq pressed

(* The revision of the session follows the app and never goes back, even   *)
(* when moves of the old one arrive late (session.go:263, 273, 276).       *)
RevisionNeverBack ==
  [][screenRevision' >= screenRevision]_vars

(* While a contact is down, the positions Android sees of it never go back *)
(* in time, although touch.v1 reorders moves (session.go:273, 277).        *)
PositionNeverBack ==
  [][\A p \in pressed \cap pressed' : shown'[p] >= shown[p]]_vars

(* Once no finger touches, because the fingers were lifted or because the  *)
(* app is gone without a word, every contact is lifted or cancelled,       *)
(* however events were lost, refused or reordered, unless the socket to    *)
(* Android failed or was closed: by lifts, cancelAll, or at last the       *)
(* watchdog (session.go:388).                                              *)
QuietScreenIsReleased ==
  <>[](touching = {}) => <>[](pressed = {} \/ sock # "ok")

(* README.md:3: control uses a reliable data channel.  A contact that is   *)
(* down without a finger has its lift on the way.                          *)
LiftIsNotLost ==
  chan["control.v1"] = "open" /\ app = "on" /\ sock = "ok" =>
    \A p \in pressed \ touching :
      \E i \in DOMAIN ctl : ctl[i].act \in {"up", "cancel"} /\ ctl[i].p = p
=============================================================================
