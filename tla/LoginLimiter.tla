----------------------------- MODULE LoginLimiter -----------------------------
(***************************************************************************)
(* The rate limit of the login (src/internal/httpapi/limiter.go, and       *)
(* server.go:97-113, which calls it).                                      *)
(*                                                                         *)
(* Time is relative: an entry says how many units are left until its       *)
(* reset, -1 once the clock is after it.  Entries of different keys        *)
(* (address and user name) do not affect each other, so there is one key.  *)
(* Allow runs under the mutex; the password is verified after it, so       *)
(* admitted attempts overlap and their verdicts come in any order.  The    *)
(* clock is read just before the mutex is taken; that delay is neglected   *)
(* against a window of ten minutes.                                        *)
(***************************************************************************)
EXTENDS Integers

CONSTANTS
  Limit,      \* attempts in a window: 8 in the code
  Window,     \* its length in units of the clock
  MaxPending  \* bound: attempts that may be verified at a time

ASSUME BoundsAssumption == Limit \in Nat \ {0} /\ Window \in Nat \ {0} /\ MaxPending \in Nat

VARIABLES
  count, left,  \* the entry of the key; absent: 0 attempts, reset long past
  pending,      \* admitted attempts whose password is being verified
  within        \* within[a]: attempts admitted at most a units ago and since
                \* the last success (history)
vars == <<count, left, pending, within>>

Ages == 0..Window

Init ==
  /\ count = 0 /\ left = -1
  /\ pending = 0
  /\ within = [a \in Ages |-> 0]

(* now.After(current.reset): the instant of the reset is still inside.     *)
Over == left < 0

(* What the limiter goes by: the stored entry or a new window.             *)
EntryKeepingCount ==
  IF Over THEN [count |-> count, left |-> Window] ELSE [count |-> count, left |-> left]
Entry ==
  IF Over THEN [count |-> 0, left |-> Window] ELSE [count |-> count, left |-> left]

FullAfterLimit(e) == e.count > Limit
Full(e) == e.count >= Limit

Admit ==
  /\ pending < MaxPending
  /\ ~Full(Entry)
  /\ count' = Entry.count + 1 /\ left' = Entry.left
  /\ pending' = pending + 1
  /\ within' = [a \in Ages |-> within[a] + 1]

(* 429.  The entry is stored as it was.                                    *)
RefuseAndRenew ==
  /\ Full(Entry)
  /\ count' = Entry.count /\ left' = Window
  /\ UNCHANGED <<pending, within>>
Refuse ==
  /\ Full(Entry)
  /\ count' = Entry.count /\ left' = Entry.left
  /\ UNCHANGED <<pending, within>>

WrongPassword ==
  /\ pending > 0
  /\ pending' = pending - 1
  /\ UNCHANGED <<count, left, within>>

(* Success deletes the entry, also what concurrent attempts counted.       *)
RightPassword ==
  /\ pending > 0
  /\ pending' = pending - 1
  /\ count' = 0 /\ left' = -1
  /\ within' = [a \in Ages |-> 0]

Tick ==
  /\ left' = IF Over THEN -1 ELSE left - 1
  /\ within' = [a \in Ages |-> IF a = 0 THEN 0 ELSE within[a - 1]]
  /\ UNCHANGED <<count, pending>>

Next == Admit \/ Refuse \/ WrongPassword \/ RightPassword \/ Tick

Spec == Init /\ [][Next]_vars

(* The clock runs; nobody is obliged to try.                               *)
FairSpec == Spec /\ WF_vars(Tick)

-----------------------------------------------------------------------------
(* Properties.                                                             *)

(* Types; an absent entry counts nothing.                                  *)
TypeOK ==
  /\ count \in 0..Limit
  /\ left \in -1..Window
  /\ pending \in 0..MaxPending
  /\ within \in [Ages -> Nat]

(* The window is fixed, so its end may see two bursts; but however         *)
(* attempts, verdicts and the clock interleave, no interval as long as a   *)
(* window admits more than twice the limit since the last success.         *)
AtMostTwoBursts == within[Window] <= 2 * Limit

(* The fixed window admits no more than the limit before its reset:        *)
(* what was admitted in the present window is what the entry counts, so    *)
(* verdicts that come late take nothing off it.                            *)
CountsTheWindow ==
  ~Over => count = within[Window - left]

(* A key that is locked out is let in again, although somebody keeps       *)
(* trying: refused attempts do not renew the window.                       *)
LockoutEnds == Full(Entry) ~> ~Full(Entry)
=============================================================================
