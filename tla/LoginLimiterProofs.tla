-------------------------- MODULE LoginLimiterProofs --------------------------
(***************************************************************************)
(* Theorems about LoginLimiter, for every limit, window and number of      *)
(* attempts that are verified at a time.                                   *)
(***************************************************************************)
EXTENDS LoginLimiter, TLAPS

USE BoundsAssumption

(***************************************************************************)
(* The inductive invariant.  While a window lasts, what is younger than it *)
(* is what its entry counts, and what is older came from the window before *)
(* and was within the limit.  Once it is over nothing is of this instant.  *)
(***************************************************************************)
Youngest == \A a \in Ages : a <= Window - left => within[a] <= count
Older == \A a \in Ages : a >= Window - left => within[a] <= count + Limit

WindowInv == ~Over => count = within[Window - left] /\ Youngest /\ Older
BetweenWindows == Over => within[0] = 0 /\ \A a \in Ages : within[a] <= Limit

LimiterInv == TypeOK /\ WindowInv /\ BetweenWindows

USE DEF Ages, Over, Entry, Full

LEMMA LimiterInit == Init => LimiterInv
  BY DEF Init, LimiterInv, TypeOK, WindowInv, BetweenWindows, Youngest, Older

LEMMA TypeStep == TypeOK /\ [Next]_vars => TypeOK'
<1>. SUFFICES ASSUME TypeOK, [Next]_vars PROVE TypeOK'
  OBVIOUS
<1>. USE DEF TypeOK
<1>1. CASE Admit
  BY <1>1 DEF Admit
<1>2. CASE Refuse
  BY <1>2 DEF Refuse
<1>3. CASE WrongPassword
  BY <1>3 DEF WrongPassword
<1>4. CASE RightPassword
  BY <1>4 DEF RightPassword
<1>5. CASE Tick
  BY <1>5 DEF Tick
<1>6. CASE UNCHANGED vars
  BY <1>6 DEF vars
<1>. QED BY <1>1, <1>2, <1>3, <1>4, <1>5, <1>6 DEF Next

(* An admitted attempt is of this instant: every count grows by one.       *)
LEMMA AdmitStep == LimiterInv /\ Admit => WindowInv' /\ BetweenWindows'
<1>. SUFFICES ASSUME LimiterInv, Admit PROVE WindowInv' /\ BetweenWindows'
  OBVIOUS
<1>. USE DEF LimiterInv, Admit, TypeOK
<1>1. ~Over'
  OBVIOUS
<1>2. CASE Over
  <2>1. left' = Window /\ count' = 1 /\ within'[0] = 1
    BY <1>2 DEF BetweenWindows
  <2>2. \A a \in Ages : within'[a] <= 1 + Limit
    BY <1>2 DEF BetweenWindows
  <2>. QED BY <1>1, <2>1, <2>2 DEF WindowInv, BetweenWindows, Youngest, Older
<1>3. CASE ~Over
  <2>1. left' = left /\ count' = count + 1 /\ \A a \in Ages : within'[a] = within[a] + 1
    BY <1>3
  <2>2. Window - left \in Ages
    BY <1>3
  <2>3. count' = within'[Window - left']
    BY <1>3, <2>1, <2>2 DEF WindowInv
  <2>4. Youngest /\ Older
    BY <1>3 DEF WindowInv
  <2>5. count \in Nat /\ \A a \in Ages : within[a] \in Nat
    OBVIOUS
  <2>6. Youngest'
    BY <2>1, <2>4, <2>5 DEF Youngest
  <2>7. Older'
    BY <2>1, <2>4, <2>5 DEF Older
  <2>. QED BY <1>1, <2>3, <2>6, <2>7 DEF WindowInv, BetweenWindows
<1>. QED BY <1>2, <1>3

(* A refused attempt found a window that lasts, for a new one is not full. *)
LEMMA RefuseStep == LimiterInv /\ Refuse => UNCHANGED <<count, left, within>>
  BY DEF LimiterInv, Refuse, TypeOK

(* What was admitted at most a units ago is a unit later at most a + 1 old;*)
(* when the window ends, all of it was within the limit.                   *)
LEMMA TickStep == LimiterInv /\ Tick => WindowInv' /\ BetweenWindows'
<1>. SUFFICES ASSUME LimiterInv, Tick PROVE WindowInv' /\ BetweenWindows'
  OBVIOUS
<1>. USE DEF LimiterInv, Tick, TypeOK
<1>1. within'[0] = 0 /\ \A a \in Ages : a > 0 => a - 1 \in Ages /\ within'[a] = within[a - 1]
  OBVIOUS
<1>2. CASE Over
  BY <1>1, <1>2 DEF WindowInv, BetweenWindows
<1>3. CASE left = 0
  <2>1. \A a \in Ages : within[a] <= Limit
    BY <1>3 DEF WindowInv, Youngest
  <2>. QED BY <1>1, <1>3, <2>1 DEF WindowInv, BetweenWindows
<1>4. CASE left > 0
  <2>1. left' = left - 1 /\ count' = count /\ Window - left \in Ages /\ Window - left + 1 \in Ages
    BY <1>4
  <2>2. count' = within'[Window - left']
    BY <1>1, <1>4, <2>1 DEF WindowInv
  <2>3. Youngest' /\ Older'
    BY <1>1, <1>4, <2>1 DEF WindowInv, Youngest, Older
  <2>. QED BY <1>4, <2>1, <2>2, <2>3 DEF WindowInv, BetweenWindows
<1>. QED BY <1>2, <1>3, <1>4

LEMMA LimiterStep == LimiterInv /\ [Next]_vars => LimiterInv'
<1>. SUFFICES ASSUME LimiterInv, [Next]_vars PROVE WindowInv' /\ BetweenWindows'
  BY TypeStep DEF LimiterInv
<1>1. CASE Admit
  BY <1>1, AdmitStep
<1>2. ASSUME UNCHANGED <<count, left, within>>
      PROVE  WindowInv' /\ BetweenWindows'
  BY <1>2 DEF LimiterInv, WindowInv, BetweenWindows, Youngest, Older
<1>3. CASE RightPassword
  BY <1>3 DEF LimiterInv, RightPassword, WindowInv, BetweenWindows
<1>4. CASE Tick
  BY <1>4, TickStep
<1>. QED BY <1>1, <1>2, <1>3, <1>4, RefuseStep DEF Next, WrongPassword, vars

LEMMA LimiterInvariant == Spec => []LimiterInv
  BY LimiterInit, LimiterStep, PTL DEF Spec

(***************************************************************************)
(* The theorems.                                                           *)
(***************************************************************************)
(* The entry of a key always has its shape and never counts more than the  *)
(* limit (limiter.go, Allow).                                              *)
THEOREM LimiterTypeCorrect == Spec => []TypeOK
<1>1. LimiterInv => TypeOK
  BY DEF LimiterInv
<1>. QED BY <1>1, LimiterInvariant, PTL

(* No interval as long as the window admits more than twice the limit,     *)
(* however attempts, verdicts and the clock interleave.                    *)
THEOREM TwoBurstsAtMost == Spec => []AtMostTwoBursts
<1>1. LimiterInv => AtMostTwoBursts
  <2>. SUFFICES ASSUME LimiterInv PROVE AtMostTwoBursts
    OBVIOUS
  <2>1. Window \in Ages /\ within[Window] \in Nat
    BY DEF LimiterInv, TypeOK
  <2>2. CASE Over
    BY <2>1, <2>2 DEF LimiterInv, TypeOK, BetweenWindows, AtMostTwoBursts
  <2>3. CASE ~Over
    BY <2>1, <2>3 DEF LimiterInv, TypeOK, WindowInv, Older, AtMostTwoBursts
  <2>. QED BY <2>2, <2>3
<1>. QED BY <1>1, LimiterInvariant, PTL

(* The entry counts exactly what its window admitted since the last        *)
(* success, whatever verdicts are still to come (limiter.go, Success).     *)
THEOREM WindowIsCounted == Spec => []CountsTheWindow
<1>1. LimiterInv => CountsTheWindow
  BY DEF LimiterInv, WindowInv, CountsTheWindow
<1>. QED BY <1>1, LimiterInvariant, PTL
=============================================================================
