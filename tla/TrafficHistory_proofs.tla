----------------------- MODULE TrafficHistory_proofs ------------------------
(***************************************************************************)
(* Proofs about TrafficHistory, for every value of its constants: what the *)
(* node decides agrees with what an observer of its messages remembers.    *)
(* The invariant relates each counter and timer of the node that a         *)
(* decision reads with the observer's own record of the same messages.     *)
(***************************************************************************)
EXTENDS TrafficHistory, TrafficLight_proofs

-----------------------------------------------------------------------------
(* What the observer and the node agree on.                                *)

SeenType == [
    meaning : {NoSignal, "STOP", "DRIVE", "LEFT_TURN"}, streak : Nat,
    fresh : BOOLEAN, wait_time : Nat, dark_time : Nat, police : Nat,
    unlit : Timer(PoliceClearFrames), red_confirmed : BOOLEAN, turn_time : Nat,
    messages : Nat, both : Nat, lost : BOOLEAN, left : Nat,
    left_time : Timer(HoldSec), hard_left : BOOLEAN, line_gone : BOOLEAN]

\* What is pending is what the frames of this stop meant, counted as often as
\* there were any, and it is obeyed once it is confirmed.  Outside a stop, and
\* until the first frame of one, nothing is pending.
PendingAgrees(d, s) ==
    /\ d.driving_state \notin Stops => s.fresh
    /\ d.driving_state \in Stops =>
           IF s.fresh \/ s.meaning = NoSignal THEN d.pending.signal = NoSignal
           ELSE /\ d.pending.signal = s.meaning
                /\ d.pending.frames = s.streak
                /\ s.streak >= ConfirmationFrames => s.meaning = d.driving_state

\* The wait is as long as its timer says, and red moved the car out of it.
WaitAgrees(d, s) ==
    /\ d.driving_state = "SIGNAL_WAIT" => s.wait_time = d.timer.wait
    /\ s.red_confirmed => d.driving_state = "STOP"

BlindTurnAgrees(d, s) ==
    IsNoSignalTurn(d) => /\ s.left_time = d.timer.hold
                         /\ d.timer.hold = Off => s.left = d.lanes.reacquired

\* An approach that is Off has had its full time.
SignalTurnAgrees(d, s) ==
    IsSignalTurn(d) => /\ s.turn_time = IF d.timer.approach = Off
                                        THEN ApproachSec ELSE d.timer.approach
                       /\ d.lanes.was_lost => s.lost
                       /\ s.both >= d.lanes.reacquired
                       /\ s.messages = d.lanes.frame_count
                       /\ d.timer.approach # Off => s.messages = 0

\* Once the hard left has been commanded the approach is over.
HardLeftAgrees(d, s) ==
    s.hard_left => d.driving_state = "LEFT_TURN" /\ d.timer.approach = Off

\* All but what is pending.
TurnAgrees(d, s) ==
    /\ WaitAgrees(d, s) /\ BlindTurnAgrees(d, s)
    /\ SignalTurnAgrees(d, s) /\ HardLeftAgrees(d, s)

LineAgrees == ~seen.line_gone => stop_line_detected

\* The detector has counted the lights it was shown, and acted on enough, and
\* it counts the frames without any exactly while it is on.
PoliceAgrees ==
    /\ seen.police = police.detection_frames
    /\ seen.police >= PoliceConfirmationFrames => police.detected
    /\ seen.unlit = IF police.detected THEN police.clear_frame_count ELSE Off

HistoryInv ==
    /\ SafetyInv
    /\ seen \in SeenType
    /\ PendingAgrees(driving, seen)
    /\ TurnAgrees(driving, seen)
    /\ LineAgrees
    /\ PoliceAgrees

-----------------------------------------------------------------------------
(* The observer's record.                                                  *)

LEMMA BumpNat ==
    ASSUME NEW n \in Nat, NEW limit \in Nat
    PROVE  Bump(n, limit) \in Nat /\ Bump(n, limit) >= n
BY DEF Bump

LEMMA RestartFields ==
    ASSUME NEW s \in SeenType, NEW state \in States
    PROVE  LET r == Restart(s, state)
           IN  /\ r \in SeenType
               /\ r.meaning = s.meaning /\ r.streak = s.streak
               /\ r.fresh = s.fresh /\ r.line_gone = s.line_gone
               /\ r.red_confirmed <=> /\ state \in Stops
                                      /\ s.red_confirmed \/ state = "STOP"
               /\ r.wait_time = 0 /\ r.dark_time = 0 /\ r.turn_time = 0
               /\ r.both = 0 /\ r.lost = FALSE /\ r.left = 0 /\ r.messages = 0
               /\ r.left_time = Off /\ r.hard_left = FALSE
<1> DEFINE red == state \in Stops /\ (s.red_confirmed \/ state = "STOP")
           x == [SeenNothing EXCEPT !.meaning = s.meaning, !.streak = s.streak,
                     !.fresh = s.fresh, !.police = s.police, !.unlit = s.unlit,
                     !.red_confirmed = red, !.line_gone = s.line_gone]
<1>1. Restart(s, state) = x
  BY DEF Restart
<1>2. red \in BOOLEAN
  BY DEF Stops
<1> HIDE DEF red
<1>3. SeenNothing \in SeenType
  BY DEF SeenNothing, SeenType, Timer, Off
<1>4. x \in SeenType
  BY <1>2, <1>3 DEF SeenType
<1>5. /\ x.meaning = s.meaning /\ x.streak = s.streak
      /\ x.fresh = s.fresh /\ x.line_gone = s.line_gone
      /\ x.red_confirmed = red
  BY <1>3, Zenon DEF SeenType
<1>6. /\ x.wait_time = 0 /\ x.dark_time = 0 /\ x.turn_time = 0
      /\ x.both = 0 /\ x.lost = FALSE /\ x.left = 0 /\ x.messages = 0
      /\ x.left_time = Off /\ x.hard_left = FALSE
  BY Zenon DEF SeenNothing
<1> HIDE DEF x
<1> QED  BY <1>1, <1>4, <1>5, <1>6 DEF red

-----------------------------------------------------------------------------
(* Entering a state, and exchanging parts of the two records.              *)

LEMMA EntryFields ==
    ASSUME NEW d \in DrivingType, NEW state \in States
    PROVE  LET e == SetDrivingState(d, state)
           IN  /\ e \in DrivingType
               /\ e.driving_state = state /\ e.pending = NoPending
               /\ e.turn.no_signal = FALSE
               /\ state = "LEFT_TURN" => e.lanes = NoLanes
               /\ e.timer = TimersOnEntry(state)
<1>1. [d.turn EXCEPT !.no_signal = FALSE].no_signal = FALSE
  BY Zenon DEF DrivingType, TurnType
<1> QED  BY <1>1, SetDrivingStateType DEF SetDrivingState, OnSignal

\* Both start over when the state changes; the frame that changes it, if one
\* does, is not yet one of the stop.
LEMMA EntryAgrees ==
    ASSUME NEW d \in DrivingType, NEW s \in SeenType, NEW state \in States,
           state = "SIGNAL_WAIT" => ~s.red_confirmed
    PROVE  LET e == SetDrivingState(d, state)
               r == Restart(s, state)
           IN  /\ s.fresh => PendingAgrees(e, r)
               /\ TurnAgrees(e, r)
<1> DEFINE e == SetDrivingState(d, state)
           r == Restart(s, state)
<1>1. /\ e.driving_state = state /\ e.pending = NoPending
      /\ e.turn.no_signal = FALSE
      /\ state = "LEFT_TURN" => e.lanes = NoLanes
      /\ e.timer = TimersOnEntry(state)
  BY EntryFields
<1>2. /\ r.red_confirmed <=> /\ state \in Stops
                             /\ s.red_confirmed \/ state = "STOP"
      /\ r.wait_time = 0 /\ r.turn_time = 0 /\ r.both = 0 /\ r.messages = 0
      /\ r.hard_left = FALSE /\ r.fresh = s.fresh
  BY RestartFields
<1> HIDE DEF e, r
<1>3. s.fresh => PendingAgrees(e, r)
  BY <1>1, <1>2 DEF PendingAgrees, NoPending
<1>4. WaitAgrees(e, r)
  BY <1>1, <1>2 DEF WaitAgrees, TimersOnEntry, Stops
<1>5. BlindTurnAgrees(e, r)
  BY <1>1 DEF BlindTurnAgrees, IsNoSignalTurn
<1>6. SignalTurnAgrees(e, r)
  BY <1>1, <1>2
     DEF SignalTurnAgrees, IsSignalTurn, TimersOnEntry, NoLanes, Off
<1>7. HardLeftAgrees(e, r)
  BY <1>2 DEF HardLeftAgrees
<1> QED  BY <1>3, <1>4, <1>5, <1>6, <1>7 DEF TurnAgrees, e, r

\* The turn without a signal starts with no timer and no lane counted.
LEMMA BlindEntryAgrees ==
    ASSUME NEW d \in DrivingType, NEW s \in SeenType, SignalTimedOut(d)
    PROVE  LET e == StartLeftTurnIfSignalTimedOut(d)
               r == Restart(s, "LEFT_TURN")
           IN  /\ IsNoSignalTurn(e)
               /\ s.fresh => PendingAgrees(e, r)
               /\ TurnAgrees(e, r)
<1> DEFINE t == SetDrivingState(d, "LEFT_TURN")
           e == [t EXCEPT !.turn = WithoutSignal, !.timer = NoTimers]
           r == Restart(s, "LEFT_TURN")
<1>1. /\ t \in DrivingType
      /\ t.driving_state = "LEFT_TURN" /\ t.lanes = NoLanes
  BY EntryFields DEF States
<1> HIDE DEF t
<1>2. /\ e.driving_state = "LEFT_TURN" /\ e.lanes = NoLanes
      /\ e.turn = WithoutSignal /\ e.timer = NoTimers
  BY <1>1 DEF DrivingType
<1>3. StartLeftTurnIfSignalTimedOut(d) = e
  BY DEF StartLeftTurnIfSignalTimedOut, t
<1>4. /\ ~r.red_confirmed /\ r.left = 0 /\ r.left_time = Off
      /\ r.hard_left = FALSE /\ r.fresh = s.fresh
  BY RestartFields DEF States, Stops
<1> HIDE DEF e, r
<1>5. IsNoSignalTurn(e) /\ ~IsSignalTurn(e)
  BY <1>2 DEF IsNoSignalTurn, IsSignalTurn, WithoutSignal
<1>6. (s.fresh => PendingAgrees(e, r)) /\ TurnAgrees(e, r)
  BY <1>2, <1>4, <1>5
     DEF PendingAgrees, Stops, TurnAgrees, WaitAgrees, BlindTurnAgrees,
         SignalTurnAgrees, HardLeftAgrees, NoTimers, NoLanes
<1> QED  BY <1>3, <1>5, <1>6 DEF r

\* The parts of the two records that TurnAgrees is about.
LEMMA SameTurn ==
    ASSUME NEW d, NEW e, NEW s, NEW r, TurnAgrees(d, s),
           e.driving_state = d.driving_state, e.turn = d.turn,
           e.lanes = d.lanes, e.timer = d.timer,
           r.wait_time = s.wait_time, r.red_confirmed = s.red_confirmed,
           r.turn_time = s.turn_time, r.messages = s.messages,
           r.both = s.both, r.lost = s.lost,
           r.left = s.left, r.left_time = s.left_time,
           r.hard_left = s.hard_left
    PROVE  TurnAgrees(e, r)
BY DEF TurnAgrees, WaitAgrees, BlindTurnAgrees, SignalTurnAgrees,
       HardLeftAgrees, IsNoSignalTurn, IsSignalTurn

LEMMA SamePending ==
    ASSUME NEW d, NEW e, NEW s, NEW r, PendingAgrees(d, s),
           e.driving_state = d.driving_state, e.pending = d.pending,
           r.meaning = s.meaning, r.streak = s.streak, r.fresh = s.fresh
    PROVE  PendingAgrees(e, r)
BY DEF PendingAgrees

LEMMA PendingFields ==
    ASSUME NEW d \in DrivingType, NEW p \in PendingType
    PROVE  LET e == [d EXCEPT !.pending = p]
           IN  /\ e \in DrivingType /\ e.pending = p
               /\ e.driving_state = d.driving_state /\ e.turn = d.turn
               /\ e.lanes = d.lanes /\ e.timer = d.timer
BY ReplacePart DEF DrivingType

-----------------------------------------------------------------------------
(* The helpers of the node.                                                *)

LEMMA BumpOrder ==
    ASSUME NEW n \in Nat, NEW m \in Nat, m <= n, NEW limit \in Nat \ {0},
           m <= limit
    PROVE  Bump(m, limit) <= Bump(n, limit) /\ Bump(n, limit) >= 1
BY DEF Bump

\* An approach that ends has lasted its full time.
LEMMA EndApproachAgrees ==
    ASSUME NEW d, Sound(d), NEW s \in SeenType, TurnAgrees(d, s)
    PROVE  LET e == EndApproachIfElapsed(d)
           IN  /\ TurnAgrees(e, s) /\ e \in DrivingType
               /\ e.driving_state = d.driving_state /\ e.turn = d.turn
               /\ e.pending = d.pending
               /\ IsSignalTurn(d) /\ ~ApproachIsActive(d)
                      => e.timer.approach = Off
               /\ ~IsSignalTurn(d) => e = d
<1>1. CASE ~(OnApproach(d) /\ ~ApproachIsActive(d))
  BY <1>1
     DEF EndApproachIfElapsed, OnApproach, ApproachIsActive, IsSignalTurn, Sound
<1>2. CASE OnApproach(d) /\ ~ApproachIsActive(d)
  <2> DEFINE t == [d.timer EXCEPT !.approach = Off]
             e == [d EXCEPT !.timer = t, !.lanes = NoLanes]
  <2>1. d \in DrivingType
    BY DEF Sound
  <2>2. t.approach = Off /\ t.wait = d.timer.wait /\ t.hold = d.timer.hold
    BY <2>1 DEF DrivingType, TimerType
  <2>3. e = EndApproachIfElapsed(d)
    BY <1>2 DEF EndApproachIfElapsed
  <2>4. e \in DrivingType
    BY <2>3, EndApproachIfElapsedSound DEF Sound
  <2> HIDE DEF t
  <2>5. /\ e.driving_state = d.driving_state /\ e.turn = d.turn
        /\ e.pending = d.pending /\ e.lanes = NoLanes /\ e.timer = t
    BY <2>1 DEF DrivingType
  <2> HIDE DEF e
  <2>6. /\ IsSignalTurn(d) /\ IsSignalTurn(e)
        /\ ~IsNoSignalTurn(e)
    BY <1>2, <2>5 DEF OnApproach, IsSignalTurn, IsNoSignalTurn
  <2>7. s.turn_time = ApproachSec
    <3>1. d.timer.approach \in Timer(ApproachSec) /\ d.timer.approach # Off
      BY <1>2, <2>1 DEF DrivingType, TimerType, OnApproach
    <3>2. d.timer.approach >= ApproachSec
      BY <1>2, <3>1, TimeParameters DEF ApproachIsActive, Timer
    <3> QED
      BY <2>6, <3>1, <3>2, TimeParameters
         DEF TurnAgrees, SignalTurnAgrees, Timer
  <2>8. SignalTurnAgrees(e, s)
    <3>1. s.messages = 0
      BY <1>2, <2>6 DEF TurnAgrees, SignalTurnAgrees, OnApproach
    <3>2. /\ e.lanes.was_lost = FALSE /\ e.lanes.reacquired = 0
          /\ e.lanes.frame_count = 0
      BY <2>5 DEF NoLanes
    <3>3. s.both >= 0
      BY DEF SeenType
    <3> QED  BY <2>2, <2>5, <2>7, <3>1, <3>2, <3>3 DEF SignalTurnAgrees
  <2>9. TurnAgrees(e, s)
    BY <2>2, <2>5, <2>6, <2>8
       DEF TurnAgrees, WaitAgrees, BlindTurnAgrees, HardLeftAgrees
  <2> QED  BY <2>2, <2>3, <2>4, <2>5, <2>6, <2>9
<1> QED  BY <1>1, <1>2

\* What a lane message makes of a turn on a signal: it goes on, it stops, or
\* it ends on the new lane.
LEMMA SignalLaneOutcome ==
    ASSUME NEW d, Counting(d), NEW left \in BOOLEAN, NEW right \in BOOLEAN
    PROVE  LET e == SignalLaneUpdate(d, left, right)
               frames == Bump(d.lanes.reacquired, LaneReacquireFrames)
           IN  \/ /\ e.driving_state = d.driving_state
                  /\ e.turn = d.turn /\ e.timer = d.timer
                  /\ e.lanes.was_lost => d.lanes.was_lost \/ ~(left /\ right)
                  /\ e.lanes.reacquired <= IF left /\ right THEN frames ELSE 0
                  /\ e.lanes.frame_count = d.lanes.frame_count
               \/ \E x \in DrivingType : e = SetDrivingState(x, "STOP")
               \/ /\ left /\ right /\ d.lanes.was_lost
                  /\ frames >= LaneReacquireFrames
                  /\ \E x \in DrivingType : e = SetDrivingState(x, "DRIVE")
<1> DEFINE frames == Bump(d.lanes.reacquired, LaneReacquireFrames)
           lost == [was_lost |-> TRUE, reacquired |-> 0,
                    frame_count |-> d.lanes.frame_count]
           found == [d.lanes EXCEPT !.reacquired = frames]
           e == SignalLaneUpdate(d, left, right)
           missed == [d EXCEPT !.lanes = lost]
           counted == [d EXCEPT !.lanes = found]
<1>1. /\ d \in DrivingType /\ d.lanes \in LanesType
      /\ d.lanes.reacquired \in 0..LaneReacquireFrames
      /\ d.turn.require_lane_loss
  BY DEF Counting, DrivingType, LanesType, OnSignal
<1>2. /\ frames \in 0..LaneReacquireFrames
      /\ d.lanes.reacquired <= frames
  BY <1>1, FrameParameters, BumpRange DEF Bump
<1> HIDE DEF frames
<1>3. /\ lost \in LanesType /\ lost.reacquired = 0
      /\ found \in LanesType /\ found.reacquired = frames
  BY <1>1, <1>2, FrameParameters DEF LanesType
<1>10. /\ found.was_lost = d.lanes.was_lost
       /\ found.frame_count = d.lanes.frame_count
       /\ lost.frame_count = d.lanes.frame_count
  BY <1>1, Zenon DEF LanesType
<1> HIDE DEF lost, found
<1>4. /\ missed \in DrivingType /\ counted \in DrivingType
      /\ missed.lanes = lost /\ counted.lanes = found
      /\ \A x \in {missed, counted} :
             /\ x.driving_state = d.driving_state
             /\ x.turn = d.turn /\ x.timer = d.timer
  BY <1>1, <1>3, ReplacePart DEF DrivingType
<1> HIDE DEF missed, counted
<1>5. \A x : StopIfTurnTimedOut(x) \in {x, SetDrivingState(x, "STOP")}
  BY DEF StopIfTurnTimedOut
<1>6. CASE ~(left /\ right)
  <2>1. e = StopIfTurnTimedOut(missed)
    BY <1>1, <1>6 DEF SignalLaneUpdate, missed, lost
  <2> QED  BY <1>3, <1>4, <1>5, <1>6, <1>10, <2>1
<1>7. CASE left /\ right /\ ~d.lanes.was_lost
  <2>1. e = StopIfTurnTimedOut(d)
    BY <1>1, <1>7 DEF SignalLaneUpdate
  <2>2. CASE e = d
    <3>1. e.lanes.reacquired <= frames /\ ~e.lanes.was_lost
      BY <1>2, <1>7, <2>2
    <3> QED  BY <1>7, <2>2, <3>1 DEF frames
  <2>3. CASE e = SetDrivingState(d, "STOP")
    BY <1>1, <2>3
  <2> QED  BY <1>5, <2>1, <2>2, <2>3
<1>8. CASE left /\ right /\ d.lanes.was_lost /\ frames < LaneReacquireFrames
  <2>0. ~(frames >= LaneReacquireFrames)
    BY <1>2, <1>8, FrameParameters
  <2>1. e = StopIfTurnTimedOut(counted)
    BY <1>1, <1>8, <2>0 DEF SignalLaneUpdate, counted, found, frames
  <2>2. CASE e = counted
    <3>1. /\ e.lanes = found /\ e.lanes.reacquired <= frames
          /\ e.driving_state = d.driving_state /\ e.turn = d.turn
          /\ e.timer = d.timer
      BY <1>2, <1>3, <1>4, <2>2
    <3> QED  BY <1>8, <1>10, <3>1 DEF frames
  <2>3. CASE e = SetDrivingState(counted, "STOP")
    BY <1>4, <2>3
  <2> QED  BY <1>5, <2>1, <2>2, <2>3
<1>9. CASE left /\ right /\ d.lanes.was_lost /\ ~(frames < LaneReacquireFrames)
  <2>0. frames >= LaneReacquireFrames
    BY <1>2, <1>9, FrameParameters
  <2>1. e = SetDrivingState(counted, "DRIVE")
    BY <1>1, <1>9, <2>0 DEF SignalLaneUpdate, counted, found, frames
  <2> QED  BY <1>4, <1>9, <2>0, <2>1 DEF frames
<1> QED  BY <1>6, <1>7, <1>8, <1>9

\* What a lane message makes of a turn without a signal: the left lane is
\* counted until it was seen often enough, and then the hold begins.
LEMMA NoSignalLaneOutcome ==
    ASSUME NEW d \in DrivingType, NEW left \in BOOLEAN
    PROVE  LET e == NoSignalLaneUpdate(d, left)
               frames == IF left
                         THEN Bump(d.lanes.reacquired, LaneReacquireFrames)
                         ELSE 0
           IN  /\ e.driving_state = d.driving_state /\ e.turn = d.turn
               /\ e.timer.approach = d.timer.approach
               /\ e.timer.hold = IF /\ d.timer.hold = Off
                                    /\ frames >= LaneReacquireFrames
                                 THEN 0 ELSE d.timer.hold
               /\ e.timer.hold = Off => e.lanes.reacquired = frames
<1> DEFINE frames == IF left
                     THEN Bump(d.lanes.reacquired, LaneReacquireFrames)
                     ELSE 0
           n == [d.lanes EXCEPT !.reacquired = frames]
           counted == [d EXCEPT !.lanes = n]
           t == [d.timer EXCEPT !.hold = 0]
           held == [counted EXCEPT !.timer = t]
           e == NoSignalLaneUpdate(d, left)
<1>1. /\ d.lanes \in LanesType /\ d.timer \in TimerType
      /\ d.lanes.reacquired \in 0..LaneReacquireFrames
  BY DEF DrivingType, LanesType
<1>2. frames \in 0..LaneReacquireFrames
  BY <1>1, BumpRange, FrameParameters
<1> HIDE DEF frames
<1>3. /\ n.reacquired = frames
      /\ t.hold = 0 /\ t.approach = d.timer.approach
  BY <1>1 DEF LanesType, TimerType
<1> HIDE DEF n, t
<1>4. /\ counted.driving_state = d.driving_state /\ counted.turn = d.turn
      /\ counted.timer = d.timer /\ counted.lanes = n
      /\ held.driving_state = d.driving_state /\ held.turn = d.turn
      /\ held.timer = t
  BY DEF DrivingType
<1> HIDE DEF counted, held
<1>5. CASE d.timer.hold # Off
  <2>1. e = d
    BY <1>5 DEF NoSignalLaneUpdate
  <2> QED  BY <1>5, <2>1
<1>6. CASE d.timer.hold = Off /\ ~(frames >= LaneReacquireFrames)
  <2>1. frames < LaneReacquireFrames
    BY <1>2, <1>6, FrameParameters
  <2>2. e = counted
    BY <1>6, <2>1 DEF NoSignalLaneUpdate, counted, n, frames
  <2> QED  BY <1>3, <1>4, <1>6, <2>2 DEF frames
<1>7. CASE d.timer.hold = Off /\ frames >= LaneReacquireFrames
  <2>1. ~(frames < LaneReacquireFrames)
    BY <1>2, <1>7, FrameParameters
  <2>2. e = held
    BY <1>7, <2>1 DEF NoSignalLaneUpdate, held, counted, n, t, frames
  <2> QED  BY <1>3, <1>4, <1>7, <2>2 DEF frames, Off
<1> QED  BY <1>5, <1>6, <1>7

\* What a camera frame makes of a stop: the car waits on, starts the turn
\* without a signal, or follows a confirmed signal.  r is the observer's
\* record of the frame.
LEMMA StopFrame ==
    ASSUME NEW d \in DrivingType, d.driving_state \in Stops,
           NEW c \in Meanings, NEW r \in SeenType, TurnAgrees(d, r),
           r.meaning = c, r.streak >= 1,
           c # NoSignal
               => r.streak = IF c = d.pending.signal
                             THEN Bump(d.pending.frames, ConfirmationFrames) ELSE 1
    PROVE  LET e == UpdateDrivingState(d, c)
           IN  \/ /\ e.driving_state = d.driving_state
                  /\ TurnAgrees(e, r)
                  /\ ~r.fresh => PendingAgrees(e, r)
               \/ /\ SignalTimedOut(d) /\ c = NoSignal
                  /\ \E x \in DrivingType :
                         /\ SignalTimedOut(x)
                         /\ e = StartLeftTurnIfSignalTimedOut(x)
               \/ /\ c \in States /\ c # d.driving_state
                  /\ r.streak >= ConfirmationFrames
                  /\ \E x \in DrivingType : e = SetDrivingState(x, c)
<1> DEFINE frames == IF c = d.pending.signal
                     THEN Bump(d.pending.frames, ConfirmationFrames) ELSE 1
           q == [signal |-> c, frames |-> frames]
           e == UpdateDrivingState(d, c)
           cleared == [d EXCEPT !.pending = NoPending]
           counted == [d EXCEPT !.pending = q]
<1>1. d.driving_state \in {"SIGNAL_WAIT", "STOP"}
  BY DEF Stops
<1>2. frames \in 0..ConfirmationFrames
  <2>1. d.pending.frames \in 0..ConfirmationFrames
    BY DEF DrivingType, PendingType
  <2> QED  BY <2>1, BumpRange, FrameParameters
<1>3. c # NoSignal => frames = r.streak
  OBVIOUS
<1> HIDE DEF frames
<1>4. q \in PendingType /\ q.signal = c /\ q.frames = frames
  BY <1>2 DEF PendingType, Meanings
<1> HIDE DEF q
<1>5. /\ cleared \in DrivingType /\ cleared.pending = NoPending
      /\ counted \in DrivingType /\ counted.pending = q
      /\ \A x \in {cleared, counted} :
             /\ x.driving_state = d.driving_state /\ x.turn = d.turn
             /\ x.lanes = d.lanes /\ x.timer = d.timer
  BY <1>4, PendingFields, ConstantTypes
<1> HIDE DEF cleared, counted
<1>6. TurnAgrees(cleared, r) /\ TurnAgrees(counted, r)
  BY <1>5, SameTurn
<1>7. CASE c = NoSignal
  <2>1. e = StartLeftTurnIfSignalTimedOut(cleared)
    BY <1>1, <1>7 DEF UpdateDrivingState, ClearPending, cleared
  <2>2. SignalTimedOut(cleared) <=> SignalTimedOut(d)
    BY <1>5 DEF SignalTimedOut
  <2>3. PendingAgrees(cleared, r)
    BY <1>5, <1>7 DEF PendingAgrees, NoPending
  <2>4. ~SignalTimedOut(d) => e = cleared
    BY <2>1, <2>2 DEF StartLeftTurnIfSignalTimedOut
  <2> QED  BY <1>5, <1>6, <1>7, <2>1, <2>2, <2>3, <2>4
<1>8. CASE c # NoSignal
  <2>1. e = Debounce(d, c)
    BY <1>1, <1>8 DEF UpdateDrivingState
  <2>2. \/ e = counted /\ (frames >= ConfirmationFrames => c = d.driving_state)
        \/ /\ frames >= ConfirmationFrames /\ c # d.driving_state
           /\ e = SetDrivingState(counted, c)
    BY <2>1 DEF Debounce, counted, q, frames
  <2>3. ~r.fresh /\ (frames >= ConfirmationFrames => c = d.driving_state)
            => PendingAgrees(counted, r)
    BY <1>3, <1>4, <1>5, <1>8 DEF PendingAgrees
  <2>4. frames >= ConfirmationFrames => r.streak >= ConfirmationFrames
    BY <1>2, <1>3, <1>8, FrameParameters DEF SeenType
  <2>5. c \in States
    BY <1>8 DEF Meanings, States
  <2> QED  BY <1>5, <1>6, <2>2, <2>3, <2>4, <2>5
<1> QED  BY <1>7, <1>8

-----------------------------------------------------------------------------
(* The steps.                                                              *)

\* What each step preserves, besides SafetyInv.
Kept ==
    /\ seen' \in SeenType
    /\ PendingAgrees(driving', seen')
    /\ TurnAgrees(driving', seen')
    /\ LineAgrees'

\* What the action properties of TrafficHistory say of one step.  With
\* confirmation_frames = 1 a frame that stops a turn for a police car may also
\* show the green light that ends the stop, so the turn ends without a lane.
Decided ==
    /\ driving.driving_state \in Stops /\ StateChanged /\ ~NoSignalTurn'
       => /\ seen'.meaning = driving'.driving_state
          /\ seen'.streak >= ConfirmationFrames
    /\ ~NoSignalTurn /\ NoSignalTurn'
       => /\ driving.driving_state = "SIGNAL_WAIT"
          /\ seen.wait_time >= WaitTimeoutSec
          /\ seen'.meaning = NoSignal
          /\ ~seen.red_confirmed
    /\ ConfirmationFrames > 1 /\ SignalTurn /\ driving'.driving_state = "DRIVE"
       => /\ seen.turn_time >= ApproachSec
          /\ seen.lost
          /\ seen.both + 1 >= LaneReacquireFrames
    /\ NoSignalTurn /\ StateChanged
       => /\ driving'.driving_state = "DRIVE"
          /\ seen.left_time >= HoldSec
    /\ seen.hard_left /\ motor' # motor => motor'.angle # "straight"
    /\ driving.driving_state = "DRIVE" /\ StateChanged => seen.line_gone

\* A step that changes neither the state, the kind of turn nor the command
\* decides nothing.
LEMMA NothingDecided ==
    ASSUME driving'.driving_state = driving.driving_state,
           driving'.turn = driving.turn, motor' = motor
    PROVE  Decided
BY DEF Decided, StateChanged, NoSignalTurn, SignalTurn, IsNoSignalTurn,
       IsSignalTurn

LEMMA HistoryTypes ==
    ASSUME HistoryInv
    PROVE  /\ Sound(driving) /\ driving \in DrivingType /\ seen \in SeenType
           /\ PendingAgrees(driving, seen) /\ TurnAgrees(driving, seen)
           /\ driving.timer \in TimerType
BY SafetyFolds DEF HistoryInv, Folded, Sound, DrivingType

LEMMA StopLineKeeps ==
    ASSUME HistoryInv, NEW visible \in BOOLEAN, HStopLine(visible)
    PROVE  Kept /\ Decided
<1> DEFINE g == ~visible \/ (seen.line_gone /\ ~StateChanged)
           s == [seen EXCEPT !.line_gone = g]
<1>1. /\ driving \in DrivingType /\ seen \in SeenType
      /\ PendingAgrees(driving, seen) /\ TurnAgrees(driving, seen)
  BY HistoryTypes
<1>2. /\ Observe(s) /\ stop_line_detected' = visible /\ motor' = motor
  BY DEF HStopLine, StopLineCallback
<1>3. g \in BOOLEAN
  OBVIOUS
<1> HIDE DEF g
<1>4. s \in SeenType /\ s.line_gone = g
  BY <1>1, <1>3, Zenon DEF SeenType
<1>5. /\ s.meaning = seen.meaning /\ s.streak = seen.streak
      /\ s.fresh = seen.fresh /\ s.wait_time = seen.wait_time
      /\ s.red_confirmed = seen.red_confirmed
      /\ s.turn_time = seen.turn_time /\ s.both = seen.both
      /\ s.messages = seen.messages
      /\ s.lost = seen.lost /\ s.left = seen.left
      /\ s.left_time = seen.left_time /\ s.hard_left = seen.hard_left
  BY <1>1, Zenon DEF SeenType
<1> HIDE DEF s
<1>6. CASE driving' = driving
  <2>1. seen' = s
    BY <1>2, <1>6 DEF Observe, StateChanged
  <2>2. PendingAgrees(driving', seen') /\ TurnAgrees(driving', seen')
    BY <1>1, <1>5, <1>6, <2>1, SameTurn, SamePending
  <2>3. LineAgrees'
    BY <1>2, <1>4, <2>1 DEF LineAgrees, g
  <2>4. Decided
    BY <1>2, <1>6, NothingDecided
  <2> QED  BY <1>4, <2>1, <2>2, <2>3, <2>4 DEF Kept
<1>7. CASE /\ driving' = SetDrivingState(driving, "SIGNAL_WAIT")
           /\ visible /\ ~stop_line_detected
           /\ driving.driving_state = "DRIVE"
  <2>1. /\ driving'.driving_state = "SIGNAL_WAIT" /\ StateChanged
        /\ ~driving'.turn.no_signal
    BY <1>1, <1>7, EntryFields DEF States, StateChanged
  <2>2. seen' = Restart(s, "SIGNAL_WAIT")
    BY <1>2, <2>1 DEF Observe
  <2>3. ~s.red_confirmed /\ s.fresh
    BY <1>1, <1>5, <1>7 DEF TurnAgrees, WaitAgrees, PendingAgrees, Stops
  <2>4. PendingAgrees(driving', seen') /\ TurnAgrees(driving', seen')
    BY <1>1, <1>4, <1>7, <2>2, <2>3, EntryAgrees DEF States
  <2>5. seen' \in SeenType
    BY <1>4, <2>2, RestartFields DEF States
  <2>6. LineAgrees' /\ seen.line_gone
    BY <1>2, <1>7 DEF LineAgrees, HistoryInv
  <2>7. Decided
    BY <1>2, <1>7, <2>1, <2>6
       DEF Decided, Stops, NoSignalTurn, SignalTurn, IsNoSignalTurn,
           IsSignalTurn
  <2> QED  BY <2>4, <2>5, <2>6, <2>7 DEF Kept
<1> QED  BY <1>6, <1>7 DEF HStopLine, StopLineCallback

LEMMA TickKeeps ==
    ASSUME HistoryInv, HTick
    PROVE  Kept /\ Decided
<1> DEFINE t == [wait |-> Elapse(driving.timer.wait, WaitTimeoutSec),
                 approach |-> Elapse(driving.timer.approach, ApproachSec),
                 hold |-> Elapse(driving.timer.hold, HoldSec)]
           d == [driving EXCEPT !.timer = t]
           s == ObservedTime
<1>1. /\ driving \in DrivingType /\ seen \in SeenType
      /\ PendingAgrees(driving, seen) /\ TurnAgrees(driving, seen)
      /\ driving.timer \in TimerType
  BY HistoryTypes
<1>2. /\ driving' = d /\ Observe(s)
      /\ stop_line_detected' = stop_line_detected /\ motor' = motor
  BY DEF HTick, Tick
<1>3. t.wait = Elapse(driving.timer.wait, WaitTimeoutSec)
      /\ t.approach = Elapse(driving.timer.approach, ApproachSec)
      /\ t.hold = Elapse(driving.timer.hold, HoldSec)
  OBVIOUS
<1> HIDE DEF t
<1>4. /\ d.driving_state = driving.driving_state /\ d.turn = driving.turn
      /\ d.pending = driving.pending /\ d.lanes = driving.lanes
      /\ d.timer = t
  BY <1>1, Zenon DEF DrivingType
<1> HIDE DEF d
<1>5. seen' = s
  BY <1>2, <1>4 DEF Observe, StateChanged
<1>6. /\ s.wait_time = IF driving.driving_state = "SIGNAL_WAIT"
                       THEN Bump(seen.wait_time, WaitTimeoutSec)
                       ELSE seen.wait_time
      /\ s.dark_time = IF driving.driving_state = "SIGNAL_WAIT"
                       THEN Bump(seen.dark_time, WaitTimeoutSec)
                       ELSE seen.dark_time
      /\ s.turn_time = IF driving.driving_state = "LEFT_TURN"
                       THEN Bump(seen.turn_time, ApproachSec)
                       ELSE seen.turn_time
      /\ s.left_time = Elapse(seen.left_time, HoldSec)
  BY <1>1 DEF ObservedTime, SeenType
<1>7. /\ s.meaning = seen.meaning /\ s.streak = seen.streak
      /\ s.fresh = seen.fresh /\ s.red_confirmed = seen.red_confirmed
      /\ s.both = seen.both /\ s.lost = seen.lost /\ s.left = seen.left
      /\ s.messages = seen.messages
      /\ s.hard_left = seen.hard_left /\ s.line_gone = seen.line_gone
  BY <1>1, Zenon DEF ObservedTime, SeenType
<1>8. s \in SeenType
  <2> DEFINE w == IF driving.driving_state = "SIGNAL_WAIT"
                  THEN Bump(seen.wait_time, WaitTimeoutSec) ELSE seen.wait_time
             k == IF driving.driving_state = "SIGNAL_WAIT"
                  THEN Bump(seen.dark_time, WaitTimeoutSec) ELSE seen.dark_time
             u == IF driving.driving_state = "LEFT_TURN"
                  THEN Bump(seen.turn_time, ApproachSec) ELSE seen.turn_time
             l == Elapse(seen.left_time, HoldSec)
  <2>1. s = [seen EXCEPT !.wait_time = w, !.dark_time = k, !.turn_time = u,
                         !.left_time = l]
    BY DEF ObservedTime
  <2>2. /\ seen.wait_time \in Nat /\ seen.dark_time \in Nat
        /\ seen.turn_time \in Nat /\ seen.left_time \in Timer(HoldSec)
    BY <1>1 DEF SeenType
  <2>3. w \in Nat /\ k \in Nat /\ u \in Nat
    BY <2>2, TimeParameters DEF Bump
  <2>4. l \in Timer(HoldSec)
    BY <2>2, ElapseRange, TimeParameters
  <2> HIDE DEF s, w, k, u, l
  <2> QED  BY <1>1, <2>1, <2>3, <2>4 DEF SeenType
<1> HIDE DEF s
<1>9. /\ driving.timer.wait \in Timer(WaitTimeoutSec)
      /\ driving.timer.approach \in Timer(ApproachSec)
      /\ driving.timer.hold \in Timer(HoldSec)
      /\ driving.driving_state = "SIGNAL_WAIT" => driving.timer.wait # Off
  BY <1>1, HistoryTypes DEF TimerType, Sound, TimersMatch
<1>10. WaitAgrees(d, s)
  BY <1>1, <1>3, <1>4, <1>6, <1>7, <1>9 DEF TurnAgrees, WaitAgrees, Elapse
<1>11. BlindTurnAgrees(d, s)
  <2>1. t.hold = Off => driving.timer.hold = Off
    BY <1>3, <1>9, ElapseRange, TimeParameters
  <2> QED
    BY <1>1, <1>3, <1>4, <1>6, <1>7, <2>1
       DEF TurnAgrees, BlindTurnAgrees, IsNoSignalTurn
<1>12. SignalTurnAgrees(d, s)
  BY <1>1, <1>3, <1>4, <1>6, <1>7, <1>9, TimeParameters
     DEF TurnAgrees, SignalTurnAgrees, IsSignalTurn, Elapse, Bump, Timer, Off
<1>13. HardLeftAgrees(d, s)
  BY <1>1, <1>3, <1>4, <1>7 DEF TurnAgrees, HardLeftAgrees, Elapse
<1>14. PendingAgrees(d, s)
  BY <1>1, <1>4, <1>7, SamePending
<1>15. LineAgrees'
  BY <1>2, <1>5, <1>7 DEF LineAgrees, HistoryInv
<1>16. Decided
  BY <1>2, <1>4, NothingDecided
<1> QED
  BY <1>2, <1>5, <1>8, <1>10, <1>11, <1>12, <1>13, <1>14, <1>15, <1>16
     DEF Kept, TurnAgrees

LEMMA MotorKeeps ==
    ASSUME HistoryInv, HMotor
    PROVE  Kept /\ Decided
<1> DEFINE held == FinishHoldIfElapsed(driving)
           h == seen.hard_left \/ motor'.angle = "max_left"
           s == [seen EXCEPT !.hard_left = h]
<1>1. /\ Sound(driving) /\ driving \in DrivingType /\ seen \in SeenType
      /\ PendingAgrees(driving, seen) /\ TurnAgrees(driving, seen)
      /\ driving.timer \in TimerType
  BY HistoryTypes
<1>2. /\ motor' = Command(held) /\ driving' = EndApproachIfElapsed(held)
      /\ stop_line_detected' = stop_line_detected
  BY DEF HMotor, MotorCallback
<1>3. Observe(s)
  BY DEF HMotor
<1>4. h \in BOOLEAN
  BY <1>1 DEF SeenType
<1> HIDE DEF h
<1>5. s \in SeenType /\ s.hard_left = h /\ s.line_gone = seen.line_gone
  BY <1>1, <1>4, Zenon DEF SeenType
<1>6. /\ s.meaning = seen.meaning /\ s.streak = seen.streak
      /\ s.fresh = seen.fresh /\ s.wait_time = seen.wait_time
      /\ s.red_confirmed = seen.red_confirmed
      /\ s.turn_time = seen.turn_time /\ s.both = seen.both
      /\ s.messages = seen.messages
      /\ s.lost = seen.lost /\ s.left = seen.left
      /\ s.left_time = seen.left_time
  BY <1>1, Zenon DEF SeenType
<1> HIDE DEF s
<1>7. CASE HoldElapsed(driving)
  <2>1. held = SetDrivingState(driving, "DRIVE")
    BY <1>7 DEF FinishHoldIfElapsed
  <2> HIDE DEF held
  <2>2. held.driving_state = "DRIVE"
    BY <1>1, <2>1, EntryFields DEF States
  <2>3. driving' = held
    BY <1>2, <2>2 DEF EndApproachIfElapsed, OnApproach
  <2>4. /\ driving.driving_state = "LEFT_TURN" /\ StateChanged
        /\ driving'.driving_state = "DRIVE"
        /\ ~SignalTurn /\ ~NoSignalTurn' /\ NoSignalTurn
    BY <1>7, <2>2, <2>3
       DEF HoldElapsed, StateChanged, SignalTurn, NoSignalTurn, IsSignalTurn,
           IsNoSignalTurn
  <2>5. seen' = Restart(s, "DRIVE")
    BY <1>3, <2>2, <2>3, <2>4 DEF Observe
  <2>6. PendingAgrees(driving', seen') /\ TurnAgrees(driving', seen')
    <3>1. s.fresh
      BY <1>1, <1>6, <2>4 DEF PendingAgrees, Stops
    <3> QED  BY <1>1, <1>5, <2>1, <2>3, <2>5, <3>1, EntryAgrees DEF States
  <2>7. seen' \in SeenType /\ seen'.line_gone = seen.line_gone
    BY <1>5, <2>5, RestartFields DEF States
  <2>8. motor'.angle = "lane"
    BY <1>2, <2>2 DEF Command
  <2>9. seen.left_time >= HoldSec
    BY <1>1, <1>7, <2>4
       DEF HoldElapsed, TurnAgrees, BlindTurnAgrees, NoSignalTurn
  <2>10. Decided
    BY <2>4, <2>8, <2>9 DEF Decided, Stops
  <2>11. LineAgrees'
    BY <1>2, <2>7 DEF LineAgrees, HistoryInv
  <2> QED  BY <2>6, <2>7, <2>10, <2>11 DEF Kept
<1>8. CASE ~HoldElapsed(driving)
  <2>1. held = driving
    BY <1>8 DEF FinishHoldIfElapsed
  <2> HIDE DEF held
  <2>2. /\ TurnAgrees(driving', seen)
        /\ driving'.driving_state = driving.driving_state
        /\ driving'.turn = driving.turn /\ driving'.pending = driving.pending
        /\ IsSignalTurn(driving) /\ ~ApproachIsActive(driving)
               => driving'.timer.approach = Off
        /\ ~IsSignalTurn(driving) => driving' = driving
    BY <1>1, <1>2, <2>1, EndApproachAgrees
  <2>3. seen' = s /\ ~StateChanged
    BY <1>3, <2>2 DEF Observe, StateChanged
  <2>4. driving.driving_state \in States
    BY <1>1 DEF DrivingType
  <2>5. motor'.angle = "max_left"
            => /\ driving.driving_state = "LEFT_TURN"
               /\ ~ApproachIsActive(driving)
    BY <1>2, <2>1, <2>4 DEF Command, States
  <2>6. motor'.angle = "straight" => ApproachIsActive(driving)
    BY <1>2, <2>1, <2>4 DEF Command, States
  <2>7. HardLeftAgrees(driving', s)
    <3>1. CASE motor'.angle = "max_left"
      <4>1. IsNoSignalTurn(driving) => driving.timer.approach = Off
        BY <1>1 DEF Sound, TimersMatch, IsSignalTurn, IsNoSignalTurn
      <4> QED
        BY <2>2, <2>5, <3>1, <4>1
           DEF HardLeftAgrees, IsSignalTurn, IsNoSignalTurn
    <3>2. CASE motor'.angle # "max_left"
      BY <1>5, <2>2, <3>2 DEF TurnAgrees, HardLeftAgrees, h
    <3> QED  BY <3>1, <3>2
  <2>8. TurnAgrees(driving', s)
    BY <1>6, <2>2, <2>7
       DEF TurnAgrees, WaitAgrees, BlindTurnAgrees, SignalTurnAgrees
  <2>9. PendingAgrees(driving', s)
    BY <1>1, <1>6, <2>2, SamePending
  <2>10. LineAgrees'
    BY <1>2, <1>5, <2>3 DEF LineAgrees, HistoryInv
  <2>11. seen.hard_left => motor'.angle # "straight"
    BY <1>1, <2>6 DEF TurnAgrees, HardLeftAgrees, ApproachIsActive, OnApproach
  <2>12. Decided
    BY <2>2, <2>3, <2>11
       DEF Decided, StateChanged, NoSignalTurn, SignalTurn, IsNoSignalTurn,
           IsSignalTurn
  <2> QED  BY <1>5, <2>3, <2>8, <2>9, <2>10, <2>12 DEF Kept
<1> QED  BY <1>7, <1>8

\* The observer's record of a lane message that counts.
LEMMA LanesSeen ==
    ASSUME NEW left \in BOOLEAN, NEW right \in BOOLEAN, seen \in SeenType,
           driving.driving_state = "LEFT_TURN",
           NoSignalTurn \/ seen.turn_time >= ApproachSec
    PROVE  LET s == ObservedLanes(left, right)
               lefts == IF left THEN Bump(seen.left, LaneReacquireFrames) ELSE 0
           IN  /\ s \in SeenType
               /\ s.both = IF left /\ right
                           THEN Bump(seen.both, LaneReacquireFrames) ELSE 0
               /\ s.messages = Bump(seen.messages, LeftTurnTimeoutFrames)
               /\ s.lost <=> seen.lost \/ ~(left /\ right)
               /\ s.left = lefts
               /\ s.left_time = IF /\ seen.left_time = Off
                                   /\ lefts >= LaneReacquireFrames
                                THEN 0 ELSE seen.left_time
               /\ s.meaning = seen.meaning /\ s.streak = seen.streak
               /\ s.fresh = seen.fresh /\ s.wait_time = seen.wait_time
               /\ s.red_confirmed = seen.red_confirmed
               /\ s.turn_time = seen.turn_time
               /\ s.hard_left = seen.hard_left
               /\ s.line_gone = seen.line_gone
<1> DEFINE lefts == IF left THEN Bump(seen.left, LaneReacquireFrames) ELSE 0
           b == IF left /\ right
                THEN Bump(seen.both, LaneReacquireFrames) ELSE 0
           o == seen.lost \/ ~(left /\ right)
           t == IF seen.left_time = Off /\ lefts >= LaneReacquireFrames
                THEN 0 ELSE seen.left_time
           n == Bump(seen.messages, LeftTurnTimeoutFrames)
           s == [seen EXCEPT !.messages = n, !.both = b, !.lost = o,
                             !.left = lefts, !.left_time = t]
<1>1. ObservedLanes(left, right) = s
  BY DEF ObservedLanes
<1>2. /\ seen.both \in Nat /\ seen.left \in Nat /\ seen.messages \in Nat
      /\ seen.left_time \in Timer(HoldSec)
  BY DEF SeenType
<1>3. b \in Nat /\ lefts \in Nat /\ n \in Nat
  BY <1>2, FrameParameters DEF Bump
<1>4. t \in Timer(HoldSec) /\ o \in BOOLEAN
  <2> HIDE DEF lefts
  <2> QED  BY <1>2, TimeParameters DEF Timer, Off
<1> HIDE DEF b, o, lefts, t, n
<1>5. s \in SeenType
  BY <1>3, <1>4 DEF SeenType
<1>6. /\ s.messages = n /\ s.both = b /\ s.lost = o /\ s.left = lefts /\ s.left_time = t
      /\ s.meaning = seen.meaning /\ s.streak = seen.streak
      /\ s.fresh = seen.fresh /\ s.wait_time = seen.wait_time
      /\ s.red_confirmed = seen.red_confirmed
      /\ s.turn_time = seen.turn_time
      /\ s.hard_left = seen.hard_left
      /\ s.line_gone = seen.line_gone
  BY Zenon DEF SeenType
<1> HIDE DEF s
<1> QED  BY <1>1, <1>5, <1>6 DEF b, o, lefts, t, n

LEMMA LanesKeeps ==
    ASSUME HistoryInv, NEW left \in BOOLEAN, NEW right \in BOOLEAN,
           HLanes(left, right)
    PROVE  Kept /\ Decided
<1> DEFINE d == driving
           s == ObservedLanes(left, right)
           q == EndApproachIfElapsed(d)
           c == CountFrame(q)
           lefts == IF left THEN Bump(seen.left, LaneReacquireFrames) ELSE 0
<1>1. /\ Sound(d) /\ d \in DrivingType /\ seen \in SeenType
      /\ PendingAgrees(d, seen) /\ TurnAgrees(d, seen)
      /\ d.timer \in TimerType
  BY HistoryTypes
<1>2. /\ driving' = UpdateLaneReacquisition(d, left, right) /\ Observe(s)
      /\ stop_line_detected' = stop_line_detected /\ motor' = motor
  BY DEF HLanes, LaneDetectionCallback
<1>3. /\ TurnAgrees(q, seen) /\ q \in DrivingType
      /\ q.driving_state = d.driving_state /\ q.turn = d.turn
      /\ IsSignalTurn(d) /\ ~ApproachIsActive(d) => q.timer.approach = Off
      /\ ~IsSignalTurn(d) => q = d
  BY <1>1, EndApproachAgrees
<1>4. Sound(q)
  BY <1>1, EndApproachIfElapsedSound
<1> HIDE DEF q
<1>5. /\ c \in DrivingType
      /\ c.driving_state = d.driving_state /\ c.turn = d.turn
      /\ c.timer = q.timer
      /\ c.lanes.reacquired = q.lanes.reacquired
      /\ c.lanes.was_lost = q.lanes.was_lost
      /\ c.lanes.frame_count = Bump(q.lanes.frame_count, LeftTurnTimeoutFrames)
  BY <1>3, CountFrameParts
<1>6. CASE d.driving_state # "LEFT_TURN" \/ ApproachIsActive(d)
  <2>1. driving' = d
    BY <1>2, <1>6 DEF UpdateLaneReacquisition
  <2>2. s = seen
    <3>1. CASE d.driving_state # "LEFT_TURN"
      BY <3>1 DEF ObservedLanes
    <3>2. CASE d.driving_state = "LEFT_TURN" /\ ApproachIsActive(d)
      <4>1. IsSignalTurn(d) /\ ~NoSignalTurn
        BY <3>2
           DEF ApproachIsActive, OnApproach, IsSignalTurn, NoSignalTurn,
               IsNoSignalTurn
      <4>2. d.timer.approach \in Timer(ApproachSec)
        BY <1>1 DEF TimerType
      <4>3. ~(seen.turn_time >= ApproachSec)
        BY <1>1, <3>2, <4>1, <4>2, TimeParameters
           DEF TurnAgrees, SignalTurnAgrees, ApproachIsActive, OnApproach,
               Timer, Off
      <4> QED  BY <4>1, <4>3 DEF ObservedLanes
    <3> QED  BY <1>6, <3>1, <3>2
  <2>3. seen' = seen
    BY <1>2, <2>1, <2>2 DEF Observe, StateChanged
  <2>4. Decided
    BY <1>2, <2>1, NothingDecided
  <2> QED  BY <1>1, <1>2, <2>1, <2>3, <2>4 DEF Kept, LineAgrees, HistoryInv
<1>7. ASSUME d.driving_state = "LEFT_TURN", ~ApproachIsActive(d)
      PROVE  /\ NoSignalTurn \/ seen.turn_time >= ApproachSec
             /\ s \in SeenType /\ s.line_gone = seen.line_gone
             /\ s.fresh /\ s.messages = Bump(seen.messages, LeftTurnTimeoutFrames)
             /\ s.both = IF left /\ right
                         THEN Bump(seen.both, LaneReacquireFrames) ELSE 0
             /\ s.lost <=> seen.lost \/ ~(left /\ right)
             /\ s.left = lefts
             /\ s.left_time = IF /\ seen.left_time = Off
                                 /\ lefts >= LaneReacquireFrames
                              THEN 0 ELSE seen.left_time
             /\ s.red_confirmed = seen.red_confirmed
             /\ s.turn_time = seen.turn_time /\ s.hard_left = seen.hard_left
  <2>1. NoSignalTurn \/ seen.turn_time >= ApproachSec
    <3>1. SUFFICES ASSUME IsSignalTurn(d) PROVE seen.turn_time >= ApproachSec
      BY <1>7 DEF NoSignalTurn, IsNoSignalTurn, IsSignalTurn
    <3>2. q.timer.approach = Off /\ IsSignalTurn(q)
      BY <1>3, <1>7, <3>1 DEF IsSignalTurn
    <3> QED  BY <1>3, <3>2, TimeParameters DEF TurnAgrees, SignalTurnAgrees
  <2>2. seen.fresh
    BY <1>1, <1>7 DEF PendingAgrees, Stops
  <2> QED  BY <1>1, <1>7, <2>1, <2>2, LanesSeen
<1> HIDE DEF s
<1>8. CASE d.driving_state = "LEFT_TURN" /\ ~ApproachIsActive(d)
           /\ d.turn.no_signal
  <2>1. /\ driving' = NoSignalLaneUpdate(c, left)
        /\ NoSignalTurn /\ ~IsSignalTurn(d) /\ q = d
    BY <1>2, <1>3, <1>8
       DEF UpdateLaneReacquisition, NoSignalTurn, IsNoSignalTurn,
           IsSignalTurn, q
  <2>2. /\ seen.left_time = c.timer.hold
        /\ c.timer.hold = Off => seen.left = c.lanes.reacquired
    BY <1>1, <1>5, <2>1 DEF TurnAgrees, BlindTurnAgrees, NoSignalTurn
  <2> DEFINE frames == IF left
                       THEN Bump(c.lanes.reacquired, LaneReacquireFrames)
                       ELSE 0
  <2>3. c.timer.hold = Off => frames = lefts
    BY <2>2
  <2>4. /\ driving'.driving_state = "LEFT_TURN" /\ driving'.turn = d.turn
        /\ driving'.timer.approach = d.timer.approach
        /\ driving'.timer.hold = IF /\ c.timer.hold = Off
                                    /\ frames >= LaneReacquireFrames
                                 THEN 0 ELSE c.timer.hold
        /\ driving'.timer.hold = Off => driving'.lanes.reacquired = frames
    BY <1>5, <1>8, <2>1, NoSignalLaneOutcome
  <2> HIDE DEF frames, lefts, c
  <2>5. seen' = s
    BY <1>2, <1>8, <2>4 DEF Observe, StateChanged
  <2>6. BlindTurnAgrees(driving', s)
    BY <1>7, <1>8, <2>2, <2>3, <2>4 DEF BlindTurnAgrees
  <2>7. /\ WaitAgrees(driving', s) /\ SignalTurnAgrees(driving', s)
        /\ PendingAgrees(driving', s)
    BY <1>1, <1>7, <1>8, <2>4
       DEF TurnAgrees, WaitAgrees, SignalTurnAgrees, IsSignalTurn,
           PendingAgrees, Stops
  <2>8. HardLeftAgrees(driving', s)
    BY <1>1, <1>7, <1>8, <2>4 DEF TurnAgrees, HardLeftAgrees
  <2>9. LineAgrees'
    BY <1>2, <1>7, <1>8, <2>5 DEF LineAgrees, HistoryInv
  <2>10. Decided
    BY <1>2, <1>8, <2>4, NothingDecided
  <2> QED  BY <1>7, <1>8, <2>5, <2>6, <2>7, <2>8, <2>9, <2>10
              DEF Kept, TurnAgrees
<1>9. CASE d.driving_state = "LEFT_TURN" /\ ~ApproachIsActive(d)
           /\ ~d.turn.no_signal
  <2> DEFINE frames == Bump(c.lanes.reacquired, LaneReacquireFrames)
  <2>1. driving' = SignalLaneUpdate(c, left, right)
    BY <1>2, <1>9 DEF UpdateLaneReacquisition, q
  <2>2. /\ IsSignalTurn(d) /\ IsSignalTurn(q) /\ SignalTurn /\ ~NoSignalTurn
        /\ q.timer.approach = Off
    BY <1>3, <1>9
       DEF IsSignalTurn, IsNoSignalTurn, SignalTurn, NoSignalTurn
  <2>3. Counting(c)
    BY <1>3, <1>4, <1>5, <2>2
       DEF Counting, Sound, TurnIsBounded, IsSignalTurn, TimersMatch,
           IsNoSignalTurn
  <2>4. /\ seen.turn_time = ApproachSec
        /\ c.lanes.was_lost => seen.lost
        /\ seen.both >= c.lanes.reacquired
        /\ c.lanes.frame_count = Bump(seen.messages, LeftTurnTimeoutFrames)
    BY <1>3, <1>5, <2>2 DEF TurnAgrees, SignalTurnAgrees
  <2>5. /\ c.lanes.reacquired \in Nat /\ seen.both \in Nat
        /\ c.lanes.reacquired <= LaneReacquireFrames
    BY <1>1, <1>5, FrameParameters DEF DrivingType, LanesType, SeenType
  <2>6. \/ /\ driving'.driving_state = c.driving_state
           /\ driving'.turn = c.turn /\ driving'.timer = c.timer
           /\ driving'.lanes.was_lost
                  => c.lanes.was_lost \/ ~(left /\ right)
           /\ driving'.lanes.reacquired <= IF left /\ right
                                           THEN frames ELSE 0
           /\ driving'.lanes.frame_count = c.lanes.frame_count
        \/ \E x \in DrivingType : driving' = SetDrivingState(x, "STOP")
        \/ /\ left /\ right /\ c.lanes.was_lost
           /\ frames >= LaneReacquireFrames
           /\ \E x \in DrivingType : driving' = SetDrivingState(x, "DRIVE")
    BY <2>1, <2>3, SignalLaneOutcome
  <2> HIDE DEF c
  <2>7. /\ s \in SeenType /\ s.line_gone = seen.line_gone
        /\ s.both = IF left /\ right
                    THEN Bump(seen.both, LaneReacquireFrames) ELSE 0
        /\ s.lost <=> seen.lost \/ ~(left /\ right)
        /\ s.messages = Bump(seen.messages, LeftTurnTimeoutFrames) /\ s.fresh
        /\ s.red_confirmed = seen.red_confirmed
        /\ s.turn_time = seen.turn_time /\ s.hard_left = seen.hard_left
    BY <1>7, <1>9
  <2>8. frames <= Bump(seen.both, LaneReacquireFrames)
    BY <2>4, <2>5, BumpOrder, FrameParameters
  <2>9. frames >= LaneReacquireFrames => seen.both + 1 >= LaneReacquireFrames
    BY <2>4, <2>5, FrameParameters DEF Bump
  <2>10. frames \in Nat
    BY <2>5, BumpNat, FrameParameters
  <2> HIDE DEF frames
  <2>11. CASE /\ driving'.driving_state = c.driving_state
              /\ driving'.turn = c.turn /\ driving'.timer = c.timer
              /\ driving'.lanes.was_lost
                     => c.lanes.was_lost \/ ~(left /\ right)
              /\ driving'.lanes.reacquired <= IF left /\ right
                                              THEN frames ELSE 0
              /\ driving'.lanes.frame_count = c.lanes.frame_count
    <3>1. seen' = s
      BY <1>2, <1>5, <2>11 DEF Observe, StateChanged
    <3>2. driving'.lanes.reacquired \in Nat
      <4>1. SafetyInv'
        BY NextSafety DEF HistoryInv, HLanes, Next
      <4>2. driving' \in DrivingType
        BY <4>1 DEF SafetyInv, TypeOK
      <4> QED  BY <4>2, CountIsNatural
    <3>3. s.both >= driving'.lanes.reacquired
      <4> DEFINE both == Bump(seen.both, LaneReacquireFrames)
      <4>1. both \in Nat /\ frames <= both
        BY <2>5, <2>8, BumpNat, FrameParameters
      <4>2. s.both = IF left /\ right THEN both ELSE 0
        BY <2>7
      <4>3. driving'.lanes.reacquired <= IF left /\ right THEN frames ELSE 0
        BY <2>11
      <4> HIDE DEF both
      <4> QED  BY <2>10, <3>2, <4>1, <4>2, <4>3
    <3>4. SignalTurnAgrees(driving', s)
      BY <1>5, <2>2, <2>4, <2>7, <2>11, <3>3 DEF SignalTurnAgrees
    <3>5. /\ WaitAgrees(driving', s) /\ BlindTurnAgrees(driving', s)
          /\ PendingAgrees(driving', s) /\ HardLeftAgrees(driving', s)
      BY <1>1, <1>5, <1>9, <2>2, <2>7, <2>11
         DEF TurnAgrees, WaitAgrees, BlindTurnAgrees, IsNoSignalTurn,
             PendingAgrees, Stops, HardLeftAgrees
    <3>6. LineAgrees'
      BY <1>2, <2>7, <3>1 DEF LineAgrees, HistoryInv
    <3>7. Decided
      BY <1>2, <1>5, <2>11, NothingDecided
    <3> QED  BY <2>7, <3>1, <3>4, <3>5, <3>6, <3>7 DEF Kept, TurnAgrees
  <2>12. ASSUME NEW x \in DrivingType, NEW state \in {"STOP", "DRIVE"},
                driving' = SetDrivingState(x, state)
         PROVE  /\ Kept /\ driving'.driving_state = state
                /\ ~NoSignalTurn'
    <3>0. state \in States
      BY DEF States
    <3>1. driving'.driving_state = state /\ ~driving'.turn.no_signal
      BY <2>12, <3>0, EntryFields
    <3>2. seen' = Restart(s, state)
      BY <1>2, <1>9, <3>1 DEF Observe, StateChanged
    <3>3. PendingAgrees(driving', seen') /\ TurnAgrees(driving', seen')
      BY <2>7, <2>12, <3>0, <3>2, EntryAgrees
    <3>4. seen' \in SeenType /\ seen'.line_gone = seen.line_gone
      BY <2>7, <3>0, <3>2, RestartFields
    <3>5. LineAgrees'
      BY <1>2, <3>4 DEF LineAgrees, HistoryInv
    <3> QED
      BY <3>1, <3>3, <3>4, <3>5 DEF Kept, NoSignalTurn, IsNoSignalTurn
  <2>13. CASE \E x \in DrivingType : driving' = SetDrivingState(x, "STOP")
    <3>1. /\ Kept /\ driving'.driving_state = "STOP" /\ ~NoSignalTurn'
      BY <2>12, <2>13
    <3> QED  BY <1>2, <1>9, <2>2, <3>1 DEF Decided, Stops
  <2>14. CASE /\ left /\ right /\ c.lanes.was_lost
              /\ frames >= LaneReacquireFrames
              /\ \E x \in DrivingType : driving' = SetDrivingState(x, "DRIVE")
    <3>1. /\ Kept /\ driving'.driving_state = "DRIVE" /\ ~NoSignalTurn'
      BY <2>12, <2>14
    <3>2. /\ seen.turn_time >= ApproachSec /\ seen.lost
          /\ seen.both + 1 >= LaneReacquireFrames
      BY <2>4, <2>9, <2>14, TimeParameters
    <3> QED  BY <1>2, <1>9, <2>2, <3>1, <3>2 DEF Decided, Stops
  <2> QED  BY <2>6, <2>11, <2>13, <2>14
<1> QED  BY <1>6, <1>8, <1>9

\* The observer's record of a camera frame.
LEMMA FrameSeen ==
    ASSUME seen \in SeenType, NEW red \in BOOLEAN, NEW green \in BOOLEAN,
           NEW policeSeen \in BOOLEAN, police'.detected \in BOOLEAN
    PROVE  LET s == ObservedFrame(red, green, policeSeen)
               c == Candidate(red, green, police'.detected)
               again == /\ driving.driving_state \in Stops
                        /\ ~seen.fresh /\ c = seen.meaning
           IN  /\ s \in SeenType /\ c \in Meanings
               /\ s.meaning = c
               /\ s.streak = IF again THEN Bump(seen.streak, ConfirmationFrames)
                             ELSE 1
               /\ s.fresh <=> \/ driving'.driving_state \notin Stops
                              \/ driving.driving_state \in Stops /\ StateChanged
               /\ s.wait_time = seen.wait_time
               /\ s.red_confirmed = seen.red_confirmed
               /\ s.turn_time = seen.turn_time /\ s.both = seen.both
               /\ s.messages = seen.messages
               /\ s.lost = seen.lost /\ s.left = seen.left
               /\ s.left_time = seen.left_time
               /\ s.hard_left = seen.hard_left
               /\ s.line_gone = seen.line_gone
               /\ s.police = IF policeSeen
                             THEN Bump(seen.police, PoliceConfirmationFrames)
                             ELSE 0
               /\ s.unlit = NextUnlit(s.police, policeSeen)
<1> DEFINE c == Candidate(red, green, police'.detected)
           again == /\ driving.driving_state \in Stops
                    /\ ~seen.fresh /\ c = seen.meaning
           k == IF again THEN Bump(seen.streak, ConfirmationFrames) ELSE 1
           f == \/ driving'.driving_state \notin Stops
                \/ driving.driving_state \in Stops /\ StateChanged
           t == IF red \/ green THEN 0 ELSE seen.dark_time
           v == IF policeSeen THEN Bump(seen.police, PoliceConfirmationFrames) ELSE 0
           u == NextUnlit(v, policeSeen)
           s == [seen EXCEPT !.meaning = c, !.streak = k, !.fresh = f,
                             !.dark_time = t, !.police = v, !.unlit = u]
<1>1. ObservedFrame(red, green, policeSeen) = s
  BY DEF ObservedFrame
<1>2. c \in Meanings
  BY DEF Candidate, Meanings, NoSignal
<1> HIDE DEF c
<1>3. k \in Nat
  <2>1. seen.streak \in Nat
    BY DEF SeenType
  <2> QED  BY <2>1, BumpNat, FrameParameters
<1>4. f \in BOOLEAN /\ t \in Nat /\ v \in Nat
  <2>1. seen.police \in Nat /\ seen.dark_time \in Nat
    BY DEF SeenType
  <2> QED  BY <2>1, BumpNat, FrameParameters DEF Stops
<1>7. u \in Timer(PoliceClearFrames)
  <2>1. seen.unlit \in Timer(PoliceClearFrames)
    BY DEF SeenType
  <2> QED  BY <2>1, FrameParameters DEF NextUnlit, Timer, Off
<1> HIDE DEF k, f, t, v, u
<1>5. s \in SeenType
  BY <1>2, <1>3, <1>4, <1>7 DEF SeenType, Meanings
<1>6. /\ s.meaning = c /\ s.streak = k /\ s.fresh = f
      /\ s.wait_time = seen.wait_time
      /\ s.red_confirmed = seen.red_confirmed
      /\ s.turn_time = seen.turn_time /\ s.both = seen.both
      /\ s.messages = seen.messages
      /\ s.lost = seen.lost /\ s.left = seen.left
      /\ s.left_time = seen.left_time
      /\ s.hard_left = seen.hard_left
      /\ s.line_gone = seen.line_gone
      /\ s.police = v /\ s.unlit = u
  BY Zenon DEF SeenType
<1> HIDE DEF s
<1> QED  BY <1>1, <1>2, <1>5, <1>6 DEF c, k, f, v, u

LEMMA CameraKeeps ==
    ASSUME HistoryInv, NEW red \in BOOLEAN, NEW green \in BOOLEAN,
           NEW policeSeen \in BOOLEAN, HCamera(red, green, policeSeen)
    PROVE  Kept /\ Decided
<1> DEFINE d == driving
           p == UpdatePoliceDetection(police, policeSeen)
           y == YieldToPolice(d, p.detected /\ ~police.detected)
           c == Candidate(red, green, p.detected)
           s == ObservedFrame(red, green, policeSeen)
           again == /\ d.driving_state \in Stops
                    /\ ~seen.fresh /\ c = seen.meaning
<1>1. /\ Sound(d) /\ d \in DrivingType /\ seen \in SeenType
      /\ PendingAgrees(d, seen) /\ TurnAgrees(d, seen)
      /\ d.timer \in TimerType /\ d.driving_state \in States
  BY HistoryTypes DEF DrivingType
<1>2. /\ driving' = UpdateDrivingState(y, c) /\ Observe(s) /\ police' = p
      /\ stop_line_detected' = stop_line_detected /\ motor' = motor
  BY DEF HCamera, CameraCallback
<1>3. p.detected \in BOOLEAN
  <2>1. police \in PoliceType /\ police.clear_frame_count < PoliceClearFrames
    BY DEF HistoryInv, SafetyInv, TypeOK
  <2>2. p \in PoliceType
    BY <2>1, UpdatePoliceDetectionType
  <2> QED  BY <2>2 DEF PoliceType
<1>4. c = "LEFT_TURN" => ~p.detected
  BY <1>3 DEF Candidate, NoSignal
<1>5. /\ s \in SeenType /\ c \in Meanings
      /\ s.meaning = c
      /\ s.streak = IF again THEN Bump(seen.streak, ConfirmationFrames) ELSE 1
      /\ s.fresh <=> \/ driving'.driving_state \notin Stops
                     \/ d.driving_state \in Stops /\ StateChanged
      /\ s.wait_time = seen.wait_time
      /\ s.red_confirmed = seen.red_confirmed
      /\ s.turn_time = seen.turn_time /\ s.both = seen.both
      /\ s.messages = seen.messages
      /\ s.lost = seen.lost /\ s.left = seen.left
      /\ s.left_time = seen.left_time
      /\ s.hard_left = seen.hard_left
      /\ s.line_gone = seen.line_gone
  BY <1>1, <1>2, <1>3, FrameSeen
<1> HIDE DEF s, c, p, y
<1>6. LineAgrees'
  <2>1. \A state : Restart(s, state).line_gone = s.line_gone
    BY Zenon DEF Restart, SeenNothing
  <2>2. seen'.line_gone = s.line_gone
    BY <1>2, <2>1 DEF Observe
  <2> QED  BY <1>2, <1>5, <2>2 DEF LineAgrees, HistoryInv
<1>7. CASE d.driving_state \notin Stops /\ y = d
  <2>1. /\ driving'.driving_state = d.driving_state
        /\ driving'.turn = d.turn /\ driving'.lanes = d.lanes
        /\ driving'.timer = d.timer
    <3>1. d.driving_state \in {"DRIVE", "LEFT_TURN"}
      BY <1>1, <1>7 DEF States, Stops
    <3> QED
      BY <1>1, <1>2, <1>7, <3>1, PendingFields, ConstantTypes
         DEF UpdateDrivingState, ClearPending
  <2>2. seen' = s
    BY <1>2, <2>1 DEF Observe, StateChanged
  <2>3. TurnAgrees(driving', s)
    BY <1>1, <1>5, <2>1, SameTurn
  <2>4. PendingAgrees(driving', s)
    BY <1>5, <1>7, <2>1 DEF PendingAgrees
  <2>5. Decided
    BY <1>2, <2>1, NothingDecided
  <2> QED  BY <1>5, <1>6, <2>2, <2>3, <2>4, <2>5 DEF Kept
<1>8. CASE d.driving_state \in Stops
  <2>1. y = d
    BY <1>8 DEF y, YieldToPolice, Stops
  <2>2. TurnAgrees(d, s)
    BY <1>1, <1>5, SameTurn
  <2>3. /\ d.pending.frames \in Nat /\ d.pending.frames <= ConfirmationFrames
        /\ seen.streak \in Nat
    BY <1>1, FrameParameters DEF DrivingType, PendingType, SeenType
  <2>4. s.streak >= 1
    BY <1>5, <2>3, FrameParameters DEF Bump
  <2>5. c # NoSignal
            => s.streak = IF c = d.pending.signal
                          THEN Bump(d.pending.frames, ConfirmationFrames) ELSE 1
    <3>1. CASE again /\ c # NoSignal
      <4>1. c = d.pending.signal /\ d.pending.frames = seen.streak
        BY <1>1, <1>8, <3>1 DEF PendingAgrees
      <4> QED  BY <1>5, <3>1, <4>1
    <3>2. CASE ~again /\ c # NoSignal
      <4>1. c # d.pending.signal
        BY <1>1, <1>8, <3>2 DEF PendingAgrees
      <4> QED  BY <1>5, <3>2, <4>1
    <3> QED  BY <3>1, <3>2
  <2>6. \/ /\ driving'.driving_state = d.driving_state
           /\ TurnAgrees(driving', s)
           /\ ~s.fresh => PendingAgrees(driving', s)
        \/ /\ SignalTimedOut(d) /\ c = NoSignal
           /\ \E x \in DrivingType :
                  /\ SignalTimedOut(x)
                  /\ driving' = StartLeftTurnIfSignalTimedOut(x)
        \/ /\ c \in States /\ c # d.driving_state
           /\ s.streak >= ConfirmationFrames
           /\ \E x \in DrivingType : driving' = SetDrivingState(x, c)
    BY <1>1, <1>2, <1>5, <1>8, <2>1, <2>2, <2>4, <2>5, StopFrame
  <2>7. ~NoSignalTurn /\ ~SignalTurn
    BY <1>8 DEF Stops, NoSignalTurn, SignalTurn, IsNoSignalTurn, IsSignalTurn
  <2>8. CASE /\ driving'.driving_state = d.driving_state
             /\ TurnAgrees(driving', s)
             /\ ~s.fresh => PendingAgrees(driving', s)
    <3>1. ~StateChanged /\ seen' = s
      BY <1>2, <2>8 DEF Observe, StateChanged
    <3>2. ~s.fresh
      BY <1>5, <1>8, <2>8, <3>1
    <3>3. ~NoSignalTurn'
      BY <1>8, <2>8 DEF Stops, NoSignalTurn, IsNoSignalTurn
    <3>4. Decided
      BY <1>2, <2>7, <3>1, <3>3 DEF Decided
    <3> QED  BY <1>5, <1>6, <2>8, <3>1, <3>2, <3>4 DEF Kept
  <2>9. CASE /\ SignalTimedOut(d) /\ c = NoSignal
             /\ \E x \in DrivingType :
                    /\ SignalTimedOut(x)
                    /\ driving' = StartLeftTurnIfSignalTimedOut(x)
    <3>1. PICK x \in DrivingType :
              /\ SignalTimedOut(x)
              /\ driving' = StartLeftTurnIfSignalTimedOut(x)
      BY <2>9
    <3>2. /\ IsNoSignalTurn(driving')
          /\ s.fresh => PendingAgrees(driving', Restart(s, "LEFT_TURN"))
          /\ TurnAgrees(driving', Restart(s, "LEFT_TURN"))
      BY <1>5, <3>1, BlindEntryAgrees
    <3>3. driving'.driving_state = "LEFT_TURN"
      BY <3>2 DEF IsNoSignalTurn
    <3>4. seen' = Restart(s, "LEFT_TURN")
      BY <1>2, <1>8, <3>3 DEF Observe, StateChanged, Stops
    <3>5. seen' \in SeenType /\ seen'.meaning = NoSignal
      BY <1>5, <2>9, <3>4, RestartFields DEF States
    <3>6. /\ d.driving_state = "SIGNAL_WAIT"
          /\ seen.wait_time >= WaitTimeoutSec
          /\ ~seen.red_confirmed
      BY <1>1, <2>9 DEF SignalTimedOut, TurnAgrees, WaitAgrees
    <3>7. Decided
      BY <1>2, <2>7, <3>2, <3>5, <3>6 DEF Decided, NoSignalTurn
    <3>8. s.fresh
      BY <1>5, <3>3 DEF Stops
    <3> QED  BY <1>6, <3>2, <3>4, <3>5, <3>7, <3>8 DEF Kept
  <2>10. CASE /\ c \in States /\ c # d.driving_state
              /\ s.streak >= ConfirmationFrames
              /\ \E x \in DrivingType : driving' = SetDrivingState(x, c)
    <3>1. PICK x \in DrivingType : driving' = SetDrivingState(x, c)
      BY <2>10
    <3>2. driving'.driving_state = c /\ ~driving'.turn.no_signal
      BY <2>10, <3>1, EntryFields
    <3>3. seen' = Restart(s, c)
      BY <1>2, <2>10, <3>2 DEF Observe, StateChanged
    <3>4. c # "SIGNAL_WAIT"
      BY <1>5 DEF Meanings, NoSignal
    <3>5. PendingAgrees(driving', seen') /\ TurnAgrees(driving', seen')
      <4>1. s.fresh
        BY <1>5, <1>8, <2>10, <3>2 DEF StateChanged
      <4> QED  BY <1>5, <2>10, <3>1, <3>3, <3>4, <4>1, EntryAgrees
    <3>6. /\ seen' \in SeenType
          /\ seen'.meaning = c /\ seen'.streak = s.streak
      BY <1>5, <2>10, <3>3, RestartFields
    <3>7. Decided
      BY <1>2, <1>8, <2>7, <2>10, <3>2, <3>6
         DEF Decided, Stops, NoSignalTurn, IsNoSignalTurn
    <3> QED  BY <1>6, <3>5, <3>6, <3>7 DEF Kept
  <2> QED  BY <2>6, <2>8, <2>9, <2>10
<1>9. CASE d.driving_state \notin Stops /\ y # d
  <2> DEFINE r == Restart(s, "STOP")
  <2>1. /\ IsSignalTurn(d) /\ p.detected
        /\ y = SetDrivingState(d, "STOP")
    BY <1>9 DEF y, YieldToPolice, IsSignalTurn
  <2>2. /\ y \in DrivingType /\ y.driving_state = "STOP"
        /\ y.pending = NoPending
    BY <1>1, <2>1, EntryFields DEF States
  <2>3. TurnAgrees(y, r)
    BY <1>1, <1>5, <2>1, EntryAgrees DEF States
  <2>4. s.streak = 1
    BY <1>5, <1>9
  <2>5. /\ r \in SeenType /\ r.meaning = c /\ r.streak = 1
        /\ r.fresh = s.fresh
    BY <1>5, <2>4, RestartFields DEF States
  <2> HIDE DEF r
  <2>6. \/ /\ driving'.driving_state = "STOP"
           /\ TurnAgrees(driving', r)
           /\ ~r.fresh => PendingAgrees(driving', r)
        \/ SignalTimedOut(y)
        \/ /\ c \in States /\ r.streak >= ConfirmationFrames
           /\ c # "STOP"
           /\ \E x \in DrivingType : driving' = SetDrivingState(x, c)
    <3>1. y.driving_state \in Stops
      BY <2>2 DEF Stops
    <3>2. c # NoSignal => c # y.pending.signal
      BY <2>2 DEF NoPending
    <3> QED  BY <1>2, <1>5, <2>2, <2>3, <2>5, <3>1, <3>2, StopFrame
  <2>7. ~SignalTimedOut(y)
    BY <2>2 DEF SignalTimedOut
  <2>8. d.driving_state = "LEFT_TURN" /\ ~NoSignalTurn
    BY <2>1 DEF IsSignalTurn, NoSignalTurn, IsNoSignalTurn
  <2>9. CASE /\ driving'.driving_state = "STOP"
             /\ TurnAgrees(driving', r)
             /\ ~r.fresh => PendingAgrees(driving', r)
    <3>1. seen' = r
      BY <1>2, <2>8, <2>9 DEF Observe, StateChanged, r
    <3>2. ~r.fresh
      BY <1>5, <1>9, <2>5, <2>9 DEF Stops
    <3>3. Decided
      BY <1>2, <2>8, <2>9 DEF Decided, Stops, NoSignalTurn, IsNoSignalTurn
    <3> QED  BY <1>6, <2>5, <2>9, <3>1, <3>2, <3>3 DEF Kept
  <2>10. CASE /\ c \in States /\ r.streak >= ConfirmationFrames
              /\ c # "STOP"
              /\ \E x \in DrivingType : driving' = SetDrivingState(x, c)
    <3>1. PICK x \in DrivingType : driving' = SetDrivingState(x, c)
      BY <2>10
    <3>2. c = "DRIVE"
      BY <1>4, <1>5, <2>1, <2>10 DEF Meanings, States, NoSignal
    <3>3. driving'.driving_state = "DRIVE" /\ ~driving'.turn.no_signal
      BY <2>10, <3>1, <3>2, EntryFields
    <3>4. seen' = Restart(s, "DRIVE")
      BY <1>2, <2>8, <3>3 DEF Observe, StateChanged
    <3>5. PendingAgrees(driving', seen') /\ TurnAgrees(driving', seen')
      <4>1. s.fresh
        BY <1>5, <3>3 DEF Stops
      <4> QED  BY <1>5, <2>10, <3>1, <3>2, <3>4, <4>1, EntryAgrees
    <3>6. seen' \in SeenType
      BY <1>5, <3>4, RestartFields DEF States
    <3>7. ~(ConfirmationFrames > 1)
      BY <2>5, <2>10, FrameParameters
    <3>8. Decided
      BY <1>2, <2>8, <3>3, <3>7
         DEF Decided, Stops, NoSignalTurn, IsNoSignalTurn
    <3> QED  BY <1>6, <3>4, <3>5, <3>6, <3>8 DEF Kept
  <2> QED  BY <2>6, <2>7, <2>9, <2>10
<1> QED  BY <1>7, <1>8, <1>9

\* The lights in a row, counted by the detector and by the observer.
LEMMA LightsCounted ==
    ASSUME NEW p \in PoliceType, NEW lights \in BOOLEAN,
           p.detection_frames >= PoliceConfirmationFrames => p.detected
    PROVE  LET after == UpdatePoliceDetection(p, lights)
           IN  /\ after.detection_frames
                     = IF lights THEN Bump(p.detection_frames,
                                           PoliceConfirmationFrames) ELSE 0
               /\ after.detection_frames >= PoliceConfirmationFrames
                     => after.detected
<1>1. /\ p.detected \in BOOLEAN
      /\ p.detection_frames \in 0..PoliceConfirmationFrames
  BY DEF PoliceType
<1>2. CASE lights
  <2> DEFINE n == Bump(p.detection_frames, PoliceConfirmationFrames)
  <2>1. UpdatePoliceDetection(p, lights)
          = [detected |-> p.detected \/ n >= PoliceConfirmationFrames,
             detection_frames |-> n, clear_frame_count |-> 0]
    BY <1>2 DEF UpdatePoliceDetection
  <2>2. n = IF lights THEN Bump(p.detection_frames, PoliceConfirmationFrames) ELSE 0
    BY <1>2
  <2> HIDE DEF n
  <2>3. (p.detected \/ n >= PoliceConfirmationFrames) \in BOOLEAN
    OBVIOUS
  <2>4. PICK b \in BOOLEAN :
            /\ b <=> p.detected \/ n >= PoliceConfirmationFrames
            /\ UpdatePoliceDetection(p, lights)
                 = [detected |-> b, detection_frames |-> n, clear_frame_count |-> 0]
    BY <2>1, <2>3, Zenon
  <2>5. /\ UpdatePoliceDetection(p, lights).detection_frames = n
        /\ UpdatePoliceDetection(p, lights).detected = b
    BY <2>4
  <2> QED  BY <2>2, <2>4, <2>5, Zenon
<1>3. CASE ~lights
  <2>1. UpdatePoliceDetection(p, lights).detection_frames = 0
    <3>1. CASE ~p.detected
      BY <1>3, <3>1 DEF UpdatePoliceDetection, PoliceType
    <3>2. CASE p.detected /\ p.clear_frame_count + 1 < PoliceClearFrames
      BY <1>3, <3>2 DEF UpdatePoliceDetection
    <3>3. CASE p.detected /\ p.clear_frame_count + 1 >= PoliceClearFrames
      <4>1. ~(p.clear_frame_count + 1 < PoliceClearFrames)
        BY <3>3, FrameParameters DEF PoliceType
      <4> QED  BY <1>3, <3>3, <4>1 DEF UpdatePoliceDetection
    <3> QED  BY <1>1, <3>1, <3>2, <3>3, FrameParameters DEF PoliceType
  <2> QED  BY <1>3, <2>1, FrameParameters
<1> QED  BY <1>2, <1>3

\* The frames without lights, counted by the detector while it is on.
LEMMA UnlitCounted ==
    ASSUME NEW p \in PoliceType, NEW lights \in BOOLEAN,
           p.clear_frame_count < PoliceClearFrames,
           seen.unlit = IF p.detected THEN p.clear_frame_count ELSE Off
    PROVE  LET after == UpdatePoliceDetection(p, lights)
               frames == IF lights THEN Bump(p.detection_frames,
                                             PoliceConfirmationFrames) ELSE 0
           IN  NextUnlit(frames, lights)
                 = IF after.detected THEN after.clear_frame_count ELSE Off
<1>1. /\ p.detected \in BOOLEAN /\ p.clear_frame_count \in Nat
      /\ p.clear_frame_count # Off
  BY DEF PoliceType, Off
<1>2. CASE lights
  <2> DEFINE n == Bump(p.detection_frames, PoliceConfirmationFrames)
  <2>1. /\ UpdatePoliceDetection(p, lights).detected
              <=> p.detected \/ n >= PoliceConfirmationFrames
        /\ UpdatePoliceDetection(p, lights).clear_frame_count = 0
    <3>1. UpdatePoliceDetection(p, lights)
            = [detected |-> p.detected \/ n >= PoliceConfirmationFrames,
               detection_frames |-> n, clear_frame_count |-> 0]
      BY <1>2 DEF UpdatePoliceDetection
    <3> HIDE DEF n
    <3>2. (p.detected \/ n >= PoliceConfirmationFrames) \in BOOLEAN
      OBVIOUS
    <3>3. PICK b \in BOOLEAN :
              /\ b <=> p.detected \/ n >= PoliceConfirmationFrames
              /\ UpdatePoliceDetection(p, lights)
                   = [detected |-> b, detection_frames |-> n, clear_frame_count |-> 0]
      BY <3>1, <3>2, Zenon
    <3> QED  BY <3>3
  <2>2. n \in Nat
    BY BumpNat, FrameParameters DEF PoliceType
  <2>3. NextUnlit(n, lights)
          = IF n < PoliceConfirmationFrames /\ seen.unlit = Off THEN Off ELSE 0
    BY <1>2 DEF NextUnlit
  <2> HIDE DEF n
  <2>4. NextUnlit(n, lights)
          = IF p.detected \/ n >= PoliceConfirmationFrames THEN 0 ELSE Off
    BY <1>1, <2>2, <2>3, FrameParameters
  <2> QED  BY <1>2, <2>1, <2>4 DEF n
<1>3. CASE ~lights /\ ~p.detected
  <2>1. ~UpdatePoliceDetection(p, lights).detected
    BY <1>3 DEF UpdatePoliceDetection, PoliceType
  <2> QED  BY <1>3, <2>1 DEF NextUnlit
<1>4. CASE ~lights /\ p.detected
  <2>1. seen.unlit = p.clear_frame_count /\ seen.unlit # Off
    BY <1>1, <1>4
  <2>2. CASE p.clear_frame_count + 1 < PoliceClearFrames
    <3>1. UpdatePoliceDetection(p, lights)
            = [detected |-> TRUE, detection_frames |-> 0,
               clear_frame_count |-> p.clear_frame_count + 1]
      BY <1>1, <1>4, <2>2, FrameParameters DEF UpdatePoliceDetection
    <3>2. ~(p.clear_frame_count + 1 >= PoliceClearFrames)
      BY <1>1, <2>2, FrameParameters
    <3> QED  BY <1>4, <2>1, <3>1, <3>2 DEF NextUnlit
  <2>3. CASE p.clear_frame_count + 1 >= PoliceClearFrames
    <3>1. ~(p.clear_frame_count + 1 < PoliceClearFrames)
      BY <1>1, <2>3, FrameParameters
    <3>2. ~UpdatePoliceDetection(p, lights).detected
      BY <1>4, <2>3, <3>1 DEF UpdatePoliceDetection
    <3> QED  BY <1>4, <2>1, <2>3, <3>2 DEF NextUnlit
  <2> QED  BY <1>1, <2>2, <2>3, FrameParameters
<1> QED  BY <1>1, <1>2, <1>3, <1>4

LEMMA PoliceKeeps ==
    ASSUME HistoryInv, [HNext]_historyVars
    PROVE  PoliceAgrees'
<1>1. /\ seen \in SeenType /\ police \in PoliceType
      /\ police.clear_frame_count < PoliceClearFrames
  BY DEF HistoryInv, SafetyInv, TypeOK
<1>2. ASSUME NEW s, Observe(s)
      PROVE  seen'.police = s.police /\ seen'.unlit = s.unlit
  <2>1. \A state : /\ Restart(s, state).police = s.police
                   /\ Restart(s, state).unlit = s.unlit
    BY Zenon DEF Restart, SeenNothing
  <2> QED  BY <1>2, <2>1 DEF Observe
<1>3. ASSUME NEW s, Observe(s), s.police = seen.police, s.unlit = seen.unlit,
             police' = police
      PROVE  PoliceAgrees'
  BY <1>2, <1>3 DEF HistoryInv, PoliceAgrees
<1>4. ASSUME NEW red \in BOOLEAN, NEW green \in BOOLEAN,
             NEW policeSeen \in BOOLEAN, HCamera(red, green, policeSeen)
      PROVE  PoliceAgrees'
  <2>1. police' = UpdatePoliceDetection(police, policeSeen)
    BY <1>4 DEF HCamera, CameraCallback
  <2>2. police' \in PoliceType
    BY <1>1, <2>1, UpdatePoliceDetectionType
  <2>3. /\ seen'.police = IF policeSeen
                          THEN Bump(seen.police, PoliceConfirmationFrames) ELSE 0
        /\ seen'.unlit = NextUnlit(seen'.police, policeSeen)
    <3>1. police'.detected \in BOOLEAN
      BY <2>2 DEF PoliceType
    <3> QED  BY <1>1, <1>2, <1>4, <3>1, FrameSeen DEF HCamera
  <2>4. PoliceAgrees
    BY DEF HistoryInv
  <2>5. seen'.unlit = IF police'.detected THEN police'.clear_frame_count ELSE Off
    <3>1. seen.police = police.detection_frames
      BY <2>4 DEF PoliceAgrees
    <3>2. seen.unlit = IF police.detected THEN police.clear_frame_count ELSE Off
      BY <2>4, Zenon DEF PoliceAgrees
    <3> QED  BY <1>1, <2>1, <2>3, <3>1, <3>2, UnlitCounted
  <2> QED  BY <1>1, <2>1, <2>3, <2>4, <2>5, LightsCounted DEF PoliceAgrees
<1>5. ASSUME NEW visible \in BOOLEAN, HStopLine(visible)
      PROVE  PoliceAgrees'
  <2> DEFINE g == ~visible \/ (seen.line_gone /\ ~StateChanged)
  <2>1. /\ [seen EXCEPT !.line_gone = g].police = seen.police
        /\ [seen EXCEPT !.line_gone = g].unlit = seen.unlit
    BY <1>1, Zenon DEF SeenType
  <2> QED  BY <1>3, <1>5, <2>1 DEF HStopLine, StopLineCallback
<1>6. ASSUME NEW left \in BOOLEAN, NEW right \in BOOLEAN, HLanes(left, right)
      PROVE  PoliceAgrees'
  <2>1. /\ ObservedLanes(left, right).police = seen.police
        /\ ObservedLanes(left, right).unlit = seen.unlit
    BY <1>1 DEF ObservedLanes, SeenType
  <2> QED  BY <1>3, <1>6, <2>1 DEF HLanes, LaneDetectionCallback
<1>7. CASE HMotor
  <2> DEFINE h == seen.hard_left \/ motor'.angle = "max_left"
  <2>1. /\ [seen EXCEPT !.hard_left = h].police = seen.police
        /\ [seen EXCEPT !.hard_left = h].unlit = seen.unlit
    BY <1>1, Zenon DEF SeenType
  <2> QED  BY <1>3, <1>7, <2>1 DEF HMotor, MotorCallback
<1>8. CASE HTick
  <2>1. ObservedTime.police = seen.police /\ ObservedTime.unlit = seen.unlit
    BY <1>1, Zenon DEF ObservedTime, SeenType
  <2> QED  BY <1>3, <1>8, <2>1 DEF HTick, Tick
<1>9. CASE UNCHANGED historyVars
  BY <1>9 DEF historyVars, vars, HistoryInv, PoliceAgrees
<1> QED  BY <1>4, <1>5, <1>6, <1>7, <1>8, <1>9 DEF HNext

-----------------------------------------------------------------------------
(* The theorems.                                                           *)

LEMMA InitHistory == HInit => HistoryInv
<1> SUFFICES ASSUME HInit PROVE HistoryInv
  OBVIOUS
<1>1. SafetyInv
  BY InitSafety DEF HInit
<1>2. seen \in SeenType
  BY DEF HInit, SeenNothing, SeenType, Timer, Off
<1>3. PendingAgrees(driving, seen) /\ TurnAgrees(driving, seen) /\ LineAgrees
  BY DEF HInit, Init, SeenNothing, PendingAgrees, Stops, TurnAgrees,
         WaitAgrees, BlindTurnAgrees, SignalTurnAgrees, HardLeftAgrees,
         LineAgrees, IsNoSignalTurn, IsSignalTurn
<1>4. PoliceAgrees
  BY FrameParameters DEF HInit, Init, SeenNothing, PoliceAgrees
<1> QED  BY <1>1, <1>2, <1>3, <1>4 DEF HistoryInv

LEMMA HistoryStep ==
    ASSUME HistoryInv, [HNext]_historyVars
    PROVE  HistoryInv' /\ Decided
<1>1. SafetyInv'
  <2>1. [Next]_vars
    BY DEF HNext, HCamera, HStopLine, HLanes, HMotor, HTick, Next, historyVars
  <2> QED  BY <2>1, NextSafety DEF HistoryInv
<1>2. Kept /\ Decided
  <2>1. ASSUME NEW red \in BOOLEAN, NEW green \in BOOLEAN,
               NEW policeSeen \in BOOLEAN, HCamera(red, green, policeSeen)
        PROVE  Kept /\ Decided
    BY <2>1, CameraKeeps
  <2>2. ASSUME NEW visible \in BOOLEAN, HStopLine(visible)
        PROVE  Kept /\ Decided
    BY <2>2, StopLineKeeps
  <2>3. ASSUME NEW left \in BOOLEAN, NEW right \in BOOLEAN, HLanes(left, right)
        PROVE  Kept /\ Decided
    BY <2>3, LanesKeeps
  <2>4. CASE HMotor
    BY <2>4, MotorKeeps
  <2>5. CASE HTick
    BY <2>5, TickKeeps
  <2>6. CASE UNCHANGED historyVars
    <3>1. Kept
      BY <2>6 DEF HistoryInv, Kept, LineAgrees, historyVars, vars
    <3>2. Decided
      BY <2>6, NothingDecided DEF historyVars, vars
    <3> QED  BY <3>1, <3>2
  <2> QED  BY <2>1, <2>2, <2>3, <2>4, <2>5, <2>6 DEF HNext
<1>3. PoliceAgrees'
  BY PoliceKeeps
<1> QED  BY <1>1, <1>2, <1>3 DEF Kept, HistoryInv

LEMMA NextHistory == HistoryInv /\ [HNext]_historyVars => HistoryInv' /\ Decided
BY HistoryStep

\* The inductive invariant: the node and the observer agree on the pending
\* signal, the wait, the lanes of a turn, and the line in view.
THEOREM ObserverAgrees == HSpec => []HistoryInv
BY InitHistory, NextHistory, PTL DEF HSpec

\* A stop is left only on a signal confirmed in that stop, or blindly.
THEOREM ConfirmedDepartures == HSpec => DeparturesAreConfirmed
BY ObserverAgrees, NextHistory, PTL DEF HSpec, DeparturesAreConfirmed, Decided

\* A signal that enough frames of a stop in a row have shown is obeyed: what is
\* pending is never behind the camera.
THEOREM ObeyedSignals == HSpec => []SignalsAreObeyed
<1>1. HistoryInv => SignalsAreObeyed
  BY DEF HistoryInv, PendingAgrees, SignalsAreObeyed
<1> QED  BY <1>1, ObserverAgrees, PTL

\* A turn on a signal outlasts neither enough police frames nor enough lane
\* messages: the node's two counters are those of the observer, and at their
\* limits there is no such turn.
THEOREM TimelyTurns == HSpec => []TurnEndsOnTime
<1>1. HistoryInv => TurnEndsOnTime
  <2> SUFFICES ASSUME HistoryInv, SignalTurn PROVE TurnEndsOnTime
    BY DEF TurnEndsOnTime
  <2>1. seen.messages < LeftTurnTimeoutFrames
    BY DEF HistoryInv, SafetyInv, SignalTurnIsBounded, TurnIsBounded, SignalTurn,
           TurnAgrees, SignalTurnAgrees
  <2>2. seen.police < PoliceConfirmationFrames
    <3>1. ~(seen.police >= PoliceConfirmationFrames)
      BY DEF HistoryInv, PoliceAgrees, SafetyInv, PoliceBlocksSignalTurn
    <3> QED  BY <3>1, FrameParameters DEF HistoryInv, SeenType
  <2>3. seen.unlit = Off
    BY DEF HistoryInv, PoliceAgrees, SafetyInv, PoliceBlocksSignalTurn
  <2> QED  BY <2>1, <2>2, <2>3 DEF TurnEndsOnTime
<1> QED  BY <1>1, ObserverAgrees, PTL

\* The turn without a signal needs a full wait, no lamp and no confirmed red.
THEOREM BlindTurnLast == HSpec => BlindTurnIsLastResort
BY ObserverAgrees, NextHistory, PTL DEF HSpec, BlindTurnIsLastResort, Decided

\* The turn without a signal ends only after the hold.
THEOREM BlindTurnHeld == HSpec => BlindTurnEndsAfterHold
BY ObserverAgrees, NextHistory, PTL DEF HSpec, BlindTurnEndsAfterHold, Decided

\* After the hard left the car never goes back to the straight approach.
THEOREM HardLeftLasts == HSpec => NeverStraightAfterHardLeft
BY ObserverAgrees, NextHistory, PTL
   DEF HSpec, NeverStraightAfterHardLeft, Decided

\* The car stops once for a line, however long it stays in view.
THEOREM OneStop == HSpec => OneStopPerLine
BY ObserverAgrees, NextHistory, PTL DEF HSpec, OneStopPerLine, Decided

LEMMA TurnEndStep ==
    ASSUME ConfirmationFrames > 1
    PROVE  HistoryInv /\ [HNext]_historyVars
           => (SignalTurn /\ driving'.driving_state = "DRIVE"
               => /\ seen.turn_time >= ApproachSec
                  /\ seen.lost
                  /\ seen.both + 1 >= LaneReacquireFrames)
BY NextHistory DEF Decided

\* A turn on a signal ends in driving only on the new lane, provided that one
\* frame is not enough to confirm a signal: otherwise a frame that stops the
\* turn for a police car can end that stop as well.
THEOREM TurnEndsOnNewLane ==
    ASSUME ConfirmationFrames > 1
    PROVE  HSpec => SignalTurnEndsOnNewLane
BY ObserverAgrees, TurnEndStep, PTL DEF HSpec, SignalTurnEndsOnNewLane
=============================================================================
