# Verification of the FOSCAR Xycar driving stack

TLA+ models of the decision logic of this repository, TLC runs that check them
on small instances, and TLAPS proofs that hold for every debounce length and
every time-out. The models cover the logic that decides when the car stops,
turns, overtakes and which process drives it, the odometry, and the endpoint
that joins ROS to the simulator. Image processing and steering arithmetic enter
only through what they report.

Paths below are relative to the repository; `TL` is
`src/track_drive/track_drive/traffic_Light.py`, `TD` is
`src/track_drive/track_drive/track_drive.py` and `EP` is
`src/ROS-TCP-Endpoint-main-ros2/ros_tcp_endpoint`.

## 1. The system

    camera ──> track_drive (MainLoop) ──/lane_motor_cmd──────────> traffic_light ──/xycar_motor──> car
       │              ├──/stop_line, /lane_detection_status──────>      │  ^
       └──────────────────────────────────────────────────────────>      │  │ /nav2_bypass
    Nav2 ──cmd_vel──> motor_translator ──/xycar_motor──> car             │
     ^                    ^ pkill                                        │
     └── goal_sender ─────┘      (traffic_light waits until motor_translator's publisher is gone)

    simulator (Unity) <──one TCP connection, two threads──> ROS-TCP endpoint <──topics, services──> ROS

| component | state | operations | what is hard | correct when |
|---|---|---|---|---|
| **traffic_light** (`TrafficDetection`, `TL` 18–430) | driving state, pending signal and count, kind of turn, lane counters, three start times, police detector, last stop-line message | camera, stop-line, lane and motor callbacks, one at a time (`rclpy.spin`) | four message streams and the clock interleave freely; one method resets state for four different situations | turns yield to police, every stop ends on a confirmed signal, every turn ends, no timer outlives its state |
| **track_drive** (`MainLoop`, `TD` 1124–1319) | last image and whether it is new; school-zone, checkered-zone and stop-line debounces; overtake phase with three streaks | one loop pass: new image or the old one again | several passes work on one image; the order zone → lane → overtake → command | debounces count images, zone and command agree on every pass, manoeuvres end |
| **handoff** (`goal_sender.py`, `motor_translator.py`, `_wait_for_nav2_completion` in `TL` 809–836) | what each process has done; the waiter's `nav2_active` and `bypass` | processes without locks, Nav2's answers, `pkill`, ROS discovery | the waiter sees the other publisher late; Nav2 may refuse or fail | never two drivers, and the camera does take over |
| **SlideWindow** (`TD`) | window starts and last positions | `run` once per pass | result depends on earlier passes | no left lane reported in the checkered zone |
| **controllers** (`StanleyController`, `PIDController`) | last error | `compute` | real arithmetic | speed bounded by zone and lane |
| **Preprocessing, HSVTuner, LidarOvertakeDecision** | none between images; the last is not instantiated | – | – | – |
| **ROS-TCP endpoint** (`EP`) | per connection a queue and an event its two threads share; over all connections the queue in use, waiting services, pending service id, `RosService.future`; node tables | a reader and a sender thread per connection, a thread per request, executor threads; registration | lost wake-ups, fields shared across threads and connections, a connection that ends while the next begins | the newest connection keeps the queue, each answer reaches its caller, nothing waits for ever |
| **dead_reckoning** | distance, heading, previous stamps | IMU and motor callbacks, one at a time in one callback group | the stamps come from two publishers, one of which sets none | no interval counts twice; the distance jumps at the handoff only |
| **lidar_translator, tf_translator** | none | filters | – | – |
| **launch and config** | – | – | names `pedestrian_detector`, which the source does not contain | – |

`PROJECT.json` lists every component with its status and every hazard with the
properties aimed at it, or the reason why none is.

## 2. Plan

Order of importance: what drives the car comes first.

1. *Done*: `TrafficLight` (node), `Intersection` (its abstract specification),
   `TrafficHistory` (observer), `TrafficLiveness` (fair world),
   `TrafficLight_proofs`.
2. *Done*: `TrackDrive`, `TrackHistory`, `TrackLiveness`, `TrackDrive_proofs`.
3. *Done*: `Handoff`, `Handoff_proofs`.
4. *Done*: `DeadReckoning`, an integer model of stamps and distances, and
   `DeadReckoning_proofs`. Left: the IMU's heading and yaw rate.
5. *Done*: `CameraSection`, the composition of `TrackDrive` and `TrafficLight`
   through their topics, `CameraSectionMC`, the images of its run, and
   `CameraSection_proofs`.
6. *Done*: `Endpoint`, the endpoint's threads, queues and service matching,
   `UnityCalls`, the abstract specification of its calls, and `Endpoint_proofs`.
7. *Done*: proofs of the observer properties, `TrackHistory_proofs` and
   `TrafficHistory_proofs`. Every invariant and every action property of a
   passing run is proved, and so are both refinements.
8. *Done*: deadlines counted by the observers (how late a zone, a manoeuvre, a
   turn or an obeyed signal may be) and their proofs; where the behaviour that a
   finding shows is impossible after all.
9. *Left*: the IMU's heading. Registration of topics and services in the
   endpoint, which needs a model of how rclpy treats a node destroyed while a
   thread uses it.

Every module that is proved about uses no recursive operator.

## 3. The modules and the code

`PROJECT.json` "map" gives the lines each definition stands for.

### TrafficLight

One action per callback plus `Tick` for the clock. `driving` groups the fields
that `_set_driving_state` resets; `police` is the police detector;
`stop_line_detected` the last stop-line message; `motor` the last command.
`SetDrivingState`, `StartLeftTurnIfSignalTimedOut`, `UpdateLaneReacquisition`
and so on carry the names of the methods. `_signal_left_turn_approach_is_active`
both answers and changes state, so it is two operators: `ApproachIsActive`
(answer) and `EndApproachIfElapsed` (effect), applied wherever it is called.

Abstractions:

- A `*_started_at` field becomes the time elapsed since, `Off` for `None`. A
  timer stops at the limit it is compared with, and a counter compared only by
  `>=` stops at its threshold: no test in the code tells larger values apart.
- A frame is what the detectors report: red, green, police lights.
- `CameraCallback` is the whole of `detect_traffic_light`: the police detector
  with its possible stop, then `update_driving_state` on the result. So with
  `confirmation_frames = 1` a turn that yields can leave its stop in the same
  frame.
- Messages a callback ignores (conversion errors, lane messages of fewer than
  two entries) change nothing and are stuttering steps.

`Intersection` is what the node promises at a crossing without counting or
timing: five phases and a police flag. `PhaseOf` maps the node to it and
`ImplementsIntersection` is checked and proved.

`TrafficHistory` adds `seen`, a record of the messages since the present stop or
turn began: what the frames of this stop meant and how many in a row, the time
waited, how many frames in a row showed police lights and, after a police car was
confirmed, how many showed none (`unlit`), how many lane messages came since the
approach and what they showed, the time since the left lane was back. It reads
none of the node's counters, flags or timers (only the driving state, the
debounced police flag and the command), so its properties compare the node's
bookkeeping with an independent one.

`TrafficLiveness` puts the node before a `world` that changes one thing at a
time; the callbacks report it.

### TrackDrive

One pass of `MainLoop.run` is one action: `NewImage` when `spin_once` took an
image, `SameImage` when it timed out. The two `if is_new_image or ... is None`
blocks run exactly in `NewImage`, because the first image is always new.
`update_gate` and the command are in both. An image is its pixel tests; the
sliding windows' answer is chosen anew on every pass since it depends on their
earlier answers. A speed is known by its bound: `SPEED_MIN` when no lane is
seen, 15 in a school zone, `SPEED_MAX` otherwise. The steering angle is left out
but for the lateral offset it follows. The debug window's ESC key and crashes of
the process are left out.

`TrackHistory` counts outside the program, in `shown`: runs of images with and
without yellow ground, a line, the yellow car, a checkered floor, and the passes
of the present overtaking that worked on an image without the car.
`TrackLiveness` extends it with fairness, so one run serves both.

### CameraSection

Instances of `TrackDrive` and `TrafficLight` over their own variables, and the
two subscription queues between them, `stop_line_topic` and `lane_topic`. They
are `KEEP_LAST`: a message too many replaces the oldest. The code's depth is 10.
The queues are served in any order relative to each other and to the camera,
motor and clock actions of the traffic-light node (`Others`). A pass without a
new image (`SamePass`) moves the lane follower alone and sends neither message.
Left out is the queue of `/lane_motor_cmd`, since the node answers a command from
its own state. Which images the lane follower may take and what the
traffic-light node may see are the constants `Frames` and `Sights`: the proofs
hold for any, with school zones, yellow cars and police among them, and
`CameraSectionMC` names those of the run, which shows no police lights.

Two observers are not part of the program and no action reads them. `tiles`
counts, from the images alone, how many in a row have shown a checkered floor, up
to `FloorBound`, the entry and the exit count together. A lane message carries a
field the program does not send, `floor`, which says whether `tiles` had got that
far when it was sent. It is not the zone flag: the first images of a floor, before
the zone is on, still report the pattern as a left lane and may count towards the
end of a turn. `LaneMessage` is the message the lane follower last had to send.

### Handoff

Four processes and Nav2. The waiter's view of the publisher, `graph`, is a copy
that `Discover` brings up to date at any later time. `GoalSender`'s constructor
blocks, so the answers of Nav2 are handled only after `PublishInitialPose`.
`_wait_for_green` is commented out and so not an action (the run guide,
`실행순서.txt` line 70, still speaks of waiting for green). `pkill` marks the
process `killed`; its publisher lasts until it is `gone`. Nav2 and discovery are
external and modelled as freely as the code allows for.

### DeadReckoning

`motor_callback` and `imu_callback` with the two publishers of `/xycar_motor` and
the queue between them. A speed is the distance it makes in one unit of time, so
sums are exact. The heading is left out: the position is the length of the path,
negative backwards. `odometry` holds `motor_prev_time`, `dist` and the published
position. `motor_translator` stamps its commands with the present time, the
traffic-light node leaves the stamp zero, and `HandOver` may come while stamped
commands are still queued. The queue drops its oldest command when full, as a
ROS history does. The commands of the two publishers arrive in the order they
were sent; that some of the lidar driver's arrive after the first of the camera's
is not modelled. The clock starts above zero, as system time does.

### Endpoint

An access to state that threads share is an action of its own, but for the merges
listed below; what a thread does on its own between two of them is merged into
the first. The variables
`reader`, `sender`, `call` and `request` say where the threads are.

| code | actions |
|---|---|
| `listen_loop`, start of `ClientThread.run` (`EP/server.py`, `client.py`) | `Accept` |
| `ClientThread.run` and what it calls | `ReaderRead`, `ReaderIOError`, `ReaderHeader`, `ReaderFlag`, `ReaderSpawn`, `ReaderRefuse`, `ReaderAnswer`, `ReaderResume`, `ReaderClear`, `ReaderEnd` |
| `UnityTcpSender.sender_loop` (`tcp_sender.py`) | `SenderStart`, `SenderSend`, `SenderHalts`, `SenderEnd` |
| `RosSubscriber.send`, `send_unity_message` | `MessageSend`, `MessagePut` |
| `UnityService.send`, `send_unity_service_request`, `ThreadPauser` | `CallCheck`, `CallRegister`, `CallPut`, `CallSleep`, `CallReturn` |
| `service_call_thread`, `RosService.send` | `RequestCall`, `RequestPoll`, `RequestCollect`, `RequestReply` |
| ROS, Unity and the network (external) | `RosAnswers`, `UnityAnswers`, `UnityRequests`, `UnityStrays`, `LinkLost` |

- `pending_srv_id` and `pending_srv_is_request` are fields of the server, set by
  two assignments and read by the reader of any connection; so they are here.
- The test of `halt_event` at the top of a loop is merged with the end of the
  pass before (`Loop`). The reset of `pending_srv_id` after a service message is
  an action of its own (`ReaderClear`): it wipes out a header that another
  connection has taken since.
- The test of `queue` and the `put` are two actions in a topic message
  (`MessageSend`, `MessagePut`) and in a call of a Unity service (`CallCheck`,
  `CallPut`), so a disconnect may come between them and the put then raises, which
  ends the callback. They are merged (`PutIfConnected`) in the reply to a request
  and in the error replies of the reader; for the latter the outcome of a put on
  `None`, which ends the reader, is kept.
- `send_unity_service_response` takes its entry out of `services_waiting` under
  `srv_lock` and sets the pauser's `result` after releasing it; `ReaderAnswer`
  does both. Only the caller reads `result`, once it is notified (`ReaderResume`,
  an action of its own), so no thread can tell the state between the two;
  `CallsAreMatched` takes them as one step.
- A sender's queue holds the handshake before it is published as `queue`, as in
  the code. A message sent into a connection whose peer has gone is lost or
  raises. What the peer sent last may be cut off (`LinkLost`), between a header
  and its message too.
- A connection is a slot: when both its threads have ended it stands for the next
  connection.
- Each call is of another service, because calls of one service exclude each
  other (the node's callback group). A callback occupies one of `Workers`
  executor threads until it returns, asleep or not, and so does a topic message
  between the test of `queue` and its put (`Busy`).
- Topic messages stand for both directions: one that ROS sends to a subscribed
  topic, or one that Unity sends to a topic it has not registered.
- `send_topic_list`, keepalive messages and the publishing of messages to
  registered topics change none of this state and are left out.

`UnityCalls` is what `send_unity_service_request` promises its caller, without
ids, queues, connections or threads: a call fails before Unity is asked or Unity
is asked; only then is it answered, once; it returns only with an answer. `Phase`
maps the five places of a call to its four phases and `result` is its answer;
`ImplementsCalls` is checked and proved.

`EndpointMC` adds the symmetry of the slots.

Operators named `..._Fault...` stand just before the operator they alter. They
are defects that the checks are shown to catch; no specification uses them.

## 4. The runs

| run | asks | bounds | distinct states |
|---|---|---|---|
| `traffic` | do flags, counters and timers stay in step in every order of callbacks; is `Intersection` implemented; do the decisions agree with what the sensors said, and do they come in time | frames 3 (police 2/3), lane 3, lane time-out 5, times 2/3/2 | 332 330 |
| `traffic_liveness` | do turns end and waits get decided | frames 2 (police 1), lane time-out 3, times 1 | 102 960 |
| `blind_turn` | finding 1 | frames 2, lane time-out 4, times 1/2/1 | – |
| `track_drive` | do zones, manoeuvre and command agree on every pass; do the debounces count images; how late may a zone change or a manoeuvre end; do zones follow the road | school zone entry 2 and exit 3, all others 2 | 54 955 |
| `overtake_frames` | finding 2 | as `track_drive`, checkered exit 3 | – |
| `handoff` | is there one driver, and does the camera take over | none: the whole state space | 523 |
| `handoff_missed` | finding 3 | none | – |
| `dead_reckoning` | is the odometry a path the car can have driven; what does the handoff do to it | speed ±2, clock 1..4, queue 2 | 27 514 |
| `endpoint` | do the threads of a connection end together; who has the queue; are answers matched with calls; is `UnityCalls` implemented | 2 connections, 1 call, 1 message, 1 request, 1 worker | 4 032 147 |
| `endpoint_future` | finding 4 | 1 connection, 2 requests | – |
| `endpoint_sleep` | finding 5 | 1 connection, 1 call, 1 message, 1 worker | – |
| `camera_section` | what do dropped and delayed messages between the two camera nodes do; is the newest one ever lost; does a floor long in view end a turn; does a line that stays in view stop the car | images: a plain road, a floor in a school zone, a yellow car at a line; lamps without police; queues of 2, checkered entry 2 and exit 1, other counts 1, lane time-out 2, times 0 | 369 714 |

Why the bounds are enough. The code uses a threshold only in `count >= limit` and
a time only in `elapsed >= limit`. With a threshold of 2 a counter has a value
below it, one just below it and the one at it, so interruptions before the last
frame occur; 3 (`traffic`) adds a middle value. The lane time-out exceeds the
reacquisition count, so both ends of a turn occur, in both orders. Entry and exit
counts of the school zone differ (2, 3), so confusing them shows; for the
checkered zone, whose net count swings between both limits, equal counts leave
the state space small enough for the runs of images the observer counts. The
times are small but `Tick` may happen between any two callbacks, zero or many
times. In `dead_reckoning` a queue of 2 is full and drops commands, also at the
handoff, and three ticks allow intervals of different lengths. In
`camera_section` a queue of 2 overflows and still holds the edge of the stop line
between two messages; an entry count of 2 leaves room for a floor that is in view
while the zone is not yet on, and the bound is exact: with `FloorBound` one
smaller TLC finds a floor message that counts. In `endpoint` two slots suffice
for an old connection to end during, before and after the start of the next; a
call meets the end of its connection at each of its five steps, and a header on
one connection meets a message on the other, which is then taken for the answer,
also a second time. Two calls exceed fifteen million states and are left to the
proofs, which hold for any number of connections, calls, messages and requests.

There is no state constraint: every run is exhaustive for its constants. The one
symmetry is that of the connection slots in `endpoint`, where nothing
distinguishes them and only safety is checked. Deadlock is checked in every run.
The proofs remove the bounds for the properties they cover.

### Properties, in words

- `PoliceBlocksSignalTurn`: a police car confirmed and a turn on a signal never
  coincide. `TurnEndsOnTime`: a turn on a signal outlasts neither
  `police_confirmation_frames` frames with police lights in a row nor
  `left_turn_timeout_frames` lane messages after the approach, and is not taken
  up again before `police_clear_frames` frames in a row have shown the police car
  gone, whichever callbacks came between. `SignalsAreObeyed`: once enough frames
  of one stop have shown a signal the car does what it says; no stop entered
  within a frame, police car or time-out costs a frame.
- `DeparturesAreConfirmed`, `BlindTurnIsLastResort`, `SignalTurnEndsOnNewLane`,
  `BlindTurnEndsAfterHold`, `NeverStraightAfterHardLeft`, `OneStopPerLine`: each
  decision against the observer.
- `SignalTurnEnds`, `WaitIsDecided`, `GreenFreesTheCar`, `BlindTurnEnds`: it
  goes on.
- `SchoolZoneIsCautious`, `OvertakesOnce`: the pass leaves nothing out of step.
- `SchoolZoneIsDebounced`, `StopLineIsConfirmed`, `CheckeredOutlastsFloor`:
  images counted, not passes. `CheckeredOutlastsFloor` is worth knowing: the
  checkered counter is a net count, so leaving takes entry + exit images.
- `ZonesFollowInTime`: from any state, enough images of one kind in a row bring
  each zone flag to what they show; for the checkered zone that takes the entry
  and exit counts together. `OvertakeEndsOnTime`: with the car out of view, the
  right lane is left after at most the passes needed to lose it and to wait.
- `ZonesFollowRoad`, `OvertakeReturns`: as long as images arrive, it happens.
- `OneDriver`, `HandoffAfterGoal`, `HandoffHappens`, `BypassEndsWait`: the
  camera takes over exactly when it should.
- `EstimateIsDrivable`: while commands carry stamps the estimate is within what
  the speed limit allows for the time the stamps span. `OdometryEndsAtHandoff`:
  the first command without a stamp takes `speed * last stamp` off the estimate
  and the estimate never moves again. With system time that is a jump of
  thousands of kilometres for any speed but zero; no document says otherwise, so
  it is a property and not a finding.
- `ThreadsFollow`: whichever thread of a connection ends first, the other finds
  `halt_event` set, and the queue in use is one a sender still empties.
  `LatestKeepsQueue`: however late the threads of an old connection end, they
  never cut off the newer one.
- `CallsAreMatched`: a call without an answer can still be given one under its
  own id and no other call under that id; a call that was woken has its answer.
  `ImplementsCalls`: a call is answered only after its request was put into a
  queue, only once, and returns only with an answer. Both hold although
  `pending_srv_id` crosses connections, because `services_waiting` is emptied
  under its lock.
- `ResponseIsOwn` and `SleepBreaksNothing` are what two texts of the endpoint
  say; findings 4 and 5.
- `NewestIsKept`: whatever the two queues have dropped, the last message of each
  is what the lane follower last said, and with no stop-line message under way
  the traffic-light node agrees about the line. `TurnEndsOffFloor`: a lane
  message sent when the last `FloorBound` images (entry and exit count together)
  all showed a checkered floor is never counted as the left lane that ends a
  turn, whatever state the zone was in when the floor began and although it may
  have ended while the message was queued. Messages of the first floor images may
  count. `LineStopsCar`: a stop line that stays in view stops a driving car,
  whatever messages the queue dropped.

### Fairness

- `TrafficLiveness`: weak fairness of the camera, lane and motor callbacks and of
  time. The simulator streams images; `MainLoop.run` publishes a lane status per
  image and a command per pass and never waits for this node; `rclpy.spin` serves
  every subscription that has a message. Nothing is assumed of the world or of
  stop lines. `WaitIsDecided`, `GreenFreesTheCar` and `BlindTurnEnds` have a
  premise on what the camera keeps showing, since a debounce may be starved by
  flicker.
- `TrackLiveness`: weak fairness of taking a new image. Nothing is assumed of
  what it shows except in the premises.
- `CameraSection`: weak fairness of `LanePass` and `TakeStopLine`: images keep
  coming and the stop-line subscription is served. Not of the lane messages, the
  camera or time.
- `Endpoint` (`LiveSpec`): weak fairness of each reader, sender, call and
  message, and of Unity's answers, so that the counterexample of finding 5 is not
  one of a thread that never runs. Nothing is assumed of how long a connection
  lasts; `SleepBreaksNothing` has the premise that none is lost.
- `Handoff`: weak fairness of `motor_translator`'s start and end, `goal_sender`,
  discovery, and the waiter's start and poll. Not of Nav2, nor of the operator.
  `HandoffHappens` has the premise that the waiter once saw the publisher: a
  waiter started after `motor_translator` has gone waits until a bypass.

### Findings

1. `blind_turn`: a lamp seen during the wait does not restart the waiting time,
   so one dark frame after it starts the left turn "because no signal was seen
   for ... s" (`TL` 290; docstring `TL` 280, log `TL` 292).
2. `overtake_frames`: the overtake decision counts passes of the loop, not
   frames (`TD` 1296; comment `TD` 943, and the reason for not doing so, `TD`
   1269).
3. `handoff_missed`: `motor_translator` is killed on any result
   (`goal_sender.py` 92), also when waypoints were missed; the run guide says
   "when Nav2 reaches its goal" (`실행순서.txt` 71).
4. `endpoint_future`: `RosService.send` keeps its call in `self.future`
   (`EP/service.py` 63), which all threads that call that service share. A second
   request overwrites it and the first thread returns the second one's response
   (docstring, `service.py` 45: "calls the service with the message, and returns
   the service's response").
5. `endpoint_sleep`: `sleep_until_resumed` waits without looking at `result`
   (`EP/thread_pauser.py` 10). An answer that comes just before is a `notify`
   without a waiter; the callback sleeps for ever on the only executor thread and
   no message of any topic reaches Unity again (`tcp_sender.py` 108: "it won't
   break anything if we sleep now"). There is one thread because
   `setup_executor` (`server.py` 146–153) counts tables that are still empty.

Two more disagreements are stated without a run. The comment at `EP/server.py` 309
says that the next message is a service response, but `pending_srv_id` outlives
its connection: when one is lost between the header of an answer and the answer,
the first message of the next is returned as the answer (`EP/client.py` 197).
`Endpoint` has these behaviours; `UnityCalls` says nothing of what an answer
contains, so `ImplementsCalls` holds in spite of them. The comment at
`EP/tcp_sender.py` 49 says that `queue` is "always the queue for the currently
active thread": two connections may be active at once, and when the newer one ends
`queue` is `None` although the older one's sender runs on.

## 5. The proofs

All with TLAPS, for every value of the constants allowed by the named
assumptions. `FrameParameters` and `TimeParameters` (in `CameraSection`
`LightFrames` and `LightTimes`) are the constructor's `max(1, ...)` and `max(0.0,
...)`; `DebounceFrames` (in `CameraSection` `LaneFrames`): the thresholds are
positive; `NoImageIsNone` and `NoneIsNothing`: `None` is no other value;
`SpeedLimit`, `Clock`, `HistoryDepth` and `QueueDepth`: a limit that is not
negative, a clock above zero, queues of at least one; `SomeWorker`: the executor
has a thread; `CallbacksApart`: a call is not a topic message, so that `Busy`
counts both; `CameraFrames` and `CameraSights`: images and sights are what the
detectors can report; `IdsApart`: an id that Unity chose for a request of its own
is not one the server gives to a call, since `next_srv_id` starts from 1001.
`Handoff` has no constants. One theorem, `TurnEndsOnNewLane`, also assumes
`ConfirmationFrames > 1`, as explained below.

| theorem | says |
|---|---|
| `TrafficLight_proofs`: `TypeCorrectness`, `PoliceSafety` | invariants of `traffic` |
| `TrafficLight_proofs`: `TurnBound`, `TimersScoped` | the lane-loss time-out covers every turn on a signal; no timer outlives its state |
| `TrafficLight_proofs`: `Refinement` | the node implements `Intersection` |
| `TrafficHistory_proofs`: `ConfirmedDepartures`, `BlindTurnLast`, `TurnEndsOnNewLane`, `BlindTurnHeld`, `HardLeftLasts`, `OneStop` | the node decides only as the observer would |
| `TrafficHistory_proofs`: `ObeyedSignals`, `TimelyTurns` | and does decide, in time |
| `TrackDrive_proofs`: `TrackTypeCorrectness`, `SchoolZoneCaution` | invariants of `track_drive` that need no observer |
| `TrackDrive_proofs`: `OffsetSafety`, `ZoneSafety` | the commanded offset is that of the overtaking phase; zone flags agree with their counters, and no left lane is reported in a checkered zone |
| `TrackHistory_proofs`: `StopLineConfirmation`, `OvertakingOnce`, `SchoolZoneDebounce`, `CheckeredZoneOutlasts`, `ZonesInTime`, `OvertakeDeadline` | the properties of `track_drive` that need the observer |
| `TrackHistory_proofs`: `DebouncedOncePerImage` | where finding 2 ends |
| `CameraSection_proofs`: `NewestStays`, `FloorEndsNoTurn` | `NewestIsKept` and `TurnEndsOffFloor`, for queues of any depth and any images |
| `CameraSection_proofs`: `SectionRefinement`, `SectionLaneSafety` | in the composition each node is still the node that was proved alone |
| `Handoff_proofs`: `SingleDriver`, `CameraAfterGoal` | the invariants of `handoff` |
| `Handoff_proofs`: `EndedAtTheGoal` | where finding 3 ends |
| `DeadReckoning_proofs`: `OdometryTypes`, `OdometryIsDrivable`, `OdometryStops` | the properties of `dead_reckoning` |
| `Endpoint_proofs`: `EndpointTypes`, `ThreadsAreJoined`, `LatestQueueIsKept`, `CallsAreServed`, `CallsRefine` | the properties of `endpoint`, for any number of connections, calls, messages, requests and executor threads; the last one says that it implements `UnityCalls` |
| `Endpoint_proofs`: `OwnResponseAlone`, `LostWakeupsBlock` | where finding 4 ends; how far finding 5 reaches |

*TrafficLight.* The inductive invariant is `SafetyInv`, the conjunction of
`TypeOK`, `PoliceBlocksSignalTurn`, `SignalTurnIsBounded` and `TimersMatchState`;
the last two speak of the node's own fields alone and are kept for the proofs. The
types supply the ranges the others reason with. `SignalTurnIsBounded`
says more than "the time-out is on": it fixes all three flags of the turn and
keeps both lane counters below their limits, without which a lane message could
arrive with the limit already passed. The proof has one lemma per helper method
on what it keeps of a driving record, then one per callback. `Refinement` maps
each callback to the abstract step with the same meaning, under `SafetyInv`.

*TrafficHistory.* `HistoryInv` adds to `SafetyInv` how each counter and timer
that a decision reads relates to the observer's record of the same messages: a
pending signal is what the frames of this stop showed, counted exactly as often
as they did, and none that is confirmed is still waiting (`PendingAgrees`); the
waiting time, hold, approach and lane messages are the observer's (`TurnAgrees`);
the police detector has counted the lights it was shown and, while a police car
is confirmed, the frames without lights since (`PoliceAgrees`); and a line not
seen to go is still reported (`LineAgrees`). `DeparturesAreConfirmed` would need
only that no more frames are counted than were seen; `SignalsAreObeyed` needs
that no fewer are, which is why the counts must be equal. Each callback is split
into the parts that exchange fields of both records at once; a state entered
makes both start over (`EntryAgrees`). `TurnEndsOnNewLane` needs
`ConfirmationFrames > 1`. With 1, a frame may confirm a police car, which stops a
turn on a signal, and show the green that ends the stop: the turn has ended in
driving within one callback, on no lane at all. TLC finds this step when the
run's constant is 1. The code's default is 3 (`TL` 45, 63) and nothing in the
repository sets another value.

*TrackHistory.* `CountersFollow` says how the node's counters and the count of
images differ. The school-zone and stop-line counters are the observer's, clamped.
The checkered counter is a net count: the images without floor since the zone was
entered are bounded from below by how far it has fallen, and the present run of
either kind from above by how far it could have been moved the other way. The
passes without the car are shared between the streak that loses it and the wait
after it (`AwayFollows`).

*CameraSection.* `SectionInv` is the invariant of the traffic-light node together
with the types of the queues, which are all the node relies on. The node's part
is not proved again: each of its steps is a step of `TrafficLight`, whose lemmas
are taken over with `INSTANCE TrafficLight_proofs`. `FloorEndsNoTurn` rests on
`FloorFollows`: the zone's counter lags behind the observer's by at most the exit
count, the lowest it can have started from, so after `FloorBound` images of floor
in a row it has reached the entry count and the zone is on, wherever it was; and
then on the message having been computed with the zone flag of its own image. A
message without a left lane counts for nothing (`NoLeftLaneNoProgress`), whenever
it is taken.
`NewestIsKept` follows the last element of a queue through an append that may drop
the first. `SectionRefinement` and `SectionLaneSafety` prove that each step of the
composition is a step or a stutter of either node, so a theorem of the form
`Spec => P` about one node holds in the composition as well, `Intersection` among
them. That is a statement about how the nodes are joined: the inputs the queues
deliver are inputs the node was proved for, whatever they dropped. `Frames` is any
set of images and passes without a new one are included, so school zones begin and
overtaking happens in the behaviours that `SectionLaneSafety` is about, as they do
in the run `camera_section`.

*TrackDrive.* `TrackInv` adds to the types that the streaks of the overtake
decision match its phase: `enter_streak` below its limit while disabled,
`lose_streak` below its limit in LANE2, `wait_frames` below its limit in WAITING.
The code has no clamp on these; the type invariant is inductive only with it.

*Handoff.* `HandoffInv` adds two facts that close the gap discovery opens:
once the waiter has seen the publisher, `motor_translator` has started, and
if the graph then says there is none, it is gone (`GraphIsLate`); and it is
killed only after the goal has ended (`KilledAfterGoal`).

*DeadReckoning.* `Inv` adds what orders the queue: stamps never decrease and
unstamped commands come last (`StampsInOrder`), the node's last stamp is not
after any on its way (`NodeIsBehind`), and while `motor_translator` drives
everything is stamped (`AllStamped`). Without `NodeIsBehind` an interval could
begin before the last one ended, so `EstimateIsDrivable` alone is not inductive.
`OdometryStops` is an action property that follows from the same invariant.

*Endpoint.* Three invariants, one upon the other. `Types` adds to the type
invariant that inboxes hold only what Unity can send. `ThreadsFollow` is inductive
by itself, given the types. `Matching` adds to `CallsAreMatched` the order of
events (`InTime`): an entry of `services_waiting` has no result yet, and a reader
resumes only a call it has given its result to. `Promised` adds to that what no
single step shows: no answer comes before the request. An id is `Answerable` when
it has been given out and the call that waits under it has put its request, and
`AskedFirst` says so of every id there is: on its way to Unity, known to Unity, on
its way back, in the hands of a reader, or pending for the next message. Without
one of these places an answer taken over from another connection could meet a call
that is registered and has not been put. Under `Promised` the put of the request
(`CallPut`) is the step at which Unity is asked, and every other step of the
endpoint is one of the other three of `UnityCalls`, or a stutter.

*Where the findings end.* The runs of §4 show that each of five texts is not true
of the code. Theorems say under which condition four of the behaviours are
impossible, or how far they reach: finding 2 needs a pass without a new image
(`DebouncedOncePerImage`), finding 3 a goal that Nav2 missed (`EndedAtTheGoal`),
finding 4 two threads between call and response at the same time
(`OwnResponseAlone`). `LostWakeupsBlock` says that finding 5 is not a matter of
the one executor thread: a lost wake-up is lost for good, and once as many are
lost as there are threads, no callback ever starts again. It rests on
`WorkersSuffice`, that the callbacks under way never exceed the threads, for any
number of calls. Finding 1 has no such condition beyond the one it names.

Model-checked only: liveness under fairness (`SignalTurnEnds`, `WaitIsDecided`,
`GreenFreesTheCar`, `BlindTurnEnds`, `ZonesFollowRoad`, `OvertakeReturns`,
`HandoffHappens`, `BypassEndsWait`, `LineStopsCar`), which like ENABLED is out of
the prover's reach. `ZonesFollowInTime`, `OvertakeEndsOnTime`, `TurnEndsOnTime` and
`SignalsAreObeyed` are the parts of it that are safety, with a deadline in images,
passes or messages instead of "in the end", and these are proved.

## 6. Not modelled

- Pixel processing, window positions, curve fits and steering arithmetic: their
  results are inputs. The controllers' real arithmetic is out of TLC's reach.
- Registration in the endpoint: what a thread sees that uses a node another one
  destroys, and what becomes of an exception inside an executor callback, is
  decided by rclpy. `Endpoint` begins where everything is registered.
- The heading in dead reckoning.
- Crashes of single processes: nothing restarts them.
- `LidarOvertakeDecision`, which is never instantiated; the lidar and tf
  translators, which keep no state; the launch files, of which `Handoff` takes
  the processes and `stop_on_failure`; Nav2 beyond its answers.
