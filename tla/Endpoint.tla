------------------------------ MODULE Endpoint ------------------------------
(***************************************************************************)
(* The ROS-TCP endpoint that joins the simulator (Unity) to ROS: the       *)
(* connections Unity makes, the two threads that serve each of them, and   *)
(* the matching of service requests with their answers in both directions. *)
(*                                                                         *)
(* A connection has a reader (ClientThread.run) and a sender               *)
(* (UnityTcpSender.sender_loop) with a queue of its own.  Callbacks of the *)
(* ROS executor, service threads and readers put what is meant for Unity   *)
(* into UnityTcpSender.queue: the queue of one connection, or None.  An    *)
(* action is one access to state that threads share.                       *)
(*                                                                         *)
(* A connection of the model is a slot: once both its threads have ended   *)
(* it stands for the next connection Unity makes.                          *)
(***************************************************************************)
EXTENDS Integers, Sequences, FiniteSets

CONSTANTS
    Conns,    \* connections that can exist at the same time
    Calls,    \* calls by ROS of services of Unity, each of another service
    Messages, \* topic messages, each sent once: by ROS to a topic Unity has
              \* subscribed to, or by Unity to one it has not registered
    Requests, \* calls by Unity of one service of ROS
    Workers,  \* threads of the MultiThreadedExecutor
    None      \* Python's None

ASSUME SomeWorker == Workers \in Nat \ {0}

ASSUME NoneIsNothing ==
    None \notin Conns \cup Calls \cup Messages \cup Requests \cup Nat

\* Each takes a thread of its own.
ASSUME CallbacksApart == Calls \cap Messages = {}

\* Unity numbers its requests below the ids that next_srv_id starts from.
FirstId == 1001

ASSUME IdsApart == \A r \in Requests : r \in Nat => r < FirstId

VARIABLES
    \* per connection
    link,        \* the socket: "closed", "open", or "lost" (the peer is gone)
    reader,      \* where its ClientThread is
    item,        \* the message that thread works on
    sender,      \* where its sender_loop is
    halt_event,  \* the event the two threads share
    local_queue, \* what the sender has still to send
    \* UnityTcpSender and TcpServer
    queue,                  \* the connection whose local_queue is in use
    pending_srv_id,         \* what the next message from Unity belongs to ...
    pending_srv_is_request, \* ... and which way that goes
    next_srv_id,
    services_waiting,       \* pairs <<id, call>>
    \* executor callbacks
    message,     \* which messages have been sent
    call,        \* where UnityService.send is with each call ...
    srv_id,      \* ... the id it took ...
    result,      \* ... and the result of its ThreadPauser
    \* service_call_threads
    request,     \* where the thread of each request is
    reply_id,    \* the id it answers under
    future,      \* RosService.future: the request it belongs to
    answered,    \* the requests whose future is done
    response,    \* what RosService.send returned
    \* Unity
    inbox,       \* per connection, what Unity has sent and no one has read
    asked        \* per connection, the calls Unity has been sent

connVars == <<link, reader, item, sender, halt_event, local_queue, queue>>
pendingVars == <<pending_srv_id, pending_srv_is_request>>
callVars == <<next_srv_id, services_waiting, call, srv_id, result>>
requestVars == <<request, reply_id, future, answered, response>>
unityVars == <<inbox, asked>>
serverVars == <<pendingVars, callVars, requestVars, message>>
vars == <<connVars, serverVars, unityVars>>

Ids == Nat \cup Requests \cup {None}
Things == Calls \cup Messages \cup Requests \cup {None}
ToUnity == {"handshake", "log", "message", "request", "response"}
FromUnity == {"__response", "__request", "data", "stray"}

\* A message, or a service message with its header.
Item == [kind : ToUnity \cup FromUnity \cup {"none"}, id : Ids, of : Things]
NewItem(kind, id, of) == [kind |-> kind, id |-> id, of |-> of]
NoItem == NewItem("none", None, None)
Log == NewItem("log", None, None)

(* A definition named ..._Fault... is a defect the checks are shown to catch *)
(* (PROJECT.json, "mutants"); no specification uses it.                    *)

-----------------------------------------------------------------------------
(* Helpers.                                                                *)

Goto(pc, p, label) == [pc EXCEPT ![p] = label]

\* The test of halt_event at the top of a thread's loop, made together with
\* the end of the pass before.
Loop(c, label) == IF halt_event[c] THEN "ending" ELSE label

Halted_FaultNotSet(c) == halt_event
Halted(c) == [halt_event EXCEPT ![c] = TRUE]

\* The send_unity_* methods lose what they are given when there is no queue.
PutIfConnected(it) ==
    local_queue' = IF queue = None THEN local_queue
                   ELSE [local_queue EXCEPT ![queue] = Append(@, it)]

\* A callback keeps its executor thread until it returns, asleep or not.
Running == {"registering", "putting", "pausing", "asleep", "awake"}
Busy == {k \in Calls : call[k] \in Running}
        \cup {m \in Messages : message[m] = "putting"}
FreeWorker == Cardinality(Busy) < Workers

-----------------------------------------------------------------------------
(* A new connection, and its sender.                                       *)

\* listen_loop and the first lines of ClientThread.run.
Accept(c) ==
    /\ link[c] = "closed" /\ reader[c] = "ended" /\ sender[c] = "ended"
    /\ link' = Goto(link, c, "open")
    /\ reader' = Goto(reader, c, "reading")
    /\ sender' = Goto(sender, c, "starting")
    /\ halt_event' = [halt_event EXCEPT ![c] = FALSE]
    /\ UNCHANGED <<item, local_queue, queue, serverVars, unityVars>>

Greeting_FaultNotSerialized == <<NewItem("__handshake", None, None)>>
Greeting == <<NewItem("handshake", None, None)>>

\* The new queue holds the handshake before anyone else can see it.
SenderStart(c) ==
    /\ sender[c] = "starting"
    /\ sender' = Goto(sender, c, Loop(c, "getting"))
    /\ local_queue' = [local_queue EXCEPT ![c] = Greeting]
    /\ queue' = c
    /\ UNCHANGED <<link, reader, item, halt_event, serverVars, unityVars>>

\* sendall: Unity has it, or it vanishes in a socket whose peer has gone, or
\* the socket raises.
SenderSend(c) ==
    LET it == Head(local_queue[c])
    IN  /\ sender[c] = "getting" /\ local_queue[c] # <<>>
        /\ local_queue' = [local_queue EXCEPT ![c] = Tail(@)]
        /\ \/ /\ link[c] # "closed"
              /\ sender' = Goto(sender, c, Loop(c, "getting"))
              /\ asked' = IF link[c] = "open" /\ it.kind = "request"
                          THEN [asked EXCEPT ![c] = @ \cup {it}] ELSE asked
           \/ /\ link[c] # "open"
              /\ sender' = Goto(sender, c, "ending")
              /\ UNCHANGED asked
        /\ UNCHANGED <<link, reader, item, halt_event, queue, inbox>>
        /\ UNCHANGED serverVars

\* queue.Empty after time_between_halt_checks, and the test that follows.
SenderHalts(c) ==
    /\ sender[c] = "getting" /\ local_queue[c] = <<>> /\ halt_event[c]
    /\ sender' = Goto(sender, c, "ending")
    /\ UNCHANGED <<link, reader, item, halt_event, local_queue, queue>>
    /\ UNCHANGED <<serverVars, unityVars>>

QueueWithout_FaultAnyQueue(c) == None
QueueWithout(c) == IF queue = c THEN None ELSE queue

\* The finally clause of sender_loop.
SenderEnd(c) ==
    /\ sender[c] = "ending"
    /\ sender' = Goto(sender, c, "ended")
    /\ halt_event' = Halted(c)
    /\ queue' = QueueWithout(c)
    /\ local_queue' = [local_queue EXCEPT ![c] = <<>>]
    /\ UNCHANGED <<link, reader, item, serverVars, unityVars>>

-----------------------------------------------------------------------------
(* The reader.                                                             *)

\* The reader is done with its message.
ReaderLoops(c) ==
    /\ item' = [item EXCEPT ![c] = NoItem]
    /\ reader' = Goto(reader, c, Loop(c, "reading"))

\* ... or has one access left: to pending_srv_id, which run resets.
ReaderClears(c) ==
    /\ item' = [item EXCEPT ![c] = NoItem]
    /\ reader' = Goto(reader, c, "clearing")

\* The reader dies of an exception that run does not catch.
ReaderRaises(c) ==
    /\ item' = [item EXCEPT ![c] = NoItem]
    /\ reader' = Goto(reader, c, "ending")

\* read_message, and the branch of run that takes the message: pending_srv_id
\* is the server's, and may come from a header on another connection.
ReaderRead(c) ==
    LET it == Head(inbox[c])
    IN  /\ reader[c] = "reading" /\ inbox[c] # <<>>
        /\ inbox' = [inbox EXCEPT ![c] = Tail(@)]
        /\ item' = [item EXCEPT ![c] = it]
        /\ reader' = Goto(reader, c,
              IF pending_srv_id # None THEN "matching"
              ELSE IF it.kind \in {"__response", "__request"} THEN "heading"
              ELSE "refusing")
        /\ UNCHANGED <<link, sender, halt_event, local_queue, queue, asked>>
        /\ UNCHANGED serverVars

\* IOError: nothing more comes from a peer that has gone.
ReaderIOError(c) ==
    /\ reader[c] = "reading" /\ inbox[c] = <<>> /\ link[c] = "lost"
    /\ reader' = Goto(reader, c, "ending")
    /\ UNCHANGED <<link, item, sender, halt_event, local_queue, queue>>
    /\ UNCHANGED <<serverVars, unityVars>>

\* SysCommands.response and request: two assignments, readable in between.
ReaderHeader(c) ==
    /\ reader[c] = "heading"
    /\ pending_srv_id' = item[c].id
    /\ reader' = Goto(reader, c, "flagging")
    /\ UNCHANGED <<link, item, sender, halt_event, local_queue, queue>>
    /\ UNCHANGED <<pending_srv_is_request, callVars, requestVars, message, unityVars>>

ReaderFlag(c) ==
    /\ reader[c] = "flagging"
    /\ pending_srv_is_request' = (item[c].kind = "__request")
    /\ ReaderLoops(c)
    /\ UNCHANGED <<link, sender, halt_event, local_queue, queue>>
    /\ UNCHANGED <<pending_srv_id, callVars, requestVars, message, unityVars>>

\* A message to a topic nobody registered: the error goes to Unity.  If the
\* queue goes after send_unity_error has tested it, the put raises.
ReaderRefuse(c) ==
    /\ reader[c] = "refusing"
    /\ PutIfConnected(Log)
    /\ ReaderLoops(c) \/ (queue = None /\ ReaderRaises(c))
    /\ UNCHANGED <<link, sender, halt_event, queue, serverVars, unityVars>>

\* send_ros_service_request: a thread of its own for a known service, an
\* error to Unity for any other destination.
ReaderSpawn(c) ==
    LET r == item[c].of
        is_service == r \in Requests /\ item[c].kind = "data"
    IN  /\ reader[c] = "matching" /\ pending_srv_is_request
        /\ \/ /\ is_service
              /\ request' = Goto(request, r, "calling")
              /\ reply_id' = [reply_id EXCEPT ![r] = pending_srv_id]
              /\ ReaderClears(c)
              /\ UNCHANGED local_queue
           \/ /\ ~is_service
              /\ PutIfConnected(Log)
              /\ ReaderClears(c) \/ (queue = None /\ ReaderRaises(c))
              /\ UNCHANGED <<request, reply_id>>
        /\ UNCHANGED <<link, sender, halt_event, queue, pendingVars>>
        /\ UNCHANGED <<future, answered, response, callVars, message, unityVars>>

Taken_FaultKept(k) == services_waiting
Taken(k) == services_waiting \ {<<pending_srv_id, k>>}

Resulted_FaultLate(c, k) == result
Resulted(c, k) == [result EXCEPT ![k] = item[c]]

\* send_unity_service_response: services_waiting[srv_id] is taken out under
\* srv_lock and given its result.  For an id nobody waits for this raises a
\* KeyError, and the id stays pending.
ReaderAnswer(c) ==
    /\ reader[c] = "matching" /\ ~pending_srv_is_request
    /\ \/ \E k \in Calls :
            /\ <<pending_srv_id, k>> \in services_waiting
            /\ services_waiting' = Taken(k)
            /\ result' = Resulted(c, k)
            /\ item' = [item EXCEPT ![c] = NewItem("data", None, k)]
            /\ reader' = Goto(reader, c, "resuming")
       \/ /\ ~\E k \in Calls : <<pending_srv_id, k>> \in services_waiting
          /\ ReaderRaises(c)
          /\ UNCHANGED <<services_waiting, result>>
    /\ UNCHANGED <<link, sender, halt_event, local_queue, queue, pendingVars>>
    /\ UNCHANGED <<next_srv_id, call, srv_id, requestVars, message, unityVars>>

\* condition.notify wakes the call if it waits already.
ReaderResume(c) ==
    LET k == item[c].of
    IN  /\ reader[c] = "resuming"
        /\ call' = IF call[k] = "asleep" THEN Goto(call, k, "awake") ELSE call
        /\ ReaderClears(c)
        /\ UNCHANGED <<link, sender, halt_event, local_queue, queue, pendingVars>>
        /\ UNCHANGED <<next_srv_id, services_waiting>>
        /\ UNCHANGED <<srv_id, result, requestVars, message, unityVars>>

\* self.tcp_server.pending_srv_id = None, which also wipes out a header that
\* another reader has taken since.
ReaderClear(c) ==
    /\ reader[c] = "clearing"
    /\ pending_srv_id' = None
    /\ ReaderLoops(c)
    /\ UNCHANGED <<link, sender, halt_event, local_queue, queue>>
    /\ UNCHANGED <<pending_srv_is_request, callVars, requestVars, message, unityVars>>

\* The finally clause of run.
ReaderEnd(c) ==
    /\ reader[c] = "ending"
    /\ reader' = Goto(reader, c, "ended")
    /\ halt_event' = Halted(c)
    /\ link' = Goto(link, c, "closed")
    /\ inbox' = [inbox EXCEPT ![c] = <<>>]
    /\ asked' = [asked EXCEPT ![c] = {}]
    /\ UNCHANGED <<sender, item, local_queue, queue, serverVars>>

-----------------------------------------------------------------------------
(* Executor callbacks: topic messages, and calls of Unity's services.      *)

\* RosSubscriber.send, that is send_unity_message, which never waits: the test
\* of the queue ...
MessageSend(m) ==
    /\ message[m] = "waiting" /\ FreeWorker
    /\ message' = Goto(message, m, IF queue = None THEN "done" ELSE "putting")
    /\ UNCHANGED <<connVars, pendingVars, callVars, requestVars, unityVars>>

\* ... and the put, whose exception ends the callback too if the queue has gone.
MessagePut(m) ==
    /\ message[m] = "putting"
    /\ message' = Goto(message, m, "done")
    /\ PutIfConnected(NewItem("message", None, m))
    /\ UNCHANGED <<link, reader, item, sender, halt_event, queue>>
    /\ UNCHANGED <<pendingVars, callVars, requestVars, unityVars>>

\* UnityService.send, that is send_unity_service_request, in five steps.
CallCheck(k) ==
    /\ call[k] = "waiting" /\ FreeWorker
    /\ call' = Goto(call, k, IF queue = None THEN "failed" ELSE "registering")
    /\ UNCHANGED <<next_srv_id, services_waiting, srv_id, result, connVars>>
    /\ UNCHANGED <<pendingVars, requestVars, message, unityVars>>

CallRegister(k) ==
    /\ call[k] = "registering"
    /\ call' = Goto(call, k, "putting")
    /\ srv_id' = [srv_id EXCEPT ![k] = next_srv_id]
    /\ next_srv_id' = next_srv_id + 1
    /\ services_waiting' = {w \in services_waiting : w[1] # next_srv_id}
                           \cup {<<next_srv_id, k>>}
    /\ UNCHANGED <<result, connVars, pendingVars, requestVars, message, unityVars>>

\* If the queue is gone by now, the exception leaves the entry behind.
CallPut(k) ==
    /\ call[k] = "putting"
    /\ call' = Goto(call, k, IF queue = None THEN "failed" ELSE "pausing")
    /\ PutIfConnected(NewItem("request", srv_id[k], k))
    /\ UNCHANGED <<link, reader, item, sender, halt_event, queue, pendingVars>>
    /\ UNCHANGED <<next_srv_id, services_waiting, srv_id, result>>
    /\ UNCHANGED <<requestVars, message, unityVars>>

\* condition.wait, without a look at the result.
CallSleep(k) ==
    /\ call[k] = "pausing"
    /\ call' = Goto(call, k, "asleep")
    /\ UNCHANGED <<next_srv_id, services_waiting, srv_id, result, connVars>>
    /\ UNCHANGED <<pendingVars, requestVars, message, unityVars>>

CallReturn(k) ==
    /\ call[k] = "awake"
    /\ call' = Goto(call, k, "returned")
    /\ UNCHANGED <<next_srv_id, services_waiting, srv_id, result, connVars>>
    /\ UNCHANGED <<pendingVars, requestVars, message, unityVars>>

-----------------------------------------------------------------------------
(* service_call_thread: one per request, all with the same RosService.     *)

\* RosService.send up to call_async; the service may not be ready.
RequestCall(r) ==
    /\ request[r] = "calling"
    /\ \/ future' = r /\ request' = Goto(request, r, "polling")
       \/ UNCHANGED future /\ request' = Goto(request, r, "replying")
    /\ UNCHANGED <<reply_id, answered, response>>
    /\ UNCHANGED <<connVars, pendingVars, callVars, message, unityVars>>

\* The executor takes the answer of ROS and completes the future of r.
RosAnswers(r) ==
    /\ request[r] = "polling" /\ r \notin answered /\ FreeWorker
    /\ answered' = answered \cup {r}
    /\ UNCHANGED <<request, reply_id, future, response>>
    /\ UNCHANGED <<connVars, pendingVars, callVars, message, unityVars>>

\* self.future.done() and self.future.result() each read self.future.
RequestPoll(r) ==
    /\ request[r] = "polling" /\ future \in answered
    /\ request' = Goto(request, r, "collecting")
    /\ UNCHANGED <<reply_id, future, answered, response>>
    /\ UNCHANGED <<connVars, pendingVars, callVars, message, unityVars>>

RequestCollect(r) ==
    /\ request[r] = "collecting"
    /\ request' = Goto(request, r, "replying")
    /\ response' = [response EXCEPT
                       ![r] = IF future \in answered THEN future ELSE None]
    /\ UNCHANGED <<reply_id, future, answered>>
    /\ UNCHANGED <<connVars, pendingVars, callVars, message, unityVars>>

RequestReply(r) ==
    /\ request[r] = "replying"
    /\ request' = Goto(request, r, "done")
    /\ PutIfConnected(IF response[r] = None THEN Log
                      ELSE NewItem("response", reply_id[r], response[r]))
    /\ UNCHANGED <<link, reader, item, sender, halt_event, queue>>
    /\ UNCHANGED <<reply_id, future, answered, response>>
    /\ UNCHANGED <<pendingVars, callVars, message, unityVars>>

-----------------------------------------------------------------------------
(* Unity and the network.                                                  *)

\* A header and its message are sent together.
UnitySends(c, header, data) ==
    inbox' = [inbox EXCEPT ![c] = Append(Append(@, header), data)]

UnityAnswers(c) ==
    /\ link[c] = "open"
    /\ \E it \in asked[c] :
         /\ asked' = [asked EXCEPT ![c] = @ \ {it}]
         /\ UnitySends(c, NewItem("__response", it.id, None),
                          NewItem("data", None, it.of))
    /\ UNCHANGED <<connVars, serverVars>>

UnityRequests(c) ==
    /\ link[c] = "open"
    /\ \E r \in Requests :
         /\ request[r] = "unsent"
         /\ request' = Goto(request, r, "sent")
         /\ UnitySends(c, NewItem("__request", r, None), NewItem("data", None, r))
    /\ UNCHANGED <<asked, reply_id, future, answered, response>>
    /\ UNCHANGED <<connVars, pendingVars, callVars, message>>

UnityStrays(c) ==
    /\ link[c] = "open"
    /\ \E m \in Messages :
         /\ message[m] = "waiting"
         /\ message' = Goto(message, m, "done")
         /\ inbox' = [inbox EXCEPT ![c] = Append(@, NewItem("stray", None, m))]
    /\ UNCHANGED <<asked, connVars, pendingVars, callVars, requestVars>>

\* The peer goes; what it sent last may never arrive.
LinkLost(c) ==
    /\ link[c] = "open"
    /\ link' = Goto(link, c, "lost")
    /\ \E n \in 0..Len(inbox[c]) :
         inbox' = [inbox EXCEPT ![c] = SubSeq(@, 1, n)]
    /\ asked' = [asked EXCEPT ![c] = {}]
    /\ UNCHANGED <<reader, item, sender, halt_event, local_queue, queue>>
    /\ UNCHANGED serverVars

-----------------------------------------------------------------------------
Init ==
    /\ link = [c \in Conns |-> "closed"]
    /\ reader = [c \in Conns |-> "ended"]
    /\ item = [c \in Conns |-> NoItem]
    /\ sender = [c \in Conns |-> "ended"]
    /\ halt_event = [c \in Conns |-> TRUE]
    /\ local_queue = [c \in Conns |-> <<>>]
    /\ queue = None
    /\ pending_srv_id = None /\ pending_srv_is_request = FALSE
    /\ next_srv_id = FirstId /\ services_waiting = {}
    /\ message = [m \in Messages |-> "waiting"]
    /\ call = [k \in Calls |-> "waiting"]
    /\ srv_id = [k \in Calls |-> 0]
    /\ result = [k \in Calls |-> NoItem]
    /\ request = [r \in Requests |-> "unsent"]
    /\ reply_id = [r \in Requests |-> None]
    /\ future = None /\ answered = {}
    /\ response = [r \in Requests |-> None]
    /\ inbox = [c \in Conns |-> <<>>]
    /\ asked = [c \in Conns |-> {}]

Sender(c) == SenderStart(c) \/ SenderSend(c) \/ SenderHalts(c) \/ SenderEnd(c)
Reader(c) ==
    \/ ReaderRead(c) \/ ReaderIOError(c) \/ ReaderHeader(c) \/ ReaderFlag(c)
    \/ ReaderRefuse(c) \/ ReaderSpawn(c) \/ ReaderAnswer(c) \/ ReaderResume(c)
    \/ ReaderClear(c) \/ ReaderEnd(c)
Call(k) == CallCheck(k) \/ CallRegister(k) \/ CallPut(k) \/ CallSleep(k)
           \/ CallReturn(k)
Message(m) == MessageSend(m) \/ MessagePut(m)
Request(r) == RequestCall(r) \/ RequestPoll(r) \/ RequestCollect(r)
              \/ RequestReply(r)
Unity(c) == UnityAnswers(c) \/ UnityRequests(c) \/ UnityStrays(c) \/ LinkLost(c)

Next ==
    \/ \E c \in Conns : Accept(c) \/ Sender(c) \/ Reader(c) \/ Unity(c)
    \/ \E m \in Messages : Message(m)
    \/ \E k \in Calls : Call(k)
    \/ \E r \in Requests : Request(r) \/ RosAnswers(r)

Spec == Init /\ [][Next]_vars

\* Every thread runs when it can, and Unity answers what it is asked.  Nothing
\* is assumed of how long a connection lasts.
LiveSpec ==
    /\ Spec
    /\ \A c \in Conns : /\ WF_vars(Sender(c)) /\ WF_vars(Reader(c))
                        /\ WF_vars(UnityAnswers(c))
    /\ \A m \in Messages : WF_vars(Message(m))
    /\ \A k \in Calls : WF_vars(Call(k))

-----------------------------------------------------------------------------
(* Properties.                                                             *)

\* Type invariant: every queue, pending id and result holds messages and ids
\* the code can handle, among them the None another thread may have left.
TypeOK ==
    /\ link \in [Conns -> {"closed", "open", "lost"}]
    /\ reader \in [Conns -> {"ended", "reading", "matching", "heading", "flagging",
                             "refusing", "resuming", "clearing", "ending"}]
    /\ item \in [Conns -> Item]
    /\ sender \in [Conns -> {"ended", "starting", "getting", "ending"}]
    /\ halt_event \in [Conns -> BOOLEAN]
    /\ local_queue \in [Conns -> Seq(Item)]
    /\ queue \in Conns \cup {None}
    /\ pending_srv_id \in Ids
    /\ pending_srv_is_request \in BOOLEAN
    /\ next_srv_id \in Nat
    /\ services_waiting \subseteq Nat \X Calls
    /\ message \in [Messages -> {"waiting", "putting", "done"}]
    /\ call \in [Calls -> {"waiting", "returned", "failed"} \cup Running]
    /\ srv_id \in [Calls -> Nat]
    /\ result \in [Calls -> Item]
    /\ request \in [Requests -> {"unsent", "sent", "calling", "polling",
                                 "collecting", "replying", "done"}]
    /\ reply_id \in [Requests -> Ids]
    /\ future \in Requests \cup {None}
    /\ answered \subseteq Requests
    /\ response \in [Requests -> Requests \cup {None}]
    /\ inbox \in [Conns -> Seq(Item)]
    /\ asked \in [Conns -> SUBSET Item]

\* The queue in use is taken from a connection only by the end of its own
\* sender or by the start of a newer one: however the threads of an older
\* connection are delayed, their end never cuts off the newer one.
LatestKeepsQueue ==
    [][ queue # None /\ queue' # queue
        => \/ sender'[queue] = "ended"
           \/ queue' # None /\ sender[queue'] = "starting" ]_vars

\* Neither thread of a connection outlives the other unseen: whichever ends
\* first, the other finds halt_event set; the socket is closed when the reader
\* has ended; and the queue in use is one that a sender still empties.
ThreadsFollow ==
    \A c \in Conns :
        /\ sender[c] = "ended" => halt_event[c]
        /\ reader[c] = "ended" => halt_event[c] /\ link[c] = "closed"
        /\ queue = c => sender[c] \in {"getting", "ending"}

\* A call that has no answer yet can still be given one under its own id, and
\* no other call under that id; a call that was woken has its answer.
CallsAreMatched ==
    /\ \A w \in services_waiting : w[1] < next_srv_id /\ srv_id[w[2]] = w[1]
    /\ \A w, v \in services_waiting : w[1] = v[1] => w = v
    /\ \A k \in Calls :
         /\ call[k] \in {"putting", "pausing", "asleep"} /\ result[k] = NoItem
                => <<srv_id[k], k>> \in services_waiting
         /\ call[k] \in {"awake", "returned"} => result[k] # NoItem

\* How far a call is for the node that made it: Unity is asked once the request
\* is in a queue.
Phase(pc) ==
    CASE pc \in {"waiting", "registering", "putting"} -> "new"
      [] pc \in {"pausing", "asleep", "awake"} -> "asked"
      [] OTHER -> pc

Promise == INSTANCE UnityCalls
               WITH NoAnswer <- NoItem, answer <- result,
                    phase <- [k \in Calls |-> Phase(call[k])]

\* Whatever id is pending, from whatever connection: a call is answered only
\* once Unity has been asked, and once only; it returns with an answer; and it
\* fails only before Unity has been asked.
ImplementsCalls == Promise!Spec

\* What the docstring of RosService.send says: it calls the service with the
\* message, and returns the service's response.
ResponseIsOwn == \A r \in Requests : response[r] \in {None, r}

\* What the comment in send_unity_service_request says: it won't break anything
\* to sleep while waiting for the response.  As long as no connection is lost,
\* the messages of other topics still get their turn.
SleepBreaksNothing ==
    [](\A c \in Conns : link[c] # "lost")
        => \A m \in Messages : message[m] = "waiting" ~> message[m] # "waiting"
=============================================================================
