--------------------------- MODULE Endpoint_proofs ---------------------------
(***************************************************************************)
(* What holds of the endpoint for any number of connections, calls,        *)
(* messages, requests and executor threads.                                *)
(*                                                                         *)
(* The types come first.  On them rests ThreadsFollow, which is inductive, *)
(* and from it the queue of the latest connection is safe.  The matching   *)
(* of calls needs more: InTime says which calls have an entry, and that a  *)
(* reader on its way to wake a call has left a result for it.  That no     *)
(* call is answered before Unity is asked, which UnityCalls promises,      *)
(* needs to follow every id on its way to Unity and back (AskedFirst).     *)
(*                                                                         *)
(* The last section bounds the two disagreements between the endpoint and  *)
(* its texts: what a service without overlapping requests returns, and     *)
(* what becomes of a callback whose wake-up was lost.                      *)
(***************************************************************************)
EXTENDS Endpoint, SequenceTheorems, FiniteSetTheorems, TLAPS

-----------------------------------------------------------------------------
(* Types.                                                                  *)

\* What a reader can be handed: never the message that stands for None.
Received == {it \in Item : it.kind \in FromUnity}

Holding == {"matching", "heading", "flagging", "refusing"}

Inboxes ==
    /\ inbox \in [Conns -> Seq(Received)]
    /\ \A c \in Conns : reader[c] \in Holding => item[c] \in Received

Types == TypeOK /\ Inboxes

LEMMA NewItemType ==
    ASSUME NEW kind \in ToUnity \cup FromUnity \cup {"none"}, NEW id \in Ids,
           NEW of \in Things
    PROVE  /\ NewItem(kind, id, of) \in Item
           /\ kind \in FromUnity => NewItem(kind, id, of) \in Received
  BY DEF NewItem, Item, Received

\* The fields of a message.
LEMMA ItemFields ==
    ASSUME NEW it \in Item
    PROVE  it.kind \in ToUnity \cup FromUnity \cup {"none"} /\ it.id \in Ids /\ it.of \in Things
  BY DEF Item

LEMMA Constants ==
    /\ None \in Ids /\ None \in Things /\ Nat \subseteq Ids /\ Requests \subseteq Ids
    /\ Calls \subseteq Things /\ Messages \subseteq Things /\ Requests \subseteq Things
    /\ None \notin Conns /\ None \notin Requests /\ None \notin Nat
    /\ NoItem \in Item /\ Log \in Item /\ NoItem \notin Received
    /\ Received \subseteq Item
    /\ Greeting \in Seq(Item)
<1>1. /\ None \in Ids /\ None \in Things /\ Nat \subseteq Ids /\ Requests \subseteq Ids
      /\ Calls \subseteq Things /\ Messages \subseteq Things /\ Requests \subseteq Things
  BY DEF Ids, Things
<1>2. None \notin Conns /\ None \notin Requests /\ None \notin Nat
  BY NoneIsNothing
<1>3. NoItem \in Item /\ Log \in Item /\ NoItem \notin Received
  BY <1>1 DEF NoItem, Log, NewItem, Item, Received, ToUnity, FromUnity
<1>4. NewItem("handshake", None, None) \in Item
  BY <1>1, NewItemType DEF ToUnity
<1>5. Greeting \in Seq(Item)
  BY <1>4 DEF Greeting
<1> QED  BY <1>1, <1>2, <1>3, <1>5 DEF Received

LEMMA PutType ==
    ASSUME TypeOK, NEW it \in Item, PutIfConnected(it)
    PROVE  local_queue' \in [Conns -> Seq(Item)]
<1>1. CASE queue = None
  BY <1>1 DEF TypeOK, PutIfConnected
<1>2. CASE queue # None
  <2>1. queue \in Conns /\ local_queue[queue] \in Seq(Item)
    BY <1>2 DEF TypeOK
  <2>2. Append(local_queue[queue], it) \in Seq(Item)
    BY <2>1, AppendProperties
  <2> QED  BY <1>2, <2>1, <2>2 DEF TypeOK, PutIfConnected
<1> QED  BY <1>1, <1>2

LEMMA InitTypes == Init => Types
<1> SUFFICES ASSUME Init PROVE Types
  OBVIOUS
<1>1. <<>> \in Seq(Item) /\ <<>> \in Seq(Received)
  OBVIOUS
<1>2. inbox \in [Conns -> Seq(Item)] /\ local_queue \in [Conns -> Seq(Item)] /\ Inboxes
  BY <1>1 DEF Init, Inboxes, Holding
<1>3. None \in Ids /\ NoItem \in Item
  BY Constants
<1>4. /\ link \in [Conns -> {"closed", "open", "lost"}]
      /\ reader \in [Conns -> {"ended", "reading", "matching", "heading", "flagging",
                               "refusing", "resuming", "clearing", "ending"}]
      /\ item \in [Conns -> Item]
      /\ sender \in [Conns -> {"ended", "starting", "getting", "ending"}]
      /\ halt_event \in [Conns -> BOOLEAN]
  BY <1>3 DEF Init
<1>5. /\ next_srv_id \in Nat /\ services_waiting \subseteq Nat \X Calls
      /\ call \in [Calls -> {"waiting", "returned", "failed"} \cup Running]
      /\ srv_id \in [Calls -> Nat] /\ result \in [Calls -> Item]
  BY <1>3 DEF Init, FirstId
<1>6. /\ reply_id \in [Requests -> Ids] /\ asked \in [Conns -> SUBSET Item]
      /\ response \in [Requests -> Requests \cup {None}]
  BY <1>3 DEF Init
<1> QED  BY <1>2, <1>3, <1>4, <1>5, <1>6 DEF Init, Types, TypeOK

-----------------------------------------------------------------------------
(* Every step keeps the types.                                             *)

LEMMA SenderStartTypes ==
    ASSUME Types, NEW c \in Conns, SenderStart(c)
    PROVE  Types'
<1>1. local_queue' \in [Conns -> Seq(Item)]
  BY Constants DEF Types, TypeOK, SenderStart
<1>2. sender' \in [Conns -> {"ended", "starting", "getting", "ending"}]
  BY DEF Types, TypeOK, SenderStart, Goto, Loop
<1> QED  BY <1>1, <1>2 DEF Types, TypeOK, Inboxes, SenderStart, serverVars,
            unityVars, pendingVars, callVars, requestVars

LEMMA SenderSendTypes ==
    ASSUME Types, NEW c \in Conns, SenderSend(c)
    PROVE  Types'
<1> DEFINE it == Head(local_queue[c])
<1>1. it \in Item /\ Tail(local_queue[c]) \in Seq(Item)
  BY HeadTailProperties DEF Types, TypeOK, SenderSend
<1>2. local_queue' \in [Conns -> Seq(Item)]
  BY <1>1 DEF Types, TypeOK, SenderSend
<1>3. sender' \in [Conns -> {"ended", "starting", "getting", "ending"}]
  BY DEF Types, TypeOK, SenderSend, Goto, Loop
<1>4. asked' \in [Conns -> SUBSET Item]
  <2>1. asked \in [Conns -> SUBSET Item]
        /\ [asked EXCEPT ![c] = @ \cup {it}] \in [Conns -> SUBSET Item]
    BY <1>1 DEF Types, TypeOK
  <2> QED  BY <2>1 DEF SenderSend
<1> QED  BY <1>2, <1>3, <1>4 DEF Types, TypeOK, Inboxes, SenderSend, serverVars,
            pendingVars, callVars, requestVars

LEMMA LoopsType ==
    ASSUME Types, NEW c \in Conns, ReaderLoops(c) \/ ReaderClears(c) \/ ReaderRaises(c),
           UNCHANGED inbox
    PROVE  /\ item' \in [Conns -> Item]
           /\ reader' \in [Conns -> {"ended", "reading", "matching", "heading",
                                     "flagging", "refusing", "resuming", "clearing", "ending"}]
           /\ Inboxes'
<1>1. item' = [item EXCEPT ![c] = NoItem]
  BY DEF ReaderLoops, ReaderClears, ReaderRaises
<1>2. PICK pc \in {"reading", "clearing", "ending"} : reader' = [reader EXCEPT ![c] = pc]
  BY DEF ReaderLoops, ReaderClears, ReaderRaises, Goto, Loop
<1>3. item' \in [Conns -> Item]
  BY <1>1, Constants DEF Types, TypeOK
<1> QED  BY <1>1, <1>2, <1>3 DEF Types, TypeOK, Inboxes, Holding

LEMMA ReaderRefuseTypes ==
    ASSUME Types, NEW c \in Conns, ReaderRefuse(c)
    PROVE  Types'
<1>1. local_queue' \in [Conns -> Seq(Item)]
  BY Constants, PutType DEF Types, ReaderRefuse
<1>2. UNCHANGED <<inbox, serverVars, link, sender, halt_event, queue, asked>>
  BY DEF ReaderRefuse, unityVars
<1>3. /\ item' \in [Conns -> Item] /\ Inboxes'
      /\ reader' \in [Conns -> {"ended", "reading", "matching", "heading",
                                "flagging", "refusing", "resuming", "clearing", "ending"}]
  BY <1>2, LoopsType DEF ReaderRefuse
<1> QED  BY <1>1, <1>2, <1>3 DEF Types, TypeOK, serverVars, pendingVars, callVars,
            requestVars

LEMMA ReaderSpawnTypes ==
    ASSUME Types, NEW c \in Conns, ReaderSpawn(c)
    PROVE  Types'
<1> DEFINE r == item[c].of
<1>1. local_queue' \in [Conns -> Seq(Item)]
  <2>1. local_queue' = local_queue \/ PutIfConnected(Log)
    BY DEF ReaderSpawn
  <2> QED  BY <2>1, Constants, PutType DEF Types, TypeOK
<1>2. UNCHANGED <<inbox, link, sender, halt_event, queue, asked, pendingVars,
                  callVars, message, future, answered, response>>
  BY DEF ReaderSpawn, unityVars
<1>3. /\ item' \in [Conns -> Item] /\ Inboxes'
      /\ reader' \in [Conns -> {"ended", "reading", "matching", "heading",
                                "flagging", "refusing", "resuming", "clearing", "ending"}]
  BY <1>2, LoopsType DEF ReaderSpawn
<1>4. /\ request' \in [Requests -> {"unsent", "sent", "calling", "polling",
                                    "collecting", "replying", "done"}]
      /\ reply_id' \in [Requests -> Ids]
  BY DEF ReaderSpawn, Types, TypeOK, Goto
<1> QED  BY <1>1, <1>2, <1>3, <1>4 DEF Types, TypeOK, pendingVars, callVars

LEMMA ReaderAnswerTypes ==
    ASSUME Types, NEW c \in Conns, ReaderAnswer(c)
    PROVE  Types'
<1>1. CASE ~\E k \in Calls : <<pending_srv_id, k>> \in services_waiting
  <2>1. /\ ReaderRaises(c)
        /\ UNCHANGED <<inbox, link, sender, halt_event, local_queue, queue, asked,
                       pendingVars, callVars, requestVars, message>>
    BY <1>1 DEF ReaderAnswer, unityVars, callVars
  <2>2. /\ item' \in [Conns -> Item] /\ Inboxes'
        /\ reader' \in [Conns -> {"ended", "reading", "matching", "heading",
                                  "flagging", "refusing", "resuming", "clearing", "ending"}]
    BY <2>1, LoopsType
  <2> QED  BY <2>1, <2>2 DEF Types, TypeOK, pendingVars, callVars, requestVars
<1>2. CASE \E k \in Calls : <<pending_srv_id, k>> \in services_waiting
  <2>1. PICK k \in Calls :
          /\ services_waiting' = Taken(k)
          /\ result' = [result EXCEPT ![k] = item[c]]
          /\ item' = [item EXCEPT ![c] = NewItem("data", None, k)]
          /\ reader' = [reader EXCEPT ![c] = "resuming"]
    BY <1>2 DEF ReaderAnswer, Resulted, Goto
  <2>2. NewItem("data", None, k) \in Item
    BY Constants, NewItemType DEF FromUnity
  <2>3. item' \in [Conns -> Item] /\ result' \in [Calls -> Item]
    BY <2>1, <2>2 DEF Types, TypeOK
  <2>4. services_waiting' \subseteq Nat \X Calls
    BY <2>1 DEF Taken, Types, TypeOK
  <2>5. reader' \in [Conns -> {"ended", "reading", "matching", "heading",
                               "flagging", "refusing", "resuming", "clearing", "ending"}]
    BY <2>1 DEF Types, TypeOK
  <2>6. UNCHANGED <<inbox, link, sender, halt_event, local_queue, queue, asked,
                    pendingVars, next_srv_id, call, srv_id, requestVars, message>>
    BY DEF ReaderAnswer, unityVars
  <2>7. Inboxes'
    BY <2>1, <2>6 DEF Types, TypeOK, Inboxes, Holding
  <2> QED  BY <2>3, <2>4, <2>5, <2>6, <2>7 DEF Types, TypeOK, pendingVars, requestVars
<1> QED  BY <1>1, <1>2

LEMMA ReaderResumeTypes ==
    ASSUME Types, NEW c \in Conns, ReaderResume(c)
    PROVE  Types'
<1>1. UNCHANGED <<inbox, link, sender, halt_event, local_queue, queue, asked,
                  pendingVars, next_srv_id, services_waiting, srv_id, result,
                  requestVars, message>>
  BY DEF ReaderResume, unityVars
<1>2. /\ item' \in [Conns -> Item] /\ Inboxes'
      /\ reader' \in [Conns -> {"ended", "reading", "matching", "heading",
                                "flagging", "refusing", "resuming", "clearing", "ending"}]
  BY <1>1, LoopsType DEF ReaderResume
<1>3. call' \in [Calls -> {"waiting", "returned", "failed"} \cup Running]
  BY DEF ReaderResume, Types, TypeOK, Goto, Running
<1> QED  BY <1>1, <1>2, <1>3 DEF Types, TypeOK, pendingVars, requestVars

LEMMA ReaderClearTypes ==
    ASSUME Types, NEW c \in Conns, ReaderClear(c)
    PROVE  Types'
<1>1. UNCHANGED <<inbox, link, sender, halt_event, local_queue, queue, asked,
                  pending_srv_is_request, callVars, requestVars, message>>
  BY DEF ReaderClear, unityVars
<1>2. /\ item' \in [Conns -> Item] /\ Inboxes'
      /\ reader' \in [Conns -> {"ended", "reading", "matching", "heading",
                                "flagging", "refusing", "resuming", "clearing", "ending"}]
  BY <1>1, LoopsType DEF ReaderClear
<1>3. pending_srv_id' \in Ids
  BY Constants DEF ReaderClear
<1> QED  BY <1>1, <1>2, <1>3 DEF Types, TypeOK, callVars, requestVars

LEMMA MessagePutTypes ==
    ASSUME Types, NEW m \in Messages, MessagePut(m)
    PROVE  Types'
<1>1. NewItem("message", None, m) \in Item
  BY Constants, NewItemType DEF ToUnity
<1>2. local_queue' \in [Conns -> Seq(Item)]
  BY <1>1, PutType DEF Types, MessagePut
<1>3. message' \in [Messages -> {"waiting", "putting", "done"}]
  BY DEF Types, TypeOK, MessagePut, Goto
<1> QED  BY <1>2, <1>3 DEF Types, TypeOK, Inboxes, MessagePut, unityVars, pendingVars,
            callVars, requestVars

LEMMA CallPutTypes ==
    ASSUME Types, NEW k \in Calls, CallPut(k)
    PROVE  Types'
<1>1. NewItem("request", srv_id[k], k) \in Item
  BY Constants, NewItemType DEF ToUnity, Types, TypeOK
<1>2. local_queue' \in [Conns -> Seq(Item)]
  BY <1>1, PutType DEF Types, CallPut
<1>3. call' \in [Calls -> {"waiting", "returned", "failed"} \cup Running]
  BY DEF Types, TypeOK, CallPut, Goto, Running
<1> QED  BY <1>2, <1>3 DEF Types, TypeOK, Inboxes, CallPut, unityVars, pendingVars,
            requestVars

LEMMA RequestReplyTypes ==
    ASSUME Types, NEW r \in Requests, RequestReply(r)
    PROVE  Types'
<1>1. NewItem("response", reply_id[r], response[r]) \in Item
  BY Constants, NewItemType DEF ToUnity, Types, TypeOK
<1>2. local_queue' \in [Conns -> Seq(Item)]
  BY <1>1, Constants, PutType DEF Types, RequestReply
<1>3. request' \in [Requests -> {"unsent", "sent", "calling", "polling",
                                 "collecting", "replying", "done"}]
  BY DEF Types, TypeOK, RequestReply, Goto
<1> QED  BY <1>2, <1>3 DEF Types, TypeOK, Inboxes, RequestReply, unityVars,
            pendingVars, callVars

LEMMA InboxType ==
    ASSUME Types, NEW c \in Conns, NEW s \in Seq(Received),
           inbox' = [inbox EXCEPT ![c] = s], UNCHANGED <<reader, item>>
    PROVE  inbox' \in [Conns -> Seq(Item)] /\ Inboxes'
<1>1. Seq(Received) \subseteq Seq(Item)
  BY Constants
<1>2. inbox' \in [Conns -> Seq(Received)]
  BY DEF Types, Inboxes
<1>3. inbox' \in [Conns -> Seq(Item)]
  BY <1>1, <1>2
<1> QED  BY <1>2, <1>3 DEF Types, Inboxes

LEMMA SentType ==
    ASSUME Types, NEW c \in Conns, NEW header \in Received, NEW data \in Received
    PROVE  Append(Append(inbox[c], header), data) \in Seq(Received)
<1>1. inbox[c] \in Seq(Received)
  BY DEF Types, Inboxes
<1>2. Append(inbox[c], header) \in Seq(Received)
  BY <1>1, AppendProperties
<1> QED  BY <1>2, AppendProperties

LEMMA UnityAnswersTypes ==
    ASSUME Types, NEW c \in Conns, UnityAnswers(c)
    PROVE  Types'
<1>1. PICK it \in asked[c] :
        /\ asked' = [asked EXCEPT ![c] = @ \ {it}]
        /\ inbox' = [inbox EXCEPT ![c] = Append(Append(@,
               NewItem("__response", it.id, None)), NewItem("data", None, it.of))]
  BY DEF UnityAnswers, UnitySends
<1>2. it \in Item
  BY DEF Types, TypeOK
<1>3. /\ NewItem("__response", it.id, None) \in Received
      /\ NewItem("data", None, it.of) \in Received
  BY <1>2, Constants, ItemFields, NewItemType DEF FromUnity
<1>4. UNCHANGED <<connVars, serverVars>>
  BY DEF UnityAnswers
<1>5. inbox' \in [Conns -> Seq(Item)] /\ Inboxes'
  BY <1>1, <1>3, <1>4, SentType, InboxType DEF connVars
<1>6. asked' \in [Conns -> SUBSET Item]
  BY <1>1 DEF Types, TypeOK
<1> QED  BY <1>4, <1>5, <1>6 DEF Types, TypeOK, connVars, serverVars, pendingVars,
            callVars, requestVars

LEMMA UnityRequestsTypes ==
    ASSUME Types, NEW c \in Conns, UnityRequests(c)
    PROVE  Types'
<1>1. PICK r \in Requests :
        /\ request' = [request EXCEPT ![r] = "sent"]
        /\ inbox' = [inbox EXCEPT ![c] = Append(Append(@,
               NewItem("__request", r, None)), NewItem("data", None, r))]
  BY DEF UnityRequests, UnitySends, Goto
<1>2. /\ NewItem("__request", r, None) \in Received
      /\ NewItem("data", None, r) \in Received
  BY Constants, NewItemType DEF FromUnity
<1>3. UNCHANGED <<asked, reply_id, future, answered, response, connVars,
                  pendingVars, callVars, message>>
  BY DEF UnityRequests
<1>4. inbox' \in [Conns -> Seq(Item)] /\ Inboxes'
  BY <1>1, <1>2, <1>3, SentType, InboxType DEF connVars
<1>5. request' \in [Requests -> {"unsent", "sent", "calling", "polling",
                                 "collecting", "replying", "done"}]
  BY <1>1 DEF Types, TypeOK
<1> QED  BY <1>3, <1>4, <1>5 DEF Types, TypeOK, connVars, pendingVars, callVars

LEMMA UnityStraysTypes ==
    ASSUME Types, NEW c \in Conns, UnityStrays(c)
    PROVE  Types'
<1>1. PICK m \in Messages :
        /\ message' = [message EXCEPT ![m] = "done"]
        /\ inbox' = [inbox EXCEPT ![c] = Append(@, NewItem("stray", None, m))]
  BY DEF UnityStrays, Goto
<1>2. NewItem("stray", None, m) \in Received
  BY Constants, NewItemType DEF FromUnity
<1>3. Append(inbox[c], NewItem("stray", None, m)) \in Seq(Received)
  BY <1>2, AppendProperties DEF Types, Inboxes
<1>4. UNCHANGED <<asked, connVars, pendingVars, callVars, requestVars>>
  BY DEF UnityStrays
<1>5. inbox' \in [Conns -> Seq(Item)] /\ Inboxes'
  BY <1>1, <1>3, <1>4, InboxType DEF connVars
<1>6. message' \in [Messages -> {"waiting", "putting", "done"}]
  BY <1>1 DEF Types, TypeOK
<1> QED  BY <1>4, <1>5, <1>6 DEF Types, TypeOK, connVars, pendingVars, callVars,
            requestVars

LEMMA LinkLostTypes ==
    ASSUME Types, NEW c \in Conns, LinkLost(c)
    PROVE  Types'
<1>1. PICK n \in 0..Len(inbox[c]) : inbox' = [inbox EXCEPT ![c] = SubSeq(@, 1, n)]
  BY DEF LinkLost
<1>2. inbox[c] \in Seq(Received)
  BY DEF Types, Inboxes
<1>3. \A i \in 1..n : inbox[c][i] \in Received
  BY <1>2
<1>4. SubSeq(inbox[c], 1, n) \in Seq(Received)
  BY <1>2, <1>3, SubSeqProperties
<1>5. /\ asked' = [asked EXCEPT ![c] = {}] /\ link' = [link EXCEPT ![c] = "lost"]
      /\ UNCHANGED <<reader, item, sender, halt_event, local_queue, queue, serverVars>>
  BY DEF LinkLost, Goto
<1>6. inbox' \in [Conns -> Seq(Item)] /\ Inboxes'
  BY <1>1, <1>4, <1>5, InboxType
<1>7. asked' \in [Conns -> SUBSET Item] /\ link' \in [Conns -> {"closed", "open", "lost"}]
  BY <1>5 DEF Types, TypeOK
<1> QED  BY <1>5, <1>6, <1>7 DEF Types, TypeOK, serverVars, pendingVars, callVars,
            requestVars

\* One case per action; those with a lemma of their own put or take messages.
LEMMA StepTypes == Types /\ [Next]_vars => Types'
<1> SUFFICES ASSUME Types, [Next]_vars PROVE Types'
  OBVIOUS
<1> USE DEF Types, TypeOK, Inboxes, Goto, serverVars, unityVars, connVars,
            pendingVars, callVars, requestVars
<1>1. ASSUME NEW c \in Conns, Accept(c) PROVE Types'
  BY <1>1 DEF Accept, Holding
<1>2. ASSUME NEW c \in Conns, Sender(c) PROVE Types'
  <2>1. CASE SenderStart(c)  BY <2>1, SenderStartTypes
  <2>2. CASE SenderSend(c)   BY <2>2, SenderSendTypes
  <2>3. CASE SenderHalts(c)  BY <2>3 DEF SenderHalts
  <2>4. CASE SenderEnd(c)    BY <2>4 DEF SenderEnd, Halted, QueueWithout
  <2> QED  BY <1>2, <2>1, <2>2, <2>3, <2>4 DEF Sender
<1>3. ASSUME NEW c \in Conns, Reader(c) PROVE Types'
  <2>1. CASE ReaderRead(c)
    <3>1. inbox[c] \in Seq(Received)
      OBVIOUS
    <3>2. Head(inbox[c]) \in Received /\ Tail(inbox[c]) \in Seq(Received)
      BY <2>1, <3>1, HeadTailProperties DEF ReaderRead
    <3> QED  BY <2>1, <3>2, Constants DEF ReaderRead, Holding
  <2>2. CASE ReaderIOError(c)  BY <2>2 DEF ReaderIOError, Holding
  <2>3. CASE ReaderHeader(c)
    BY <2>3, ItemFields DEF ReaderHeader, Holding
  <2>4. CASE ReaderFlag(c)
    BY <2>4, Constants DEF ReaderFlag, ReaderLoops, Loop, Holding
  <2>5. CASE ReaderRefuse(c)  BY <2>5, ReaderRefuseTypes
  <2>6. CASE ReaderSpawn(c)   BY <2>6, ReaderSpawnTypes
  <2>7. CASE ReaderAnswer(c)  BY <2>7, ReaderAnswerTypes
  <2>8. CASE ReaderResume(c)  BY <2>8, ReaderResumeTypes
  <2>9. CASE ReaderClear(c)   BY <2>9, ReaderClearTypes
  <2>10. CASE ReaderEnd(c)    BY <2>10 DEF ReaderEnd, Halted, Holding
  <2> QED  BY <1>3, <2>1, <2>2, <2>3, <2>4, <2>5, <2>6, <2>7, <2>8, <2>9, <2>10
           DEF Reader
<1>4. ASSUME NEW c \in Conns, Unity(c) PROVE Types'
  BY <1>4, UnityAnswersTypes, UnityRequestsTypes, UnityStraysTypes, LinkLostTypes
     DEF Unity
<1>5. ASSUME NEW k \in Calls, Call(k) PROVE Types'
  <2>1. CASE CallCheck(k)     BY <2>1 DEF CallCheck, Running
  <2>2. CASE CallRegister(k)  BY <2>2 DEF CallRegister, Running
  <2>3. CASE CallPut(k)       BY <2>3, CallPutTypes
  <2>4. CASE CallSleep(k)     BY <2>4 DEF CallSleep, Running
  <2>5. CASE CallReturn(k)    BY <2>5 DEF CallReturn, Running
  <2> QED  BY <1>5, <2>1, <2>2, <2>3, <2>4, <2>5 DEF Call
<1>6. ASSUME NEW r \in Requests, Request(r) \/ RosAnswers(r) PROVE Types'
  <2>1. CASE RequestCall(r)     BY <2>1 DEF RequestCall
  <2>2. CASE RequestPoll(r)     BY <2>2 DEF RequestPoll
  <2>3. CASE RequestCollect(r)  BY <2>3 DEF RequestCollect
  <2>4. CASE RequestReply(r)    BY <2>4, RequestReplyTypes
  <2>5. CASE RosAnswers(r)      BY <2>5 DEF RosAnswers
  <2> QED  BY <1>6, <2>1, <2>2, <2>3, <2>4, <2>5 DEF Request
<1>7. ASSUME NEW m \in Messages, Message(m) PROVE Types'
  <2>1. CASE MessageSend(m)  BY <2>1 DEF MessageSend
  <2>2. CASE MessagePut(m)   BY <2>2, MessagePutTypes
  <2> QED  BY <1>7, <2>1, <2>2 DEF Message
<1>8. CASE UNCHANGED vars
  BY <1>8 DEF vars
<1> QED  BY <1>1, <1>2, <1>3, <1>4, <1>5, <1>6, <1>7, <1>8 DEF Next

\* Queues, ids and results hold only messages and ids the code can handle,
\* however connections, threads and callbacks interleave.
THEOREM EndpointTypes == Spec => []TypeOK
<1>1. Types => TypeOK
  BY DEF Types
<1> QED  BY <1>1, InitTypes, StepTypes, PTL DEF Spec

-----------------------------------------------------------------------------
(* The two threads of a connection, and the queue in use.                  *)

LEMMA InitThreads == Init => ThreadsFollow
  BY Constants DEF Init, ThreadsFollow

LEMMA StepThreads == Types /\ ThreadsFollow /\ [Next]_vars => ThreadsFollow'
<1> SUFFICES ASSUME Types, ThreadsFollow, [Next]_vars PROVE ThreadsFollow'
  OBVIOUS
<1> USE DEF Types, TypeOK, ThreadsFollow, Goto
<1>1. ASSUME NEW c \in Conns, Accept(c) PROVE ThreadsFollow'
  BY <1>1 DEF Accept
<1>2. ASSUME NEW c \in Conns, Sender(c) PROVE ThreadsFollow'
  <2>1. CASE SenderStart(c)  BY <2>1 DEF SenderStart, Loop
  <2>2. CASE SenderSend(c)
    <3>1. sender' = [sender EXCEPT ![c] = "getting"]
          \/ sender' = [sender EXCEPT ![c] = "ending"]
      BY <2>2 DEF SenderSend, Loop
    <3> QED  BY <2>2, <3>1 DEF SenderSend
  <2>3. CASE SenderHalts(c)  BY <2>3 DEF SenderHalts
  <2>4. CASE SenderEnd(c)    BY <2>4, Constants DEF SenderEnd, Halted, QueueWithout
  <2> QED  BY <1>2, <2>1, <2>2, <2>3, <2>4 DEF Sender
<1>3. ASSUME NEW c \in Conns, Reader(c) PROVE ThreadsFollow'
  <2>1. CASE ReaderEnd(c)  BY <2>1 DEF ReaderEnd, Halted
  <2>2. CASE ~ReaderEnd(c)
    <3>1. /\ UNCHANGED <<link, sender, halt_event, queue>>
          /\ \E pc \in {"reading", "matching", "heading", "flagging", "refusing",
                        "resuming", "clearing", "ending"} :
                 reader' = [reader EXCEPT ![c] = pc]
      BY <1>3, <2>2 DEF Reader, ReaderRead, ReaderIOError, ReaderHeader, ReaderFlag,
         ReaderRefuse, ReaderSpawn, ReaderAnswer, ReaderResume, ReaderClear,
         ReaderLoops, ReaderClears, ReaderRaises, Loop
    <3> QED  BY <3>1
  <2> QED  BY <2>1, <2>2
<1>4. ASSUME NEW c \in Conns, Unity(c) PROVE ThreadsFollow'
  BY <1>4 DEF Unity, UnityAnswers, UnityRequests, UnityStrays, LinkLost, connVars
<1>5. CASE UNCHANGED <<link, reader, sender, halt_event, queue>>
  BY <1>5
<1>6. CASE Next
  <2>1. \/ \E c \in Conns : Accept(c) \/ Sender(c) \/ Reader(c) \/ Unity(c)
        \/ UNCHANGED <<link, reader, sender, halt_event, queue>>
    BY <1>6 DEF Next, Call, Request, Message, MessageSend, MessagePut,
       CallCheck, CallRegister, CallPut, CallSleep, CallReturn, RequestCall, RequestPoll, RequestCollect, RequestReply,
       RosAnswers, connVars
  <2> QED  BY <1>1, <1>2, <1>3, <1>4, <1>5, <2>1
<1> QED  BY <1>5, <1>6 DEF vars, connVars

\* Neither thread of a connection is left behind by the other, and the queue in
\* use always has a sender, however many connections come and go at once.
THEOREM ThreadsAreJoined == Spec => []ThreadsFollow
  BY InitTypes, InitThreads, StepTypes, StepThreads, PTL DEF Spec

\* The step that takes the queue away is the end of its sender or the start of
\* another: the other actions do not write it, and SenderEnd compares first.
LEMMA StepQueue ==
    Types /\ ThreadsFollow /\ [Next]_vars
    => (queue # None /\ queue' # queue
        => \/ sender'[queue] = "ended"
           \/ queue' # None /\ sender[queue'] = "starting")
<1> SUFFICES ASSUME Types, [Next]_vars, queue # None, queue' # queue
             PROVE  \/ sender'[queue] = "ended"
                    \/ queue' # None /\ sender[queue'] = "starting"
  OBVIOUS
<1>1. PICK c \in Conns : SenderStart(c) \/ SenderEnd(c)
  <2>1. \A c \in Conns : /\ ~Accept(c) /\ ~Reader(c) /\ ~Unity(c)
                         /\ ~SenderSend(c) /\ ~SenderHalts(c)
    BY DEF Accept, SenderSend, SenderHalts, Reader, ReaderRead, ReaderIOError,
       ReaderHeader, ReaderFlag, ReaderRefuse, ReaderSpawn, ReaderAnswer,
       ReaderResume, ReaderClear, ReaderEnd, Unity, UnityAnswers, UnityRequests, UnityStrays,
       LinkLost, connVars
  <2>2. /\ \A m \in Messages : ~Message(m)
        /\ \A k \in Calls : ~Call(k)
        /\ \A r \in Requests : ~Request(r) /\ ~RosAnswers(r)
    BY DEF Message, MessageSend, MessagePut, Call, CallCheck, CallRegister, CallPut,
       CallSleep, CallReturn,
       Request, RequestCall, RequestPoll, RequestCollect, RequestReply, RosAnswers,
       connVars
  <2> QED  BY <2>1, <2>2 DEF Next, Sender, vars, connVars
<1>2. CASE SenderStart(c)  BY <1>2, Constants DEF SenderStart
<1>3. CASE SenderEnd(c)
  <2>1. queue = c
    BY <1>3 DEF SenderEnd, QueueWithout
  <2> QED  BY <1>3, <2>1 DEF SenderEnd, Goto, Types, TypeOK
<1> QED  BY <1>1, <1>2, <1>3

\* The queue of the latest connection is never cut off by an older one.
THEOREM LatestQueueIsKept == Spec => LatestKeepsQueue
  BY InitTypes, InitThreads, StepTypes, StepThreads, StepQueue, PTL
     DEF Spec, LatestKeepsQueue

-----------------------------------------------------------------------------
(* The matching of calls with their answers.                               *)

\* An entry in services_waiting has no result yet, and a call has neither
\* before it registers.  A reader resumes only a call it gave its result.
InTime ==
    /\ \A k \in Calls : call[k] \in {"waiting", "registering"}
           => result[k] = NoItem /\ \A w \in services_waiting : w[2] # k
    /\ \A w \in services_waiting : result[w[2]] = NoItem
    /\ \A c \in Conns : reader[c] = "resuming"
           => item[c].of \in Calls /\ result[item[c].of] # NoItem

Matching == Types /\ CallsAreMatched /\ InTime

LEMMA InitMatching == Init => Matching
<1> SUFFICES ASSUME Init PROVE Matching
  OBVIOUS
<1> QED  BY InitTypes DEF Init, Matching, CallsAreMatched, InTime

LEMMA QuietStep ==
    ASSUME Matching, UNCHANGED callVars,
           \A c \in Conns : reader'[c] = "resuming"
                            => reader[c] = "resuming" /\ item'[c] = item[c]
    PROVE  CallsAreMatched' /\ InTime'
  BY DEF Matching, CallsAreMatched, InTime, callVars

LEMMA QuietReader ==
    ASSUME Matching, NEW c \in Conns,
           Reader(c), ~ReaderAnswer(c), ~ReaderResume(c)
    PROVE  CallsAreMatched' /\ InTime'
<1>1. UNCHANGED callVars
  BY DEF Reader, ReaderRead, ReaderIOError, ReaderHeader, ReaderFlag, ReaderRefuse,
     ReaderSpawn, ReaderClear, ReaderEnd, serverVars
<1>2. \A d \in Conns \ {c} : reader'[d] = reader[d] /\ item'[d] = item[d]
  BY DEF Reader, ReaderRead, ReaderIOError, ReaderHeader, ReaderFlag, ReaderRefuse,
     ReaderSpawn, ReaderClear, ReaderEnd, ReaderLoops, ReaderClears, ReaderRaises,
     Goto, Matching, Types, TypeOK
<1>3. reader'[c] # "resuming"
  BY DEF Reader, ReaderRead, ReaderIOError, ReaderHeader, ReaderFlag, ReaderRefuse,
     ReaderSpawn, ReaderClear, ReaderEnd, ReaderLoops, ReaderClears, ReaderRaises,
     Goto, Loop, Matching, Types, TypeOK
<1> QED  BY <1>1, <1>2, <1>3, QuietStep

\* The entry goes together with the result that replaces it.
LEMMA AnswerStep ==
    ASSUME Matching, NEW c \in Conns, ReaderAnswer(c)
    PROVE  CallsAreMatched' /\ InTime'
<1> USE DEF Matching, Types, TypeOK, CallsAreMatched, InTime
<1>1. CASE ~\E k \in Calls : <<pending_srv_id, k>> \in services_waiting
  <2>1. UNCHANGED callVars /\ reader' = [reader EXCEPT ![c] = "ending"]
        /\ item' = [item EXCEPT ![c] = NoItem]
    BY <1>1 DEF ReaderAnswer, ReaderRaises, Goto, callVars
  <2> QED  BY <2>1, QuietStep
<1>2. CASE \E k \in Calls : <<pending_srv_id, k>> \in services_waiting
  <2>1. PICK k \in Calls :
          /\ <<pending_srv_id, k>> \in services_waiting
          /\ services_waiting' = services_waiting \ {<<pending_srv_id, k>>}
          /\ result' = [result EXCEPT ![k] = item[c]]
          /\ item' = [item EXCEPT ![c] = NewItem("data", None, k)]
          /\ reader' = [reader EXCEPT ![c] = "resuming"]
    BY <1>2 DEF ReaderAnswer, Taken, Resulted, Goto
  <2>2. UNCHANGED <<next_srv_id, call, srv_id>>
    BY DEF ReaderAnswer
  <2>3. item[c] # NoItem
    BY Constants DEF ReaderAnswer, Inboxes, Holding
  <2>4. NewItem("data", None, k).of = k
    BY DEF NewItem
  <2>5. \A w \in services_waiting : w[2] = k => w = <<pending_srv_id, k>>
    BY <2>1
  <2>6. call[k] \notin {"waiting", "registering"}
    BY <2>1
  <2>7. CallsAreMatched'
    <3>1. \A j \in Calls : call[j] \in {"putting", "pausing", "asleep"}
                           /\ result'[j] = NoItem
              => <<srv_id[j], j>> \in services_waiting'
      BY <2>1, <2>3
    <3>2. \A j \in Calls : call[j] \in {"awake", "returned"} => result'[j] # NoItem
      BY <2>1, <2>3
    <3> QED  BY <2>1, <2>2, <3>1, <3>2
  <2>8. InTime'
    <3>1. \A w \in services_waiting' : result'[w[2]] = NoItem
      BY <2>1, <2>5
    <3>2. \A j \in Calls : call[j] \in {"waiting", "registering"}
              => result'[j] = NoItem /\ \A w \in services_waiting' : w[2] # j
      BY <2>1, <2>6
    <3>3. \A d \in Conns : reader'[d] = "resuming"
              => item'[d].of \in Calls /\ result'[item'[d].of] # NoItem
      BY <2>1, <2>3, <2>4
    <3> QED  BY <2>2, <3>1, <3>2, <3>3
  <2> QED  BY <2>7, <2>8
<1> QED  BY <1>1, <1>2

LEMMA ResumeStep ==
    ASSUME Matching, NEW c \in Conns, ReaderResume(c)
    PROVE  CallsAreMatched' /\ InTime'
<1> USE DEF Matching, Types, TypeOK, CallsAreMatched, InTime
<1> DEFINE k == item[c].of
<1>1. /\ UNCHANGED <<next_srv_id, services_waiting, srv_id, result>>
      /\ call' = call \/ (call[k] = "asleep" /\ call' = [call EXCEPT ![k] = "awake"])
  BY DEF ReaderResume, Goto
<1>2. k \in Calls /\ result[k] # NoItem
  BY DEF ReaderResume
<1>3. \A d \in Conns : reader'[d] = "resuming"
                       => reader[d] = "resuming" /\ item'[d] = item[d]
  BY DEF ReaderResume, ReaderClears, Goto
<1>4. \A j \in Calls : call'[j] = call[j] \/ (call'[j] = "awake" /\ result[j] # NoItem
                                              /\ call[j] = "asleep")
  BY <1>1, <1>2
<1> QED  BY <1>1, <1>3, <1>4

\* The new entry is the only one under its id and the only one of its call.
LEMMA RegisterStep ==
    ASSUME Matching, NEW k \in Calls, CallRegister(k)
    PROVE  CallsAreMatched' /\ InTime'
<1> USE DEF Matching, Types, TypeOK, CallsAreMatched, InTime
<1>1. services_waiting' = services_waiting \cup {<<next_srv_id, k>>}
  BY DEF CallRegister
<1>2. /\ call[k] = "registering" /\ call' = [call EXCEPT ![k] = "putting"]
      /\ srv_id' = [srv_id EXCEPT ![k] = next_srv_id]
      /\ next_srv_id' = next_srv_id + 1
      /\ UNCHANGED <<result, reader, item>>
  BY DEF CallRegister, Goto, connVars
<1>3. result[k] = NoItem /\ \A w \in services_waiting : w[2] # k
  BY <1>2
<1>4. CallsAreMatched'
  <2>1. \A w \in services_waiting' : w[1] < next_srv_id' /\ srv_id'[w[2]] = w[1]
    <3> SUFFICES ASSUME NEW w \in services_waiting'
                 PROVE  w[1] < next_srv_id' /\ srv_id'[w[2]] = w[1]
      OBVIOUS
    <3>1. CASE w = <<next_srv_id, k>>
      BY <1>2, <3>1
    <3>2. CASE w \in services_waiting
      <4>1. w[1] \in Nat /\ w[2] \in Calls /\ w[2] # k
        BY <1>3, <3>2
      <4>2. w[1] < next_srv_id /\ srv_id[w[2]] = w[1]
        BY <3>2
      <4> QED  BY <1>2, <4>1, <4>2
    <3> QED  BY <1>1, <3>1, <3>2
  <2>2. \A w \in services_waiting : w[1] # next_srv_id
    <3> SUFFICES ASSUME NEW w \in services_waiting PROVE w[1] # next_srv_id
      OBVIOUS
    <3>1. w[1] \in Nat /\ w[1] < next_srv_id
      OBVIOUS
    <3> QED  BY <3>1
  <2>3. \A w, v \in services_waiting' : w[1] = v[1] => w = v
    <3>1. \A w \in services_waiting' : w = <<next_srv_id, k>> \/ w \in services_waiting
      BY <1>1
    <3>2. \A w \in services_waiting' : w[1] = next_srv_id => w = <<next_srv_id, k>>
      BY <2>2, <3>1
    <3>3. \A w, v \in services_waiting : w[1] = v[1] => w = v
      OBVIOUS
    <3>4. <<next_srv_id, k>>[1] = next_srv_id
      OBVIOUS
    <3> HIDE DEF Matching, Types, TypeOK, CallsAreMatched, InTime
    <3> QED  BY <3>1, <3>2, <3>3, <3>4
  <2>4. \A j \in Calls :
          /\ call'[j] \in {"putting", "pausing", "asleep"} /\ result'[j] = NoItem
                 => <<srv_id'[j], j>> \in services_waiting'
          /\ call'[j] \in {"awake", "returned"} => result'[j] # NoItem
    BY <1>1, <1>2
  <2> QED  BY <2>1, <2>3, <2>4
<1>5. InTime'
  BY <1>1, <1>2, <1>3
<1> QED  BY <1>4, <1>5

\* What the steps of calls leave alone, apart from registering.
LEMMA CallStep ==
    ASSUME Types, NEW k \in Calls, Call(k), ~CallRegister(k)
    PROVE  /\ UNCHANGED <<next_srv_id, services_waiting, srv_id, result, reader, item>>
           /\ \A j \in Calls \ {k} : call'[j] = call[j]
           /\ \/ call'[k] \in {"failed", "registering"} /\ call[k] = "waiting"
              \/ call'[k] \in {"failed", "pausing"} /\ call[k] = "putting"
              \/ call'[k] = "asleep" /\ call[k] = "pausing"
              \/ call'[k] = "returned" /\ call[k] = "awake"
  BY DEF Call, CallCheck, CallPut, CallSleep, CallReturn, Goto, Types, TypeOK, connVars

LEMMA StepMatching == Matching /\ [Next]_vars => Matching'
<1> SUFFICES ASSUME Matching, [Next]_vars PROVE CallsAreMatched' /\ InTime'
  BY StepTypes DEF Matching
<1>1. ASSUME NEW c \in Conns, Accept(c) PROVE CallsAreMatched' /\ InTime'
  BY <1>1, QuietStep DEF Accept, serverVars, Goto, Matching, Types, TypeOK
<1>2. ASSUME NEW c \in Conns, Sender(c) \/ Unity(c)
      PROVE  CallsAreMatched' /\ InTime'
  <2>1. UNCHANGED <<callVars, reader, item>>
    BY <1>2 DEF Sender, SenderStart, SenderSend, SenderHalts, SenderEnd, Unity,
       UnityAnswers, UnityRequests, UnityStrays, LinkLost, serverVars, connVars
  <2> QED  BY <2>1, QuietStep
<1>3. ASSUME NEW c \in Conns, Reader(c) PROVE CallsAreMatched' /\ InTime'
  BY <1>3, QuietReader, AnswerStep, ResumeStep
<1>4. ASSUME NEW k \in Calls, Call(k) PROVE CallsAreMatched' /\ InTime'
  <2>1. CASE CallRegister(k)  BY <2>1, RegisterStep
  <2>2. CASE ~CallRegister(k)
    BY <1>4, <2>2, CallStep DEF Matching, CallsAreMatched, InTime
  <2> QED  BY <2>1, <2>2
<1>5. CASE UNCHANGED <<callVars, reader, item>>
  BY <1>5, QuietStep
<1>6. CASE Next
  <2>1. \/ \E c \in Conns : Accept(c) \/ Sender(c) \/ Reader(c) \/ Unity(c)
        \/ \E k \in Calls : Call(k)
        \/ UNCHANGED <<callVars, reader, item>>
    BY <1>6 DEF Next, Request, Message, MessageSend, MessagePut, RequestCall, RequestPoll,
       RequestCollect,
       RequestReply, RosAnswers, connVars
  <2> QED  BY <1>1, <1>2, <1>3, <1>4, <1>5, <2>1
<1> QED  BY <1>5, <1>6 DEF vars, connVars, serverVars

\* A call that waits can still be answered under its own id, which no other
\* call has, and a call that was woken has its answer, for any number of calls.
THEOREM CallsAreServed == Spec => []CallsAreMatched
<1>1. Matching => CallsAreMatched
  BY DEF Matching
<1> QED  BY <1>1, InitMatching, StepMatching, PTL DEF Spec

-----------------------------------------------------------------------------
(* No answer before the request: what UnityCalls promises.                 *)

\* Unity may answer under the id i: it is not one still to be given out, and a
\* call that waits under it has put its request into a queue.
Answerable(i) ==
    /\ i \in Nat => i < next_srv_id
    /\ \A w \in services_waiting : w[1] = i => call[w[2]] \in {"pausing", "asleep"}

Known == {it \in Item : Answerable(it.id)}
Sendable == {it \in Item : it.kind = "request" => Answerable(it.id)}

\* Every id on its way to Unity, at Unity, on its way back, in the hands of a
\* reader or pending is one Unity may answer under.
AskedFirst ==
    /\ FirstId <= next_srv_id /\ \A w \in services_waiting : FirstId <= w[1]
    /\ local_queue \in [Conns -> Seq(Sendable)]
    /\ asked \in [Conns -> SUBSET Known]
    /\ inbox \in [Conns -> Seq(Known)]
    /\ item \in [Conns -> Known]
    /\ Answerable(pending_srv_id)

\* A call has no result before Unity is asked, nor has one that has failed.
UnaskedUnanswered ==
    \A k \in Calls :
        call[k] \in {"waiting", "registering", "putting", "failed"}
            => result[k] = NoItem

Promised == Matching /\ AskedFirst /\ UnaskedUnanswered

\* Ids of Unity's own requests, and None, are under nobody's entry.
LEMMA ForeignIds ==
    ASSUME Types, FirstId <= next_srv_id, NEW i \in Requests \cup {None},
           \A w \in services_waiting : FirstId <= w[1]
    PROVE  Answerable(i)
<1>1. i \in Nat => i < FirstId
  BY NoneIsNothing, IdsApart
<1>2. next_srv_id \in Nat /\ FirstId \in Nat
  BY DEF Types, TypeOK, FirstId
<1>3. \A w \in services_waiting : w[1] \in Nat
  BY DEF Types, TypeOK
<1> QED  BY <1>1, <1>2, <1>3 DEF Answerable

LEMMA InitPromised == Init => Promised
<1> SUFFICES ASSUME Init PROVE AskedFirst /\ UnaskedUnanswered
  BY InitMatching DEF Promised
<1>1. services_waiting = {} /\ next_srv_id = FirstId
  BY DEF Init
<1>2. Answerable(None)
  BY <1>1, Constants DEF Answerable
<1>3. NoItem \in Known
  BY <1>2, Constants DEF Known, NoItem, NewItem
<1>4. FirstId <= next_srv_id
  BY <1>1 DEF FirstId
<1>5. <<>> \in Seq(Sendable) /\ <<>> \in Seq(Known)
  OBVIOUS
<1>6. UnaskedUnanswered
  BY DEF Init, UnaskedUnanswered
<1> QED  BY <1>1, <1>2, <1>3, <1>4, <1>5, <1>6 DEF Init, AskedFirst

\* The steps that touch the ids, the entries or where the calls are.
LEMMA OtherSteps ==
    ASSUME [Next]_vars, \A c \in Conns : ~ReaderAnswer(c) /\ ~ReaderResume(c),
           \A k \in Calls : ~Call(k)
    PROVE  UNCHANGED callVars
<1>1. ASSUME NEW c \in Conns, Accept(c) \/ Sender(c) \/ Unity(c)
      PROVE  UNCHANGED callVars
  BY <1>1 DEF Accept, Sender, SenderStart, SenderSend, SenderHalts, SenderEnd, Unity,
     UnityAnswers, UnityRequests, UnityStrays, LinkLost, serverVars
<1>2. ASSUME NEW c \in Conns, Reader(c) PROVE UNCHANGED callVars
  BY <1>2 DEF Reader, ReaderRead, ReaderIOError, ReaderHeader, ReaderFlag,
     ReaderRefuse, ReaderSpawn, ReaderClear, ReaderEnd, serverVars
<1>3. ASSUME NEW r \in Requests, Request(r) \/ RosAnswers(r) PROVE UNCHANGED callVars
  BY <1>3 DEF Request, RequestCall, RequestPoll, RequestCollect, RequestReply,
     RosAnswers
<1>4. ASSUME NEW m \in Messages, Message(m) PROVE UNCHANGED callVars
  BY <1>4 DEF Message, MessageSend, MessagePut
<1> QED  BY <1>1, <1>2, <1>3, <1>4 DEF Next, vars, serverVars

\* An id Unity may answer under stays one: the only entry that could be lost or
\* join another id is new, and a call leaves its wait only with its entry gone.
LEMMA AnswerableStays ==
    ASSUME Matching, [Next]_vars, NEW i, Answerable(i)
    PROVE  Answerable(i)'
<1> USE DEF Matching, Types, TypeOK
<1>1. ASSUME NEW k \in Calls, CallRegister(k) PROVE Answerable(i)'
  <2>1. /\ services_waiting' = {w \in services_waiting : w[1] # next_srv_id}
                               \cup {<<next_srv_id, k>>}
        /\ next_srv_id' = next_srv_id + 1
        /\ call[k] = "registering" /\ call' = [call EXCEPT ![k] = "putting"]
    BY <1>1 DEF CallRegister, Goto
  <2>2. i # next_srv_id
    BY DEF Answerable
  <2>3. \A w \in services_waiting : w[2] # k
    BY <2>1 DEF InTime
  <2>4. \A w \in services_waiting' : w[1] = i => w \in services_waiting
    BY <2>1, <2>2
  <2>5. \A w \in services_waiting : call'[w[2]] = call[w[2]]
    BY <2>1, <2>3
  <2>6. i \in Nat => i < next_srv_id'
    BY <2>1 DEF Answerable
  <2> QED  BY <2>4, <2>5, <2>6 DEF Answerable
<1>2. ASSUME NEW k \in Calls, Call(k), ~CallRegister(k) PROVE Answerable(i)'
  <2>1. UNCHANGED <<next_srv_id, services_waiting>>
    BY <1>2, CallStep
  <2>2. \A j \in Calls : call[j] \in {"pausing", "asleep"}
                         => call'[j] \in {"pausing", "asleep"}
    BY <1>2, CallStep, Zenon
  <2>3. \A w \in services_waiting : w[2] \in Calls
    OBVIOUS
  <2> QED  BY <2>1, <2>2, <2>3 DEF Answerable
<1>3. ASSUME NEW c \in Conns, ReaderAnswer(c) PROVE Answerable(i)'
  <2>1. UNCHANGED <<next_srv_id, call>> /\ services_waiting' \subseteq services_waiting
    BY <1>3 DEF ReaderAnswer, Taken
  <2> QED  BY <2>1 DEF Answerable
<1>4. ASSUME NEW c \in Conns, ReaderResume(c) PROVE Answerable(i)'
  <2> DEFINE k == item[c].of
  <2>1. /\ UNCHANGED <<next_srv_id, services_waiting>>
        /\ call' = call \/ call' = [call EXCEPT ![k] = "awake"]
    BY <1>4 DEF ReaderResume, Goto
  <2>2. result[k] # NoItem
    BY <1>4 DEF ReaderResume, InTime
  <2>3. \A w \in services_waiting : w[2] # k
    BY <2>2 DEF InTime
  <2> QED  BY <2>1, <2>3 DEF Answerable
<1>5. CASE UNCHANGED callVars
  BY <1>5 DEF callVars, Answerable
<1> QED  BY <1>1, <1>2, <1>3, <1>4, <1>5, OtherSteps

LEMMA KnownStays ==
    Matching /\ [Next]_vars => Known \subseteq Known' /\ Sendable \subseteq Sendable'
  BY AnswerableStays DEF Known, Sendable

LEMMA SeqsStay ==
    ASSUME NEW S, NEW T, S \subseteq T
    PROVE  Seq(S) \subseteq Seq(T)
  OBVIOUS

\* The id of a call that has just asked: the one of its own entry.
LEMMA OwnId ==
    ASSUME Promised, NEW k \in Calls, CallPut(k), queue # None
    PROVE  Answerable(srv_id[k])'
<1> USE DEF Promised, Matching, Types, TypeOK
<1>1. call[k] = "putting" /\ result[k] = NoItem
  BY DEF CallPut, UnaskedUnanswered
<1>2. <<srv_id[k], k>> \in services_waiting
  BY <1>1 DEF CallsAreMatched
<1>3. \A w \in services_waiting : w[1] = srv_id[k] => w[2] = k
  <2>1. \A w \in services_waiting : w[1] = srv_id[k] => w = <<srv_id[k], k>>
    BY <1>2 DEF CallsAreMatched
  <2> QED  BY <2>1
<1>4. srv_id[k] < next_srv_id
  BY <1>2 DEF CallsAreMatched
<1>5. UNCHANGED <<srv_id, services_waiting, next_srv_id>> /\ call'[k] = "pausing"
  BY DEF CallPut, Goto
<1> QED  BY <1>3, <1>4, <1>5 DEF Answerable

LEMMA PutSendable ==
    ASSUME Types, NEW S, local_queue \in [Conns -> Seq(S)],
           NEW it, queue # None => it \in S, PutIfConnected(it)
    PROVE  local_queue' \in [Conns -> Seq(S)]
<1>1. CASE queue = None
  BY <1>1 DEF PutIfConnected
<1>2. CASE queue # None
  <2>1. queue \in Conns /\ local_queue[queue] \in Seq(S)
    BY <1>2 DEF Types, TypeOK
  <2>2. Append(local_queue[queue], it) \in Seq(S)
    BY <1>2, <2>1, AppendProperties
  <2> QED  BY <1>2, <2>1, <2>2 DEF PutIfConnected
<1> QED  BY <1>1, <1>2

\* A message that is no request needs no entry.
LEMMA HarmlessItem ==
    ASSUME Types, NEW kind \in ToUnity \ {"request"}, NEW id \in Ids, NEW of \in Things
    PROVE  NewItem(kind, id, of) \in Sendable'
  BY NewItemType DEF Sendable, NewItem, ToUnity

LEMMA QueueStep ==
    ASSUME Promised, [Next]_vars
    PROVE  local_queue' \in [Conns -> Seq(Sendable')]
<1> USE DEF Promised, Matching
<1>1. local_queue \in [Conns -> Seq(Sendable')]
  <2>1. Seq(Sendable) \subseteq Seq(Sendable')
    BY KnownStays, SeqsStay
  <2> QED  BY <2>1 DEF AskedFirst
<1>2. Log \in Sendable' /\ Greeting \in Seq(Sendable')
  <2>1. Log \in Sendable'
    BY Constants, HarmlessItem DEF Log, ToUnity
  <2>2. NewItem("handshake", None, None) \in Sendable'
    BY Constants, HarmlessItem DEF ToUnity
  <2> QED  BY <2>1, <2>2 DEF Greeting
<1>3. ASSUME NEW c \in Conns, Sender(c) PROVE local_queue' \in [Conns -> Seq(Sendable')]
  <2>1. CASE SenderStart(c)
    BY <1>1, <1>2, <2>1 DEF SenderStart
  <2>2. CASE SenderSend(c)
    <3>1. local_queue[c] # <<>> /\ local_queue' = [local_queue EXCEPT ![c] = Tail(@)]
      BY <2>2 DEF SenderSend
    <3>2. Tail(local_queue[c]) \in Seq(Sendable')
      BY <1>1, <3>1, HeadTailProperties
    <3> QED  BY <1>1, <3>1, <3>2
  <2>3. CASE SenderHalts(c)
    BY <1>1, <2>3 DEF SenderHalts
  <2>4. CASE SenderEnd(c)
    BY <1>1, <2>4 DEF SenderEnd
  <2> QED  BY <1>3, <2>1, <2>2, <2>3, <2>4 DEF Sender
<1>4. ASSUME NEW c \in Conns, Reader(c) PROVE local_queue' \in [Conns -> Seq(Sendable')]
  <2>1. UNCHANGED local_queue \/ PutIfConnected(Log)
    BY <1>4 DEF Reader, ReaderRead, ReaderIOError, ReaderHeader, ReaderFlag,
       ReaderRefuse, ReaderSpawn, ReaderAnswer, ReaderResume, ReaderClear, ReaderEnd
  <2> QED  BY <1>1, <1>2, <2>1, PutSendable
<1>5. ASSUME NEW k \in Calls, Call(k) PROVE local_queue' \in [Conns -> Seq(Sendable')]
  <2>1. CASE CallPut(k)
    <3>1. PutIfConnected(NewItem("request", srv_id[k], k))
      BY <2>1 DEF CallPut
    <3>2. NewItem("request", srv_id[k], k) \in Item
      BY Constants, NewItemType DEF ToUnity, Types, TypeOK
    <3>3. srv_id' = srv_id
      BY <2>1 DEF CallPut
    <3>4. queue # None => Answerable(srv_id[k])'
      BY <2>1, OwnId
    <3>5. queue # None => NewItem("request", srv_id[k], k) \in Sendable'
      BY <3>2, <3>3, <3>4 DEF Sendable, Answerable, NewItem
    <3> QED  BY <1>1, <3>1, <3>5, PutSendable
  <2>2. CASE ~CallPut(k)
    BY <1>1, <1>5, <2>2 DEF Call, CallCheck, CallRegister, CallSleep, CallReturn,
       connVars
  <2> QED  BY <2>1, <2>2
<1>6. ASSUME NEW m \in Messages, Message(m)
      PROVE  local_queue' \in [Conns -> Seq(Sendable')]
  <2>1. NewItem("message", None, m) \in Sendable'
    BY Constants, HarmlessItem DEF ToUnity
  <2>2. UNCHANGED local_queue \/ PutIfConnected(NewItem("message", None, m))
    BY <1>6 DEF Message, MessageSend, MessagePut, connVars
  <2> QED  BY <1>1, <1>2, <2>1, <2>2, PutSendable
<1>7. ASSUME NEW r \in Requests, Request(r) \/ RosAnswers(r)
      PROVE  local_queue' \in [Conns -> Seq(Sendable')]
  <2>1. CASE RequestReply(r)
    <3>1. NewItem("response", reply_id[r], response[r]) \in Sendable'
      BY Constants, HarmlessItem DEF ToUnity, Types, TypeOK
    <3>2. PutIfConnected(Log)
          \/ PutIfConnected(NewItem("response", reply_id[r], response[r]))
      BY <2>1 DEF RequestReply
    <3> QED  BY <1>1, <1>2, <3>1, <3>2, PutSendable
  <2>2. CASE ~RequestReply(r)
    BY <1>1, <1>7, <2>2 DEF Request, RequestCall, RequestPoll, RequestCollect,
       RosAnswers, connVars
  <2> QED  BY <2>1, <2>2
<1>8. ASSUME NEW c \in Conns, Accept(c) \/ Unity(c)
      PROVE  local_queue' \in [Conns -> Seq(Sendable')]
  BY <1>1, <1>8 DEF Accept, Unity, UnityAnswers, UnityRequests, UnityStrays, LinkLost,
     connVars
<1>9. CASE UNCHANGED vars
  BY <1>1, <1>9 DEF vars, connVars
<1> QED  BY <1>3, <1>4, <1>5, <1>6, <1>7, <1>8, <1>9 DEF Next

\* Messages under no entry's id, now and after the step.
LEMMA ForeignKnown ==
    ASSUME Promised, [Next]_vars, NEW kind \in FromUnity \cup {"none"},
           NEW id \in Requests \cup {None}, NEW of \in Things
    PROVE  NewItem(kind, id, of) \in Known' /\ Answerable(id)'
<1>1. Answerable(id)
  BY ForeignIds DEF Promised, Matching, AskedFirst
<1>2. Answerable(id)'
  BY <1>1, AnswerableStays DEF Promised
<1>3. NewItem(kind, id, of) \in Item
  BY Constants, NewItemType
<1> QED  BY <1>2, <1>3 DEF Known, NewItem

LEMMA AskedStep ==
    ASSUME Promised, [Next]_vars
    PROVE  asked' \in [Conns -> SUBSET Known']
<1> USE DEF Promised, Matching
<1>1. asked \in [Conns -> SUBSET Known']
  BY KnownStays DEF AskedFirst
<1>2. ASSUME NEW c \in Conns, SenderSend(c) PROVE asked' \in [Conns -> SUBSET Known']
  <2> DEFINE it == Head(local_queue[c])
  <2>1. local_queue[c] # <<>> /\ local_queue[c] \in Seq(Sendable)
    BY <1>2 DEF SenderSend, AskedFirst
  <2>2. it \in Sendable
    BY <2>1, HeadTailProperties
  <2>3. it.kind = "request" => it \in Known'
    BY <2>2, KnownStays DEF Sendable, Known
  <2>4. asked' = asked \/ (it.kind = "request"
                           /\ asked' = [asked EXCEPT ![c] = @ \cup {it}])
    BY <1>2 DEF SenderSend
  <2> HIDE DEF it
  <2> QED  BY <1>1, <2>3, <2>4
<1>3. ASSUME NEW c \in Conns, Unity(c) \/ ReaderEnd(c)
      PROVE  asked' \in [Conns -> SUBSET Known']
  <2>1. \E S \in SUBSET asked[c] : asked' = [asked EXCEPT ![c] = S]
    <3>1. CASE UnityAnswers(c)
      <4>1. PICK it \in asked[c] : asked' = [asked EXCEPT ![c] = asked[c] \ {it}]
        BY <3>1 DEF UnityAnswers
      <4> QED  BY <4>1
    <3>2. CASE UnityRequests(c) \/ UnityStrays(c)
      <4>1. asked' = [asked EXCEPT ![c] = asked[c]]
        BY <1>1, <3>2 DEF UnityRequests, UnityStrays
      <4> QED  BY <4>1
    <3>3. CASE LinkLost(c) \/ ReaderEnd(c)
      BY <3>3 DEF LinkLost, ReaderEnd
    <3> QED  BY <1>3, <3>1, <3>2, <3>3 DEF Unity
  <2> QED  BY <1>1, <2>1
<1>4. CASE UNCHANGED asked
  BY <1>1, <1>4
<1>5. ASSUME NEW c \in Conns, ~SenderSend(c), ~ReaderEnd(c),
             Accept(c) \/ Sender(c) \/ Reader(c)
      PROVE  UNCHANGED asked
  BY <1>5 DEF Accept, Sender, SenderStart, SenderHalts, SenderEnd, Reader, ReaderRead,
     ReaderIOError, ReaderHeader, ReaderFlag, ReaderRefuse, ReaderSpawn, ReaderAnswer,
     ReaderResume, ReaderClear, unityVars
<1>6. /\ \A k \in Calls : Call(k) => UNCHANGED asked
      /\ \A m \in Messages : Message(m) => UNCHANGED asked
      /\ \A r \in Requests : Request(r) \/ RosAnswers(r) => UNCHANGED asked
      /\ UNCHANGED vars => UNCHANGED asked
  BY DEF Call, CallCheck, CallRegister, CallPut, CallSleep, CallReturn, Message,
     MessageSend, MessagePut,
     Request, RequestCall, RequestPoll, RequestCollect, RequestReply, RosAnswers,
     unityVars, vars
<1> QED  BY <1>2, <1>3, <1>4, <1>5, <1>6 DEF Next

LEMMA InboxStep ==
    ASSUME Promised, [Next]_vars
    PROVE  inbox' \in [Conns -> Seq(Known')]
<1> USE DEF Promised, Matching
<1>1. inbox \in [Conns -> Seq(Known')]
  <2>1. Seq(Known) \subseteq Seq(Known')
    BY KnownStays, SeqsStay
  <2> QED  BY <2>1 DEF AskedFirst
<1>2. ASSUME NEW c \in Conns, NEW header \in Known', NEW data \in Known',
             UnitySends(c, header, data)
      PROVE  inbox' \in [Conns -> Seq(Known')]
  <2>1. Append(inbox[c], header) \in Seq(Known')
    BY <1>1, AppendProperties
  <2>2. Append(Append(inbox[c], header), data) \in Seq(Known')
    BY <2>1, AppendProperties
  <2> QED  BY <1>1, <1>2, <2>2 DEF UnitySends
<1>3. ASSUME NEW c \in Conns, UnityAnswers(c) PROVE inbox' \in [Conns -> Seq(Known')]
  <2>1. PICK it \in asked[c] : UnitySends(c, NewItem("__response", it.id, None),
                                             NewItem("data", None, it.of))
    BY <1>3 DEF UnityAnswers
  <2>2. it \in Known'
    BY KnownStays DEF AskedFirst
  <2>3. it \in Item /\ Answerable(it.id)'
    BY <2>2 DEF Known
  <2>4. NewItem("__response", it.id, None) \in Known'
    BY <2>3, Constants, ItemFields, NewItemType DEF Known, NewItem, FromUnity
  <2>5. NewItem("data", None, it.of) \in Known'
    BY <2>3, ItemFields, ForeignKnown DEF FromUnity
  <2> QED  BY <1>2, <2>1, <2>4, <2>5
<1>4. ASSUME NEW c \in Conns, UnityRequests(c) PROVE inbox' \in [Conns -> Seq(Known')]
  <2>1. PICK r \in Requests : UnitySends(c, NewItem("__request", r, None),
                                            NewItem("data", None, r))
    BY <1>4 DEF UnityRequests
  <2>2. /\ NewItem("__request", r, None) \in Known'
        /\ NewItem("data", None, r) \in Known'
    BY Constants, ForeignKnown DEF FromUnity
  <2> QED  BY <1>2, <2>1, <2>2
<1>5. ASSUME NEW c \in Conns, UnityStrays(c) PROVE inbox' \in [Conns -> Seq(Known')]
  <2>1. PICK m \in Messages :
            inbox' = [inbox EXCEPT ![c] = Append(@, NewItem("stray", None, m))]
    BY <1>5 DEF UnityStrays
  <2>2. NewItem("stray", None, m) \in Known'
    BY Constants, ForeignKnown DEF FromUnity
  <2>3. Append(inbox[c], NewItem("stray", None, m)) \in Seq(Known')
    BY <1>1, <2>2, AppendProperties
  <2> QED  BY <1>1, <2>1, <2>3
<1>6. ASSUME NEW c \in Conns, LinkLost(c) PROVE inbox' \in [Conns -> Seq(Known')]
  <2>1. PICK n \in 0..Len(inbox[c]) : inbox' = [inbox EXCEPT ![c] = SubSeq(@, 1, n)]
    BY <1>6 DEF LinkLost
  <2>2. inbox[c] \in Seq(Known') /\ \A j \in 1..n : inbox[c][j] \in Known'
    BY <1>1
  <2>3. SubSeq(inbox[c], 1, n) \in Seq(Known')
    BY <2>2, SubSeqProperties
  <2> QED  BY <1>1, <2>1, <2>3
<1>7. ASSUME NEW c \in Conns, ReaderRead(c) \/ ReaderEnd(c)
      PROVE  inbox' \in [Conns -> Seq(Known')]
  <2>1. CASE ReaderRead(c)
    <3>1. inbox[c] # <<>> /\ inbox' = [inbox EXCEPT ![c] = Tail(@)]
      BY <2>1 DEF ReaderRead
    <3>2. Tail(inbox[c]) \in Seq(Known')
      BY <1>1, <3>1, HeadTailProperties
    <3> QED  BY <1>1, <3>1, <3>2
  <2>2. CASE ReaderEnd(c)
    BY <1>1, <2>2 DEF ReaderEnd
  <2> QED  BY <1>7, <2>1, <2>2
<1>8. CASE UNCHANGED inbox
  BY <1>1, <1>8
<1>9. ASSUME NEW c \in Conns, ~ReaderRead(c), ~ReaderEnd(c),
             Accept(c) \/ Sender(c) \/ Reader(c)
      PROVE  UNCHANGED inbox
  BY <1>9 DEF Accept, Sender, SenderStart, SenderSend, SenderHalts, SenderEnd, Reader,
     ReaderIOError, ReaderHeader, ReaderFlag, ReaderRefuse, ReaderSpawn, ReaderAnswer,
     ReaderResume, ReaderClear, unityVars
<1>10. /\ \A k \in Calls : Call(k) => UNCHANGED inbox
       /\ \A m \in Messages : Message(m) => UNCHANGED inbox
       /\ \A r \in Requests : Request(r) \/ RosAnswers(r) => UNCHANGED inbox
       /\ UNCHANGED vars => UNCHANGED inbox
  BY DEF Call, CallCheck, CallRegister, CallPut, CallSleep, CallReturn, Message,
     MessageSend, MessagePut,
     Request, RequestCall, RequestPoll, RequestCollect, RequestReply, RosAnswers,
     unityVars, vars
<1> QED  BY <1>3, <1>4, <1>5, <1>6, <1>7, <1>8, <1>9, <1>10 DEF Next, Unity

LEMMA ReaderKnown ==
    ASSUME Promised, [Next]_vars, NEW c \in Conns, Reader(c)
    PROVE  item' \in [Conns -> Known'] /\ Answerable(pending_srv_id)'
<1> USE DEF Promised, Matching
<1>1. item \in [Conns -> Known'] /\ (pending_srv_id' = pending_srv_id
                                     => Answerable(pending_srv_id)')
  <2>1. Answerable(pending_srv_id)
    BY DEF AskedFirst
  <2>2. pending_srv_id' = pending_srv_id => Answerable(pending_srv_id)'
    <3>1. ASSUME NEW i, i = pending_srv_id, pending_srv_id' = i
          PROVE  Answerable(pending_srv_id)'
      <4>1. Answerable(i)'
        BY <2>1, <3>1, AnswerableStays
      <4> QED  BY <3>1, <4>1 DEF Answerable
    <3> QED  BY <3>1
  <2> QED  BY <2>2, KnownStays DEF AskedFirst
<1>2. NoItem \in Known' /\ (pending_srv_id' = None => Answerable(pending_srv_id)')
  <2>1. NoItem \in Known' /\ Answerable(None)'
    BY Constants, ForeignKnown DEF NoItem
  <2> QED  BY <2>1 DEF Answerable
<1>3. CASE ReaderRead(c)
  <2>1. inbox[c] # <<>> /\ inbox[c] \in Seq(Known)
        /\ item' = [item EXCEPT ![c] = Head(inbox[c])]
        /\ pending_srv_id' = pending_srv_id
    BY <1>3 DEF ReaderRead, AskedFirst, serverVars, pendingVars
  <2>2. Head(inbox[c]) \in Known'
    BY <2>1, HeadTailProperties, KnownStays
  <2> QED  BY <1>1, <2>1, <2>2
<1>4. CASE ReaderHeader(c)
  <2>1. item[c] \in Known /\ pending_srv_id' = item[c].id /\ item' = item
    BY <1>4 DEF ReaderHeader, AskedFirst
  <2>2. Answerable(item[c].id)
    BY <2>1 DEF Known
  <2>3. Answerable(pending_srv_id)'
    <3>1. ASSUME NEW i, i = item[c].id PROVE Answerable(pending_srv_id)'
      <4>1. Answerable(i)'
        BY <2>2, <3>1, AnswerableStays
      <4> QED  BY <2>1, <3>1, <4>1 DEF Answerable
    <3> QED  BY <3>1
  <2> QED  BY <1>1, <2>1, <2>3
<1>5. CASE ReaderAnswer(c)
  <2>1. /\ pending_srv_id' = pending_srv_id
        /\ \/ item' = [item EXCEPT ![c] = NoItem]
           \/ \E k \in Calls : item' = [item EXCEPT ![c] = NewItem("data", None, k)]
    BY <1>5 DEF ReaderAnswer, ReaderRaises, pendingVars
  <2>2. \A k \in Calls : NewItem("data", None, k) \in Known'
    BY Constants, ForeignKnown DEF FromUnity
  <2> QED  BY <1>1, <1>2, <2>1, <2>2
<1>6. CASE \/ ReaderIOError(c) \/ ReaderFlag(c) \/ ReaderRefuse(c) \/ ReaderSpawn(c)
           \/ ReaderResume(c) \/ ReaderClear(c) \/ ReaderEnd(c)
  <2>1. /\ pending_srv_id' \in {pending_srv_id, None}
        /\ item' = item \/ item' = [item EXCEPT ![c] = NoItem]
    BY <1>6 DEF ReaderIOError, ReaderFlag, ReaderRefuse, ReaderSpawn, ReaderResume,
       ReaderClear, ReaderEnd, ReaderLoops, ReaderClears, ReaderRaises, serverVars,
       pendingVars
  <2> QED  BY <1>1, <1>2, <2>1
<1> QED  BY <1>3, <1>4, <1>5, <1>6 DEF Reader

LEMMA ReadStep ==
    ASSUME Promised, [Next]_vars
    PROVE  item' \in [Conns -> Known'] /\ Answerable(pending_srv_id)'
<1>1. CASE UNCHANGED <<item, pending_srv_id>>
  <2>1. ASSUME NEW i, i = pending_srv_id PROVE Answerable(pending_srv_id)'
    <3>1. Answerable(i)'
      BY <2>1, AnswerableStays DEF Promised, AskedFirst
    <3> QED  BY <1>1, <2>1, <3>1 DEF Answerable
  <2> QED  BY <1>1, <2>1, KnownStays DEF Promised, AskedFirst
<1>2. \A c \in Conns : Accept(c) \/ Sender(c) \/ Unity(c)
                       => UNCHANGED <<item, pending_srv_id>>
  BY DEF Accept, Sender, SenderStart, SenderSend, SenderHalts, SenderEnd, Unity,
     UnityAnswers, UnityRequests, UnityStrays, LinkLost, connVars, serverVars,
     pendingVars
<1>3. /\ \A k \in Calls : Call(k) => UNCHANGED <<item, pending_srv_id>>
      /\ \A m \in Messages : Message(m) => UNCHANGED <<item, pending_srv_id>>
      /\ \A r \in Requests : Request(r) \/ RosAnswers(r)
                             => UNCHANGED <<item, pending_srv_id>>
      /\ UNCHANGED vars => UNCHANGED <<item, pending_srv_id>>
  BY DEF Call, CallCheck, CallRegister, CallPut, CallSleep, CallReturn, Message,
     MessageSend, MessagePut,
     Request, RequestCall, RequestPoll, RequestCollect, RequestReply, RosAnswers,
     connVars, pendingVars, serverVars, vars
<1> QED  BY <1>1, <1>2, <1>3, ReaderKnown DEF Next

\* What a step is to the call records: one step of one call, an answer, a call
\* resumed, or nothing.
LEMMA CallSteps ==
    ASSUME Promised, [Next]_vars
    PROVE  \/ \E k \in Calls : CallRegister(k) \/ (Call(k) /\ ~CallRegister(k))
           \/ \E k \in Calls, c \in Conns :
                  /\ <<pending_srv_id, k>> \in services_waiting
                  /\ services_waiting' = services_waiting \ {<<pending_srv_id, k>>}
                  /\ item[c] # NoItem
                  /\ result' = [result EXCEPT ![k] = item[c]]
                  /\ UNCHANGED <<next_srv_id, call>>
           \/ \E k \in Calls :
                  /\ call[k] = "asleep" /\ call' = [call EXCEPT ![k] = "awake"]
                  /\ UNCHANGED <<next_srv_id, services_waiting, result>>
           \/ UNCHANGED <<next_srv_id, services_waiting, call, result>>
<1> USE DEF Promised, Matching
<1>1. ASSUME NEW c \in Conns, ReaderAnswer(c)
      PROVE  \/ \E k \in Calls :
                  /\ <<pending_srv_id, k>> \in services_waiting
                  /\ services_waiting' = services_waiting \ {<<pending_srv_id, k>>}
                  /\ item[c] # NoItem
                  /\ result' = [result EXCEPT ![k] = item[c]]
                  /\ UNCHANGED <<next_srv_id, call>>
             \/ UNCHANGED <<next_srv_id, services_waiting, call, result>>
  <2>1. item[c] # NoItem
    BY <1>1, Constants DEF ReaderAnswer, Types, Inboxes, Holding
  <2> QED  BY <1>1, <2>1 DEF ReaderAnswer, Taken, Resulted
<1>2. ASSUME NEW c \in Conns, ReaderResume(c)
      PROVE  \/ \E k \in Calls :
                  /\ call[k] = "asleep" /\ call' = [call EXCEPT ![k] = "awake"]
                  /\ UNCHANGED <<next_srv_id, services_waiting, result>>
             \/ UNCHANGED <<next_srv_id, services_waiting, call, result>>
  <2>1. item[c].of \in Calls
    BY <1>2 DEF ReaderResume, InTime
  <2> QED  BY <1>2, <2>1 DEF ReaderResume, Goto
<1>3. CASE UNCHANGED callVars
  BY <1>3 DEF callVars
<1> QED  BY <1>1, <1>2, <1>3, OtherSteps

LEMMA StepPromised == Promised /\ [Next]_vars => Promised'
<1> SUFFICES ASSUME Promised, [Next]_vars
             PROVE  /\ FirstId <= next_srv_id'
                    /\ \A w \in services_waiting' : FirstId <= w[1]
                    /\ UnaskedUnanswered'
  BY StepMatching, QueueStep, AskedStep, InboxStep, ReadStep DEF Promised, AskedFirst
<1> USE DEF Promised, Matching, Types, TypeOK
<1>1. FirstId <= next_srv_id /\ \A w \in services_waiting : FirstId <= w[1]
  BY DEF AskedFirst
<1>2. ASSUME NEW k \in Calls, CallRegister(k)
      PROVE  /\ FirstId <= next_srv_id'
             /\ \A w \in services_waiting' : FirstId <= w[1]
             /\ UnaskedUnanswered'
  <2>1. /\ next_srv_id' = next_srv_id + 1 /\ UNCHANGED result
        /\ call[k] = "registering" /\ call' = [call EXCEPT ![k] = "putting"]
        /\ \A w \in services_waiting' : w \in services_waiting \/ w = <<next_srv_id, k>>
    BY <1>2 DEF CallRegister, Goto
  <2>2. \A w \in services_waiting' : FirstId <= w[1]
    BY <1>1, <2>1
  <2>3. UnaskedUnanswered'
    BY <2>1 DEF UnaskedUnanswered
  <2> QED  BY <1>1, <2>1, <2>2, <2>3 DEF FirstId
<1>3. ASSUME NEW k \in Calls, Call(k), ~CallRegister(k)
      PROVE  /\ FirstId <= next_srv_id'
             /\ \A w \in services_waiting' : FirstId <= w[1]
             /\ UnaskedUnanswered'
  <2>1. UNCHANGED <<next_srv_id, services_waiting, result>>
    BY <1>3, CallStep
  <2>2. \A j \in Calls :
            call'[j] \in {"waiting", "registering", "putting", "failed"}
                => call[j] \in {"waiting", "registering", "putting", "failed"}
    BY <1>3, CallStep, Zenon
  <2> QED  BY <1>1, <2>1, <2>2 DEF UnaskedUnanswered
<1>4. ASSUME NEW k \in Calls, NEW c \in Conns,
             <<pending_srv_id, k>> \in services_waiting,
             services_waiting' = services_waiting \ {<<pending_srv_id, k>>},
             result' = [result EXCEPT ![k] = item[c]], UNCHANGED <<next_srv_id, call>>
      PROVE  /\ FirstId <= next_srv_id'
             /\ \A w \in services_waiting' : FirstId <= w[1]
             /\ UnaskedUnanswered'
  <2>1. call[k] \in {"pausing", "asleep"}
    BY <1>4 DEF AskedFirst, Answerable
  <2>2. UnaskedUnanswered'
    BY <1>4, <2>1 DEF UnaskedUnanswered
  <2> QED  BY <1>1, <1>4, <2>2
<1>5. ASSUME NEW k \in Calls, call[k] = "asleep", call' = [call EXCEPT ![k] = "awake"],
             UNCHANGED <<next_srv_id, services_waiting, result>>
      PROVE  /\ FirstId <= next_srv_id'
             /\ \A w \in services_waiting' : FirstId <= w[1]
             /\ UnaskedUnanswered'
  BY <1>1, <1>5 DEF UnaskedUnanswered
<1>6. CASE UNCHANGED <<next_srv_id, services_waiting, call, result>>
  BY <1>1, <1>6 DEF UnaskedUnanswered
<1> QED  BY <1>2, <1>3, <1>4, <1>5, <1>6, CallSteps

LEMMA PhaseOf ==
    /\ Phase("waiting") = "new" /\ Phase("registering") = "new"
    /\ Phase("putting") = "new" /\ Phase("pausing") = "asked"
    /\ Phase("asleep") = "asked" /\ Phase("awake") = "asked"
    /\ Phase("returned") = "returned" /\ Phase("failed") = "failed"
  BY DEF Phase

LEMMA InitCalls == Init => Promise!Init
  BY PhaseOf DEF Init, Promise!Init

\* A step of one call's code, in the terms of UnityCalls.
LEMMA MovedCall ==
    ASSUME Promised, NEW k \in Calls, NEW pc, call' = [call EXCEPT ![k] = pc],
           UNCHANGED result
    PROVE  [j \in Calls |-> Phase(call[j])]'
               = [[j \in Calls |-> Phase(call[j])] EXCEPT ![k] = Phase(pc)]
<1>1. \A j \in Calls : call'[j] = IF j = k THEN pc ELSE call[j]
  BY DEF Promised, Matching, Types, TypeOK
<1>2. \A j \in Calls : Phase(call'[j]) = IF j = k THEN Phase(pc) ELSE Phase(call[j])
  <2> SUFFICES ASSUME NEW j \in Calls
               PROVE  Phase(call'[j]) = IF j = k THEN Phase(pc) ELSE Phase(call[j])
    OBVIOUS
  <2>1. CASE j = k
    <3>1. call'[j] = pc
      BY <1>1, <2>1
    <3> QED  BY <2>1, <3>1
  <2>2. CASE j # k
    <3>1. call'[j] = call[j]
      BY <1>1, <2>2
    <3> QED  BY <2>2, <3>1
  <2> QED  BY <2>1, <2>2
<1> DEFINE phase == [j \in Calls |-> Phase(call[j])]
<1>3. phase' = [j \in Calls |-> Phase(call'[j])]
  OBVIOUS
<1>4. [phase EXCEPT ![k] = Phase(pc)]
          = [j \in Calls |-> IF j = k THEN Phase(pc) ELSE Phase(call[j])]
  OBVIOUS
<1> QED  BY <1>2, <1>3, <1>4, Zenon

LEMMA StepCalls == Promised /\ [Next]_vars => [Promise!Next]_(Promise!vars)
<1> SUFFICES ASSUME Promised, [Next]_vars PROVE [Promise!Next]_(Promise!vars)
  OBVIOUS
<1> USE DEF Promised, Matching, Types, TypeOK
<1> DEFINE phase == [j \in Calls |-> Phase(call[j])]
<1>1. ASSUME NEW k \in Calls, Call(k) PROVE [Promise!Next]_(Promise!vars)
  <2>1. PICK pc : /\ call' = [call EXCEPT ![k] = pc] /\ UNCHANGED result
                  /\ \/ call[k] = "waiting" /\ pc \in {"failed", "registering"}
                     \/ call[k] = "registering" /\ pc = "putting"
                     \/ call[k] = "putting" /\ pc \in {"failed", "pausing"}
                     \/ call[k] = "pausing" /\ pc = "asleep"
                     \/ call[k] = "awake" /\ pc = "returned"
    BY <1>1 DEF Call, CallCheck, CallRegister, CallPut, CallSleep, CallReturn, Goto
  <2>2. phase' = [phase EXCEPT ![k] = Phase(pc)]
    BY <2>1, MovedCall
  <2>3. phase[k] = Phase(call[k])
    OBVIOUS
  <2> HIDE DEF phase
  <2>4. CASE Phase(pc) = Phase(call[k])
    <3>1. phase' = phase
      <4>1. phase = [phase EXCEPT ![k] = phase[k]]
        BY DEF phase
      <4> QED  BY <2>2, <2>3, <2>4, <4>1
    <3> QED  BY <2>1, <3>1, Zenon DEF Promise!vars, phase
  <2>5. CASE Phase(call[k]) = "new" /\ Phase(pc) \in {"failed", "asked"}
    BY <2>1, <2>2, <2>3, <2>5
       DEF Promise!Next, Promise!Fail, Promise!Ask, Promise!Enter, phase
  <2>6. CASE call[k] = "awake" /\ pc = "returned"
    <3>1. result[k] # NoItem
      BY <2>6 DEF CallsAreMatched
    <3> QED  BY <2>1, <2>2, <2>3, <2>6, <3>1, PhaseOf
                DEF Promise!Next, Promise!Return, Promise!Enter, phase
  <2> QED  BY <2>1, <2>4, <2>5, <2>6, PhaseOf
<1>2. ASSUME NEW k \in Calls, NEW c \in Conns,
             <<pending_srv_id, k>> \in services_waiting, item[c] # NoItem,
             result' = [result EXCEPT ![k] = item[c]], UNCHANGED call
      PROVE  Promise!Next
  <2>1. call[k] \in {"pausing", "asleep"}
    BY <1>2 DEF AskedFirst, Answerable
  <2>2. phase[k] = "asked" /\ UNCHANGED phase
    BY <1>2, <2>1, PhaseOf
  <2>3. result[k] = NoItem
    BY <1>2 DEF InTime
  <2>4. result'[k] = item[c] /\ result' = [result EXCEPT ![k] = result'[k]]
    BY <1>2
  <2> HIDE DEF phase
  <2> QED  BY <1>2, <2>2, <2>3, <2>4 DEF Promise!Next, Promise!Answer, phase
<1>3. ASSUME NEW k \in Calls, call[k] = "asleep", call' = [call EXCEPT ![k] = "awake"],
             UNCHANGED result
      PROVE  UNCHANGED Promise!vars
  <2>1. phase' = phase
    BY <1>3, MovedCall, PhaseOf
  <2> QED  BY <1>3, <2>1 DEF Promise!vars
<1>4. CASE UNCHANGED <<call, result>>
  BY <1>4 DEF Promise!vars
<1>5. ASSUME NEW k \in Calls, CallRegister(k) PROVE Call(k)
  BY <1>5 DEF Call
<1> QED  BY <1>1, <1>2, <1>3, <1>4, <1>5, CallSteps

\* For any number of connections, calls, requests and executor threads: a call
\* is answered only after Unity has been asked and once only, it returns only
\* with an answer, and it fails only before Unity has been asked.
THEOREM CallsRefine == Spec => ImplementsCalls
  BY InitPromised, InitCalls, StepPromised, StepCalls, PTL
     DEF Spec, ImplementsCalls, Promise!Spec

-----------------------------------------------------------------------------
(* The two findings, where they end and how far they reach.                *)

\* No two threads of one service are between their call and its response.
OneAtATime ==
    \A r, s \in Requests :
        {request[r], request[s]} \subseteq {"polling", "collecting"} => r = s

FutureIsOwn ==
    /\ \A r \in Requests : request[r] \in {"polling", "collecting"} => future = r
    /\ ResponseIsOwn

LEMMA StepFuture ==
    Types /\ FutureIsOwn /\ OneAtATime' /\ [Next]_vars => FutureIsOwn'
<1> SUFFICES ASSUME Types, FutureIsOwn, OneAtATime', [Next]_vars PROVE FutureIsOwn'
  OBVIOUS
<1> USE DEF Types, TypeOK, FutureIsOwn, ResponseIsOwn, Goto
<1>1. ASSUME NEW r \in Requests, Request(r) PROVE FutureIsOwn'
  <2>1. CASE RequestCall(r)
    <3>1. CASE request' = [request EXCEPT ![r] = "polling"] /\ future' = r
      <4>1. \A q \in Requests : request'[q] \in {"polling", "collecting"} => q = r
        BY <3>1 DEF OneAtATime
      <4> QED  BY <2>1, <3>1, <4>1 DEF RequestCall
    <3>2. CASE request' = [request EXCEPT ![r] = "replying"] /\ UNCHANGED future
      BY <2>1, <3>2 DEF RequestCall
    <3> QED  BY <2>1, <3>1, <3>2 DEF RequestCall
  <2>2. CASE RequestPoll(r)     BY <2>2 DEF RequestPoll
  <2>3. CASE RequestCollect(r)
    <3>1. future = r
      BY <2>3 DEF RequestCollect
    <3> QED  BY <2>3, <3>1 DEF RequestCollect
  <2>4. CASE RequestReply(r)    BY <2>4 DEF RequestReply
  <2> QED  BY <1>1, <2>1, <2>2, <2>3, <2>4 DEF Request
<1>2. ASSUME NEW r \in Requests, NEW pc \in {"calling", "sent"},
             request' = [request EXCEPT ![r] = pc], UNCHANGED <<future, response>>
      PROVE  FutureIsOwn'
  BY <1>2
<1>3. ASSUME NEW c \in Conns, Reader(c) PROVE FutureIsOwn'
  <2>1. CASE ReaderSpawn(c)
    <3>1. UNCHANGED <<future, response>>
          /\ \/ item[c].of \in Requests /\ request' = [request EXCEPT ![item[c].of] = "calling"]
             \/ UNCHANGED request
      BY <2>1 DEF ReaderSpawn
    <3> QED  BY <1>2, <3>1
  <2>2. CASE ~ReaderSpawn(c)
    <3>1. UNCHANGED requestVars
      BY <1>3, <2>2 DEF Reader, ReaderRead, ReaderIOError, ReaderHeader, ReaderFlag,
         ReaderRefuse, ReaderAnswer, ReaderResume, ReaderClear, ReaderEnd, serverVars
    <3> QED  BY <3>1 DEF requestVars
  <2> QED  BY <2>1, <2>2
<1>4. ASSUME NEW c \in Conns, UnityRequests(c) PROVE FutureIsOwn'
  BY <1>2, <1>4 DEF UnityRequests
<1>5. ASSUME NEW c \in Conns, Accept(c) \/ Sender(c) \/ Unity(c), ~UnityRequests(c)
      PROVE  FutureIsOwn'
  BY <1>5 DEF Accept, Sender, SenderStart, SenderSend, SenderHalts, SenderEnd, Unity,
     UnityAnswers, UnityStrays, LinkLost, serverVars, requestVars
<1>6. /\ \A k \in Calls : Call(k) => FutureIsOwn'
      /\ \A m \in Messages : Message(m) => FutureIsOwn'
      /\ \A r \in Requests : RosAnswers(r) => FutureIsOwn'
      /\ UNCHANGED vars => FutureIsOwn'
  BY DEF Call, CallCheck, CallRegister, CallPut, CallSleep, CallReturn, Message,
     MessageSend, MessagePut,
     RosAnswers, requestVars, serverVars, vars
<1> QED  BY <1>1, <1>3, <1>4, <1>5, <1>6 DEF Next

\* The docstring of RosService.send is true of requests that never overlap: only
\* two threads between call_async and future.result() can swap responses.
THEOREM OwnResponseAlone == Spec /\ []OneAtATime => []ResponseIsOwn
<1>1. Init => FutureIsOwn
  BY DEF Init, FutureIsOwn, ResponseIsOwn
<1>2. FutureIsOwn => ResponseIsOwn
  BY DEF FutureIsOwn
<1> QED  BY <1>1, <1>2, InitTypes, StepTypes, StepFuture, PTL DEF Spec

WithinWorkers == IsFiniteSet(Busy) /\ Cardinality(Busy) <= Workers

\* A call whose answer came before it waited: nobody will notify it any more.
Lost(k) ==
    /\ call[k] \in {"pausing", "asleep"} /\ result[k] # NoItem
    /\ \A c \in Conns : reader[c] = "resuming" => item[c].of # k

LostCalls == {k \in Calls : Lost(k)}

\* A step ends callbacks or keeps them, unless it starts one on a free thread.
LEMMA BusySteps ==
    ASSUME Promised, [Next]_vars
    PROVE  \/ Busy' \subseteq Busy
           \/ \E t \in Calls \cup Messages : FreeWorker /\ Busy' \subseteq Busy \cup {t}
<1> USE DEF Promised, Matching, Types, TypeOK
<1>1. ASSUME NEW k \in Calls, Call(k)
      PROVE  \/ Busy' \subseteq Busy
             \/ FreeWorker /\ Busy' \subseteq Busy \cup {k}
  <2>1. UNCHANGED message
    BY <1>1 DEF Call, CallCheck, CallRegister, CallPut, CallSleep, CallReturn
  <2>2. \A j \in Calls \ {k} : call'[j] = call[j]
    BY <1>1 DEF Call, CallCheck, CallRegister, CallPut, CallSleep, CallReturn, Goto
  <2>3. CASE CallCheck(k)
    BY <2>1, <2>2, <2>3 DEF CallCheck, Busy
  <2>4. CASE ~CallCheck(k)
    <3>1. call[k] \in Running
      BY <1>1, <2>4 DEF Call, CallRegister, CallPut, CallSleep, CallReturn, Running
    <3> QED  BY <2>1, <2>2, <3>1 DEF Busy
  <2> QED  BY <2>3, <2>4
<1>2. ASSUME NEW m \in Messages, Message(m)
      PROVE  \/ Busy' \subseteq Busy
             \/ FreeWorker /\ Busy' \subseteq Busy \cup {m}
  <2>1. UNCHANGED call /\ \A n \in Messages \ {m} : message'[n] = message[n]
    BY <1>2 DEF Message, MessageSend, MessagePut, callVars, Goto
  <2>2. CASE MessageSend(m)
    BY <2>1, <2>2 DEF MessageSend, Busy
  <2>3. CASE MessagePut(m)
    <3>1. message'[m] # "putting"
      BY <2>3 DEF MessagePut, Goto
    <3> QED  BY <2>1, <3>1 DEF Busy
  <2> QED  BY <1>2, <2>2, <2>3 DEF Message
<1>3. ASSUME NEW c \in Conns, ReaderResume(c) PROVE Busy' \subseteq Busy
  <2>1. UNCHANGED message
    BY <1>3 DEF ReaderResume
  <2>2. \A k \in Calls : call'[k] = call[k] \/ call[k] = "asleep"
    BY <1>3 DEF ReaderResume, Goto
  <2> QED  BY <2>1, <2>2 DEF Busy, Running
<1>4. ASSUME UNCHANGED call, \A m \in Messages : message'[m] \in {message[m], "done"}
      PROVE  Busy' \subseteq Busy
  BY <1>4 DEF Busy
<1>5. ASSUME NEW c \in Conns, ~ReaderResume(c),
             Accept(c) \/ Sender(c) \/ Reader(c) \/ Unity(c)
      PROVE  UNCHANGED call /\ \A m \in Messages : message'[m] \in {message[m], "done"}
  BY <1>5 DEF Goto, Accept, Sender, SenderStart, SenderSend, SenderHalts, SenderEnd, Reader,
     ReaderRead, ReaderIOError, ReaderHeader, ReaderFlag, ReaderRefuse, ReaderSpawn,
     ReaderAnswer, ReaderClear, ReaderEnd, Unity, UnityAnswers, UnityRequests,
     UnityStrays, LinkLost, callVars, serverVars
<1>6. /\ \A r \in Requests : Request(r) \/ RosAnswers(r) => UNCHANGED <<call, message>>
      /\ UNCHANGED vars => UNCHANGED <<call, message>>
  BY DEF Request, RequestCall, RequestPoll, RequestCollect, RequestReply, RosAnswers,
     callVars, serverVars, vars
<1> QED  BY <1>1, <1>2, <1>3, <1>4, <1>5, <1>6 DEF Next

LEMMA StepWorkers == Promised /\ WithinWorkers /\ [Next]_vars => WithinWorkers'
<1> SUFFICES ASSUME Promised, WithinWorkers, [Next]_vars PROVE WithinWorkers'
  OBVIOUS
<1>1. CASE Busy' \subseteq Busy
  <2>1. IsFiniteSet(Busy') /\ Cardinality(Busy') <= Cardinality(Busy)
    BY <1>1, FS_Subset DEF WithinWorkers
  <2>2. Cardinality(Busy') \in Nat /\ Cardinality(Busy) \in Nat
    BY <2>1, FS_CardinalityType DEF WithinWorkers
  <2> QED  BY <2>1, <2>2, SomeWorker DEF WithinWorkers
<1>2. ASSUME NEW t \in Calls \cup Messages, FreeWorker, Busy' \subseteq Busy \cup {t}
      PROVE  WithinWorkers'
  <2>1. /\ IsFiniteSet(Busy \cup {t})
        /\ Cardinality(Busy \cup {t}) <= Cardinality(Busy) + 1
    <3>1. Cardinality(Busy) \in Nat
      BY FS_CardinalityType DEF WithinWorkers
    <3>2. /\ IsFiniteSet(Busy \cup {t})
          /\ \/ Cardinality(Busy \cup {t}) = Cardinality(Busy)
             \/ Cardinality(Busy \cup {t}) = Cardinality(Busy) + 1
      BY FS_AddElement, Zenon DEF WithinWorkers
    <3> QED  BY <3>1, <3>2
  <2>2. IsFiniteSet(Busy') /\ Cardinality(Busy') <= Cardinality(Busy \cup {t})
    BY <1>2, <2>1, FS_Subset
  <2>3. /\ Cardinality(Busy') \in Nat /\ Cardinality(Busy) \in Nat
        /\ Cardinality(Busy \cup {t}) \in Nat
    BY <2>1, <2>2, FS_CardinalityType DEF WithinWorkers
  <2>4. Cardinality(Busy) < Workers
    BY <1>2 DEF FreeWorker, Busy
  <2> QED  BY <2>1, <2>2, <2>3, <2>4, SomeWorker DEF WithinWorkers
<1> QED  BY <1>1, <1>2, BusySteps

\* The executor never runs more callbacks at once than it has threads, though
\* nothing but the test of each callback that starts keeps them apart.
THEOREM WorkersSuffice == Spec => [](Promised /\ WithinWorkers)
<1>1. Init => WithinWorkers
  <2> SUFFICES ASSUME Init PROVE WithinWorkers
    OBVIOUS
  <2>1. Busy = {}
    BY DEF Init, Busy, Running
  <2> QED  BY <2>1, FS_EmptySet, SomeWorker DEF WithinWorkers
<1> QED  BY <1>1, InitPromised, StepPromised, StepWorkers, PTL DEF Spec

\* Which call a reader is about to wake: as before, or the one it has answered.
LEMMA ResumingSteps ==
    ASSUME Promised, [Next]_vars, NEW c \in Conns, reader'[c] = "resuming"
    PROVE  \/ reader[c] = "resuming" /\ item'[c] = item[c]
           \/ \E k \in Calls : /\ <<pending_srv_id, k>> \in services_waiting
                               /\ item'[c].of = k
<1> USE DEF Promised, Matching, Types, TypeOK, Goto
<1>1. CASE UNCHANGED <<reader, item>>
  BY <1>1
<1>2. ASSUME NEW d \in Conns, Accept(d)
      PROVE  reader[c] = "resuming" /\ item'[c] = item[c]
  BY <1>2 DEF Accept
<1>3. ASSUME NEW d \in Conns, Reader(d), d # c
      PROVE  reader[c] = "resuming" /\ item'[c] = item[c]
  BY <1>3 DEF Reader, ReaderRead, ReaderIOError, ReaderHeader, ReaderFlag, ReaderRefuse,
     ReaderSpawn, ReaderAnswer, ReaderResume, ReaderClear, ReaderEnd, ReaderLoops,
     ReaderClears, ReaderRaises
<1>4. CASE ReaderAnswer(c)
  <2>1. CASE ~\E k \in Calls : <<pending_srv_id, k>> \in services_waiting
    BY <1>4, <2>1 DEF ReaderAnswer, ReaderRaises
  <2>2. CASE \E k \in Calls : <<pending_srv_id, k>> \in services_waiting
    <3>1. PICK k \in Calls : /\ <<pending_srv_id, k>> \in services_waiting
                            /\ item' = [item EXCEPT ![c] = NewItem("data", None, k)]
      BY <1>4, <2>2 DEF ReaderAnswer
    <3>2. item'[c].of = k
      BY <3>1 DEF NewItem
    <3> QED  BY <3>1, <3>2
  <2> QED  BY <2>1, <2>2
<1>5. CASE Reader(c) /\ ~ReaderAnswer(c)
  <2>1. reader'[c] # "resuming"
    BY <1>5 DEF Reader, ReaderRead, ReaderIOError, ReaderHeader, ReaderFlag,
       ReaderRefuse, ReaderSpawn, ReaderResume, ReaderClear, ReaderEnd, ReaderLoops,
       ReaderClears, ReaderRaises, Loop
  <2> QED  BY <2>1
<1>6. \A d \in Conns : Sender(d) \/ Unity(d) => UNCHANGED <<reader, item>>
  BY DEF Sender, SenderStart, SenderSend, SenderHalts, SenderEnd, Unity, UnityAnswers,
     UnityRequests, UnityStrays, LinkLost, connVars
<1>7. /\ \A k \in Calls : Call(k) => UNCHANGED <<reader, item>>
      /\ \A m \in Messages : Message(m) => UNCHANGED <<reader, item>>
      /\ \A r \in Requests : Request(r) \/ RosAnswers(r) => UNCHANGED <<reader, item>>
      /\ UNCHANGED vars => UNCHANGED <<reader, item>>
  BY DEF Call, CallCheck, CallRegister, CallPut, CallSleep, CallReturn, Message,
     MessageSend, MessagePut,
     Request, RequestCall, RequestPoll, RequestCollect, RequestReply, RosAnswers,
     connVars, vars
<1> QED  BY <1>1, <1>2, <1>3, <1>4, <1>5, <1>6, <1>7 DEF Next

LEMMA AwakeByReader ==
    ASSUME Promised, [Next]_vars, NEW k \in Calls,
           call[k] \in {"pausing", "asleep"}, call'[k] \notin {"pausing", "asleep"}
    PROVE  \E c \in Conns : reader[c] = "resuming" /\ item[c].of = k
<1> USE DEF Promised, Matching, Types, TypeOK
<1>1. ASSUME NEW j \in Calls, CallRegister(j) PROVE FALSE
  BY <1>1 DEF CallRegister, Goto
<1>2. ASSUME NEW j \in Calls, Call(j), ~CallRegister(j) PROVE FALSE
  BY <1>2, CallStep, Zenon
<1>3. ASSUME NEW c \in Conns, ReaderResume(c)
      PROVE  reader[c] = "resuming" /\ item[c].of = k
  BY <1>3 DEF ReaderResume, Goto
<1>4. ASSUME NEW c \in Conns, ReaderAnswer(c) PROVE FALSE
  BY <1>4 DEF ReaderAnswer
<1>5. CASE UNCHANGED callVars
  BY <1>5 DEF callVars
<1> QED  BY <1>1, <1>2, <1>3, <1>4, <1>5, OtherSteps

LEMMA LostStays ==
    ASSUME Promised, Promised', [Next]_vars, NEW k \in Calls, Lost(k)
    PROVE  Lost(k)'
<1> USE DEF Promised, Matching, Types, TypeOK
<1>1. call[k] \in {"pausing", "asleep"} /\ result[k] # NoItem
      /\ \A c \in Conns : reader[c] = "resuming" => item[c].of # k
  BY DEF Lost
<1>2. <<pending_srv_id, k>> \notin services_waiting
  BY <1>1 DEF InTime
<1>3. call'[k] \in {"pausing", "asleep"}
  BY <1>1, AwakeByReader
<1>4. result'[k] # NoItem
  <2>1. ASSUME NEW j \in Calls, NEW c \in Conns,
               <<pending_srv_id, j>> \in services_waiting,
               result' = [result EXCEPT ![j] = item[c]]
        PROVE  result'[k] = result[k]
    BY <1>2, <2>1
  <2>2. ASSUME NEW j \in Calls, CallRegister(j) \/ (Call(j) /\ ~CallRegister(j))
        PROVE  UNCHANGED result
    BY <2>2, CallStep DEF CallRegister
  <2> QED  BY <1>1, <2>1, <2>2, CallSteps
<1>5. \A c \in Conns : reader'[c] = "resuming" => item'[c].of # k
  BY <1>1, <1>2, ResumingSteps
<1> QED  BY <1>3, <1>4, <1>5 DEF Lost

\* As many calls as there are executor threads have lost their wake-up.
Blocked == Cardinality(LostCalls) >= Workers

LEMMA LostAreBusy ==
    ASSUME WithinWorkers
    PROVE  /\ IsFiniteSet(LostCalls) /\ Cardinality(LostCalls) \in Nat
           /\ Cardinality(LostCalls) <= Cardinality(Busy) /\ Cardinality(Busy) \in Nat
<1>1. LostCalls \subseteq Busy
  BY DEF LostCalls, Lost, Busy, Running
<1> QED  BY <1>1, FS_Subset, FS_CardinalityType DEF WithinWorkers

LEMMA BlockedStays ==
    Promised /\ Promised' /\ WithinWorkers /\ WithinWorkers' /\ Blocked /\ [Next]_vars
        => Blocked'
<1> SUFFICES ASSUME Promised, Promised', WithinWorkers, WithinWorkers', Blocked,
                    [Next]_vars
             PROVE  Blocked'
  OBVIOUS
<1>1. LostCalls \subseteq LostCalls'
  BY LostStays DEF LostCalls
<1>2. /\ IsFiniteSet(LostCalls') /\ Cardinality(LostCalls') \in Nat
      /\ IsFiniteSet(LostCalls) /\ Cardinality(LostCalls) \in Nat
  <2>1. IsFiniteSet(LostCalls') /\ Cardinality(LostCalls') \in Nat
    <3>1. LostCalls' \subseteq Busy'
      BY DEF LostCalls, Lost, Busy, Running
    <3> QED  BY <3>1, FS_Subset, FS_CardinalityType DEF WithinWorkers
  <2> QED  BY <2>1, LostAreBusy
<1>3. Cardinality(LostCalls) <= Cardinality(LostCalls')
  BY <1>1, <1>2, FS_Subset
<1> QED  BY <1>2, <1>3, SomeWorker DEF Blocked

LEMMA BlockedIsFull == WithinWorkers /\ Blocked => ~FreeWorker
  BY LostAreBusy, SomeWorker DEF Blocked, FreeWorker, Busy, WithinWorkers

\* A wake-up lost to sleep_until_resumed is lost for good.  Once as many are lost
\* as the executor has threads, none is ever free again, so no callback of any
\* topic or service starts, however many threads there are.
THEOREM LostWakeupsBlock == Spec => [](Blocked => []~FreeWorker)
  BY WorkersSuffice, BlockedStays, BlockedIsFull, PTL DEF Spec

=============================================================================
