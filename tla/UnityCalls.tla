---------------------------- MODULE UnityCalls ------------------------------
(***************************************************************************)
(* What UnityTcpSender.send_unity_service_request promises to a ROS node   *)
(* that calls a service of Unity, without saying how: no ids, queues,      *)
(* connections or threads.  A call either fails before Unity is asked, or  *)
(* Unity is asked; only then is the call answered, once, and it returns    *)
(* only with an answer.  Nothing is promised of when.                      *)
(***************************************************************************)

CONSTANTS
    Calls,
    NoAnswer

VARIABLES
    phase,  \* how far each call is
    answer  \* what each call has been answered

vars == <<phase, answer>>

Init ==
    /\ phase = [k \in Calls |-> "new"]
    /\ answer = [k \in Calls |-> NoAnswer]

Enter(k, from, to) ==
    /\ phase[k] = from
    /\ phase' = [phase EXCEPT ![k] = to]
    /\ UNCHANGED answer

Fail(k) == Enter(k, "new", "failed")

Ask(k) == Enter(k, "new", "asked")

Answer(k) ==
    /\ phase[k] = "asked" /\ answer[k] = NoAnswer
    /\ answer'[k] # NoAnswer
    /\ answer' = [answer EXCEPT ![k] = answer'[k]]
    /\ UNCHANGED phase

Return(k) == answer[k] # NoAnswer /\ Enter(k, "asked", "returned")

Next == \E k \in Calls : Fail(k) \/ Ask(k) \/ Answer(k) \/ Return(k)

Spec == Init /\ [][Next]_vars
=============================================================================
