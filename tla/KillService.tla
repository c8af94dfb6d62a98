---------------------------- MODULE KillService ----------------------------
(***************************************************************************)
(* What the kill service as a whole promises about its calls, without the  *)
(* sockets and threads between the caller and the process table:           *)
(*   - a request is signalled at most once, and only after it was made;    *)
(*   - a call is answered at most once;                                    *)
(*   - a refused request is never signalled, before or after the refusal;  *)
(*   - an answer that reports a result reports what psutil did, to this    *)
(*     request or to another one of which no answer has reported yet.      *)
(*     The code does not promise that it is this request's.                *)
(***************************************************************************)
CONSTANTS Requests, NoReq

VARIABLES issued, outcome, reply

vars == <<issued, outcome, reply>>

Outcomes == {"none", "sent", "failed"}
Reply(by, of, success) == [by |-> by, of |-> of, success |-> success]
Unanswered == {r \in issued : reply[r].by = "none"}

Init ==
  /\ issued = {}
  /\ outcome = [r \in Requests |-> "none"]
  /\ reply = [r \in Requests |-> Reply("none", NoReq, FALSE)]

Call(r) ==
  /\ r \notin issued
  /\ issued' = issued \cup {r}
  /\ UNCHANGED <<outcome, reply>>

Signal(r) ==
  /\ r \in issued /\ outcome[r] = "none" /\ reply[r].by # "refused"
  /\ \E o \in Outcomes \ {"none"} : outcome' = [outcome EXCEPT ![r] = o]
  /\ UNCHANGED <<issued, reply>>

Answer(r, answer) ==
  /\ r \in Unanswered
  /\ reply' = [reply EXCEPT ![r] = answer]
  /\ UNCHANGED <<issued, outcome>>

Refuse(r) == outcome[r] = "none" /\ Answer(r, Reply("refused", NoReq, FALSE))

GiveUp(r) == \E by \in {"timeout", "aborted"} : Answer(r, Reply(by, NoReq, FALSE))

Report(r) ==
  \E q \in issued :
    /\ outcome[q] # "none"
    /\ \A p \in issued : reply[p].by = "response" => reply[p].of # q
    /\ Answer(r, Reply("response", q, outcome[q] = "sent"))

Next == \E r \in Requests : Call(r) \/ Signal(r) \/ Refuse(r) \/ GiveUp(r) \/ Report(r)

Spec == Init /\ [][Next]_vars
=============================================================================
