---------------------------- MODULE RemoteCalls ----------------------------
(***************************************************************************)
(* What a Requester and a Dispatcher promise together: a call is served at *)
(* most once, and it ends, if at all, either in failure or with the        *)
(* response to a call that was served and that no other call was given.    *)
(* Serving does not wait for the caller: a call that has failed, or that   *)
(* was only transmitted, may still be served.                              *)
(***************************************************************************)
EXTENDS Naturals

CONSTANT MaxCalls  \* bound: calls the client makes

Calls == 1..MaxCalls

VARIABLES
  made,    \* the number of calls made
  done,    \* the calls the server has served
  result,  \* each call's end: "none", "threw", "transmitted", "response"
  answer   \* the call whose response each was given, 0 for none

vars == <<made, done, result, answer>>

Init ==
  /\ made = 0 /\ done = {}
  /\ result = [k \in Calls |-> "none"] /\ answer = [k \in Calls |-> 0]

Make ==
  /\ made < MaxCalls
  /\ made' = made + 1
  /\ UNCHANGED <<done, result, answer>>

Serve(k) ==
  /\ k <= made /\ k \notin done
  /\ done' = done \cup {k}
  /\ UNCHANGED <<made, result, answer>>

End(k, how) ==
  /\ k <= made /\ result[k] = "none"
  /\ result' = [result EXCEPT ![k] = how]

Return(k, j) ==
  /\ End(k, "response")
  /\ j \in done /\ j <= k
  /\ \A i \in Calls : answer[i] # j
  /\ answer' = [answer EXCEPT ![k] = j]
  /\ UNCHANGED <<made, done>>

Fail(k) == End(k, "threw") /\ UNCHANGED <<made, done, answer>>

\* A call that cannot be written fails in the step that makes it.
MakeInVain ==
  /\ made < MaxCalls /\ made' = made + 1
  /\ result' = [result EXCEPT ![made + 1] = "threw"]
  /\ UNCHANGED <<done, answer>>

Transmit(k) == End(k, "transmitted") /\ UNCHANGED <<made, done, answer>>

Next ==
  \/ Make \/ MakeInVain
  \/ \E k \in Calls : Serve(k) \/ Fail(k) \/ Transmit(k) \/ \E j \in Calls : Return(k, j)

Spec == Init /\ [][Next]_vars

=============================================================================
