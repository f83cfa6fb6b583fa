------------------------------ MODULE MCSipRpc ------------------------------
(* SipRpc with two calls of different lengths and reads of at most two       *)
(* characters, so that every message takes many reads.                       *)
EXTENDS SipRpc

MCCallLen   == [k \in Calls |-> k + 1]
MCAnswerLen == [k \in Calls |-> 4 - k]

=============================================================================
