-------------------------- MODULE ClientDirectory --------------------------
(***************************************************************************)
(* What the Core Node's registry promises, with one atomic step per client *)
(* that comes or goes: a set of members, and for each address the member   *)
(* that messages for that address are sent to.  The first member of an     *)
(* address represents it until that member leaves; a member that joined    *)
(* meanwhile does not take over.                                           *)
(***************************************************************************)
CONSTANTS Addresses, Clients, Nobody

VARIABLES members, representative

directory == <<members, representative>>

Init ==
  /\ members = {}
  /\ representative = [a \in Addresses |-> Nobody]

Join(c, a) ==
  /\ c \notin members
  /\ members' = members \cup {c}
  /\ representative' =
       [representative EXCEPT ![a] = IF @ = Nobody THEN c ELSE @]

Leave(c) ==
  /\ c \in members
  /\ members' = members \ {c}
  /\ representative' = [a \in Addresses |->
       IF representative[a] = c THEN Nobody ELSE representative[a]]

Next ==
  \/ \E c \in Clients, a \in Addresses : Join(c, a)
  \/ \E c \in Clients : Leave(c)

Spec == Init /\ [][Next]_directory

TypeOK ==
  /\ members \subseteq Clients
  /\ representative \in [Addresses -> Clients \cup {Nobody}]

\* Representatives are members, and no member represents two addresses: what
\* sendToClient (Server.h:195) needs to reach one client of the address.
DirectorySound ==
  \A a \in Addresses : representative[a] # Nobody =>
    /\ representative[a] \in members
    /\ \A b \in Addresses : representative[b] = representative[a] => a = b
=============================================================================
