----------------------- MODULE ClientDirectory_proofs -----------------------
(* The abstract directory is sound, for any addresses and clients.         *)
EXTENDS ClientDirectory, TLAPS

\* A directory never sends one address's messages to a client that left or that
\* represents another address, which is what sendToClient (Server.h:195) relies on.
THEOREM DirectoryIsSound ==
  ASSUME Nobody \notin Clients
  PROVE  Spec => [](TypeOK /\ DirectorySound)
<1> DEFINE Inv == TypeOK /\ DirectorySound
<1>1. Init => Inv
  BY DEF Init, TypeOK, DirectorySound
<1>2. Inv /\ [Next]_directory => Inv'
  <2> SUFFICES ASSUME Inv, [Next]_directory PROVE Inv'
    OBVIOUS
  <2> USE DEF TypeOK, DirectorySound
  <2>1. ASSUME NEW c \in Clients, NEW a \in Addresses, Join(c, a) PROVE Inv'
    <3>1. \A b \in Addresses : representative[b] # c
      BY <2>1 DEF Join
    <3> QED
      BY <2>1, <3>1 DEF Join
  <2>2. ASSUME NEW c \in Clients, Leave(c) PROVE Inv'
    BY <2>2 DEF Leave
  <2>3. CASE UNCHANGED directory
    BY <2>3 DEF directory
  <2> QED
    BY <2>1, <2>2, <2>3 DEF Next
<1> QED
  BY <1>1, <1>2, PTL DEF Spec
=============================================================================
