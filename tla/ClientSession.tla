---------------------------- MODULE ClientSession ----------------------------
(***************************************************************************)
(* What the daemon promises its D-Bus clients about exclusive use: one     *)
(* operation at a time, begun by a client while nothing is going on.  From *)
(* then on only that client can cancel it, or the daemon ends it; no call  *)
(* of another client does anything to it.  The enumeration with which the  *)
(* daemon starts belongs to nobody, and anybody may cancel it.             *)
(* "FPDCommunity" implements it, see FPDCommunityProofs for the mapping.   *)
(***************************************************************************)
CONSTANTS Clients, Nobody, Operations, Nothing, Enumeration

VARIABLES
  operation,   \* what the sensor is used for
  owner,       \* on whose behalf
  caller       \* the client whose call the last step was, or Nobody

session == <<operation, owner, caller>>

(* The daemon's own enumeration comes first, unless it could not start.    *)
Init ==
  /\ operation \in {Enumeration, Nothing}
  /\ owner = Nobody
  /\ caller = Nobody

Begin(client, kind) ==
  /\ operation = Nothing
  /\ operation' = kind
  /\ owner' = client
  /\ caller' = client

Cancel(client) ==
  /\ owner = client \/ operation = Enumeration
  /\ operation' = Nothing
  /\ owner' = Nobody
  /\ caller' = client

(* A call that is refused, or whose operation fails at once.               *)
Answer(client) == caller' = client /\ UNCHANGED <<operation, owner>>

(* What the daemon does of its own accord: a result, a time limit.         *)
Finish == operation' = Nothing /\ owner' = Nobody /\ caller' = Nobody
Proceed == caller' = Nobody /\ UNCHANGED <<operation, owner>>

(* A new process starts over.                                              *)
Reset ==
  /\ operation' \in {Enumeration, Nothing}
  /\ owner' = Nobody
  /\ caller' = Nobody

Next ==
  \/ \E client \in Clients :
       \/ \E kind \in Operations : Begin(client, kind)
       \/ Cancel(client)
       \/ Answer(client)
  \/ Finish
  \/ Proceed
  \/ Reset

Spec == Init /\ [][Next]_session
=============================================================================
