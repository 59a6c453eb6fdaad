----------------------- MODULE InvitationDelivery -----------------------
(***************************************************************************)
(* What the delivery of event invitations promises: everybody has a        *)
(* current version of his invitation, and each channel shows him versions  *)
(* that were current when they arrived, or, if the sender lost its lock on *)
(* the way, when it did.  He may miss versions and may get one twice, but  *)
(* only such a latecomer follows a newer one, and one number never stands  *)
(* for two versions.                                                       *)
(***************************************************************************)
EXTENDS Integers

CONSTANTS Items,      \* an event and a recipient of its invitations
          Channels,
          Contents    \* what an invitation can say

VARIABLES version,    \* the current version for each item
          shown,      \* the last version each channel delivered
          late        \* versions whose sender lost its lock before it was done

vars == <<version, shown, late>>

None == [number |-> -1]

Init == /\ version = [i \in Items |-> None]
        /\ shown = [i \in Items |-> [c \in Channels |-> None]]
        /\ late = [i \in Items |-> {}]

Revise(i, says) ==
  /\ version' = [version EXCEPT ![i] = [number |-> @.number + 1, says |-> says]]
  /\ UNCHANGED <<shown, late>>

Deliver(i, c) == /\ version[i] # None
                 /\ shown' = [shown EXCEPT ![i][c] = version[i]]
                 /\ UNCHANGED <<version, late>>

\* A sender loses its lock, or one that had lost it is done.
LateOnly(more) == /\ DOMAIN late' = Items
                  /\ \A i \in Items : late'[i] \subseteq late[i] \cup more[i]
Delay == /\ LateOnly([i \in Items |-> {version[i]} \ {None}])
         /\ UNCHANGED <<version, shown>>

DeliverLate(i, c) == /\ \E v \in late[i] : shown' = [shown EXCEPT ![i][c] = v]
                     /\ LateOnly([j \in Items |-> {}])
                     /\ UNCHANGED version

Next == \/ \E i \in Items : \/ \E says \in Contents : Revise(i, says)
                            \/ \E c \in Channels : Deliver(i, c) \/ DeliverLate(i, c)
        \/ Delay

Spec == Init /\ [][Next]_vars
=============================================================================
