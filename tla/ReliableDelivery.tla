-------------------------- MODULE ReliableDelivery --------------------------
(***************************************************************************)
(* What a reliable channel promises to the two applications.  sent[e] is   *)
(* the sequence of messages endpoint e has handed over, delivered[e] the   *)
(* sequence of what it has been handed: the position of the message in the *)
(* peer's sequence, and the message.  Every delivery is of a message that  *)
(* was sent, and was not delivered before; in an ordered channel, one to   *)
(* an endpoint of in_order, it is the next one.                            *)
(***************************************************************************)
EXTENDS Integers, Sequences

CONSTANTS Endpoint, Payload, Other(_)

VARIABLES in_order, sent, delivered

Init ==
  /\ in_order \in SUBSET Endpoint
  /\ sent = [e \in Endpoint |-> <<>>]
  /\ delivered = [e \in Endpoint |-> <<>>]

Send(e, m) ==
  /\ sent' = [sent EXCEPT ![e] = Append(@, m)]
  /\ UNCHANGED <<in_order, delivered>>

Undelivered(e) ==
  {id \in 0 .. Len(sent[Other(e)]) - 1 :
     \A k \in DOMAIN delivered[e] : delivered[e][k].id # id}

Deliver(e, id) ==
  /\ id \in Undelivered(e)
  /\ e \in in_order => \A j \in Undelivered(e) : id <= j
  /\ delivered' = [delivered EXCEPT
       ![e] = Append(@, [id |-> id, message |-> sent[Other(e)][id + 1]])]
  /\ UNCHANGED <<in_order, sent>>

Next ==
  \E e \in Endpoint :
    \/ \E m \in Payload : Send(e, m)
    \/ \E id \in Undelivered(e) : Deliver(e, id)

Spec == Init /\ [][Next]_<<in_order, sent, delivered>>
=============================================================================
