------------------------------- MODULE Outbox -------------------------------
(***************************************************************************)
(* What a delivery queue promises its caller, whatever it does inside: a   *)
(* request it has accepted stays pending until it has been delivered or    *)
(* given up, only pending requests are delivered, and nothing is ever      *)
(* taken back.  Delivery is at least once: a request may be delivered and  *)
(* still be pending.  It may also be given up in one place while another   *)
(* copy of it is pending.                                                  *)
(***************************************************************************)
CONSTANT Request

VARIABLES accepted, pending, delivered, lost

outbox == <<accepted, pending, delivered, lost>>

Init == accepted = {} /\ pending = {} /\ delivered = {} /\ lost = {}

(* One step: accept the requests A, deliver those of D, give up L.  A      *)
(* request that stops being pending has been delivered or given up.        *)
Step(A, D, L) ==
  /\ accepted' = accepted \cup A
  /\ delivered' = delivered \cup D
  /\ lost' = lost \cup L
  /\ pending' \subseteq pending \cup A
  /\ (pending \cup A) \ pending' \subseteq delivered' \cup lost'

Accept == \E r \in Request \ accepted : \E L \in SUBSET (pending \cup {r}) :
            Step({r}, {}, L)

Deliver == \E D \in (SUBSET pending) \ {{}}, L \in SUBSET pending : Step({}, D, L)

Discard == \E L \in SUBSET pending : Step({}, {}, L)

Next == Accept \/ Deliver \/ Discard

Spec == Init /\ [][Next]_outbox

(* Nothing an outbox accepted is unaccounted for, and nothing is delivered *)
(* that was never accepted.                                                *)
Accounted == accepted = pending \cup delivered \cup lost
=============================================================================
