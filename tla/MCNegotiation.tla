---------------------------- MODULE MCNegotiation ----------------------------
(* Negotiations on small instances: an ether is 2 wei, a second 2 ms. *)
EXTENDS Negotiation

CONSTANTS e1, e2, garbage

P(r, f) == [rewrap |-> r, resurrection |-> 1, diggingFee |-> f, curseFee |-> f]
SmallProfiles == {P(1, 2), P(2, 1)}

T(r, form, n, at) ==
    [rewrap |-> r, resurrection |-> 1, diggingFee |-> [form |-> form, n |-> n],
     curseFee |-> [form |-> form, n |-> n], timestamp |-> at]

(* Terms for one profile or the other, for neither, ahead of time, and with
   fees no text of which is an integer. *)
SmallProposals ==
    {T(1, "integer", 1, 0), T(2, "integer", 1, 5), T(2, "decimal", 1, 0), T(1, "other", 0, 0), T(1, "integer", 0, 0)}

NoFaults == {}
OneEmbalmer == {e1}
TwoEmbalmers == {e1, e2}

=============================================================================
