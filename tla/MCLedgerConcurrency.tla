------------------------- MODULE MCLedgerConcurrency -------------------------
(* Small sets of requests for LedgerConcurrency. *)
EXTENDS LedgerConcurrency

CONSTANTS alice, bob, maya, k1, k2, k3

MCFans == {alice, bob}
MCKeys == {k1, k2, k3}
MCOpening == [u \in MCFans |-> IF u = alice THEN 8 ELSE 5]

Request(kind, fan, amount, key) ==
    [kind |-> kind, fan |-> fan, amount |-> amount, key |-> key]

\* Alice can pay for one of her two tips; the first is sent twice; and she and
\* a retry of hers unlock the same content.
Sales == [tip |-> Request("TIP", alice, 5, k1),
          again |-> Request("TIP", alice, 5, k1),
          unlock |-> Request("PPV", alice, 4, k2),
          retry |-> Request("PPV", alice, 4, k3)]

\* A refund of an old sale of Alice's meets a new tip of hers and an order of
\* Bob's, all with the same seller.
Mixed == [refund |-> Request("REFUND", alice, 5, k1),
          tip |-> Request("TIP", alice, 5, k2),
          order |-> Request("PRODUCT", bob, 5, k3)]

TwoRefunds == [refund |-> Request("REFUND", alice, 5, k1),
               again |-> Request("REFUND", alice, 5, k1)]

TwoOrders == [order |-> Request("PRODUCT", alice, 5, k1),
              other |-> Request("PRODUCT", bob, 5, k2)]

CONSTANT Load   \* one of the above

MCRequests == DOMAIN Load
MCKind == [p \in DOMAIN Load |-> Load[p].kind]
MCFan == [p \in DOMAIN Load |-> Load[p].fan]
MCAmount == [p \in DOMAIN Load |-> Load[p].amount]
MCKey == [p \in DOMAIN Load |-> Load[p].key]
=============================================================================
