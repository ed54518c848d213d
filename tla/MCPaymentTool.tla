---------------------------- MODULE MCPaymentTool ----------------------------
(* Two payees with prices of their own; the seed is of one of them. A gate   *)
(* that is told the payee alone, or the price alone, tells them apart too.   *)
(* A rail that verifies, without a wallet and with the agent's, and one that *)
(* does not: one that requires a wallet only does not settle from its seed.  *)
EXTENDS PaymentTool, TLC

MCSeed == [payee |-> "a", amount |-> 1]
MCRails == {[verify |-> TRUE, agent |-> FALSE, require |-> FALSE],
            [verify |-> TRUE, agent |-> TRUE, require |-> FALSE],
            [verify |-> FALSE, agent |-> FALSE, require |-> TRUE]}
MCTerms == {MCSeed, [payee |-> "b", amount |-> 2]}
=============================================================================
