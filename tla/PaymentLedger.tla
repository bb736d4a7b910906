--------------------------- MODULE PaymentLedger ---------------------------
(***************************************************************************)
(* What the payment flow promises, without transactions, requests or       *)
(* webhooks: a purchase that the customer has paid for is activated, and   *)
(* nothing else is.  Payments implements it with Once = FALSE (at least    *)
(* once, requests in parallel) and with Once = TRUE (exactly once, one     *)
(* request at a time).                                                     *)
(***************************************************************************)
EXTENDS Naturals

CONSTANTS
    Refs,   \* purchases, named by their payment reference
    Once    \* TRUE: no purchase is activated twice

VARIABLES
    paid,       \* the purchases whose charge succeeded
    activated   \* how often each purchase has been activated

ledgerVars == <<paid, activated>>

Init ==
    /\ paid = {}
    /\ activated = [r \in Refs |-> 0]

Pay(r) ==
    /\ r \notin paid
    /\ paid' = paid \cup {r}
    /\ UNCHANGED activated

Activate(r) ==
    /\ r \in paid
    /\ Once => activated[r] = 0
    /\ activated' = [activated EXCEPT ![r] = @ + 1]
    /\ UNCHANGED paid

Next == \E r \in Refs : Pay(r) \/ Activate(r)

Safety == Init /\ [][Next]_ledgerVars

\* A paid purchase is not left unactivated for ever.
Fairness == \A r \in Refs : WF_ledgerVars(activated[r] = 0 /\ Activate(r))

Spec == Safety /\ Fairness
=============================================================================
