---------------------------- MODULE TrialLedger ----------------------------
(***************************************************************************)
(* What the request store promises, without transactions, locks, clocks or *)
(* connections: each account is a ledger in which a request id is used at  *)
(* most once, a metered request is admitted only while allowance is left,  *)
(* and an admitted request is settled at most once and for good.           *)
(***************************************************************************)
EXTENDS Naturals, FiniteSets

CONSTANTS
    Accounts,     \* the (subject, agent) pairs
    RequestIds,
    Allowance

VARIABLE ledger   \* account -> request id -> entry

Final == {"completed", "failed", "uncertain"}
Entry == [status : Final \cup {"none", "reserved"}, metered : BOOLEAN]
Unused == [status |-> "none", metered |-> FALSE]

\* The entries an account has been charged for: all but the released ones.
Spent(account) ==
    {id \in RequestIds : ledger[account][id].metered
                      /\ ledger[account][id].status \notin {"none", "failed"}}

-----------------------------------------------------------------------------

Init == ledger = [account \in Accounts |-> [id \in RequestIds |-> Unused]]

Admit(account, id, metered) ==
    /\ ledger[account][id].status = "none"
    /\ metered => Cardinality(Spent(account)) < Allowance
    /\ ledger' = [ledger EXCEPT ![account][id] =
                     [status |-> "reserved", metered |-> metered]]

Settle(account, id, outcome) ==
    /\ ledger[account][id].status = "reserved"
    /\ ledger' = [ledger EXCEPT ![account][id].status = outcome]

Next ==
    \E account \in Accounts, id \in RequestIds :
        \/ \E metered \in BOOLEAN : Admit(account, id, metered)
        \/ \E outcome \in Final : Settle(account, id, outcome)

Spec == Init /\ [][Next]_ledger

=============================================================================
