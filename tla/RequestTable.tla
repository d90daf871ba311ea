---------------------------- MODULE RequestTable ----------------------------
(***************************************************************************)
(* The rows of gateway_requests that belong to one account (one subject    *)
(* and one agent), and the predicates the SQL of gateway/store.py          *)
(* evaluates over them.  A table maps every request id to its row; an id   *)
(* the account never used has the row NoRow.                               *)
(***************************************************************************)
EXTENDS Integers, FiniteSets

CONSTANTS
    RequestIds,   \* the Idempotency-Key values clients send
    Allowance,    \* config.trial_requests_per_agent
    StaleAfter    \* config.gateway_timeout_seconds, passed as stale_after

ASSUME RequestIdsAssumption == IsFiniteSet(RequestIds)
ASSUME AllowanceAssumption  == Allowance \in Nat \ {0}
ASSUME StaleAfterAssumption == StaleAfter \in Nat \ {0}

\* What finish() accepts, and what a row may hold.
Outcomes == {"completed", "failed", "uncertain"}
Statuses == Outcomes \cup {"none", "reserved"}

Row == [status : Statuses, metered : BOOLEAN, updated : Int]
Tables == [RequestIds -> Row]
NoRow == [status |-> "none", metered |-> FALSE, updated |-> 0]

-----------------------------------------------------------------------------

\* The row of the WHERE clauses status IN ('reserved','uncertain').
IsPending(row) == row.status \in {"reserved", "uncertain"}

\* Mutant: the cutoff is one unit late.
IsFreshLate(row, now) == row.updated > now - StaleAfter + 1

\* Mutant: a pending row blocks whatever its age.
IsFreshAlways(row, now) == row.updated <= now

\* updated_at > now() - stale_after
IsFresh(row, now) == row.updated > now - StaleAfter

\* reserve: SELECT status ... WHERE request_id = $3 finds a row.
IsDuplicate(table, id) == table[id].status # "none"

\* reserve: a pending row young enough to be a run that is still going.
IsBlocked(table, now) ==
    \E id \in RequestIds : IsPending(table[id]) /\ IsFresh(table[id], now)

\* The metered rows that count against the allowance, whatever their age.
Charged(table) ==
    {id \in RequestIds : table[id].metered
                      /\ table[id].status \in {"reserved", "completed", "uncertain"}}

\* Mutant: the allowance is compared with > instead of >=.
IsExhaustedLate(table) == Cardinality(Charged(table)) > Allowance

\* policy.check_allowance raises.
IsExhausted(table) == Cardinality(Charged(table)) >= Allowance

\* The row reserve INSERTs.
Reserved(metered, now) ==
    [status |-> "reserved", metered |-> metered, updated |-> now]

\* Mutant: the UPDATE has no WHERE status = 'reserved'.
SettledAnyway(row, outcome, now) ==
    [row EXCEPT !.status = outcome, !.updated = now]

\* finish: UPDATE ... SET status, updated_at = now() WHERE status = 'reserved'.
Settled(row, outcome, now) ==
    IF row.status = "reserved"
    THEN [row EXCEPT !.status = outcome, !.updated = now]
    ELSE row

=============================================================================
