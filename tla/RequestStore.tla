---------------------------- MODULE RequestStore ----------------------------
(***************************************************************************)
(* Store.reserve and Store.finish of gateway/store.py, one step per SQL    *)
(* statement, run by calls that overlap freely in several gateway worker   *)
(* processes.  The transactions are READ COMMITTED: a statement sees what  *)
(* was committed when it starts, and now() is the time of BEGIN, which is  *)
(* before the wait for the user's row lock.                                *)
(*                                                                         *)
(* An INSERT or UPDATE is invisible until COMMIT, so it and the COMMIT are *)
(* one step; Abort is every way a transaction ends without committing.     *)
(***************************************************************************)
EXTENDS RequestTable

CONSTANTS
    Subjects, Agents,
    Workers,      \* gateway processes, each with a connection pool
    Calls,        \* slots for concurrent calls of reserve and finish
    WorkerOf,     \* the process a call runs in
    PoolSize,     \* max_size of asyncpg.create_pool
    MaxTime,      \* bound on the clock
    NoCall, NoArg

ASSUME CallsAssumption == IsFiniteSet(Calls) /\ NoCall \notin Calls
ASSUME WorkersAssumption == WorkerOf \in [Calls -> Workers]
ASSUME PoolAssumption == PoolSize \in Nat \ {0}
ASSUME MaxTimeAssumption == MaxTime \in Nat

VARIABLES
    requests,     \* the committed rows of gateway_requests
    userLock,     \* the call whose transaction holds the row of gateway_users
    pc, arg,      \* per call: the next statement, and the arguments
    clock

vars == <<requests, userLock, pc, arg, clock>>

Accounts == Subjects \X Agents

\* status is "reserved" for a call of reserve, the outcome for one of finish.
\* now is fixed by BEGIN.
Args == [account : Accounts, id : RequestIds, metered : BOOLEAN,
         status : Outcomes \cup {"reserved"}, now : Int]

ASSUME NoArgAssumption == NoArg \notin Args

Locked == {"duplicate", "active", "allowance", "insert", "update"}
Connected == Locked \cup {"begun"}
Steps == Connected \cup {"idle", "acquire"}

Subject(c) == arg[c].account[1]
Table(c) == requests[arg[c].account]

TypeOK ==
    /\ requests \in [Accounts -> Tables]
    /\ userLock \in [Subjects -> Calls \cup {NoCall}]
    /\ pc \in [Calls -> Steps]
    /\ arg \in [Calls -> Args \cup {NoArg}]
    /\ \A c \in Calls : pc[c] # "idle" => arg[c] \in Args
    /\ clock \in Nat

-----------------------------------------------------------------------------

Init ==
    /\ requests = [account \in Accounts |-> [id \in RequestIds |-> NoRow]]
    /\ userLock = [subject \in Subjects |-> NoCall]
    /\ pc = [c \in Calls |-> "idle"]
    /\ arg = [c \in Calls |-> NoArg]
    /\ clock = 0

Goto(c, from, to) == pc[c] = from /\ pc' = [pc EXCEPT ![c] = to]

\* Mutant: the transaction is left open, with its lock.
EndLocked(c) ==
    /\ pc' = [pc EXCEPT ![c] = "idle"]
    /\ arg' = [arg EXCEPT ![c] = NoArg]
    /\ UNCHANGED userLock

\* Leaving `async with locked_user`: the transaction is over, its lock is
\* released and the connection returns to the pool.
End(c) ==
    /\ pc' = [pc EXCEPT ![c] = "idle"]
    /\ arg' = [arg EXCEPT ![c] = NoArg]
    /\ userLock' = [s \in Subjects |-> IF userLock[s] = c THEN NoCall ELSE userLock[s]]

\* A handler calls reserve with any id, fresh or used; it calls finish only
\* for an id whose reserve has been committed.
CallReserve(c, account, id, metered) ==
    /\ Goto(c, "idle", "acquire")
    /\ arg' = [arg EXCEPT ![c] = [account |-> account, id |-> id,
                   metered |-> metered, status |-> "reserved", now |-> 0]]
    /\ UNCHANGED <<requests, userLock, clock>>

CallFinish(c, account, id, outcome) ==
    /\ requests[account][id].status # "none"
    /\ Goto(c, "idle", "acquire")
    /\ arg' = [arg EXCEPT ![c] = [account |-> account, id |-> id,
                   metered |-> FALSE, status |-> outcome, now |-> 0]]
    /\ UNCHANGED <<requests, userLock, clock>>

\* pool.acquire() waits for a connection of the worker, then BEGIN.
Acquire(c) ==
    /\ Cardinality({d \in Calls : WorkerOf[d] = WorkerOf[c] /\ pc[d] \in Connected}) < PoolSize
    /\ Goto(c, "acquire", "begun")
    /\ arg' = [arg EXCEPT ![c].now = clock]
    /\ UNCHANGED <<requests, userLock, clock>>

\* Mutant: SELECT subject without FOR UPDATE.
ReadUser(c) ==
    /\ Goto(c, "begun", IF arg[c].status = "reserved" THEN "duplicate" ELSE "update")
    /\ userLock' = [userLock EXCEPT ![Subject(c)] = c]
    /\ UNCHANGED <<requests, arg, clock>>

\* INSERT INTO gateway_users ... ON CONFLICT DO NOTHING, SELECT ... FOR UPDATE:
\* whichever of the two finds the row taken waits for its transaction to end.
LockUser(c) ==
    /\ Goto(c, "begun", IF arg[c].status = "reserved" THEN "duplicate" ELSE "update")
    /\ userLock[Subject(c)] = NoCall
    /\ userLock' = [userLock EXCEPT ![Subject(c)] = c]
    /\ UNCHANGED <<requests, arg, clock>>

PassDuplicate(c) ==
    /\ Goto(c, "duplicate", "active")
    /\ ~IsDuplicate(Table(c), arg[c].id)
    /\ UNCHANGED <<requests, userLock, arg, clock>>

\* Mutant: no check for an active request.
SkipActive(c) ==
    /\ Goto(c, "active", IF arg[c].metered THEN "allowance" ELSE "insert")
    /\ UNCHANGED <<requests, userLock, arg, clock>>

PassActive(c) ==
    /\ Goto(c, "active", IF arg[c].metered THEN "allowance" ELSE "insert")
    /\ ~IsBlocked(Table(c), arg[c].now)
    /\ UNCHANGED <<requests, userLock, arg, clock>>

PassAllowance(c) ==
    /\ Goto(c, "allowance", "insert")
    /\ ~IsExhausted(Table(c))
    /\ UNCHANGED <<requests, userLock, arg, clock>>

\* 409 duplicate_request, 409 request_pending, 403 trial_exhausted.
Refuse(c) ==
    /\ \/ pc[c] = "duplicate" /\ IsDuplicate(Table(c), arg[c].id)
       \/ pc[c] = "active" /\ IsBlocked(Table(c), arg[c].now)
       \/ pc[c] = "allowance" /\ IsExhausted(Table(c))
    /\ End(c)
    /\ UNCHANGED <<requests, clock>>

CommitReserve(c) ==
    /\ pc[c] = "insert"
    /\ requests' = [requests EXCEPT ![arg[c].account][arg[c].id] =
                        Reserved(arg[c].metered, arg[c].now)]
    /\ End(c)
    /\ UNCHANGED clock

CommitFinish(c) ==
    /\ pc[c] = "update"
    /\ requests' = [requests EXCEPT ![arg[c].account][arg[c].id] =
                        Settled(@, arg[c].status, arg[c].now)]
    /\ End(c)
    /\ UNCHANGED clock

\* command_timeout, a lost connection, a cancelled caller or a dead worker.
Abort(c) ==
    /\ pc[c] # "idle"
    /\ End(c)
    /\ UNCHANGED <<requests, clock>>

Tick ==
    /\ clock < MaxTime
    /\ clock' = clock + 1
    /\ UNCHANGED <<requests, userLock, pc, arg>>

\* The statements of a call that has a connection and its lock.
Statement(c) ==
    \/ PassDuplicate(c) \/ PassActive(c) \/ PassAllowance(c)
    \/ Refuse(c) \/ CommitReserve(c) \/ CommitFinish(c)

Next ==
    \/ \E c \in Calls :
          \/ \E account \in Accounts, id \in RequestIds :
                \/ \E metered \in BOOLEAN : CallReserve(c, account, id, metered)
                \/ \E outcome \in Outcomes : CallFinish(c, account, id, outcome)
          \/ Acquire(c) \/ LockUser(c) \/ Statement(c) \/ Abort(c)
    \/ Tick

Spec == Init /\ [][Next]_vars

\* PostgreSQL and the pool serve waiters in arrival order, so a call that can
\* go on again and again eventually does; a statement is never disabled.
Fairness ==
    \A c \in Calls : /\ SF_vars(Acquire(c))
                     /\ SF_vars(LockUser(c))
                     /\ WF_vars(Statement(c))

FairSpec == Spec /\ Fairness

-----------------------------------------------------------------------------
(* Properties *)

\* The trial allowance holds for every account however the calls of several
\* workers overlap: the metered rows reserve counts (store.py:75) never
\* exceed config.trial_requests_per_agent.
QuotaRespected ==
    \A account \in Accounts : Cardinality(Charged(requests[account])) <= Allowance

\* Two reservations of one account that are both still open are at least
\* StaleAfter apart, although now() is read before the wait for the lock
\* (store.py:68-73): the later one was admitted only because the earlier one
\* counted as stale.
ReservationsSpaced ==
    \A account \in Accounts, i, j \in RequestIds :
        LET row(k) == requests[account][k] IN
        i # j /\ row(i).status = "reserved" /\ row(j).status = "reserved"
            => \/ row(i).updated + StaleAfter <= row(j).updated
               \/ row(j).updated + StaleAfter <= row(i).updated

\* When a row is inserted no other row of the account is pending and younger
\* than StaleAfter at that moment, however long the call waited for its
\* connection and its lock after the client sent it (store.py:68-77).
AdmittedAlone ==
    [][\A account \in Accounts, id \in RequestIds :
          requests[account][id].status = "none" /\ requests'[account][id].status # "none"
              => ~IsBlocked(requests[account], clock)]_vars

\* A settled row is settled for good: the late finish('uncertain') of a
\* background task never overwrites what an earlier finish wrote, not even
\* its updated_at, and no id becomes usable again (store.py:58-60, 82).
SettledForever ==
    [][\A account \in Accounts, id \in RequestIds :
          requests[account][id].status \in Outcomes
              => requests'[account][id] = requests[account][id]]_vars

\* Every call comes back, committed, refused or aborted: neither the wait for
\* a connection of a pool filled with calls that wait for the user's lock nor
\* a refused transaction that still holds it stops the others (store.py:21-27).
CallsEnd == \A c \in Calls : pc[c] # "idle" ~> pc[c] = "idle"

\* The statement of GATEWAY_SETUP.md:151-152, of a row left at uncertain or
\* reserved: it stays blocked until reviewed, and is deliberately not expired.
\* While an account has such a row, no new request of it is admitted.
PendingBlocksUntilReviewed ==
    [][\A account \in Accounts, id \in RequestIds :
          requests[account][id].status = "none" /\ requests'[account][id].status # "none"
              => \A k \in RequestIds : ~IsPending(requests[account][k])]_vars

-----------------------------------------------------------------------------
(* The ledger this store implements *)

LedgerOf(table) ==
    [id \in RequestIds |-> [status |-> table[id].status, metered |-> table[id].metered]]

Ledger == INSTANCE TrialLedger WITH
    ledger <- [account \in Accounts |-> LedgerOf(requests[account])]

\* The statements of reserve and finish, interleaved, commit as the atomic
\* Admit and Settle of TrialLedger.
ImplementsLedger == Ledger!Spec

-----------------------------------------------------------------------------
(* The inductive invariant of the proofs *)

\* A call is between FOR UPDATE and COMMIT exactly when it holds its lock.
LockHeld ==
    /\ \A c \in Calls : pc[c] \in Locked => userLock[Subject(c)] = c
    /\ \A s \in Subjects : \A c \in Calls :
          userLock[s] = c => pc[c] \in Locked /\ Subject(c) = s

\* BEGIN is in the past.
BegunBefore == \A c \in Calls : pc[c] # "idle" => arg[c].now <= clock

\* What the statements of a call have found so far is still true.
Checked(c) ==
    /\ pc[c] \in {"duplicate", "active", "allowance", "insert"} => arg[c].status = "reserved"
    /\ pc[c] = "update" => arg[c].status \in Outcomes
    /\ pc[c] \in {"active", "allowance", "insert"} => ~IsDuplicate(Table(c), arg[c].id)
    /\ pc[c] \in {"allowance", "insert"} => ~IsBlocked(Table(c), arg[c].now)
    /\ pc[c] = "insert" /\ arg[c].metered => ~IsExhausted(Table(c))

ChecksHold == \A c \in Calls : Checked(c)

IInv ==
    /\ TypeOK
    /\ LockHeld
    /\ BegunBefore
    /\ ChecksHold
    /\ QuotaRespected
    /\ ReservationsSpaced

=============================================================================
