------------------------- MODULE RequestStoreProofs -------------------------
(***************************************************************************)
(* Theorems about RequestStore for every number of users, agents, ids,     *)
(* workers, calls and connections, and every allowance and stale_after.    *)
(***************************************************************************)
EXTENDS RequestStore, RequestTableProofs

\* What the arguments of a call that is not idle look like.
LEMMA CallArguments ==
    ASSUME TypeOK, NEW c \in Calls, pc[c] # "idle"
    PROVE  /\ arg[c] \in Args
           /\ arg[c].account \in Accounts
           /\ Subject(c) \in Subjects
           /\ arg[c].id \in RequestIds
           /\ arg[c].metered \in BOOLEAN
           /\ arg[c].status \in Outcomes \cup {"reserved"}
           /\ arg[c].now \in Int
           /\ Table(c) \in Tables
  <1>1. arg[c] \in Args
    BY DEF TypeOK
  <1>2. arg[c].account \in Accounts
    BY <1>1 DEF Args
  <1>3. Subject(c) \in Subjects
    BY <1>2 DEF Subject, Accounts
  <1>4. Table(c) \in Tables
    BY <1>2 DEF TypeOK, Table
  <1> QED
    BY <1>1, <1>2, <1>3, <1>4 DEF Args

\* Ending a transaction keeps the bookkeeping of the calls well typed.
LEMMA EndTyped ==
    ASSUME TypeOK, NEW c \in Calls, End(c)
    PROVE  /\ userLock' \in [Subjects -> Calls \cup {NoCall}]
           /\ pc' \in [Calls -> Steps]
           /\ arg' \in [Calls -> Args \cup {NoArg}]
           /\ \A d \in Calls : pc'[d] # "idle" => arg'[d] \in Args
  <1>1. userLock' \in [Subjects -> Calls \cup {NoCall}]
    BY DEF TypeOK, End
  <1>2. pc' \in [Calls -> Steps]
    BY DEF TypeOK, End, Steps
  <1>3. arg' \in [Calls -> Args \cup {NoArg}]
    BY DEF TypeOK, End
  <1>4. ASSUME NEW d \in Calls, pc'[d] # "idle"
        PROVE  arg'[d] \in Args
    BY <1>4 DEF TypeOK, End
  <1> QED
    BY <1>1, <1>2, <1>3, <1>4

\* Moving a call to its next statement keeps pc well typed.
LEMMA GotoTyped ==
    ASSUME TypeOK, NEW c \in Calls, NEW from, NEW to \in Steps \ {"idle"},
           from # "idle", Goto(c, from, to)
    PROVE  /\ pc' \in [Calls -> Steps]
           /\ \A d \in Calls : pc'[d] # "idle" => arg[d] \in Args
  BY DEF TypeOK, Goto

LEMMA TypeStep == TypeOK /\ [Next]_vars => TypeOK'
  <1> SUFFICES ASSUME TypeOK, [Next]_vars PROVE TypeOK'
    OBVIOUS
  <1>1. ASSUME NEW c \in Calls, NEW account \in Accounts, NEW id \in RequestIds,
               NEW metered \in BOOLEAN, CallReserve(c, account, id, metered)
        PROVE  TypeOK'
    <2>1. [account |-> account, id |-> id, metered |-> metered,
           status |-> "reserved", now |-> 0] \in Args
      BY DEF Args
    <2> QED
      BY <1>1, <2>1 DEF CallReserve, TypeOK, Goto, Steps
  <1>2. ASSUME NEW c \in Calls, NEW account \in Accounts, NEW id \in RequestIds,
               NEW outcome \in Outcomes, CallFinish(c, account, id, outcome)
        PROVE  TypeOK'
    <2>1. [account |-> account, id |-> id, metered |-> FALSE,
           status |-> outcome, now |-> 0] \in Args
      BY DEF Args
    <2> QED
      BY <1>2, <2>1 DEF CallFinish, TypeOK, Goto, Steps
  <1>3. ASSUME NEW c \in Calls, Acquire(c) PROVE TypeOK'
    <2>1. arg[c] \in Args
      BY <1>3 DEF Acquire, Goto, TypeOK
    <2>2. [arg[c] EXCEPT !.now = clock] \in Args
      BY <2>1 DEF TypeOK, Args
    <2> QED
      BY <1>3, <2>2 DEF Acquire, TypeOK, Goto, Steps, Connected
  <1>4. ASSUME NEW c \in Calls, LockUser(c) PROVE TypeOK'
    <2>1. Subject(c) \in Subjects
      BY <1>4, CallArguments DEF LockUser, Goto
    <2> QED
      BY <1>4, <2>1 DEF LockUser, TypeOK, Goto, Steps, Connected, Locked
  <1>5. ASSUME NEW c \in Calls, PassDuplicate(c) \/ PassActive(c) \/ PassAllowance(c)
        PROVE  TypeOK'
    BY <1>5 DEF PassDuplicate, PassActive, PassAllowance, TypeOK, Goto, Steps, Connected, Locked
  <1>6. ASSUME NEW c \in Calls, Refuse(c) \/ Abort(c) PROVE TypeOK'
    BY <1>6, EndTyped DEF Refuse, Abort, TypeOK
  <1>7. ASSUME NEW c \in Calls, CommitReserve(c) PROVE TypeOK'
    <2>1. /\ arg[c].account \in Accounts
          /\ arg[c].id \in RequestIds
          /\ Reserved(arg[c].metered, arg[c].now) \in Row
      BY <1>7, CallArguments DEF CommitReserve, Reserved, Row, Statuses
    <2>2. requests' \in [Accounts -> Tables]
      BY <1>7, <2>1 DEF CommitReserve, TypeOK, Tables
    <2> QED
      BY <1>7, <2>2, EndTyped DEF CommitReserve, TypeOK
  <1>8. ASSUME NEW c \in Calls, CommitFinish(c) PROVE TypeOK'
    <2> DEFINE row == requests[arg[c].account][arg[c].id]
    <2>1. /\ arg[c].account \in Accounts
          /\ arg[c].id \in RequestIds
          /\ arg[c].status \in Statuses
          /\ arg[c].now \in Int
          /\ Table(c) \in Tables
      BY <1>8, CallArguments DEF CommitFinish, Statuses
    <2>2. row \in Row
      BY <2>1 DEF Tables, Table
    <2>3. Settled(row, arg[c].status, arg[c].now) \in Row
      BY <2>1, <2>2 DEF Settled, Row
    <2>4. requests' \in [Accounts -> Tables]
      BY <1>8, <2>1, <2>3 DEF CommitFinish, TypeOK, Tables
    <2> QED
      BY <1>8, <2>4, EndTyped DEF CommitFinish, TypeOK
  <1>9. CASE Tick
    BY <1>9 DEF Tick, TypeOK
  <1>10. CASE UNCHANGED vars
    BY <1>10 DEF vars, TypeOK
  <1> QED
    BY <1>1, <1>2, <1>3, <1>4, <1>5, <1>6, <1>7, <1>8, <1>9, <1>10 DEF Next, Statement

LEMMA TypeInit == Init => TypeOK
  <1> SUFFICES ASSUME Init PROVE TypeOK
    OBVIOUS
  <1>1. NoRow \in Row
    BY DEF NoRow, Row, Statuses
  <1> QED
    BY <1>1 DEF Init, TypeOK, Tables, Steps, Connected

\* Every state of the store is well typed: rows hold only the statuses of
\* schema.sql's CHECK, a lock has at most one holder, a call past pool.acquire
\* carries arguments.
THEOREM TypeCorrect == Spec => []TypeOK
  <1> QED
    BY TypeInit, TypeStep, PTL DEF Spec

-----------------------------------------------------------------------------
(* Locks *)

LEMMA LockStep == TypeOK /\ LockHeld /\ [Next]_vars => LockHeld'
  <1> SUFFICES ASSUME TypeOK, LockHeld, [Next]_vars PROVE LockHeld'
    OBVIOUS
  <1> USE DEF Locked
  <1>1. ASSUME NEW c \in Calls, NEW account \in Accounts, NEW id \in RequestIds,
               \/ \E metered \in BOOLEAN : CallReserve(c, account, id, metered)
               \/ \E outcome \in Outcomes : CallFinish(c, account, id, outcome)
        PROVE  LockHeld'
    <2>1. /\ pc[c] = "idle" /\ pc' = [pc EXCEPT ![c] = "acquire"]
          /\ \A d \in Calls \ {c} : arg'[d] = arg[d]
          /\ userLock' = userLock
      BY <1>1 DEF CallReserve, CallFinish, Goto, TypeOK
    <2> QED
      BY <2>1 DEF LockHeld, TypeOK, Subject
  <1>2. ASSUME NEW c \in Calls, Acquire(c) PROVE LockHeld'
    <2>1. /\ pc[c] = "acquire" /\ pc' = [pc EXCEPT ![c] = "begun"]
          /\ \A d \in Calls \ {c} : arg'[d] = arg[d]
          /\ userLock' = userLock
      BY <1>2 DEF Acquire, Goto, TypeOK
    <2> QED
      BY <2>1 DEF LockHeld, TypeOK, Subject
  <1>3. ASSUME NEW c \in Calls, LockUser(c) PROVE LockHeld'
    <2>1. /\ pc[c] = "begun" /\ pc' \in [Calls -> Steps] /\ pc'[c] \in Locked
          /\ \A d \in Calls \ {c} : pc'[d] = pc[d]
          /\ arg' = arg /\ Subject(c) \in Subjects
          /\ userLock[Subject(c)] = NoCall
          /\ userLock' = [userLock EXCEPT ![Subject(c)] = c]
      BY <1>3, TypeStep, CallArguments DEF LockUser, Goto, TypeOK, Next
    <2>2. ASSUME NEW d \in Calls, pc'[d] \in Locked PROVE userLock'[Subject(d)'] = d
      <3>1. CASE d = c
        BY <2>1, <3>1 DEF TypeOK, Subject
      <3>2. CASE d # c
        <4>1. pc[d] \in Locked /\ userLock[Subject(d)] = d /\ Subject(d)' = Subject(d)
          BY <2>1, <2>2, <3>2 DEF LockHeld, Subject
        <4>2. Subject(d) # Subject(c) /\ Subject(d) \in Subjects
          BY <2>1, <4>1, CallsAssumption, CallArguments
        <4> QED
          BY <2>1, <4>1, <4>2 DEF TypeOK
      <3> QED
        BY <3>1, <3>2
    <2>3. ASSUME NEW s \in Subjects, NEW d \in Calls, userLock'[s] = d
          PROVE  pc'[d] \in Locked /\ Subject(d)' = s
      <3>1. CASE s = Subject(c)
        BY <2>1, <2>3, <3>1 DEF TypeOK, Subject
      <3>2. CASE s # Subject(c)
        <4>1. userLock[s] = d
          BY <2>1, <2>3, <3>2 DEF TypeOK
        <4> QED
          BY <2>1, <4>1 DEF LockHeld, Subject
      <3> QED
        BY <3>1, <3>2
    <2> QED
      BY <2>2, <2>3 DEF LockHeld
  <1>4. ASSUME NEW c \in Calls, PassDuplicate(c) \/ PassActive(c) \/ PassAllowance(c)
        PROVE  LockHeld'
    <2>1. /\ pc[c] \in Locked /\ pc'[c] \in Locked
          /\ \A d \in Calls \ {c} : pc'[d] = pc[d]
          /\ UNCHANGED <<arg, userLock>>
      BY <1>4 DEF PassDuplicate, PassActive, PassAllowance, Goto, TypeOK
    <2> QED
      BY <2>1 DEF LockHeld, Subject
  <1>5. ASSUME NEW c \in Calls, End(c) PROVE LockHeld'
    <2>1. /\ pc'[c] = "idle"
          /\ \A d \in Calls \ {c} : pc'[d] = pc[d] /\ arg'[d] = arg[d]
      BY <1>5 DEF End, TypeOK
    <2>2. ASSUME NEW d \in Calls, pc'[d] \in Locked PROVE userLock'[Subject(d)'] = d
      <3>1. d # c /\ pc[d] \in Locked /\ userLock[Subject(d)] = d /\ Subject(d)' = Subject(d)
        BY <2>1, <2>2 DEF LockHeld, Subject
      <3> QED
        BY <1>5, <3>1, CallArguments DEF End
    <2>3. ASSUME NEW s \in Subjects, NEW d \in Calls, userLock'[s] = d
          PROVE  pc'[d] \in Locked /\ Subject(d)' = s
      <3>1. d # c /\ userLock[s] = d
        BY <1>5, <2>3, CallsAssumption DEF End
      <3> QED
        BY <2>1, <3>1 DEF LockHeld, Subject
    <2> QED
      BY <2>2, <2>3 DEF LockHeld
  <1>6. CASE Tick \/ UNCHANGED vars
    BY <1>6 DEF Tick, vars, LockHeld, Subject
  <1> QED
    BY <1>1, <1>2, <1>3, <1>4, <1>5, <1>6
       DEF Next, Statement, Refuse, CommitReserve, CommitFinish, Abort

\* Two transactions that hold their lock work on different accounts.
LEMMA LockedApart ==
    ASSUME TypeOK, LockHeld, NEW c \in Calls, NEW d \in Calls, c # d,
           pc[c] \in Locked, pc[d] \in Locked
    PROVE  arg[c].account # arg[d].account
  BY DEF LockHeld, Subject

-----------------------------------------------------------------------------
(* What a transaction has read stays true until it commits *)

LEMMA BegunStep == TypeOK /\ BegunBefore /\ [Next]_vars => BegunBefore'
  <1> SUFFICES ASSUME TypeOK, BegunBefore, [Next]_vars,
                      NEW d \in Calls, pc'[d] # "idle"
               PROVE  arg'[d].now <= clock'
    BY DEF BegunBefore
  <1>1. CASE Tick \/ UNCHANGED vars
    <2>1. pc' = pc /\ arg' = arg /\ clock' \in Nat /\ clock <= clock'
      BY <1>1 DEF Tick, vars, TypeOK
    <2>2. arg[d].now <= clock /\ arg[d].now \in Int /\ clock \in Nat
      BY <2>1, CallArguments DEF BegunBefore, TypeOK
    <2> QED
      BY <2>1, <2>2
  <1>2. ASSUME NEW c \in Calls, NEW account \in Accounts, NEW id \in RequestIds,
               \/ \E metered \in BOOLEAN : CallReserve(c, account, id, metered)
               \/ \E outcome \in Outcomes : CallFinish(c, account, id, outcome)
        PROVE  arg'[d].now <= clock'
    BY <1>2 DEF CallReserve, CallFinish, Goto, TypeOK, BegunBefore
  <1>3. ASSUME NEW c \in Calls, Acquire(c) PROVE arg'[d].now <= clock'
    <2>1. CASE d = c
      <3>1. arg[c] \in Args
        BY <1>3, CallArguments DEF Acquire, Goto
      <3> QED
        BY <1>3, <2>1, <3>1 DEF Acquire, TypeOK, Args
    <2>2. CASE d # c
      BY <1>3, <2>2 DEF Acquire, Goto, TypeOK, BegunBefore
    <2> QED
      BY <2>1, <2>2
  <1>4. ASSUME NEW c \in Calls,
               LockUser(c) \/ PassDuplicate(c) \/ PassActive(c) \/ PassAllowance(c)
        PROVE  arg'[d].now <= clock'
    BY <1>4 DEF LockUser, PassDuplicate, PassActive, PassAllowance, Goto, TypeOK, BegunBefore
  <1>5. ASSUME NEW c \in Calls, Refuse(c) \/ CommitReserve(c) \/ CommitFinish(c) \/ Abort(c)
        PROVE  arg'[d].now <= clock'
    BY <1>5 DEF Refuse, CommitReserve, CommitFinish, Abort, End, TypeOK, BegunBefore
  <1> QED
    BY <1>1, <1>2, <1>3, <1>4, <1>5 DEF Next, Statement

\* A call that does not move keeps its findings if nobody writes its account.
LEMMA CheckedFrame ==
    ASSUME NEW d \in Calls, Checked(d), pc'[d] = pc[d], arg'[d] = arg[d],
           pc[d] \in Locked => requests'[arg[d].account] = requests[arg[d].account]
    PROVE  Checked(d)'
  BY DEF Checked, Table, Locked

LEMMA ChecksStep == TypeOK /\ LockHeld /\ ChecksHold /\ [Next]_vars => ChecksHold'
  <1> SUFFICES ASSUME TypeOK, LockHeld, ChecksHold, [Next]_vars, NEW d \in Calls
               PROVE  Checked(d)'
    BY DEF ChecksHold
  <1>0. Checked(d)
    BY DEF ChecksHold
  <1>1. CASE Tick \/ UNCHANGED vars
    BY <1>0, <1>1, CheckedFrame DEF Tick, vars
  <1>2. ASSUME NEW c \in Calls, NEW account \in Accounts, NEW id \in RequestIds,
               \/ \E metered \in BOOLEAN : CallReserve(c, account, id, metered)
               \/ \E outcome \in Outcomes : CallFinish(c, account, id, outcome)
        PROVE  Checked(d)'
    <2>1. CASE d = c
      BY <1>2, <2>1 DEF CallReserve, CallFinish, Goto, TypeOK, Checked
    <2>2. CASE d # c
      BY <1>0, <1>2, <2>2, CheckedFrame DEF CallReserve, CallFinish, Goto, TypeOK
    <2> QED
      BY <2>1, <2>2
  <1>3. ASSUME NEW c \in Calls, Acquire(c) PROVE Checked(d)'
    <2>1. CASE d = c
      BY <1>3, <2>1 DEF Acquire, Goto, TypeOK, Checked
    <2>2. CASE d # c
      BY <1>0, <1>3, <2>2, CheckedFrame DEF Acquire, Goto, TypeOK
    <2> QED
      BY <2>1, <2>2
  <1>4. ASSUME NEW c \in Calls,
               LockUser(c) \/ PassDuplicate(c) \/ PassActive(c) \/ PassAllowance(c)
        PROVE  Checked(d)'
    <2>1. CASE d = c
      <3>1. pc[c] # "idle"
        BY <1>4 DEF LockUser, PassDuplicate, PassActive, PassAllowance, Goto
      <3>2. arg[c].status \in Outcomes \cup {"reserved"}
        BY <3>1, CallArguments
      <3>3. CASE LockUser(c)
        BY <2>1, <3>2, <3>3 DEF LockUser, Goto, TypeOK, Checked
      <3>4. CASE PassDuplicate(c) \/ PassActive(c) \/ PassAllowance(c)
        BY <1>0, <2>1, <3>4
           DEF PassDuplicate, PassActive, PassAllowance, Goto, TypeOK, Checked, Table
      <3> QED
        BY <1>4, <3>3, <3>4
    <2>2. CASE d # c
      BY <1>0, <1>4, <2>2, CheckedFrame
         DEF LockUser, PassDuplicate, PassActive, PassAllowance, Goto, TypeOK
    <2> QED
      BY <2>1, <2>2
  <1>5. ASSUME NEW c \in Calls, Refuse(c) \/ CommitReserve(c) \/ CommitFinish(c) \/ Abort(c)
        PROVE  Checked(d)'
    <2>1. CASE d = c
      BY <1>5, <2>1 DEF Refuse, CommitReserve, CommitFinish, Abort, End, TypeOK, Checked
    <2>2. CASE d # c
      <3>1. pc'[d] = pc[d] /\ arg'[d] = arg[d]
        BY <1>5, <2>2 DEF Refuse, CommitReserve, CommitFinish, Abort, End, TypeOK
      <3>2. ASSUME pc[d] \in Locked
            PROVE  requests'[arg[d].account] = requests[arg[d].account]
        <4>1. CASE Refuse(c) \/ Abort(c)
          BY <4>1 DEF Refuse, Abort
        <4>2. CASE CommitReserve(c) \/ CommitFinish(c)
          <5>1. arg[c].account # arg[d].account
            BY <2>2, <3>2, <4>2, LockedApart DEF CommitReserve, CommitFinish, Locked
          <5> QED
            BY <3>2, <4>2, <5>1, CallArguments
               DEF CommitReserve, CommitFinish, TypeOK, Locked
        <4> QED
          BY <1>5, <4>1, <4>2
      <3> QED
        BY <1>0, <3>1, <3>2, CheckedFrame
    <2> QED
      BY <2>1, <2>2
  <1> QED
    BY <1>1, <1>2, <1>3, <1>4, <1>5 DEF Next, Statement
-----------------------------------------------------------------------------
(* Every change of a table is an admission or a settlement *)

\* What a step can do to the rows: nothing; insert one row that is new, that
\* no fresh pending row blocks and that the allowance covers; or settle one
\* row that is reserved (store.py:56-82).
Admission(account, id, metered, now) ==
    /\ ~IsDuplicate(requests[account], id)
    /\ ~IsBlocked(requests[account], now)
    /\ metered => ~IsExhausted(requests[account])
    /\ requests' = [requests EXCEPT ![account][id] = Reserved(metered, now)]

Settlement(account, id, outcome, now) ==
    requests' = [requests EXCEPT ![account][id] = Settled(@, outcome, now)]

LEMMA TableStep ==
    ASSUME TypeOK, BegunBefore, ChecksHold, [Next]_vars
    PROVE  \/ requests' = requests
           \/ \E account \in Accounts, id \in RequestIds, now \in Int :
                /\ now <= clock
                /\ \/ \E metered \in BOOLEAN : Admission(account, id, metered, now)
                   \/ \E outcome \in Outcomes : Settlement(account, id, outcome, now)
  <1>1. ASSUME NEW c \in Calls, CommitReserve(c)
        PROVE  /\ arg[c].account \in Accounts /\ arg[c].id \in RequestIds
               /\ arg[c].now \in Int /\ arg[c].now <= clock
               /\ arg[c].metered \in BOOLEAN
               /\ Admission(arg[c].account, arg[c].id, arg[c].metered, arg[c].now)
    <2>1. pc[c] = "insert" /\ Checked(c)
      BY <1>1 DEF CommitReserve, ChecksHold
    <2> QED
      BY <1>1, <2>1, CallArguments DEF CommitReserve, Checked, Admission, Table, BegunBefore
  <1>2. ASSUME NEW c \in Calls, CommitFinish(c)
        PROVE  /\ arg[c].account \in Accounts /\ arg[c].id \in RequestIds
               /\ arg[c].now \in Int /\ arg[c].now <= clock
               /\ arg[c].status \in Outcomes
               /\ Settlement(arg[c].account, arg[c].id, arg[c].status, arg[c].now)
    <2>1. pc[c] = "update" /\ Checked(c)
      BY <1>2 DEF CommitFinish, ChecksHold
    <2> QED
      BY <1>2, <2>1, CallArguments DEF CommitFinish, Checked, Settlement, BegunBefore
  <1>3. CASE \E c \in Calls : CommitReserve(c)
    BY <1>1, <1>3
  <1>4. CASE \E c \in Calls : CommitFinish(c)
    BY <1>2, <1>4
  <1>5. CASE ~ \E c \in Calls : CommitReserve(c) \/ CommitFinish(c)
    BY <1>5 DEF Next, vars, Statement, CallReserve, CallFinish, Acquire, LockUser,
                PassDuplicate, PassActive, PassAllowance, Refuse, Abort, Tick
  <1> QED
    BY <1>3, <1>4, <1>5

LEMMA QuotaStep ==
    TypeOK /\ BegunBefore /\ ChecksHold /\ QuotaRespected /\ [Next]_vars => QuotaRespected'
  <1> SUFFICES ASSUME TypeOK, BegunBefore, ChecksHold, QuotaRespected, [Next]_vars
               PROVE  QuotaRespected'
    OBVIOUS
  <1>1. ASSUME NEW account \in Accounts, NEW id \in RequestIds, NEW now \in Int,
               NEW metered \in BOOLEAN, Admission(account, id, metered, now)
        PROVE  QuotaRespected'
    <2> DEFINE t == requests[account]
    <2>1. /\ t \in Tables
          /\ Cardinality(Charged(t)) <= Allowance
          /\ requests'[account] = [t EXCEPT ![id] = Reserved(metered, now)]
          /\ \A a \in Accounts \ {account} : requests'[a] = requests[a]
      BY <1>1 DEF Admission, TypeOK, QuotaRespected
    <2>2. Cardinality(Charged(requests'[account])) <= Allowance
      BY <1>1, <2>1, InsertKeepsQuota DEF Admission
    <2> QED
      BY <2>1, <2>2 DEF QuotaRespected
  <1>2. ASSUME NEW account \in Accounts, NEW id \in RequestIds, NEW now \in Int,
               NEW outcome \in Outcomes, Settlement(account, id, outcome, now)
        PROVE  QuotaRespected'
    <2> DEFINE t == requests[account]
    <2>1. /\ t \in Tables
          /\ Cardinality(Charged(t)) <= Allowance
          /\ requests'[account] = [t EXCEPT ![id] = Settled(t[id], outcome, now)]
          /\ \A a \in Accounts \ {account} : requests'[a] = requests[a]
      BY <1>2 DEF Settlement, TypeOK, QuotaRespected
    <2>2. Cardinality(Charged(requests'[account])) <= Allowance
      BY <2>1, SettleKeepsQuota
    <2> QED
      BY <2>1, <2>2 DEF QuotaRespected
  <1> QED
    BY <1>1, <1>2, TableStep DEF QuotaRespected

LEMMA SpacedStep ==
    TypeOK /\ BegunBefore /\ ChecksHold /\ ReservationsSpaced /\ [Next]_vars
        => ReservationsSpaced'
  <1> SUFFICES ASSUME TypeOK, BegunBefore, ChecksHold, ReservationsSpaced, [Next]_vars,
                      NEW a \in Accounts, NEW i \in RequestIds, NEW j \in RequestIds,
                      i # j, requests'[a][i].status = "reserved",
                      requests'[a][j].status = "reserved"
               PROVE  \/ requests'[a][i].updated + StaleAfter <= requests'[a][j].updated
                      \/ requests'[a][j].updated + StaleAfter <= requests'[a][i].updated
    BY DEF ReservationsSpaced
  <1>0. /\ requests[a] \in Tables
        /\ requests[a][i].updated \in Int /\ requests[a][j].updated \in Int
    BY DEF TypeOK, Tables, Row
  <1>1. ASSUME NEW account \in Accounts, NEW id \in RequestIds, NEW now \in Int,
               NEW metered \in BOOLEAN, Admission(account, id, metered, now), account = a
        PROVE  \/ requests'[a][i].updated + StaleAfter <= requests'[a][j].updated
               \/ requests'[a][j].updated + StaleAfter <= requests'[a][i].updated
    <2>1. requests'[a] = [requests[a] EXCEPT ![id] = Reserved(metered, now)]
      BY <1>1 DEF Admission, TypeOK
    <2>2. ASSUME NEW k \in RequestIds, k # id, requests'[a][k].status = "reserved"
          PROVE  requests'[a][k].updated + StaleAfter <= now
      <3>1. requests'[a][k] = requests[a][k] /\ requests[a][k].updated \in Int
        BY <2>1, <2>2, <1>0 DEF Tables, Row
      <3>2. ~IsFresh(requests[a][k], now)
        BY <1>1, <2>2, <3>1 DEF Admission, IsBlocked, IsPending
      <3> QED
        BY <3>1, <3>2, StaleAfterAssumption DEF IsFresh
    <2>3. requests'[a][id].updated = now
      BY <2>1, <1>0 DEF Tables, Reserved
    <2>4. CASE i = id
      BY <2>2, <2>3, <2>4
    <2>5. CASE j = id
      BY <2>2, <2>3, <2>5
    <2>6. CASE i # id /\ j # id
      BY <2>1, <2>6, <1>0 DEF ReservationsSpaced, Tables
    <2> QED
      BY <2>4, <2>5, <2>6
  <1>2. ASSUME NEW account \in Accounts, NEW id \in RequestIds, NEW now \in Int,
               NEW outcome \in Outcomes, Settlement(account, id, outcome, now), account = a
        PROVE  requests'[a][i] = requests[a][i] /\ requests'[a][j] = requests[a][j]
    <2>1. requests'[a] = [requests[a] EXCEPT ![id] = Settled(requests[a][id], outcome, now)]
      BY <1>2 DEF Settlement, TypeOK
    <2> QED
      BY <2>1, <1>0 DEF Tables, Row, Settled, Outcomes
  <1>3. requests'[a] = requests[a]
          => \/ requests'[a][i].updated + StaleAfter <= requests'[a][j].updated
             \/ requests'[a][j].updated + StaleAfter <= requests'[a][i].updated
    BY DEF ReservationsSpaced
  <1>4. requests'[a][i] = requests[a][i] /\ requests'[a][j] = requests[a][j]
          => \/ requests'[a][i].updated + StaleAfter <= requests'[a][j].updated
             \/ requests'[a][j].updated + StaleAfter <= requests'[a][i].updated
    BY DEF ReservationsSpaced
  <1>5. ASSUME NEW account \in Accounts, NEW id \in RequestIds, NEW now \in Int, account # a,
               \/ \E metered \in BOOLEAN : Admission(account, id, metered, now)
               \/ \E outcome \in Outcomes : Settlement(account, id, outcome, now)
        PROVE  requests'[a] = requests[a]
    BY <1>5 DEF Admission, Settlement, TypeOK
  <1> QED
    BY <1>1, <1>2, <1>3, <1>4, <1>5, TableStep
-----------------------------------------------------------------------------
(* The invariant *)

LEMMA InitIInv == Init => IInv
  <1> SUFFICES ASSUME Init PROVE IInv
    OBVIOUS
  <1>1. TypeOK
    BY TypeInit
  <1>2. LockHeld /\ BegunBefore /\ ChecksHold
    BY CallsAssumption DEF Init, LockHeld, BegunBefore, ChecksHold, Checked, Locked
  <1>3. ASSUME NEW account \in Accounts PROVE Cardinality(Charged(requests[account])) <= Allowance
    <2>1. Charged(requests[account]) = {}
      BY <1>3 DEF Init, Charged, NoRow
    <2> QED
      BY <2>1, FS_EmptySet, AllowanceAssumption
  <1>4. ReservationsSpaced
    BY DEF Init, ReservationsSpaced, NoRow
  <1> QED
    BY <1>1, <1>2, <1>3, <1>4 DEF IInv, QuotaRespected

LEMMA StepIInv == IInv /\ [Next]_vars => IInv'
  BY TypeStep, LockStep, BegunStep, ChecksStep, QuotaStep, SpacedStep DEF IInv

\* The inductive invariant: the lock of a user is held exactly between FOR
\* UPDATE and the end of the transaction, so what reserve has read of the
\* account is still true when it inserts.
THEOREM StoreInvariant == Spec => []IInv
  <1> QED
    BY InitIInv, StepIInv, PTL DEF Spec

\* No interleaving of reserve and finish, for any number of workers, takes an
\* account over config.trial_requests_per_agent (store.py:74-77).
THEOREM QuotaSafe == Spec => []QuotaRespected
  <1>1. IInv => QuotaRespected
    BY DEF IInv
  <1> QED
    BY <1>1, StoreInvariant, PTL

\* Two open reservations of an account are at least stale_after apart, for any
\* delay between BEGIN, the lock and the INSERT (store.py:68-77).
THEOREM SpacedSafe == Spec => []ReservationsSpaced
  <1>1. IInv => ReservationsSpaced
    BY DEF IInv
  <1> QED
    BY <1>1, StoreInvariant, PTL

\* finish writes only over 'reserved', so no later call changes a settled row
\* (store.py:82).
THEOREM SettledSafe == Spec => SettledForever
  <1> DEFINE Kept == \A account \in Accounts, id \in RequestIds :
                        requests[account][id].status \in Outcomes
                            => requests'[account][id] = requests[account][id]
  <1>1. ASSUME IInv, [Next]_vars,
               NEW a \in Accounts, NEW i \in RequestIds, requests[a][i].status \in Outcomes
        PROVE  requests'[a][i] = requests[a][i]
    <2>1. TypeOK /\ BegunBefore /\ ChecksHold /\ requests[a] \in Tables
      BY <1>1 DEF IInv, TypeOK
    <2>2. ASSUME NEW account \in Accounts, NEW id \in RequestIds, NEW now \in Int,
                 \/ \E metered \in BOOLEAN : Admission(account, id, metered, now)
                 \/ \E outcome \in Outcomes : Settlement(account, id, outcome, now)
          PROVE  requests'[a][i] = requests[a][i]
      BY <1>1, <2>1, <2>2
         DEF Admission, Settlement, TypeOK, Tables, IsDuplicate, Settled, Outcomes
    <2> QED
      BY <1>1, <2>1, <2>2, TableStep
  <1>2. IInv /\ [Next]_vars => [Kept]_vars
    BY <1>1
  <1> QED
    BY <1>2, StoreInvariant, PTL DEF Spec, SettledForever

\* At the moment a row is inserted nothing of its account is pending and
\* younger than stale_after, although reserve compares with the now() of a
\* BEGIN that may lie far back (store.py:68-77).
THEOREM AloneSafe == Spec => AdmittedAlone
  <1> DEFINE Alone == \A account \in Accounts, id \in RequestIds :
                         requests[account][id].status = "none"
                         /\ requests'[account][id].status # "none"
                            => ~IsBlocked(requests[account], clock)
  <1>1. ASSUME IInv, [Next]_vars, NEW a \in Accounts, NEW i \in RequestIds,
               requests[a][i].status = "none", requests'[a][i].status # "none"
        PROVE  ~IsBlocked(requests[a], clock)
    <2>1. TypeOK /\ BegunBefore /\ ChecksHold /\ requests[a] \in Tables /\ clock \in Int
      BY <1>1 DEF IInv, TypeOK
    <2>2. ASSUME NEW account \in Accounts, NEW id \in RequestIds, NEW now \in Int,
                 NEW metered \in BOOLEAN, now <= clock, Admission(account, id, metered, now)
          PROVE  ~IsBlocked(requests[a], clock)
      <3>1. account = a
        BY <1>1, <2>1, <2>2 DEF Admission, TypeOK
      <3>2. ~IsBlocked(requests[a], now)
        BY <2>2, <3>1 DEF Admission
      <3> QED
        BY <2>1, <2>2, <3>2, StaleAfterAssumption DEF IsBlocked, IsFresh, Tables, Row
    <2>3. ASSUME NEW account \in Accounts, NEW id \in RequestIds, NEW now \in Int,
                 NEW outcome \in Outcomes, Settlement(account, id, outcome, now)
          PROVE  FALSE
      BY <1>1, <2>1, <2>3 DEF Settlement, TypeOK, Tables, Settled
    <2> QED
      BY <1>1, <2>1, <2>2, <2>3, TableStep
  <1>2. IInv /\ [Next]_vars => [Alone]_vars
    BY <1>1
  <1> QED
    BY <1>2, StoreInvariant, PTL DEF Spec, AdmittedAlone

-----------------------------------------------------------------------------
(* Refinement *)

LEMMA LedgerInit == Init => Ledger!Init
  BY DEF Init, Ledger!Init, Ledger!Unused, LedgerOf, NoRow

\* The Cardinality TrialLedger counts with is that of FiniteSets.
LEMMA SameCardinality == \A S : Ledger!Cardinality(S) = Cardinality(S)
  BY DEF Ledger!Cardinality, Cardinality

LEMMA LedgerStep ==
    IInv /\ [Next]_vars
        => [Ledger!Next]_([account \in Accounts |-> LedgerOf(requests[account])])
  <1> DEFINE L == [account \in Accounts |-> LedgerOf(requests[account])]
  <1> SUFFICES ASSUME IInv, [Next]_vars PROVE Ledger!Next \/ L' = L
    OBVIOUS
  <1>0. TypeOK /\ BegunBefore /\ ChecksHold
    BY DEF IInv
  <1>1. ASSUME NEW account \in Accounts, NEW id \in RequestIds, NEW now \in Int,
               NEW metered \in BOOLEAN, Admission(account, id, metered, now)
        PROVE  Ledger!Admit(account, id, metered)
    <2>0. requests \in [Accounts -> Tables] /\ requests[account] \in Tables
      BY <1>0 DEF TypeOK
    <2>1. L[account][id].status = "none"
      BY <1>1 DEF Admission, IsDuplicate, LedgerOf
    <2>2. Ledger!Spent(account) = Charged(requests[account])
      BY <2>0 DEF Ledger!Spent, Charged, LedgerOf, Tables, Row, Statuses, Outcomes
    <2>3. metered => Ledger!Cardinality(Ledger!Spent(account)) < Allowance
      BY <1>1, <2>0, <2>2, ChargedFinite, AllowanceAssumption, SameCardinality
         DEF Admission, IsExhausted
    <2>4. L' = [L EXCEPT ![account][id] = [status |-> "reserved", metered |-> metered]]
      BY <1>1, <2>0 DEF Admission, LedgerOf, Reserved, Tables
    <2> QED
      BY <2>1, <2>3, <2>4 DEF Ledger!Admit
  <1>2. ASSUME NEW account \in Accounts, NEW id \in RequestIds, NEW now \in Int,
               NEW outcome \in Outcomes, Settlement(account, id, outcome, now)
        PROVE  Ledger!Settle(account, id, outcome) \/ L' = L
    <2>0. requests \in [Accounts -> Tables] /\ requests[account] \in Tables
          /\ requests[account][id] \in Row
      BY <1>0 DEF TypeOK, Tables
    <2>1. CASE requests[account][id].status = "reserved"
      <3>1. L[account][id].status = "reserved"
        BY <2>1 DEF LedgerOf
      <3>2. L' = [L EXCEPT ![account][id].status = outcome]
        BY <1>2, <2>0, <2>1 DEF Settlement, LedgerOf, Settled, Tables, Row
      <3> QED
        BY <3>1, <3>2 DEF Ledger!Settle
    <2>2. CASE requests[account][id].status # "reserved"
      <3>1. requests' = requests
        BY <1>2, <2>0, <2>2 DEF Settlement, Settled, Tables
      <3> QED
        BY <3>1
    <2> QED
      BY <2>1, <2>2
  <1>3. CASE requests' = requests
    BY <1>3
  <1> QED
    BY <1>0, <1>1, <1>2, <1>3, TableStep DEF Ledger!Next, Ledger!Final, Outcomes

\* The statements of reserve and finish, with their locks, clocks and aborts,
\* implement the atomic ledger: each step is an Admit, a Settle or a stutter.
THEOREM Refinement == Spec => ImplementsLedger
  <1> QED
    BY LedgerInit, LedgerStep, StoreInvariant, PTL DEF Spec, ImplementsLedger, Ledger!Spec
=============================================================================
