--------------------------- MODULE OperatorApproval ---------------------------
(***************************************************************************)
(* approval/operator_boundary.py: one-time operator approvals.  Several    *)
(* supervisors share the table operator_approvals and the audit ledger;    *)
(* each has its own IndependentOperatorApprovalBoundary with a snapshot of *)
(* the requests in memory (_requests, _consumed_nonces) behind a lock.     *)
(* approval/verified_operator_authority.py hands the tickets to workers.   *)
(*                                                                         *)
(* The two stores are not coupled, so a call is several steps: a decision  *)
(* is appended to the audit ledger first and written to the table after, a *)
(* consumption is written to the table first and audited after.  Between   *)
(* the steps other supervisors act, the process may die, either store may  *)
(* raise.  Each single store access is one SQLite statement or IMMEDIATE   *)
(* transaction and is atomic.                                              *)
(*                                                                         *)
(* An action_id contains a fresh nonce, so it stands for its nonce and its *)
(* immutable command context too; a call with another context is denied    *)
(* and changes nothing.  Calls that raise or return a denial before they   *)
(* changed anything are stuttering steps and left out.                     *)
(***************************************************************************)
EXTENDS Naturals, FiniteSets

CONSTANTS
  Action,       \* action ids
  Sup,          \* supervisor processes
  ActionBound,  \* the supervisors configured with a decision_verifier
  Operator,     \* identities the operator_verifier authenticates
  Question,     \* questions an operator may answer
  NoOperator,   \* operator_id is empty
  NoRow,        \* no such row, or unknown action_id
  Unlocked      \* no resolve_by_operator under way in the supervisor

ApprovalState == {"BLOCKED", "APPROVED", "DENIED", "QUESTION_PENDING", "EXPIRED", "CONSUMED"}
Open == {"BLOCKED", "QUESTION_PENDING"}
Terminal == {"DENIED", "EXPIRED", "CONSUMED"}
Decision == {"ALLOW_ONCE", "DENY", "ANSWER_QUESTIONS"}

\* The mutable columns of a row.  The decision column follows from the state;
\* operator stands for the operator's id, role, channel and notes.
Request == [state : ApprovalState, operator : Operator \cup {NoOperator},
            answers : SUBSET Question, verified : BOOLEAN, bound : BOOLEAN]

InState(r, st) == [r EXCEPT !.state = st]

\* The state a decision leads to.
StateAfter(decision) ==
  CASE decision = "ALLOW_ONCE" -> "APPROVED"
    [] decision = "DENY" -> "DENIED"
    [] decision = "ANSWER_QUESTIONS" -> "QUESTION_PENDING"

Pending == [action : Action, new : Request]

Event == [action : Action, kind : Decision \cup {"REQUEST_CREATED", "APPROVAL_CONSUMED"},
          operator : Operator \cup {NoOperator}, answers : SUBSET Question]

ASSUME ApprovalAssumption ==
  /\ ActionBound \subseteq Sup
  /\ IsFiniteSet(Question)
  /\ NoOperator \notin Operator
  /\ NoRow \notin Request
  /\ Unlocked \notin Pending

VARIABLES
  row,       \* the table operator_approvals
  audit,     \* the events of the ledger's stream "operator_approvals"
  mem,       \* _requests of each supervisor
  consumed,  \* _consumed_nonces of each supervisor
  writing,   \* a decision that is audited and not yet in the table
  due,       \* actions past their expires_at
  calls,     \* calls that read the clock before the deadline, and wait for the lock
  issuing,   \* consumptions in the table whose audit event is still missing
  tickets    \* execution tickets handed out so far

supVars == <<mem, consumed, writing, calls, issuing>>
vars == <<row, audit, supVars, due, tickets>>

Fresh == [state |-> "BLOCKED", operator |-> NoOperator, answers |-> {},
          verified |-> FALSE, bound |-> FALSE]

\* A row approved by a version that did not authenticate operators: the
\* migration in _init_db adds the two provenance columns as 0.
Legacy == [Fresh EXCEPT !.state = "APPROVED"]

Init ==
  /\ row \in [Action -> {NoRow, Legacy}]
  /\ audit = {}
  /\ mem = [s \in Sup |-> [a \in Action |-> NoRow]]
  /\ consumed = [s \in Sup |-> {}]
  /\ writing = [s \in Sup |-> Unlocked]
  /\ due = {}
  /\ calls = {}
  /\ issuing = {}
  /\ tickets = [a \in Action |-> 0]

-----------------------------------------------------------------------------
(* The stores.                                                             *)

\* The idempotency key of an event, as resolve_by_operator composes it.
KeyOf(e) == <<e.action, e.kind, Cardinality(e.answers)>>

\* AuditLedger.append: an exact replay adds nothing, a different event under
\* the same key raises ReplayConflict.
AuditAppend(e) ==
  /\ \A f \in audit : KeyOf(f) = KeyOf(e) => f = e
  /\ audit' = audit \cup {e}

\* (a compare-and-swap on the state column alone)
RowIsStateOnly(a, expected) ==
  /\ row[a] # NoRow
  /\ row[a].state = expected.state

\* (an UPDATE by action_id alone)
RowIsThere(a, expected) == row[a] # NoRow

\* The WHERE clause of _persist_request: every mutable column as expected.
RowIs(a, expected) == row[a] # NoRow /\ row[a] = expected

\* ApprovalState of a row as rehydrate_from_disk loads it.
Loaded(a) == IF a \in due /\ row[a].state \in Open \cup {"APPROVED"}
             THEN InState(row[a], "EXPIRED") ELSE row[a]

Load(s) ==
  /\ mem' = [mem EXCEPT ![s] = [a \in Action |->
                IF row[a] = NoRow THEN mem[s][a] ELSE Loaded(a)]]
  /\ consumed' = [consumed EXCEPT ![s] = @ \cup
                    {a \in Action : row[a] # NoRow /\ Loaded(a).state = "CONSUMED"}]

Remember(s, a, r) == mem' = [mem EXCEPT ![s][a] = r]

-----------------------------------------------------------------------------
(* Calls.                                                                  *)

\* create_request: in memory, then in the table, then (outside the lock) in
\* the ledger; the INSERT or the append may raise.
CreateRequest(s, a) ==
  /\ writing[s] = Unlocked
  /\ row[a] = NoRow
  /\ \A x \in Sup : mem[x][a] = NoRow
  /\ Remember(s, a, Fresh)
  /\ \/ /\ row' = [row EXCEPT ![a] = Fresh]
        /\ \/ AuditAppend([action |-> a, kind |-> "REQUEST_CREATED",
                      operator |-> NoOperator, answers |-> {}])
           \/ UNCHANGED audit
     \/ UNCHANGED <<row, audit>>
  /\ UNCHANGED <<consumed, writing, due, calls, issuing, tickets>>

RehydrateFromDisk(s) ==
  /\ writing[s] = Unlocked
  /\ Load(s)
  /\ UNCHANGED <<row, audit, writing, due, calls, issuing, tickets>>

\* resolve_by_operator and consume_for_execution read the clock before they
\* ask for the lock; any number of threads may be waiting.
ReadClock(s, a) ==
  /\ mem[s][a] # NoRow
  /\ a \notin due
  /\ calls' = calls \cup {<<s, a>>}
  /\ UNCHANGED <<row, audit, mem, consumed, writing, due, issuing, tickets>>

\* The request a decision turns req into.
Decided(s, req, decision, o, ans) ==
  [state |-> StateAfter(decision),
   operator |-> o,
   answers |-> IF decision = "ANSWER_QUESTIONS" THEN req.answers \cup ans ELSE req.answers,
   verified |-> TRUE,
   bound |-> s \in ActionBound]

\* (the table written without an audit event before it)
ResolveUnaudited(s, a, decision, o, ans) ==
  LET req == mem[s][a] IN
  /\ writing[s] = Unlocked
  /\ <<s, a>> \in calls
  /\ req # NoRow
  /\ req.state \in Open
  /\ a \notin consumed[s]
  /\ writing' = [writing EXCEPT ![s] =
                   [action |-> a, new |-> Decided(s, req, decision, o, ans)]]
  /\ UNCHANGED <<row, audit, mem, consumed, due, calls, issuing, tickets>>

\* resolve_by_operator, up to and including the append to the ledger.
Resolve(s, a, decision, o, ans) ==
  LET req == mem[s][a]
      new == Decided(s, req, decision, o, ans)
  IN
  /\ writing[s] = Unlocked
  /\ <<s, a>> \in calls
  /\ req # NoRow
  /\ req.state \in Open
  /\ a \notin consumed[s]
  /\ AuditAppend([action |-> a, kind |-> decision, operator |-> o, answers |-> new.answers])
  /\ writing' = [writing EXCEPT ![s] = [action |-> a, new |-> new]]
  /\ UNCHANGED <<row, mem, consumed, due, calls, issuing, tickets>>

\* resolve_by_operator, from _persist_request on ...
ResolvePersist(s) ==
  /\ writing[s] # Unlocked
  /\ LET a == writing[s].action IN
       /\ RowIs(a, mem[s][a])
       /\ row' = [row EXCEPT ![a] = writing[s].new]
       /\ Remember(s, a, writing[s].new)
  /\ writing' = [writing EXCEPT ![s] = Unlocked]
  /\ UNCHANGED <<audit, consumed, due, calls, issuing, tickets>>

\* ... or it raises: another supervisor was first, or the database is locked.
ResolveRaises(s) ==
  /\ writing[s] # Unlocked
  /\ writing' = [writing EXCEPT ![s] = Unlocked]
  /\ UNCHANGED <<row, audit, mem, consumed, due, calls, issuing, tickets>>

(***************************************************************************)
(* _expire_if_due, from get_request, list_pending or the two calls above   *)
(* when their clock shows the deadline has passed.                         *)
(***************************************************************************)
ExpireIfDue(s, a) ==
  /\ writing[s] = Unlocked
  /\ a \in due
  /\ mem[s][a] # NoRow
  /\ mem[s][a].state \in Open \cup {"APPROVED"}
  /\ LET expired == InState(mem[s][a], "EXPIRED") IN
     \/ /\ RowIs(a, mem[s][a])
        /\ row' = [row EXCEPT ![a] = expired]
        /\ Remember(s, a, expired)
        /\ UNCHANGED consumed
     \/ /\ ~RowIs(a, mem[s][a])
        /\ Load(s)
        /\ UNCHANGED row
  /\ UNCHANGED <<audit, writing, due, calls, issuing, tickets>>

\* (an APPROVED state taken as proof of who approved)
GrantsByState(s, r) ==
  /\ r # NoRow
  /\ r.state = "APPROVED"

\* What consume_for_execution asks of a request, and again of the row.
Grants(s, r) ==
  /\ r # NoRow
  /\ r.state = "APPROVED"
  /\ r.verified
  /\ s \in ActionBound => r.bound

\* (the supervisor's own snapshot believed over the table)
DurablyGrantedBySnapshot(s, a) == row[a] # NoRow

\* The WHERE clause of the consuming UPDATE; calls holds the clock reading.
DurablyGranted(s, a) == Grants(s, row[a])

\* consume_for_execution, up to the end of its lock.
Consume(s, a) ==
  /\ writing[s] = Unlocked
  /\ <<s, a>> \in calls
  /\ Grants(s, mem[s][a])
  /\ a \notin consumed[s]
  /\ DurablyGranted(s, a)
  /\ row' = [row EXCEPT ![a] = InState(@, "CONSUMED")]
  /\ Remember(s, a, InState(mem[s][a], "CONSUMED"))
  /\ consumed' = [consumed EXCEPT ![s] = @ \cup {a}]
  /\ issuing' = issuing \cup {<<s, a>>}
  /\ UNCHANGED <<audit, writing, due, calls, tickets>>

\* The rest of it, and of issue_execution_ticket: the ticket is returned once
\* the consumption is in the ledger ...
IssueTicket(s, a) ==
  /\ <<s, a>> \in issuing
  /\ AuditAppend([action |-> a, kind |-> "APPROVAL_CONSUMED",
             operator |-> NoOperator, answers |-> {}])
  /\ tickets' = [tickets EXCEPT ![a] = @ + 1]
  /\ issuing' = issuing \ {<<s, a>>}
  /\ UNCHANGED <<row, mem, consumed, writing, due, calls>>

\* ... and is lost when the ledger raises.
TicketLost(s, a) ==
  /\ <<s, a>> \in issuing
  /\ issuing' = issuing \ {<<s, a>>}
  /\ UNCHANGED <<row, audit, mem, consumed, writing, due, calls, tickets>>

-----------------------------------------------------------------------------
\* The deadline of an action passes.
Deadline(a) ==
  /\ a \notin due
  /\ due' = due \cup {a}
  /\ UNCHANGED <<row, audit, supVars, tickets>>

\* A supervisor dies and starts again with nothing in memory.
Restart(s) ==
  /\ mem' = [mem EXCEPT ![s] = [a \in Action |-> NoRow]]
  /\ consumed' = [consumed EXCEPT ![s] = {}]
  /\ writing' = [writing EXCEPT ![s] = Unlocked]
  /\ calls' = {c \in calls : c[1] # s}
  /\ issuing' = {c \in issuing : c[1] # s}
  /\ UNCHANGED <<row, audit, due, tickets>>

SupStep(s) ==
  \/ RehydrateFromDisk(s)
  \/ ResolvePersist(s)
  \/ ResolveRaises(s)
  \/ Restart(s)

CallStep(s, a) ==
  \/ CreateRequest(s, a)
  \/ ReadClock(s, a)
  \/ \E d \in Decision, o \in Operator, ans \in SUBSET Question : Resolve(s, a, d, o, ans)
  \/ ExpireIfDue(s, a)
  \/ Consume(s, a)
  \/ IssueTicket(s, a)
  \/ TicketLost(s, a)

Next ==
  \/ \E s \in Sup : SupStep(s)
  \/ \E s \in Sup, a \in Action : CallStep(s, a)
  \/ \E a \in Action : Deadline(a)

Spec == Init /\ [][Next]_vars

-----------------------------------------------------------------------------
\* Every variable has its type.
ApprovalTypeOK ==
  /\ row \in [Action -> Request \cup {NoRow}]
  /\ audit \subseteq Event
  /\ mem \in [Sup -> [Action -> Request \cup {NoRow}]]
  /\ consumed \in [Sup -> SUBSET Action]
  /\ writing \in [Sup -> Pending \cup {Unlocked}]
  /\ due \subseteq Action
  /\ calls \subseteq Sup \X Action
  /\ issuing \subseteq Sup \X Action
  /\ tickets \in [Action -> Nat]

(***************************************************************************)
(* docs/TROUBLESHOOTING_FAQ.md: "all approvals in SubagentBridge are       *)
(* single-use".  Whatever stale snapshots the supervisors hold, and        *)
(* whoever restarts when, at most one ticket is issued or about to be.     *)
(***************************************************************************)
OneTicket ==
  \A a \in Action :
    /\ tickets[a] <= 1
    /\ \A s \in Sup : <<s, a>> \in issuing =>
         /\ tickets[a] = 0
         /\ \A x \in Sup : <<x, a>> \in issuing => x = s

(***************************************************************************)
(* A row that carries an operator's decision has that decision, by that    *)
(* operator and on those answers, in the audit trail: the append comes     *)
(* first, and no other supervisor's write may slip in between with a       *)
(* decision of its own.  A spent approval was an audited ALLOW_ONCE.       *)
(***************************************************************************)
DecisionAudited ==
  \A a \in Action : row[a] # NoRow /\ row[a].verified =>
    \A d \in Decision :
      \/ row[a].state = StateAfter(d)
      \/ row[a].state = "CONSUMED" /\ d = "ALLOW_ONCE"
      => [action |-> a, kind |-> d, operator |-> row[a].operator,
          answers |-> row[a].answers] \in audit

(***************************************************************************)
(* No supervisor's stale snapshot overwrites what another wrote: a         *)
(* terminal row never changes again, an approval only expires or is spent, *)
(* and recorded answers are never lost.                                    *)
(***************************************************************************)
NoLostUpdate ==
  [][\A a \in Action : row[a] # NoRow =>
       /\ row'[a] # NoRow
       /\ row[a].state \in Terminal => row'[a] = row[a]
       /\ row[a].state = "APPROVED" => \/ row'[a] = row[a]
                                       \/ row'[a].state \in {"EXPIRED", "CONSUMED"}
       /\ row[a].answers \subseteq row'[a].answers]_vars

(***************************************************************************)
(* A supervisor with an action-specific verifier never hands out a ticket  *)
(* for a decision nobody verified for that action, however the row was     *)
(* approved: by an older version, or by a supervisor without the verifier. *)
(***************************************************************************)
TicketsAreActionBound ==
  \A s \in Sup, a \in Action : <<s, a>> \in issuing =>
    /\ row[a].state = "CONSUMED"
    /\ row[a].verified
    /\ s \in ActionBound => row[a].bound

-----------------------------------------------------------------------------
(* The abstract approval each row implements.                              *)

Status(r, issued) ==
  IF r.state \in Open THEN "open"
  ELSE IF r.state = "APPROVED" /\ r.verified THEN "granted"
  ELSE IF r.state # "CONSUMED" THEN "closed"
  ELSE IF issued = 0 THEN "spent" ELSE "ticketed"

StatusOf(a) == IF row[a] = NoRow THEN "unasked" ELSE Status(row[a], tickets[a])

OneShot == INSTANCE OneShotApproval WITH status <- [a \in Action |-> StatusOf(a)]

\* The boundary implements one-shot approvals.
ImplementsOneShot == OneShot!Spec
=============================================================================
