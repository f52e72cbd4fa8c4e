------------------------ MODULE OperatorApprovalProofs ------------------------
(***************************************************************************)
(* Proofs about the operator approval boundary, for any number of          *)
(* supervisors, actions, operators and questions.                          *)
(***************************************************************************)
EXTENDS OperatorApproval, TLAPS

\* A ticket, handed out or on its way, is for a row the table says is spent.
SpentRows ==
  \A a \in Action :
    /\ tickets[a] # 0 => row[a] # NoRow /\ row[a].state = "CONSUMED"
    /\ \A s \in Sup : <<s, a>> \in issuing => row[a] # NoRow /\ row[a].state = "CONSUMED"

\* A decision waiting to be written extends the snapshot it was made on, and
\* is in the audit trail already.
WritesAudited ==
  \A s \in Sup : writing[s] # Unlocked =>
    LET a == writing[s].action
        new == writing[s].new
    IN /\ mem[s][a] # NoRow
       /\ mem[s][a].state \in Open
       /\ mem[s][a].answers \subseteq new.answers
       /\ new.verified
       /\ \E d \in Decision :
            /\ new.state = StateAfter(d)
            /\ [action |-> a, kind |-> d, operator |-> new.operator,
                answers |-> new.answers] \in audit

ApprovalInv ==
  /\ ApprovalTypeOK
  /\ SpentRows
  /\ OneTicket
  /\ WritesAudited
  /\ DecisionAudited
  /\ TicketsAreActionBound

-----------------------------------------------------------------------------
(* Type correctness.                                                       *)

\* Changing the state column touches no other.
LEMMA InStateFacts ==
  ASSUME NEW r \in Request, NEW st \in ApprovalState
  PROVE  LET x == InState(r, st) IN
           /\ x \in Request
           /\ x # NoRow
           /\ x.state = st
           /\ x.operator = r.operator
           /\ x.answers = r.answers
           /\ x.verified = r.verified
           /\ x.bound = r.bound
<1> DEFINE x == InState(r, st)
<1>1. /\ x \in Request
      /\ x.state = st
      /\ x.operator = r.operator
      /\ x.answers = r.answers
      /\ x.verified = r.verified
      /\ x.bound = r.bound
  BY DEF InState, Request
<1>2. x # NoRow
  BY <1>1, ApprovalAssumption
<1> QED
  BY <1>1, <1>2

\* What a decision makes of a request.
LEMMA DecidedFacts ==
  ASSUME NEW s \in Sup, NEW req \in Request, NEW d \in Decision, NEW o \in Operator,
         NEW ans \in SUBSET Question
  PROVE  LET new == Decided(s, req, d, o, ans) IN
           /\ new \in Request
           /\ req.answers \subseteq new.answers
           /\ new.verified
           /\ new.operator = o
           /\ new.state = StateAfter(d)
<1>1. req.answers \in SUBSET Question
  BY DEF Request
<1>2. CASE d = "ALLOW_ONCE"
  BY <1>1, <1>2 DEF Decided, StateAfter, Request, ApprovalState
<1>3. CASE d = "DENY"
  BY <1>1, <1>3 DEF Decided, StateAfter, Request, ApprovalState
<1>4. CASE d = "ANSWER_QUESTIONS"
  BY <1>1, <1>4 DEF Decided, StateAfter, Request, ApprovalState
<1> QED
  BY <1>2, <1>3, <1>4 DEF Decision

\* Loading the table keeps the snapshot's type.
LEMMA LoadTypes ==
  ASSUME ApprovalTypeOK, NEW s \in Sup, Load(s)
  PROVE  /\ mem' \in [Sup -> [Action -> Request \cup {NoRow}]]
         /\ consumed' \in [Sup -> SUBSET Action]
<1>1. \A a \in Action : row[a] # NoRow => Loaded(a) \in Request
  BY InStateFacts DEF ApprovalTypeOK, Loaded, ApprovalState
<1> QED
  BY <1>1 DEF ApprovalTypeOK, Load

\* So does replacing one request.
LEMMA RememberTypes ==
  ASSUME ApprovalTypeOK, NEW s \in Sup, NEW a \in Action, NEW r \in Request, Remember(s, a, r)
  PROVE  mem' \in [Sup -> [Action -> Request \cup {NoRow}]]
  BY DEF ApprovalTypeOK, Remember

\* Every step keeps every variable in its type.
LEMMA ApprovalTypeStep == ApprovalTypeOK /\ [Next]_vars => ApprovalTypeOK'
<1> SUFFICES ASSUME ApprovalTypeOK, [Next]_vars PROVE ApprovalTypeOK'
  OBVIOUS
<1>1. ASSUME NEW s \in Sup, SupStep(s) PROVE ApprovalTypeOK'
  <2>1. CASE RehydrateFromDisk(s)
    BY <2>1, LoadTypes DEF RehydrateFromDisk, ApprovalTypeOK
  <2>2. CASE ResolvePersist(s)
    <3>1. writing[s].action \in Action /\ writing[s].new \in Request
      BY <2>2 DEF ResolvePersist, ApprovalTypeOK, Pending
    <3> QED
      BY <2>2, <3>1, RememberTypes DEF ResolvePersist, ApprovalTypeOK
  <2>3. CASE ResolveRaises(s)
    BY <2>3 DEF ResolveRaises, ApprovalTypeOK
  <2>4. CASE Restart(s)
    BY <2>4 DEF Restart, ApprovalTypeOK
  <2> QED
    BY <1>1, <2>1, <2>2, <2>3, <2>4 DEF SupStep
<1>2. ASSUME NEW s \in Sup, NEW a \in Action, CallStep(s, a) PROVE ApprovalTypeOK'
  <2>1. CASE CreateRequest(s, a)
    <3>1. Fresh \in Request
      BY DEF Fresh, Request, ApprovalState
    <3>2. [action |-> a, kind |-> "REQUEST_CREATED", operator |-> NoOperator,
           answers |-> {}] \in Event
      BY DEF Event
    <3> QED
      BY <2>1, <3>1, <3>2, RememberTypes DEF CreateRequest, AuditAppend, ApprovalTypeOK
  <2>2. CASE ReadClock(s, a)
    BY <2>2 DEF ReadClock, ApprovalTypeOK
  <2>3. ASSUME NEW d \in Decision, NEW o \in Operator, NEW ans \in SUBSET Question,
               Resolve(s, a, d, o, ans) PROVE ApprovalTypeOK'
    <3> DEFINE new == Decided(s, mem[s][a], d, o, ans)
    <3>1. new \in Request /\ new.answers \in SUBSET Question
      <4>1. mem[s][a] \in Request
        BY <2>3 DEF Resolve, ApprovalTypeOK
      <4>2. new \in Request
        BY <4>1, DecidedFacts
      <4> QED
        BY <4>2 DEF Request
    <3>2. [action |-> a, kind |-> d, operator |-> o, answers |-> new.answers] \in Event
      BY <3>1 DEF Event
    <3>3. [action |-> a, new |-> new] \in Pending
      BY <3>1 DEF Pending
    <3> HIDE DEF new
    <3> QED
      BY <2>3, <3>2, <3>3 DEF Resolve, AuditAppend, ApprovalTypeOK, new
  <2>4. CASE ExpireIfDue(s, a)
    <3>1. InState(mem[s][a], "EXPIRED") \in Request
      BY <2>4, InStateFacts DEF ExpireIfDue, ApprovalTypeOK, ApprovalState
    <3> QED
      BY <2>4, <3>1, LoadTypes, RememberTypes DEF ExpireIfDue, ApprovalTypeOK
  <2>5. CASE Consume(s, a)
    <3>1. row[a] \in Request /\ mem[s][a] \in Request
      BY <2>5 DEF Consume, Grants, DurablyGranted, ApprovalTypeOK
    <3>2. InState(row[a], "CONSUMED") \in Request /\ InState(mem[s][a], "CONSUMED") \in Request
      BY <3>1, InStateFacts DEF ApprovalState
    <3> QED
      BY <2>5, <3>2, RememberTypes DEF Consume, ApprovalTypeOK
  <2>6. CASE IssueTicket(s, a)
    <3>1. [action |-> a, kind |-> "APPROVAL_CONSUMED", operator |-> NoOperator,
           answers |-> {}] \in Event
      BY DEF Event
    <3>2. audit' \subseteq Event
      BY <2>6, <3>1 DEF IssueTicket, AuditAppend, ApprovalTypeOK
    <3>3. tickets' \in [Action -> Nat]
      BY <2>6 DEF IssueTicket, ApprovalTypeOK
    <3> QED
      BY <2>6, <3>2, <3>3 DEF IssueTicket, ApprovalTypeOK
  <2>7. CASE TicketLost(s, a)
    BY <2>7 DEF TicketLost, ApprovalTypeOK
  <2> QED
    BY <1>2, <2>1, <2>2, <2>3, <2>4, <2>5, <2>6, <2>7 DEF CallStep
<1>3. ASSUME NEW a \in Action, Deadline(a) PROVE ApprovalTypeOK'
  BY <1>3 DEF Deadline, supVars, ApprovalTypeOK
<1>4. CASE UNCHANGED vars
  BY <1>4 DEF vars, supVars, ApprovalTypeOK
<1> QED
  BY <1>1, <1>2, <1>3, <1>4 DEF Next

-----------------------------------------------------------------------------
(* The writes to the table, whoever makes them.                            *)

\* The ways one step may leave the row of a.
Created(a) == row[a] = NoRow /\ row'[a] = Fresh
Settled(a) ==
  /\ row[a] # NoRow /\ row[a].state \in Open
  /\ row'[a] \in Request
  /\ row[a].answers \subseteq row'[a].answers
  /\ row'[a].verified
  /\ \E d \in Decision :
       /\ row'[a].state = StateAfter(d)
       /\ [action |-> a, kind |-> d, operator |-> row'[a].operator,
           answers |-> row'[a].answers] \in audit
Expired(a) ==
  /\ row[a] # NoRow /\ row[a].state \in Open \cup {"APPROVED"}
  /\ row'[a] = InState(row[a], "EXPIRED")
Spent(a) ==
  /\ row[a] # NoRow /\ row[a].state = "APPROVED" /\ row[a].verified
  /\ row'[a] = InState(row[a], "CONSUMED")
RowMove(a) == Created(a) \/ Settled(a) \/ Expired(a) \/ Spent(a)

\* The transactions of the table are the ones the code guards: one row at a
\* time, from the state the write expects.
LEMMA RowSteps ==
  ASSUME ApprovalInv, [Next]_vars
  PROVE  \/ UNCHANGED row
         \/ \E a \in Action : /\ RowMove(a)
                              /\ \A b \in Action : b # a => row'[b] = row[b]
                              /\ UNCHANGED tickets
<1> DEFINE Moved == \E a \in Action : /\ RowMove(a)
                                      /\ \A b \in Action : b # a => row'[b] = row[b]
                                      /\ UNCHANGED tickets
<1>1. ApprovalTypeOK /\ WritesAudited
  BY DEF ApprovalInv
<1>2. ASSUME NEW s \in Sup, ResolvePersist(s) PROVE Moved
  <2> DEFINE a == writing[s].action
             new == writing[s].new
  <2>1. a \in Action /\ new \in Request
    BY <1>1, <1>2 DEF ResolvePersist, ApprovalTypeOK, Pending
  <2>2. /\ row[a] # NoRow /\ row[a] = mem[s][a]
        /\ row' = [row EXCEPT ![a] = new]
        /\ UNCHANGED tickets
    BY <1>2 DEF ResolvePersist, RowIs
  <2>3. /\ mem[s][a].state \in Open
        /\ mem[s][a].answers \subseteq new.answers
        /\ new.verified
        /\ \E d \in Decision :
             /\ new.state = StateAfter(d)
             /\ [action |-> a, kind |-> d, operator |-> new.operator,
                 answers |-> new.answers] \in audit
    BY <1>1, <1>2 DEF ResolvePersist, WritesAudited
  <2>4. row'[a] = new /\ \A b \in Action : b # a => row'[b] = row[b]
    BY <1>1, <2>1, <2>2 DEF ApprovalTypeOK
  <2> HIDE DEF a, new
  <2>5. Settled(a)
    BY <2>1, <2>2, <2>3, <2>4 DEF Settled
  <2> QED
    BY <2>1, <2>2, <2>4, <2>5 DEF RowMove
<1>3. ASSUME NEW s \in Sup, NEW a \in Action, CreateRequest(s, a) PROVE UNCHANGED row \/ Moved
  BY <1>1, <1>3 DEF CreateRequest, Created, RowMove, ApprovalTypeOK
<1>4. ASSUME NEW s \in Sup, NEW a \in Action, ExpireIfDue(s, a) PROVE UNCHANGED row \/ Moved
  <2>1. CASE UNCHANGED row
    BY <2>1
  <2>2. CASE RowIs(a, mem[s][a]) /\ row' = [row EXCEPT ![a] = InState(mem[s][a], "EXPIRED")]
    <3>1. Expired(a) /\ \A b \in Action : b # a => row'[b] = row[b]
      BY <1>1, <1>4, <2>2 DEF ExpireIfDue, RowIs, Expired, ApprovalTypeOK
    <3> QED
      BY <1>4, <3>1 DEF ExpireIfDue, RowMove
  <2> QED
    BY <1>4, <2>1, <2>2 DEF ExpireIfDue
<1>5. ASSUME NEW s \in Sup, NEW a \in Action, Consume(s, a) PROVE Moved
  <2>1. Spent(a) /\ \A b \in Action : b # a => row'[b] = row[b]
    BY <1>1, <1>5 DEF Consume, DurablyGranted, Grants, Spent, ApprovalTypeOK
  <2> QED
    BY <1>5, <2>1 DEF Consume, RowMove
<1>6. CASE UNCHANGED row
  BY <1>6
<1> HIDE DEF Moved
<1>7. ASSUME NEW s \in Sup, SupStep(s) PROVE UNCHANGED row \/ Moved
  BY <1>2, <1>7 DEF SupStep, RehydrateFromDisk, ResolveRaises, Restart
<1>8. ASSUME NEW s \in Sup, NEW a \in Action, CallStep(s, a) PROVE UNCHANGED row \/ Moved
  BY <1>3, <1>4, <1>5, <1>8 DEF CallStep, ReadClock, Resolve, IssueTicket, TicketLost
<1>9. UNCHANGED row \/ Moved
  BY <1>7, <1>8 DEF Next, Deadline, vars
<1> QED
  BY <1>9 DEF Moved

\* What a step may do to one row.
LEMMA RowStep ==
  ASSUME ApprovalInv, [Next]_vars, NEW a \in Action
  PROVE  row'[a] = row[a] \/ RowMove(a)
  BY RowSteps

\* The audit trail only grows.
LEMMA AuditGrows == [Next]_vars => audit \subseteq audit'
<1> SUFFICES ASSUME [Next]_vars PROVE audit \subseteq audit'
  OBVIOUS
<1>1. \A e : AuditAppend(e) => audit \subseteq audit'
  BY DEF AuditAppend
<1>2. ASSUME NEW s \in Sup, NEW a \in Action, CallStep(s, a) PROVE audit \subseteq audit'
  BY <1>1, <1>2 DEF CallStep, CreateRequest, ReadClock, Resolve, ExpireIfDue, Consume,
    IssueTicket, TicketLost
<1>3. ASSUME NEW s \in Sup, SupStep(s) PROVE UNCHANGED audit
  BY <1>3 DEF SupStep, RehydrateFromDisk, ResolvePersist, ResolveRaises, Restart
<1> QED
  BY <1>2, <1>3 DEF Next, Deadline, vars

-----------------------------------------------------------------------------
(* Tickets.                                                                *)

\* A step creates or settles tickets for spent rows only.
LEMMA SpentStep == ApprovalInv /\ [Next]_vars => SpentRows' /\ OneTicket' /\ TicketsAreActionBound'
<1> SUFFICES ASSUME ApprovalInv, [Next]_vars
             PROVE  SpentRows' /\ OneTicket' /\ TicketsAreActionBound'
  OBVIOUS
<1>1. ApprovalTypeOK /\ SpentRows /\ OneTicket /\ TicketsAreActionBound
  BY DEF ApprovalInv
<1>2. \A a \in Action : row[a] # NoRow /\ row[a].state = "CONSUMED" => row'[a] = row[a]
  BY RowStep DEF RowMove, Created, Settled, Expired, Spent, Open
<1>3. ASSUME UNCHANGED tickets, issuing' \subseteq issuing
      PROVE  SpentRows' /\ OneTicket' /\ TicketsAreActionBound'
  <2>1. SpentRows'
    BY <1>1, <1>2, <1>3 DEF SpentRows
  <2>2. OneTicket'
    BY <1>1, <1>3 DEF OneTicket
  <2>3. TicketsAreActionBound'
    BY <1>1, <1>2, <1>3 DEF SpentRows, TicketsAreActionBound
  <2> QED
    BY <2>1, <2>2, <2>3
<1>4. ASSUME NEW s \in Sup, NEW a \in Action, Consume(s, a)
      PROVE  SpentRows' /\ OneTicket' /\ TicketsAreActionBound'
  <2>1. /\ row[a] # NoRow /\ row[a].state = "APPROVED" /\ row[a].verified
        /\ s \in ActionBound => row[a].bound
        /\ row' = [row EXCEPT ![a] = InState(row[a], "CONSUMED")]
        /\ issuing' = issuing \cup {<<s, a>>}
        /\ UNCHANGED tickets
    BY <1>4 DEF Consume, DurablyGranted, Grants
  <2>2. /\ row'[a] # NoRow /\ row'[a].state = "CONSUMED" /\ row'[a].verified
        /\ s \in ActionBound => row'[a].bound
    <3>1. row[a] \in Request /\ row'[a] = InState(row[a], "CONSUMED")
      BY <1>1, <2>1 DEF ApprovalTypeOK
    <3> QED
      BY <2>1, <3>1, InStateFacts DEF ApprovalState
  <2>3. tickets[a] = 0 /\ \A x \in Sup : <<x, a>> \notin issuing
    BY <1>1, <2>1 DEF SpentRows
  <2>4. SpentRows'
    BY <1>1, <1>2, <2>1, <2>2 DEF SpentRows
  <2>5. OneTicket'
    BY <1>1, <2>1, <2>3 DEF OneTicket
  <2>6. TicketsAreActionBound'
    BY <1>1, <1>2, <2>1, <2>2 DEF SpentRows, TicketsAreActionBound
  <2> QED
    BY <2>4, <2>5, <2>6
<1>5. ASSUME NEW s \in Sup, NEW a \in Action, IssueTicket(s, a)
      PROVE  SpentRows' /\ OneTicket' /\ TicketsAreActionBound'
  <2>1. /\ <<s, a>> \in issuing /\ issuing' = issuing \ {<<s, a>>}
        /\ tickets' = [tickets EXCEPT ![a] = @ + 1]
        /\ UNCHANGED row
    BY <1>5 DEF IssueTicket
  <2>2. tickets[a] = 0 /\ \A x \in Sup : <<x, a>> \in issuing => x = s
    BY <1>1, <2>1 DEF OneTicket
  <2>3. tickets'[a] = 1 /\ \A b \in Action : b # a => tickets'[b] = tickets[b]
    BY <1>1, <2>1, <2>2 DEF ApprovalTypeOK
  <2>4. SpentRows'
    BY <1>1, <2>1, <2>3 DEF SpentRows
  <2>5. OneTicket'
    BY <1>1, <2>1, <2>2, <2>3 DEF OneTicket
  <2>6. TicketsAreActionBound'
    BY <1>1, <2>1 DEF TicketsAreActionBound
  <2> QED
    BY <2>4, <2>5, <2>6
<1>6. ASSUME NEW s \in Sup, SupStep(s) PROVE UNCHANGED tickets /\ issuing' \subseteq issuing
  BY <1>6 DEF SupStep, RehydrateFromDisk, ResolvePersist, ResolveRaises, Restart
<1>7. ASSUME NEW s \in Sup, NEW a \in Action, CallStep(s, a)
      PROVE  Consume(s, a) \/ IssueTicket(s, a) \/ (UNCHANGED tickets /\ issuing' \subseteq issuing)
  BY <1>7 DEF CallStep, CreateRequest, ReadClock, Resolve, ExpireIfDue, TicketLost
<1>8. (\E a \in Action : Deadline(a)) \/ UNCHANGED vars => UNCHANGED <<tickets, issuing>>
  BY DEF Deadline, vars, supVars
<1> QED
  BY <1>3, <1>4, <1>5, <1>6, <1>7, <1>8 DEF Next

-----------------------------------------------------------------------------
(* Decisions and the audit trail.                                          *)

\* What WritesAudited says of one supervisor.
WriteAudited(s) ==
  writing[s] # Unlocked =>
    LET a == writing[s].action
        new == writing[s].new
    IN /\ mem[s][a] # NoRow
       /\ mem[s][a].state \in Open
       /\ mem[s][a].answers \subseteq new.answers
       /\ new.verified
       /\ \E d \in Decision :
            /\ new.state = StateAfter(d)
            /\ [action |-> a, kind |-> d, operator |-> new.operator,
                answers |-> new.answers] \in audit

\* A supervisor that writes keeps its snapshot until the write is over.
LEMMA WriteUntouched ==
  ASSUME NEW s \in Sup, WriteAudited(s), audit \subseteq audit',
         writing'[s] = writing[s], mem'[s] = mem[s]
  PROVE  WriteAudited(s)'
  BY DEF WriteAudited

\* Under the lock nothing is promised yet, or it is in the audit trail.
LEMMA WritesStep == ApprovalInv /\ [Next]_vars => WritesAudited'
<1> SUFFICES ASSUME ApprovalInv, [Next]_vars, NEW x \in Sup PROVE WriteAudited(x)'
  BY DEF WritesAudited, WriteAudited
<1>1. ApprovalTypeOK /\ WriteAudited(x) /\ audit \subseteq audit'
  BY AuditGrows DEF ApprovalInv, WritesAudited, WriteAudited
<1>2. ASSUME writing'[x] = Unlocked PROVE WriteAudited(x)'
  BY <1>2 DEF WriteAudited
<1>3. ASSUME NEW s \in Sup, SupStep(s) PROVE WriteAudited(x)'
  <2>1. CASE s # x
    <3>1. writing'[x] = writing[x] /\ mem'[x] = mem[x]
      BY <1>1, <1>3, <2>1 DEF SupStep, RehydrateFromDisk, Load, ResolvePersist, ResolveRaises,
        Restart, Remember, ApprovalTypeOK
    <3> QED
      BY <1>1, <3>1, WriteUntouched
  <2>2. CASE s = x
    BY <1>1, <1>2, <1>3, <2>2 DEF SupStep, RehydrateFromDisk, ResolvePersist, ResolveRaises,
      Restart, ApprovalTypeOK
  <2> QED
    BY <2>1, <2>2
<1>4. ASSUME NEW s \in Sup, NEW a \in Action, CallStep(s, a) PROVE WriteAudited(x)'
  <2>1. ASSUME NEW d \in Decision, NEW o \in Operator, NEW ans \in SUBSET Question,
               Resolve(s, a, d, o, ans), s = x
        PROVE  WriteAudited(x)'
    <3> DEFINE req == mem[x][a]
               new == Decided(x, req, d, o, ans)
    <3>1. req \in Request /\ req # NoRow /\ req.state \in Open
      BY <1>1, <2>1 DEF Resolve, ApprovalTypeOK
    <3>2. /\ req.answers \subseteq new.answers /\ new.verified
          /\ new.operator = o /\ new.state = StateAfter(d)
      BY <3>1, DecidedFacts
    <3>3. /\ writing'[x] = [action |-> a, new |-> new]
          /\ mem' = mem
          /\ [action |-> a, kind |-> d, operator |-> o, answers |-> new.answers] \in audit'
      BY <1>1, <2>1 DEF Resolve, AuditAppend, ApprovalTypeOK
    <3>4. writing'[x].action = a /\ writing'[x].new = new
      BY <3>3
    <3> HIDE DEF req, new
    <3>5. mem'[x][a] = req
      BY <3>3 DEF req
    <3> QED
      BY <3>1, <3>2, <3>3, <3>4, <3>5 DEF WriteAudited
  <2>2. ASSUME NEW d \in Decision, NEW o \in Operator, NEW ans \in SUBSET Question,
               Resolve(s, a, d, o, ans), s # x
        PROVE  WriteAudited(x)'
    BY <1>1, <2>2, WriteUntouched DEF Resolve, ApprovalTypeOK
  <2>3. CASE CreateRequest(s, a) \/ ExpireIfDue(s, a) \/ Consume(s, a)
    <3>1. writing[s] = Unlocked /\ UNCHANGED writing
      BY <2>3 DEF CreateRequest, ExpireIfDue, Consume
    <3>2. s # x => mem'[x] = mem[x]
      BY <1>1, <2>3 DEF CreateRequest, ExpireIfDue, Consume, Load, Remember, ApprovalTypeOK
    <3> QED
      BY <1>1, <1>2, <3>1, <3>2, WriteUntouched
  <2>4. CASE ReadClock(s, a) \/ IssueTicket(s, a) \/ TicketLost(s, a)
    BY <1>1, <2>4, WriteUntouched DEF ReadClock, IssueTicket, TicketLost
  <2> QED
    BY <1>4, <2>1, <2>2, <2>3, <2>4 DEF CallStep
<1>5. (\E a \in Action : Deadline(a)) \/ UNCHANGED vars => UNCHANGED <<writing, mem>>
  BY DEF Deadline, vars, supVars
<1> QED
  BY <1>1, <1>3, <1>4, <1>5, WriteUntouched DEF Next

\* A row takes over only decisions that were audited before.
LEMMA AuditStep == ApprovalInv /\ [Next]_vars => DecisionAudited'
<1> SUFFICES ASSUME ApprovalInv, [Next]_vars, NEW a \in Action,
                    row'[a] # NoRow, row'[a].verified, NEW d \in Decision,
                    \/ row'[a].state = StateAfter(d)
                    \/ row'[a].state = "CONSUMED" /\ d = "ALLOW_ONCE"
             PROVE  [action |-> a, kind |-> d, operator |-> row'[a].operator,
                     answers |-> row'[a].answers] \in audit'
  BY DEF DecisionAudited
<1>1. ApprovalTypeOK /\ DecisionAudited /\ audit \subseteq audit'
  BY AuditGrows DEF ApprovalInv
<1>2. \A c \in Decision : /\ StateAfter(c) \in {"APPROVED", "DENIED", "QUESTION_PENDING"}
                          /\ StateAfter(c) = "APPROVED" => c = "ALLOW_ONCE"
                          /\ StateAfter(c) = StateAfter(d) => c = d
  BY DEF StateAfter, Decision
<1>3. StateAfter("ALLOW_ONCE") = "APPROVED" /\ "ALLOW_ONCE" \in Decision
  BY DEF StateAfter, Decision
<1>4. CASE row'[a] = row[a]
  BY <1>1, <1>4 DEF DecisionAudited
<1>5. CASE Created(a)
  BY <1>5 DEF Created, Fresh
<1>6. CASE Settled(a)
  BY <1>1, <1>2, <1>6 DEF Settled
<1>7. CASE Expired(a)
  <2>1. row[a] \in Request
    BY <1>1, <1>7 DEF Expired, ApprovalTypeOK
  <2>2. row'[a].state = "EXPIRED"
    BY <1>7, <2>1, InStateFacts DEF Expired, ApprovalState
  <2> QED
    BY <1>2, <2>2
<1>8. CASE Spent(a)
  <2>1. row[a] \in Request
    BY <1>1, <1>8 DEF Spent, ApprovalTypeOK
  <2>2. row'[a].state = "CONSUMED" /\ row'[a].operator = row[a].operator
        /\ row'[a].answers = row[a].answers
    BY <1>8, <2>1, InStateFacts DEF Spent, ApprovalState
  <2>3. d = "ALLOW_ONCE"
    BY <1>2, <2>2
  <2> QED
    BY <1>1, <1>3, <1>8, <2>2, <2>3 DEF Spent, DecisionAudited
<1> QED
  BY <1>4, <1>5, <1>6, <1>7, <1>8, RowStep DEF RowMove

-----------------------------------------------------------------------------
(* The theorems.                                                           *)

\* The invariant holds before the first call, with or without legacy rows.
LEMMA ApprovalInitInv == Init => ApprovalInv
<1> SUFFICES ASSUME Init PROVE ApprovalInv
  OBVIOUS
<1>1. Legacy \in Request /\ Legacy.state = "APPROVED" /\ ~Legacy.verified
  BY DEF Legacy, Fresh, Request, ApprovalState
<1>2. ApprovalTypeOK
  BY <1>1 DEF Init, ApprovalTypeOK
<1>3. SpentRows /\ OneTicket /\ WritesAudited /\ TicketsAreActionBound
  BY DEF Init, SpentRows, OneTicket, WritesAudited, TicketsAreActionBound
<1>4. DecisionAudited
  <2>1. \A a \in Action : row[a] = NoRow \/ row[a] = Legacy
    BY DEF Init
  <2> QED
    BY <1>1, <2>1 DEF DecisionAudited
<1> QED
  BY <1>2, <1>3, <1>4 DEF ApprovalInv

\* The invariant is inductive.
LEMMA ApprovalStepInv == ApprovalInv /\ [Next]_vars => ApprovalInv'
  BY ApprovalTypeStep, SpentStep, WritesStep, AuditStep DEF ApprovalInv

\* The inductive invariant holds in every reachable state of the boundary.
THEOREM ApprovalInvariance == Spec => []ApprovalInv
  BY ApprovalInitInv, ApprovalStepInv, PTL DEF Spec

\* Every variable of the boundary keeps its type.
THEOREM ApprovalTypeCorrect == Spec => []ApprovalTypeOK
<1>1. ApprovalInv => ApprovalTypeOK
  BY DEF ApprovalInv
<1> QED
  BY <1>1, ApprovalInvariance, PTL

(***************************************************************************)
(* An approval yields at most one execution ticket, with any number of     *)
(* supervisors acting on stale snapshots and restarting at any moment.     *)
(***************************************************************************)
THEOREM SingleUse == Spec => []OneTicket
<1>1. ApprovalInv => OneTicket
  BY DEF ApprovalInv
<1> QED
  BY <1>1, ApprovalInvariance, PTL

\* The decision a row carries was in the audit trail before it took effect.
THEOREM AuditedBeforeEffect == Spec => []DecisionAudited
<1>1. ApprovalInv => DecisionAudited
  BY DEF ApprovalInv
<1> QED
  BY <1>1, ApprovalInvariance, PTL

\* A supervisor with an action-specific verifier issues tickets only for
\* decisions that were verified for the action.
THEOREM ActionBoundTickets == Spec => []TicketsAreActionBound
<1>1. ApprovalInv => TicketsAreActionBound
  BY DEF ApprovalInv
<1> QED
  BY <1>1, ApprovalInvariance, PTL

(***************************************************************************)
(* The compare-and-swap of _persist_request and the guarded UPDATE of      *)
(* consume_for_execution lose no update: terminal rows are final, an       *)
(* approval only expires or is spent, answers accumulate.                  *)
(***************************************************************************)
THEOREM UpdatesSurvive == Spec => NoLostUpdate
<1> DEFINE Kept == \A a \in Action : row[a] # NoRow =>
       /\ row'[a] # NoRow
       /\ row[a].state \in Terminal => row'[a] = row[a]
       /\ row[a].state = "APPROVED" => \/ row'[a] = row[a]
                                       \/ row'[a].state \in {"EXPIRED", "CONSUMED"}
       /\ row[a].answers \subseteq row'[a].answers
<1>1. ApprovalInv /\ [Next]_vars => [Kept]_vars
  <2> SUFFICES ASSUME ApprovalInv, [Next]_vars, NEW a \in Action, row[a] # NoRow
               PROVE  /\ row'[a] # NoRow
                      /\ row[a].state \in Terminal => row'[a] = row[a]
                      /\ row[a].state = "APPROVED" => \/ row'[a] = row[a]
                                                      \/ row'[a].state \in {"EXPIRED", "CONSUMED"}
                      /\ row[a].answers \subseteq row'[a].answers
    OBVIOUS
  <2>1. row[a] \in Request
    BY DEF ApprovalInv, ApprovalTypeOK
  <2>2. CASE row'[a] = row[a]
    BY <2>2
  <2>3. CASE Settled(a)
    BY <2>3, ApprovalAssumption DEF Settled, Open, Terminal
  <2>4. CASE Expired(a)
    BY <2>1, <2>4, InStateFacts DEF Expired, Open, Terminal, ApprovalState
  <2>5. CASE Spent(a)
    BY <2>1, <2>5, InStateFacts DEF Spent, Terminal, ApprovalState
  <2> QED
    BY <2>2, <2>3, <2>4, <2>5, RowStep DEF RowMove, Created
<1> QED
  BY <1>1, ApprovalInvariance, PTL DEF Spec, NoLostUpdate

-----------------------------------------------------------------------------
(* Refinement.                                                             *)

\* How a move of the row, or a ticket, moves the abstract status.
LEMMA StatusStep ==
  ASSUME ApprovalInv, [Next]_vars
  PROVE  \/ \A a \in Action : StatusOf(a)' = StatusOf(a)
         \/ \E a \in Action :
              /\ \A b \in Action : b # a => StatusOf(b)' = StatusOf(b)
              /\ \/ StatusOf(a) = "unasked" /\ StatusOf(a)' = "open"
                 \/ StatusOf(a) = "open" /\ StatusOf(a)' = "granted"
                 \/ StatusOf(a) \in {"open", "granted"} /\ StatusOf(a)' = "closed"
                 \/ StatusOf(a) = "granted" /\ StatusOf(a)' = "spent"
                 \/ StatusOf(a) = "spent" /\ StatusOf(a)' = "ticketed"
                 \/ StatusOf(a)' = StatusOf(a)
<1>1. ApprovalTypeOK /\ SpentRows /\ OneTicket
  BY DEF ApprovalInv
<1>2. CASE \E a \in Action : /\ RowMove(a)
                             /\ \A b \in Action : b # a => row'[b] = row[b]
                             /\ UNCHANGED tickets
  <2>1. PICK a \in Action : /\ RowMove(a)
                            /\ \A b \in Action : b # a => row'[b] = row[b]
                            /\ UNCHANGED tickets
    BY <1>2
  <2>2. \A b \in Action : b # a => StatusOf(b)' = StatusOf(b)
    BY <2>1 DEF StatusOf
  <2>3. CASE Created(a)
    <3>1. Fresh # NoRow
      <4>1. Fresh \in Request
        BY DEF Fresh, Request, ApprovalState
      <4> QED
        BY <4>1, ApprovalAssumption
    <3>2. Fresh.state \in Open
      BY DEF Fresh, Open
    <3> QED
      BY <2>2, <2>3, <3>1, <3>2 DEF Created, StatusOf, Status, Open
  <2>4. CASE Settled(a)
    <3>1. row'[a] # NoRow /\ row'[a].state \in {"APPROVED", "DENIED", "QUESTION_PENDING"}
      BY <2>4, ApprovalAssumption DEF Settled, StateAfter, Decision
    <3>2. StatusOf(a) = "open"
      BY <2>4 DEF Settled, StatusOf, Status
    <3>3. StatusOf(a)' \in {"granted", "closed", "open"}
      BY <2>4, <3>1 DEF Settled, StatusOf, Status, Open
    <3> QED
      BY <2>2, <3>2, <3>3
  <2>5. CASE Expired(a)
    <3>1. row'[a] # NoRow /\ row'[a].state = "EXPIRED"
      BY <1>1, <2>5, InStateFacts DEF Expired, ApprovalTypeOK, ApprovalState
    <3>2. StatusOf(a)' = "closed"
      BY <3>1 DEF StatusOf, Status, Open
    <3>3. StatusOf(a) \in {"open", "granted", "closed"}
      BY <2>5 DEF Expired, StatusOf, Status, Open
    <3> QED
      BY <2>2, <3>2, <3>3
  <2>6. CASE Spent(a)
    <3>1. row'[a] # NoRow /\ row'[a].state = "CONSUMED" /\ tickets[a] = 0
      BY <1>1, <2>6, InStateFacts DEF Spent, SpentRows, ApprovalTypeOK, ApprovalState
    <3>2. StatusOf(a)' = "spent"
      BY <2>1, <3>1 DEF StatusOf, Status, Open
    <3>3. StatusOf(a) = "granted"
      BY <2>6 DEF Spent, StatusOf, Status, Open
    <3> QED
      BY <2>2, <3>2, <3>3
  <2> QED
    BY <2>1, <2>3, <2>4, <2>5, <2>6 DEF RowMove
<1>3. CASE UNCHANGED row
  <2>1. CASE UNCHANGED tickets
    BY <1>3, <2>1 DEF StatusOf
  <2>2. ASSUME NEW s \in Sup, NEW a \in Action, IssueTicket(s, a)
        PROVE  /\ StatusOf(a) = "spent" /\ StatusOf(a)' = "ticketed"
               /\ \A b \in Action : b # a => StatusOf(b)' = StatusOf(b)
    <3>1. tickets[a] = 0 /\ row[a] # NoRow /\ row[a].state = "CONSUMED"
      BY <1>1, <2>2 DEF IssueTicket, OneTicket, SpentRows
    <3>2. tickets'[a] = 1 /\ \A b \in Action : b # a => tickets'[b] = tickets[b]
      BY <1>1, <2>2, <3>1 DEF IssueTicket, ApprovalTypeOK
    <3> QED
      BY <1>3, <3>1, <3>2 DEF StatusOf, Status, Open
  <2>3. UNCHANGED tickets \/ \E s \in Sup, a \in Action : IssueTicket(s, a)
    <3>1. ASSUME NEW s \in Sup, SupStep(s) PROVE UNCHANGED tickets
      BY <3>1 DEF SupStep, RehydrateFromDisk, ResolvePersist, ResolveRaises, Restart
    <3>2. ASSUME NEW s \in Sup, NEW a \in Action, CallStep(s, a)
          PROVE  UNCHANGED tickets \/ IssueTicket(s, a)
      BY <3>2 DEF CallStep, CreateRequest, ReadClock, Resolve, ExpireIfDue, Consume, TicketLost
    <3>3. ASSUME NEW a \in Action, Deadline(a) PROVE UNCHANGED tickets
      BY <3>3 DEF Deadline
    <3>4. CASE UNCHANGED vars
      BY <3>4 DEF vars
    <3> QED
      BY <3>1, <3>2, <3>3, <3>4 DEF Next
  <2> QED
    BY <2>1, <2>2, <2>3
<1> QED
  BY <1>2, <1>3, RowSteps

(***************************************************************************)
(* The boundary, with its snapshots, two stores, races and restarts,       *)
(* implements one-shot approvals.                                          *)
(***************************************************************************)
THEOREM BoundaryIsOneShot == Spec => ImplementsOneShot
<1> DEFINE st == [a \in Action |-> StatusOf(a)]
<1>1. Init => OneShot!Init
  <2> SUFFICES ASSUME Init, NEW a \in Action PROVE StatusOf(a) \in {"unasked", "closed"}
    BY DEF OneShot!Init
  <2>1. row[a] = NoRow \/ row[a] = Legacy
    BY DEF Init
  <2>2. Legacy.state = "APPROVED" /\ ~Legacy.verified
    BY DEF Legacy, Fresh
  <2> QED
    BY <2>1, <2>2 DEF StatusOf, Status, Open
<1>2. ApprovalInv /\ [Next]_vars => [OneShot!Next]_st
  <2> SUFFICES ASSUME ApprovalInv, [Next]_vars PROVE OneShot!Next \/ st' = st
    OBVIOUS
  <2>1. CASE \A a \in Action : StatusOf(a)' = StatusOf(a)
    BY <2>1
  <2>2. ASSUME NEW a \in Action, \A b \in Action : b # a => StatusOf(b)' = StatusOf(b)
        PROVE  st' = [st EXCEPT ![a] = StatusOf(a)']
    BY <2>2
  <2>3. \A a \in Action : st[a] = StatusOf(a)
    OBVIOUS
  <2>4. ASSUME NEW a \in Action, \A b \in Action : b # a => StatusOf(b)' = StatusOf(b),
               StatusOf(a) \in {"open", "granted"}, StatusOf(a)' = "closed"
        PROVE  OneShot!Next
    <3>1. OneShot!Close({a})
      BY <2>3, <2>4 DEF OneShot!Close
    <3> QED
      BY <3>1 DEF OneShot!Next
  <2> QED
    BY <2>1, <2>2, <2>3, <2>4, StatusStep DEF OneShot!Next, OneShot!Ask, OneShot!Grant,
      OneShot!Spend, OneShot!Ticket, OneShot!Move
<1> QED
  BY <1>1, <1>2, ApprovalInvariance, PTL DEF Spec, ImplementsOneShot, OneShot!Spec
=============================================================================
