--------------------------- MODULE WorkerIpcProofs ---------------------------
(***************************************************************************)
(* Proofs about one worker process and its controller, for any number of   *)
(* calling threads, tasks, approvals, harnesses, calls and spawns.         *)
(***************************************************************************)
EXTENDS WorkerIpc, SequenceTheorems, TLAPS

-----------------------------------------------------------------------------
(* Sequences of messages and lines.                                        *)

\* Append adds one element, at the end.
LEMMA AppendAdds ==
  ASSUME NEW S, NEW s \in Seq(S), NEW x \in S
  PROVE  /\ Append(s, x) \in Seq(S)
         /\ ToSet(Append(s, x)) = ToSet(s) \cup {x}
<1>1. /\ DOMAIN s = 1 .. Len(s) /\ Len(s) \in Nat
      /\ Append(s, x) \in Seq(S) /\ DOMAIN Append(s, x) = 1 .. Len(s) + 1
      /\ Append(s, x)[Len(s) + 1] = x
      /\ \A i \in 1 .. Len(s) : Append(s, x)[i] = s[i]
  BY LenProperties, AppendProperties
<1>2. ASSUME NEW i \in DOMAIN Append(s, x)
      PROVE  Append(s, x)[i] \in ToSet(s) \cup {x}
  BY <1>1, <1>2 DEF ToSet
<1>3. ASSUME NEW i \in DOMAIN s
      PROVE  s[i] \in ToSet(Append(s, x))
  BY <1>1, <1>3 DEF ToSet
<1>4. x \in ToSet(Append(s, x))
  BY <1>1 DEF ToSet
<1> QED
  BY <1>1, <1>2, <1>3, <1>4, Zenon DEF ToSet

\* Head takes an element, Tail keeps the others.
LEMMA TailKeeps ==
  ASSUME NEW S, NEW s \in Seq(S), s # <<>>
  PROVE  /\ Tail(s) \in Seq(S)
         /\ Head(s) \in S
         /\ Head(s) \in ToSet(s)
         /\ ToSet(Tail(s)) \subseteq ToSet(s)
         /\ ToSet(s) \subseteq ToSet(Tail(s)) \cup {Head(s)}
<1>1. /\ Head(s) = s[1] /\ Len(s) \in Nat \ {0} /\ DOMAIN s = 1 .. Len(s)
      /\ Tail(s) \in Seq(S) /\ Head(s) \in S
      /\ DOMAIN Tail(s) = 1 .. Len(s) - 1
      /\ \A i \in 1 .. Len(s) - 1 : Tail(s)[i] = s[i + 1]
  BY EmptySeq, LenProperties, HeadTailProperties
<1>2. ToSet(Tail(s)) \subseteq ToSet(s)
  BY <1>1 DEF ToSet
<1>3. ASSUME NEW i \in DOMAIN s, i # 1
      PROVE  s[i] = Tail(s)[i - 1] /\ i - 1 \in DOMAIN Tail(s)
  BY <1>1, <1>3
<1>4. \A i \in DOMAIN s : s[i] \in ToSet(Tail(s)) \cup {Head(s)}
  BY <1>1, <1>3 DEF ToSet
<1>5. Head(s) \in ToSet(s)
  BY <1>1 DEF ToSet
<1> QED
  BY <1>1, <1>2, <1>4, <1>5, ZenonT(60) DEF ToSet

\* RemoveAt closes the gap.
LEMMA RemoveAtKeeps ==
  ASSUME NEW S, NEW s \in Seq(S), NEW i \in 1 .. Len(s)
  PROVE  /\ RemoveAt(s, i) \in Seq(S)
         /\ Len(RemoveAt(s, i)) = Len(s) - 1
         /\ \A j \in 1 .. Len(s) - 1 : RemoveAt(s, i)[j] = s[IF j < i THEN j ELSE j + 1]
         /\ ToSet(RemoveAt(s, i)) \subseteq ToSet(s)
<1> DEFINE front == SubSeq(s, 1, i - 1)
           back == SubSeq(s, i + 1, Len(s))
<1> HIDE DEF front, back
<1>1. Len(s) \in Nat /\ DOMAIN s = 1 .. Len(s) /\ \A j \in 1 .. Len(s) : s[j] \in S
  BY LenProperties, ElementOfSeq
<1>2. /\ front \in Seq(S) /\ Len(front) = i - 1
      /\ \A j \in 1 .. i - 1 : front[j] = s[j]
  <2>1. \A j \in 1 .. i - 1 : s[j] \in S
    BY <1>1
  <2> QED
    BY <1>1, <2>1, SubSeqProperties DEF front
<1>3. /\ back \in Seq(S) /\ Len(back) = Len(s) - i
      /\ \A j \in 1 .. Len(s) - i : back[j] = s[i + j]
  <2>1. \A j \in i + 1 .. Len(s) : s[j] \in S
    BY <1>1
  <2>2. /\ back \in Seq(S)
        /\ Len(back) = IF i + 1 <= Len(s) THEN Len(s) - (i + 1) + 1 ELSE 0
        /\ \A j \in 1 .. Len(s) - (i + 1) + 1 : back[j] = s[(i + 1) + j - 1]
    <3>1. i + 1 \in Int /\ Len(s) \in Int
      BY <1>1
    <3> QED
      BY <2>1, <3>1, SubSeqProperties DEF back
  <2>3. ASSUME NEW j \in 1 .. Len(s) - i
        PROVE  back[j] = s[i + j]
    <3>1. j \in 1 .. Len(s) - (i + 1) + 1 /\ (i + 1) + j - 1 = i + j
      BY <1>1
    <3> QED
      BY <2>2, <3>1
  <2>4. Len(back) = Len(s) - i
    <3>1. i \in Int /\ Len(s) \in Int /\ i <= Len(s)
      BY <1>1
    <3>2. CASE i + 1 <= Len(s)
      BY <2>2, <3>1, <3>2
    <3>3. CASE ~(i + 1 <= Len(s))
      BY <2>2, <3>1, <3>3
    <3> QED
      BY <3>2, <3>3
  <2> QED
    BY <2>2, <2>3, <2>4
<1>4. /\ front \o back \in Seq(S)
      /\ Len(front \o back) = Len(front) + Len(back)
      /\ \A j \in 1 .. Len(front) + Len(back) : (front \o back)[j] =
           IF j <= Len(front) THEN front[j] ELSE back[j - Len(front)]
  BY <1>2, <1>3, ConcatProperties
<1>5. /\ Len(front \o back) = Len(s) - 1
      /\ \A j \in 1 .. Len(s) - 1 : (front \o back)[j] = s[IF j < i THEN j ELSE j + 1]
  <2>1. Len(front) + Len(back) = Len(s) - 1
    BY <1>1, <1>2, <1>3
  <2>2. ASSUME NEW j \in 1 .. Len(s) - 1, j < i
        PROVE  (front \o back)[j] = s[j]
    <3>1. j \in 1 .. i - 1 /\ j <= Len(front)
      BY <1>2, <2>2
    <3> QED
      BY <1>2, <1>4, <2>1, <3>1
  <2>3. ASSUME NEW j \in 1 .. Len(s) - 1, ~(j < i)
        PROVE  (front \o back)[j] = s[j + 1]
    <3>1. /\ ~(j <= Len(front)) /\ j - Len(front) \in 1 .. Len(s) - i
          /\ i + (j - Len(front)) = j + 1
      BY <1>1, <1>2, <2>3
    <3>2. back[j - Len(front)] = s[i + (j - Len(front))]
      BY <1>3, <3>1
    <3> QED
      BY <1>4, <2>1, <3>1, <3>2
  <2> QED
    BY <1>4, <2>1, <2>2, <2>3
<1>6. RemoveAt(s, i) = front \o back
  BY DEF RemoveAt, front, back
<1>7. ToSet(RemoveAt(s, i)) \subseteq ToSet(s)
  <2>1. DOMAIN RemoveAt(s, i) = 1 .. Len(s) - 1
    BY <1>4, <1>5, <1>6, LenProperties
  <2>2. \A j \in 1 .. Len(s) - 1 : (IF j < i THEN j ELSE j + 1) \in DOMAIN s
    BY <1>1
  <2> QED
    BY <1>5, <1>6, <2>1, <2>2 DEF ToSet
<1> QED
  BY <1>4, <1>5, <1>6, <1>7

\* A sequence has at most one element of M.
OneIn(s, M) == \A i, j \in DOMAIN s : s[i] \in M /\ s[j] \in M => i = j

\* ... also with one more, unless both are in M.
LEMMA OneInAppend ==
  ASSUME NEW S, NEW s \in Seq(S), NEW x \in S, NEW M,
         OneIn(s, M), x \in M => ToSet(s) \cap M = {}
  PROVE  OneIn(Append(s, x), M)
<1>1. /\ DOMAIN s = 1 .. Len(s) /\ Len(s) \in Nat
      /\ DOMAIN Append(s, x) = 1 .. Len(s) + 1
      /\ Append(s, x)[Len(s) + 1] = x
      /\ \A i \in 1 .. Len(s) : Append(s, x)[i] = s[i]
  BY LenProperties, AppendProperties
<1>2. x \in M => \A i \in DOMAIN s : s[i] \notin M
  BY DEF ToSet
<1> QED
  BY <1>1, <1>2 DEF OneIn

\* ... also without the first, which leaves none if it was the one.
LEMMA OneInTail ==
  ASSUME NEW S, NEW s \in Seq(S), s # <<>>, NEW M, OneIn(s, M)
  PROVE  /\ OneIn(Tail(s), M)
         /\ Head(s) \in M => ToSet(Tail(s)) \cap M = {}
<1>1. /\ Head(s) = s[1] /\ Len(s) \in Nat \ {0} /\ DOMAIN s = 1 .. Len(s)
      /\ DOMAIN Tail(s) = 1 .. Len(s) - 1
      /\ \A i \in 1 .. Len(s) - 1 : Tail(s)[i] = s[i + 1]
  BY EmptySeq, LenProperties, HeadTailProperties
<1>2. OneIn(Tail(s), M)
  BY <1>1 DEF OneIn
<1>3. ASSUME Head(s) \in M, NEW i \in DOMAIN Tail(s)
      PROVE  Tail(s)[i] \notin M
  BY <1>1, <1>3 DEF OneIn
<1> QED
  BY <1>2, <1>3 DEF ToSet

\* ... also without any other.
LEMMA OneInRemoveAt ==
  ASSUME NEW S, NEW s \in Seq(S), NEW i \in 1 .. Len(s), NEW M, OneIn(s, M)
  PROVE  /\ OneIn(RemoveAt(s, i), M)
         /\ s[i] \in M => ToSet(RemoveAt(s, i)) \cap M = {}
<1>1. /\ Len(s) \in Nat /\ DOMAIN s = 1 .. Len(s)
      /\ DOMAIN RemoveAt(s, i) = 1 .. Len(s) - 1
      /\ \A j \in 1 .. Len(s) - 1 : RemoveAt(s, i)[j] = s[IF j < i THEN j ELSE j + 1]
  BY LenProperties, RemoveAtKeeps
<1>2. OneIn(RemoveAt(s, i), M)
  BY <1>1, SMTT(60) DEF OneIn
<1>3. ASSUME s[i] \in M, NEW j \in DOMAIN RemoveAt(s, i)
      PROVE  RemoveAt(s, i)[j] \notin M
  <2> DEFINE k == IF j < i THEN j ELSE j + 1
  <2>1. k \in DOMAIN s /\ k # i
    BY <1>1
  <2>2. RemoveAt(s, i)[j] = s[k]
    BY <1>1
  <2> HIDE DEF k
  <2> QED
    BY <1>1, <1>3, <2>1, <2>2 DEF OneIn
<1> QED
  BY <1>2, <1>3 DEF ToSet

\* An empty sequence has none.
LEMMA EmptyHasNone ==
  ASSUME NEW M
  PROVE  ToSet(<<>>) = {} /\ OneIn(<<>>, M)
BY DEF ToSet, OneIn

-----------------------------------------------------------------------------
(* Types, and the forms calls and messages take.                           *)

\* A command comes with the action that approved it, other work with none.
Ticketed(t, a) == Kind[t] = "command" => a \in Action

\* Where a call can be, and what it has by then.
WellFormed(k) ==
  /\ k.at \in {"admit", "write"} => k.op \in {"dispatch", "async"} /\ Ticketed(k.task, k.action)
  /\ k.at \in {"wait", "read"} => k.op \in {"dispatch", "collect", "ping", "interrupt", "switch"}
  /\ k.at = "account" => k.op \in {"dispatch", "collect"} /\ k.line \in ResultSet
  /\ k.at = "mark" => k.op = "interrupt"
  /\ k.at = "save" => k.op \in {"interrupt", "pause", "resume"} /\ k.row \in SessionSet
  /\ k.at \in {"commit", "stop"} => k.op = "switch"
  /\ k.op \in {"dispatch", "async", "collect"} => k.task \in Task
  /\ k.op = "switch" =>
       /\ k.task \in Harness
       /\ k.row \in SessionSet
       /\ k.at \in {"wait", "read", "commit", "stop", "stopping"}

CallsOK == \A c \in Client : call[c] # Quiet => WellFormed(call[c])

TaskSet == {m \in MessageSet : m.command = "TASK"}

PipesOK ==
  /\ \A m \in ToSet(stdin) \cup ToSet(inbox) : m \in TaskSet => Ticketed(m.task, m.action)
  /\ running # Quiet =>
       /\ Ticketed(running.task, running.action)
       /\ running.at = "ready" => Kind[running.task] = "command"

Base == IpcTypeOK /\ CallsOK /\ PipesOK

\* What the fields of a message say of it.
LEMMA MessageFields ==
  ASSUME NEW m \in MessageSet
  PROVE  /\ m.n \in Nat
         /\ m.command \in {"TASK", "RECONFIGURE", "PING", "INTERRUPT", "STOP", "EOF"}
         /\ m.command = "TASK" => m.task \in Task /\ m.action \in Action \cup {NoAction}
         /\ m.command = "RECONFIGURE" => m.harness \in Harness
BY DEF MessageSet

\* The messages the controller writes.
LEMMA MessagesAre ==
  /\ \A cmd \in {"PING", "INTERRUPT", "STOP", "EOF"} :
       Plain(cmd) \in MessageSet /\ Plain(cmd).command = cmd
  /\ \A h \in Harness, n \in Nat :
       /\ Reconfigure(h, n) \in MessageSet
       /\ Reconfigure(h, n).command = "RECONFIGURE" /\ Reconfigure(h, n).n = n
  /\ \A t \in Task, a \in Action \cup {NoAction}, n \in Nat :
       /\ TaskMsg(t, a, n) \in MessageSet
       /\ TaskMsg(t, a, n).command = "TASK" /\ TaskMsg(t, a, n).task = t
       /\ TaskMsg(t, a, n).action = a /\ TaskMsg(t, a, n).n = n
BY DEF MessageSet, Plain, Reconfigure, TaskMsg

\* What the fields of a line say of it.
LEMMA LineFields ==
  ASSUME NEW l \in LineSet
  PROVE  /\ l.n \in Nat
         /\ l.type \in {"RESULT", "PONG", "INTERRUPTED", "RECONFIGURED"}
         /\ l \in ResultSet <=> l.type = "RESULT"
         /\ l.type = "RESULT" => l.task \in Task /\ l.tokens \in Nat \cup {NoTokens}
BY DEF LineSet, ResultSet

\* The lines the child writes.
LEMMA LinesAre ==
  /\ \A ty \in {"PONG", "INTERRUPTED", "RECONFIGURED"}, n \in Nat :
       /\ Event(ty, n) \in LineSet /\ Event(ty, n) \notin ResultSet
       /\ Event(ty, n).type = ty /\ Event(ty, n).n = n
  /\ \A t \in Task, n \in Nat, st \in {"COMPLETED", "FAILED", "CANCELLED", "DENIED"},
       tk \in Nat \cup {NoTokens} :
       /\ Result(t, n, st, tk) \in ResultSet /\ Result(t, n, st, tk) \in LineSet
       /\ Result(t, n, st, tk).type = "RESULT" /\ Result(t, n, st, tk).task = t
       /\ Result(t, n, st, tk).n = n /\ Result(t, n, st, tk).tokens = tk
       /\ Result(t, n, st, tk).status = st
BY DEF LineSet, ResultSet, Event, Result

\* A call under way is a record with these fields.
LEMMA CallFields ==
  ASSUME Base, NEW c \in Client, call[c] # Quiet
  PROVE  call[c] \in CallSet /\ WellFormed(call[c])
BY DEF Base, IpcTypeOK, CallsOK

\* A thread takes up, goes on with or ends a call.
LEMMA CallTo ==
  ASSUME Base, NEW c \in Client, NEW k \in CallSet \cup {Quiet}, k # Quiet => WellFormed(k),
         call' = [call EXCEPT ![c] = k]
  PROVE  call' \in [Client -> CallSet \cup {Quiet}] /\ CallsOK'
BY DEF Base, IpcTypeOK, CallsOK

\* Going on is another record of the same call.
LEMMA Moved ==
  ASSUME NEW k \in CallSet, NEW w,
         NEW at \in {"admit", "write", "wait", "read", "account", "mark", "save", "commit",
                     "stop", "stopping"},
         w = [k EXCEPT !.at = at]
  PROVE  /\ w \in CallSet /\ w # Quiet /\ w.at = at
         /\ w.op = k.op /\ w.task = k.task /\ w.action = k.action
         /\ w.n = k.n /\ w.row = k.row /\ w.line = k.line
<1>1. w \in CallSet
  BY DEF CallSet
<1> QED
  BY <1>1, QuietAssumption DEF CallSet

LEMMA GotoIs ==
  ASSUME NEW c \in Client, NEW at, Goto(c, at)
  PROVE  call' = [call EXCEPT ![c] = [call[c] EXCEPT !.at = at]]
BY DEF Goto

\* A new call.
LEMMA NewCallIs ==
  ASSUME NEW op \in {"dispatch", "async", "collect", "ping", "interrupt", "switch", "pause",
                     "resume", "terminate", "kill"},
         NEW at \in {"admit", "write", "wait", "read", "account", "mark", "save", "commit",
                     "stop", "stopping"},
         NEW t \in Task \cup Harness \cup {NoTask}, NEW a \in Action \cup {NoAction}, NEW n \in Nat,
         NEW k, k = Call(op, at, t, a, n)
  PROVE  /\ k \in CallSet /\ k # Quiet
         /\ k.op = op /\ k.at = at /\ k.task = t /\ k.action = a /\ k.n = n
<1>1. Call(op, at, t, a, n) \in CallSet
  BY DEF Call, CallSet
<1> QED
  BY <1>1, QuietAssumption DEF Call

\* ... without a task.
LEMMA SimpleIs ==
  ASSUME NEW op \in {"ping", "interrupt", "pause", "resume", "terminate", "kill"},
         NEW at \in {"wait", "save", "stopping"}, NEW k, k = Simple(op, at)
  PROVE  k \in CallSet /\ k # Quiet /\ k.op = op /\ k.at = at /\ k.n = 0
<1>1. NoTask \in Task \cup Harness \cup {NoTask} /\ NoAction \in Action \cup {NoAction} /\ 0 \in Nat
  OBVIOUS
<1>2. k = Call(op, at, NoTask, NoAction, 0)
  BY DEF Simple
<1> QED
  BY <1>1, <1>2, NewCallIs

\* ... that has loaded the session row.
LEMMA WithRowIs ==
  ASSUME NEW k \in CallSet, session \in SessionSet, NEW w, w = WithRow(k)
  PROVE  /\ w \in CallSet /\ w # Quiet /\ w.row = session
         /\ w.op = k.op /\ w.at = k.at /\ w.task = k.task /\ w.action = k.action /\ w.n = k.n
<1>1. w \in CallSet
  BY DEF CallSet, WithRow
<1> QED
  BY <1>1, QuietAssumption DEF CallSet, WithRow

-----------------------------------------------------------------------------
(* Every step keeps the types and forms.                                   *)

\* What a step may change without regard to the calls and the pipes.
LEMMA BaseStep ==
  ASSUME Base,
         ApprovalTypeOK',
         proc' \in {"none", "live", "exited", "killed"}, attached' \in BOOLEAN,
         rec' \in WorkerStatus, recTokens' \in Nat, session' \in SessionSet,
         busy' \in Task \cup {NoTask}, lock' \in Client \cup {Nobody},
         reading' \in Client \cup {Nobody},
         call' \in [Client -> CallSet \cup {Quiet}], CallsOK',
         calls' \in Nat, spawns' \in Nat,
         lines' \in Seq(LineSet), cancel' \in BOOLEAN,
         used' \in Nat, harness' \in Harness, seen' \subseteq Action, aimed' \subseteq Nat,
         executed' \in [Action -> Nat],
         stdin' \in Seq(MessageSet), inbox' \in Seq(MessageSet),
         running' \in RunSet \cup {Quiet},
         PipesOK'
  PROVE  Base'
BY DEF Base, IpcTypeOK

\* The pipes stay, but for a message that is written.
LEMMA PipesWritten ==
  ASSUME Base, UNCHANGED <<inbox, running>>,
         \/ UNCHANGED stdin
         \/ \E m \in MessageSet : /\ stdin' = Append(stdin, m)
                                  /\ m \in TaskSet => Ticketed(m.task, m.action)
  PROVE  stdin' \in Seq(MessageSet) /\ PipesOK'
<1>1. CASE UNCHANGED stdin
  BY <1>1 DEF Base, IpcTypeOK, PipesOK
<1>2. ASSUME NEW m \in MessageSet, stdin' = Append(stdin, m),
             m \in TaskSet => Ticketed(m.task, m.action)
      PROVE  stdin' \in Seq(MessageSet) /\ PipesOK'
  <2>1. stdin' \in Seq(MessageSet) /\ ToSet(stdin') = ToSet(stdin) \cup {m}
    BY <1>2, AppendAdds DEF Base, IpcTypeOK
  <2> QED
    BY <1>2, <2>1 DEF Base, PipesOK
<1> QED
  BY <1>1, <1>2

\* A child that is gone leaves empty pipes.
LEMMA GoneTypes ==
  ASSUME Base, ChildGone
  PROVE  /\ stdin' \in Seq(MessageSet) /\ inbox' \in Seq(MessageSet) /\ cancel' \in BOOLEAN
         /\ running' \in RunSet \cup {Quiet} /\ used' \in Nat /\ harness' \in Harness
         /\ seen' \subseteq Action /\ aimed' \subseteq Nat /\ PipesOK'
BY IpcAssumption, EmptyHasNone, EmptySeq DEF ChildGone, PipesOK

\* The process, the controller and the human.
LEMMA LifeTypes ==
  ASSUME Base,
         \/ SpawnWorker \/ WorkerDies \/ ControllerRestarts \/ ReapDeadWorkers
         \/ ReconcileRehydratedSessions \/ RegisterPersistedSession \/ HumanActs
         \/ HandleStop \/ OrphanBreaks
  PROVE  Base'
<1> USE DEF ctlVars, boundVars, childVars, auxVars, approvalVars
<1>1. CASE SpawnWorker
  <2>1. /\ session.tokens \in Nat /\ session.harness \in Harness
        /\ session' \in SessionSet
    BY <1>1 DEF SpawnWorker, Base, IpcTypeOK, SessionSet, WorkerStatus
  <2>2. PipesOK' /\ stdin' \in Seq(MessageSet) /\ inbox' \in Seq(MessageSet) /\ lines' \in Seq(LineSet)
    BY <1>1, EmptyHasNone, EmptySeq DEF SpawnWorker, PipesOK
  <2>3. /\ proc' \in {"none", "live", "exited", "killed"} /\ attached' \in BOOLEAN
        /\ rec' \in WorkerStatus /\ recTokens' \in Nat /\ busy' \in Task \cup {NoTask}
        /\ cancel' \in BOOLEAN /\ used' \in Nat /\ harness' \in Harness
        /\ seen' \subseteq Action /\ aimed' \subseteq Nat /\ running' \in RunSet \cup {Quiet}
    BY <1>1, <2>1 DEF SpawnWorker, WorkerStatus
  <2>5. spawns' \in Nat
    BY <1>1 DEF SpawnWorker, Base, IpcTypeOK
  <2>4. /\ ApprovalTypeOK' /\ lock' \in Client \cup {Nobody} /\ reading' \in Client \cup {Nobody}
        /\ call' \in [Client -> CallSet \cup {Quiet}] /\ CallsOK'
        /\ calls' \in Nat /\ executed' \in [Action -> Nat]
    BY <1>1 DEF SpawnWorker, Base, IpcTypeOK, CallsOK, ApprovalTypeOK
  <2> QED
    BY <2>1, <2>2, <2>3, <2>4, <2>5, BaseStep
<1>2. CASE WorkerDies \/ HandleStop \/ OrphanBreaks
  BY <1>2, GoneTypes, BaseStep DEF WorkerDies, HandleStop, OrphanBreaks, Base, IpcTypeOK, CallsOK, ApprovalTypeOK
<1>3. CASE ControllerRestarts
  <2>1. stdin' \in Seq(MessageSet) /\ PipesOK'
    <3>1. Plain("EOF") \in MessageSet /\ Plain("EOF") \notin TaskSet
      BY MessagesAre DEF TaskSet
    <3> QED
      BY <1>3, <3>1, PipesWritten DEF ControllerRestarts
  <2>2. lines' \in Seq(LineSet)
    BY <1>3, EmptySeq DEF ControllerRestarts
  <2>3. ApprovalTypeOK'
    BY <1>3 DEF ControllerRestarts, AuthorityLost, Base, IpcTypeOK, ApprovalTypeOK, ActionState
  <2> QED
    BY <1>3, <2>1, <2>2, <2>3, BaseStep DEF ControllerRestarts, Base, IpcTypeOK, CallsOK, WorkerStatus
<1>4. CASE ReapDeadWorkers
  <2>1. session' \in SessionSet
    BY <1>4 DEF ReapDeadWorkers, Forget, Base, IpcTypeOK, SessionSet, WorkerStatus
  <2>2. lines' \in Seq(LineSet)
    BY <1>4, EmptySeq DEF ReapDeadWorkers, Forget, Base, IpcTypeOK
  <2> QED
    BY <1>4, <2>1, <2>2, PipesWritten, BaseStep, ZenonT(60)
    DEF ReapDeadWorkers, Forget, Base, IpcTypeOK, CallsOK, WorkerStatus, ApprovalTypeOK
<1>5. CASE ReconcileRehydratedSessions \/ RegisterPersistedSession
  <2>1. session' \in SessionSet /\ session.tokens \in Nat
    BY <1>5 DEF ReconcileRehydratedSessions, RegisterPersistedSession, Base, IpcTypeOK, SessionSet, WorkerStatus
  <2> QED
    BY <1>5, <2>1, PipesWritten, BaseStep
    DEF ReconcileRehydratedSessions, RegisterPersistedSession, Base, IpcTypeOK, CallsOK, WorkerStatus, ApprovalTypeOK
<1>6. CASE HumanActs
  <2>1. ApprovalTypeOK'
    BY <1>6 DEF HumanActs, ApprovalStep, RequestCommandApproval, ResolveByHuman, ExpireIfNeeded,
      Base, IpcTypeOK, ApprovalTypeOK, ActionState
  <2> QED
    BY <1>6, <2>1, PipesWritten, BaseStep DEF HumanActs, Base, IpcTypeOK, CallsOK
<1> QED
  BY <1>1, <1>2, <1>3, <1>4, <1>5, <1>6

\* A thread goes on, and perhaps writes a message; the child does not move.
LEMMA ClientTypes ==
  ASSUME Base, NEW c \in Client, NEW k \in CallSet \cup {Quiet}, k # Quiet => WellFormed(k),
         call' = [call EXCEPT ![c] = k],
         ApprovalTypeOK', rec' \in WorkerStatus, recTokens' \in Nat, session' \in SessionSet,
         busy' \in Task \cup {NoTask}, lock' \in Client \cup {Nobody},
         reading' \in Client \cup {Nobody}, calls' \in Nat, aimed' \subseteq Nat,
         lines' \in Seq(LineSet),
         \/ UNCHANGED stdin
         \/ \E m \in MessageSet : /\ stdin' = Append(stdin, m)
                                  /\ m \in TaskSet => Ticketed(m.task, m.action),
         UNCHANGED <<childVars, attached, spawns, executed>>
  PROVE  Base'
<1>1. call' \in [Client -> CallSet \cup {Quiet}] /\ CallsOK'
  BY CallTo
<1>2. stdin' \in Seq(MessageSet) /\ PipesOK'
  BY PipesWritten DEF childVars
<1> QED
  BY <1>1, <1>2, BaseStep DEF Base, IpcTypeOK, childVars

\* Attempts without an answer have numbers.
LEMMA UnansweredType ==
  ASSUME Base
  PROVE  Unanswered \subseteq Nat
<1>1. ASSUME NEW m \in ToSet(stdin) \cup ToSet(inbox)
      PROVE  m.n \in Nat
  <2>1. m \in MessageSet
    BY <1>1 DEF Base, IpcTypeOK, ToSet
  <2> QED
    BY <2>1, MessageFields
<1>2. running # Quiet => running.n \in Nat
  BY DEF Base, IpcTypeOK, RunSet
<1> QED
  BY <1>1, <1>2 DEF Unanswered

\* Calls as they begin.
LEMMA BeginTypes ==
  ASSUME Base, NEW c \in Client, NewCall(c)
  PROVE  Base'
<1> USE DEF ctlVars, boundVars, auxVars, approvalVars
<1>0. calls + 1 \in Nat /\ session \in SessionSet
  BY DEF Base, IpcTypeOK
<1>1. ASSUME NEW op \in {"dispatch", "async"}, NEW t \in Task, NEW a \in Action \cup {NoAction},
             BeginTask(c, op, t, a)
      PROVE  Base'
  <2> DEFINE k == Call(op, "admit", t, a, calls + 1)
  <2>1. k \in CallSet /\ k.op = op /\ k.at = "admit" /\ k.task = t /\ k.action = a
    BY <1>0, NewCallIs
  <2>2. Ticketed(t, a)
    BY <1>1 DEF BeginTask, Ticketed
  <2>3. WellFormed(k)
    BY <2>1, <2>2 DEF WellFormed
  <2>4. ApprovalTypeOK'
    BY <1>1 DEF BeginTask, VerifyAndConsume, Base, IpcTypeOK, ApprovalTypeOK
  <2> HIDE DEF k
  <2>5. call' = [call EXCEPT ![c] = k]
    BY <1>1 DEF BeginTask, Start, k
  <2> QED
    BY <1>0, <1>1, <2>1, <2>3, <2>4, <2>5, ClientTypes DEF BeginTask, Start, Base, IpcTypeOK
<1>2. ASSUME NEW t \in Task, BeginCollect(c, t)
      PROVE  Base'
  <2> DEFINE k == Call("collect", "wait", t, NoAction, 0)
  <2>1. k \in CallSet /\ k.op = "collect" /\ k.at = "wait" /\ k.task = t
    <3>1. NoAction \in Action \cup {NoAction} /\ t \in Task \cup Harness \cup {NoTask} /\ 0 \in Nat
      OBVIOUS
    <3> QED
      BY <3>1, NewCallIs
  <2>2. WellFormed(k)
    BY <2>1 DEF WellFormed
  <2> HIDE DEF k
  <2>3. call' = [call EXCEPT ![c] = k]
    BY <1>2 DEF BeginCollect, Start, k
  <2> QED
    BY <1>0, <1>2, <2>1, <2>2, <2>3, ClientTypes DEF BeginCollect, Start, Base, IpcTypeOK, ApprovalTypeOK
<1>3. CASE BeginPing(c)
  <2> DEFINE k == Simple("ping", "wait")
  <2>1. k \in CallSet /\ k.op = "ping" /\ k.at = "wait"
    BY SimpleIs
  <2>2. WellFormed(k)
    BY <2>1 DEF WellFormed
  <2> HIDE DEF k
  <2>3. call' = [call EXCEPT ![c] = k]
    BY <1>3 DEF BeginPing, Start, k
  <2>4. Plain("PING") \in MessageSet /\ Plain("PING") \notin TaskSet
    BY MessagesAre DEF TaskSet
  <2> QED
    BY <1>0, <1>3, <2>1, <2>2, <2>3, <2>4, ClientTypes
    DEF BeginPing, Start, Send, Base, IpcTypeOK, ApprovalTypeOK
<1>4. CASE BeginInterrupt(c)
  <2> DEFINE k == Simple("interrupt", "wait")
  <2>1. k \in CallSet /\ k.op = "interrupt" /\ k.at = "wait"
    BY SimpleIs
  <2>2. WellFormed(k)
    BY <2>1 DEF WellFormed
  <2> HIDE DEF k
  <2>3. call' = [call EXCEPT ![c] = k]
    BY <1>4 DEF BeginInterrupt, Start, k
  <2>4. Plain("INTERRUPT") \in MessageSet /\ Plain("INTERRUPT") \notin TaskSet
    BY MessagesAre DEF TaskSet
  <2>5. aimed' \subseteq Nat
    BY <1>4, UnansweredType DEF BeginInterrupt, Base, IpcTypeOK
  <2> QED
    BY <1>0, <1>4, <2>1, <2>2, <2>3, <2>4, <2>5, ClientTypes
    DEF BeginInterrupt, Start, Send, Base, IpcTypeOK, ApprovalTypeOK
<1>5. ASSUME NEW h \in Harness, BeginSwitch(c, h)
      PROVE  Base'
  <2> DEFINE at == IF attached THEN "wait" ELSE "commit"
             k == WithRow(Call("switch", at, h, NoAction, calls + 1))
  <2>1. at \in {"wait", "commit"}
    OBVIOUS
  <2> HIDE DEF at
  <2>2. k \in CallSet /\ k.op = "switch" /\ k.at = at /\ k.task = h /\ k.row \in SessionSet
    <3> DEFINE k0 == Call("switch", at, h, NoAction, calls + 1)
    <3>1. k0 \in CallSet /\ k0.op = "switch" /\ k0.at = at /\ k0.task = h
      BY <1>0, <2>1, NewCallIs, SMTT(60)
    <3> HIDE DEF k0
    <3>2. k = WithRow(k0)
      BY DEF k0
    <3> HIDE DEF k
    <3> QED
      BY <1>0, <3>1, <3>2, WithRowIs
  <2>3. WellFormed(k)
    BY <2>1, <2>2 DEF WellFormed
  <2> HIDE DEF k
  <2>4. call' = [call EXCEPT ![c] = k]
    BY <1>5 DEF BeginSwitch, Start, k, at
  <2>5. Reconfigure(h, calls + 1) \in MessageSet /\ Reconfigure(h, calls + 1) \notin TaskSet
    BY <1>0, MessagesAre DEF TaskSet
  <2> QED
    BY <1>0, <1>5, <2>2, <2>3, <2>4, <2>5, ClientTypes
    DEF BeginSwitch, Start, Send, Base, IpcTypeOK, ApprovalTypeOK
<1>6. CASE BeginPause(c) \/ BeginResume(c)
  <2>1. PICK op \in {"pause", "resume"} : call' = [call EXCEPT ![c] = WithRow(Simple(op, "save"))]
    BY <1>6 DEF BeginPause, BeginResume, Start
  <2> DEFINE k == WithRow(Simple(op, "save"))
  <2>2. k \in CallSet /\ k.op = op /\ k.at = "save" /\ k.row \in SessionSet
    <3> DEFINE k0 == Simple(op, "save")
    <3>1. k0 \in CallSet /\ k0.op = op /\ k0.at = "save"
      BY SimpleIs
    <3> HIDE DEF k0
    <3>2. k = WithRow(k0)
      BY DEF k0
    <3> HIDE DEF k
    <3> QED
      BY <1>0, <3>1, <3>2, WithRowIs
  <2>3. WellFormed(k)
    BY <2>2 DEF WellFormed
  <2> HIDE DEF k
  <2>4. call' = [call EXCEPT ![c] = k]
    BY <2>1 DEF k
  <2>5. rec' \in WorkerStatus
    BY <1>6 DEF BeginPause, BeginResume, WorkerStatus
  <2> QED
    BY <1>0, <1>6, <2>2, <2>3, <2>4, <2>5, ClientTypes
    DEF BeginPause, BeginResume, Start, Base, IpcTypeOK, ApprovalTypeOK
<1>7. CASE BeginTerminate(c)
  <2>1. PICK op \in {"terminate", "kill"} : call' = [call EXCEPT ![c] = Simple(op, "stopping")]
    BY <1>7 DEF BeginTerminate, Start
  <2> DEFINE k == Simple(op, "stopping")
  <2>2. k \in CallSet /\ k.op = op /\ k.at = "stopping"
    BY SimpleIs
  <2>3. WellFormed(k)
    BY <2>2 DEF WellFormed
  <2> HIDE DEF k
  <2>4. call' = [call EXCEPT ![c] = k]
    BY <2>1 DEF k
  <2>5. Plain("STOP") \in MessageSet /\ Plain("STOP") \notin TaskSet
    BY MessagesAre DEF TaskSet
  <2> QED
    BY <1>0, <1>7, <2>2, <2>3, <2>4, <2>5, ClientTypes
    DEF BeginTerminate, Start, Base, IpcTypeOK, ApprovalTypeOK
<1> QED
  BY <1>1, <1>2, <1>3, <1>4, <1>5, <1>6, <1>7 DEF NewCall

\* Calls as they go on: every call is somewhere in CallSet afterwards.
LEMMA ClientStepTypes ==
  ASSUME Base, NEW c \in Client, ClientStep(c)
  PROVE  Base'
<1> USE DEF ctlVars, boundVars, auxVars, approvalVars
<1>0. /\ call[c] # Quiet => call[c] \in CallSet /\ WellFormed(call[c])
      /\ call \in [Client -> CallSet \cup {Quiet}] /\ Quiet \in CallSet \cup {Quiet}
  BY CallFields DEF Base, IpcTypeOK
<1>1. CASE AdmitTask(c)
  <2>1. call[c] # Quiet /\ call[c].at = "admit" /\ call[c].op \in {"dispatch", "async"}
    BY <1>0, <1>1 DEF AdmitTask, At, WellFormed
  <2> DEFINE k == [call[c] EXCEPT !.at = "write"]
  <2>2. k \in CallSet /\ WellFormed(k)
    BY <1>0, <2>1, Moved DEF WellFormed
  <2> HIDE DEF k
  <2>3. call' = [call EXCEPT ![c] = k] \/ call' = [call EXCEPT ![c] = Quiet]
    BY <1>1, GotoIs DEF AdmitTask, Return, k
  <2>4. busy' \in Task \cup {NoTask}
    BY <1>0, <1>1, <2>1 DEF AdmitTask, WellFormed, Base, IpcTypeOK
  <2> QED
    BY <1>0, <1>1, <2>2, <2>3, <2>4, ClientTypes DEF AdmitTask, Base, IpcTypeOK, ApprovalTypeOK
<1>2. CASE WriteTask(c)
  <2>1. /\ call[c] # Quiet /\ call[c].at = "write" /\ call[c].op \in {"dispatch", "async"}
        /\ Ticketed(call[c].task, call[c].action) /\ call[c].task \in Task
        /\ call[c].action \in Action \cup {NoAction} /\ call[c].n \in Nat
    BY <1>0, <1>2 DEF WriteTask, At, WellFormed, CallSet
  <2> DEFINE k == [call[c] EXCEPT !.at = "wait"]
             m == TaskMsg(call[c].task, call[c].action, call[c].n)
  <2>2. k \in CallSet /\ k.at = "wait" /\ k.op = call[c].op /\ k.task = call[c].task
    BY <1>0, <2>1, Moved
  <2>3. k.op = "dispatch" => WellFormed(k)
    BY <2>1, <2>2 DEF WellFormed
  <2>4. m \in MessageSet /\ Ticketed(m.task, m.action)
    BY <2>1, MessagesAre
  <2> HIDE DEF k, m
  <2>5. \/ call' = [call EXCEPT ![c] = k] /\ k.op = "dispatch"
        \/ call' = [call EXCEPT ![c] = Quiet]
    BY <1>2, <2>1, <2>2, GotoIs DEF WriteTask, Return, k
  <2>6. UNCHANGED stdin \/ stdin' = Append(stdin, m)
    BY <1>2 DEF WriteTask, m
  <2>7. busy' \in Task \cup {NoTask}
    BY <1>2 DEF WriteTask, Base, IpcTypeOK
  <2> QED
    BY <1>0, <1>2, <2>2, <2>3, <2>4, <2>5, <2>6, <2>7, ClientTypes DEF WriteTask, Base, IpcTypeOK, ApprovalTypeOK
<1>3. CASE EnterRead(c)
  <2>1. call[c] # Quiet /\ call[c].at = "wait"
    BY <1>3 DEF EnterRead, At
  <2> DEFINE k == [call[c] EXCEPT !.at = "read"]
  <2>2. k \in CallSet /\ WellFormed(k)
    BY <1>0, <2>1, Moved DEF WellFormed
  <2> HIDE DEF k
  <2>3. call' = [call EXCEPT ![c] = k]
    BY <1>3, GotoIs DEF EnterRead, k
  <2> QED
    BY <1>0, <1>3, <2>2, <2>3, ClientTypes DEF EnterRead, Base, IpcTypeOK, ApprovalTypeOK
<1>4. CASE TakeLine(c)
  <2>1. call[c] # Quiet /\ call[c].at = "read" /\ call[c] \in CallSet /\ WellFormed(call[c])
    BY <1>0, <1>4 DEF TakeLine, At
  <2>2. PICK i \in 1 .. Len(lines) :
          /\ Answers(call[c], lines[i])
          /\ lines' = RemoveAt(lines, i)
          /\ call' = [call EXCEPT ![c] = AfterAnswer(call[c], lines[i])]
    BY <1>4 DEF TakeLine
  <2>3. lines \in Seq(LineSet) /\ lines[i] \in LineSet
    BY ElementOfSeq DEF Base, IpcTypeOK
  <2>4. lines' \in Seq(LineSet)
    BY <2>2, <2>3, RemoveAtKeeps
  <2> DEFINE k == AfterAnswer(call[c], lines[i])
  <2>5. k \in CallSet \cup {Quiet} /\ (k # Quiet => WellFormed(k))
    <3>1. CASE call[c].op \in {"dispatch", "collect"}
      <4>1. lines[i] \in ResultSet
        BY <2>2, <2>3, <3>1, LineFields DEF Answers
      <4>2. k = [call[c] EXCEPT !.at = "account", !.line = lines[i]]
        BY <3>1 DEF AfterAnswer
      <4>3. k \in CallSet /\ k.at = "account" /\ k.line = lines[i] /\ k.op = call[c].op /\ k.task = call[c].task
        BY <2>1, <2>3, <4>2 DEF CallSet
      <4> HIDE DEF k
      <4> QED
        BY <2>1, <3>1, <4>1, <4>3 DEF WellFormed
    <3>2. CASE call[c].op = "ping"
      BY <3>2 DEF AfterAnswer
    <3>3. CASE call[c].op = "interrupt"
      BY <2>1, <3>3, Moved DEF AfterAnswer, WellFormed
    <3>4. CASE call[c].op = "switch"
      BY <2>1, <3>4, Moved DEF AfterAnswer, WellFormed
    <3> QED
      BY <2>1, <3>1, <3>2, <3>3, <3>4 DEF WellFormed
  <2> HIDE DEF k
  <2>6. call' = [call EXCEPT ![c] = k]
    BY <2>2 DEF k
  <2> QED
    BY <1>4, <2>4, <2>5, <2>6, ClientTypes DEF TakeLine, Base, IpcTypeOK, ApprovalTypeOK
<1>5. CASE TimeOut(c)
  <2>1. call[c] # Quiet /\ call[c].at = "read" /\ call[c] \in CallSet /\ WellFormed(call[c])
    BY <1>0, <1>5 DEF TimeOut, At
  <2> DEFINE k == AfterTimeout(call[c])
  <2>2. k \in CallSet \cup {Quiet} /\ (k # Quiet => WellFormed(k))
    <3>1. CASE call[c].op \in {"dispatch", "collect", "ping"}
      BY <3>1 DEF AfterTimeout
    <3>2. CASE call[c].op = "interrupt"
      BY <2>1, <3>2, Moved DEF AfterTimeout, WellFormed
    <3>3. CASE call[c].op = "switch"
      BY <2>1, <3>3, Moved DEF AfterTimeout, WellFormed
    <3> QED
      BY <2>1, <3>1, <3>2, <3>3 DEF WellFormed
  <2> HIDE DEF k
  <2>3. call' = [call EXCEPT ![c] = k]
    BY <1>5 DEF TimeOut, k
  <2> QED
    BY <1>5, <2>2, <2>3, ClientTypes DEF TimeOut, Base, IpcTypeOK, ApprovalTypeOK
<1>6. CASE Account(c)
  <2>1. call[c].line \in ResultSet
    BY <1>0, <1>6 DEF Account, At, WellFormed
  <2>2. call[c].line.tokens \in Nat \cup {NoTokens}
    BY <2>1 DEF ResultSet
  <2>3. recTokens' \in Nat /\ session' \in SessionSet
    BY <1>6, <2>2 DEF Account, Base, IpcTypeOK, SessionSet
  <2>4. call' = [call EXCEPT ![c] = Quiet]
    BY <1>6 DEF Account, Return
  <2> QED
    BY <1>0, <1>6, <2>3, <2>4, ClientTypes DEF Account, Base, IpcTypeOK, ApprovalTypeOK
<1>7. CASE MarkInterrupted(c)
  <2>1. call[c] # Quiet /\ call[c] \in CallSet /\ call[c].op = "interrupt" /\ session \in SessionSet
    BY <1>0, <1>7 DEF MarkInterrupted, At, WellFormed, Base, IpcTypeOK
  <2> DEFINE k == [call[c] EXCEPT !.at = "save", !.row = session]
  <2>2. k \in CallSet /\ k.op = "interrupt" /\ k.at = "save" /\ k.row = session
    BY <2>1 DEF CallSet
  <2>3. call' = [call EXCEPT ![c] = k]
    BY <1>7 DEF MarkInterrupted
  <2> HIDE DEF k
  <2>4. WellFormed(k)
    BY <2>1, <2>2 DEF WellFormed
  <2>5. rec' \in WorkerStatus
    BY <1>7 DEF MarkInterrupted, WorkerStatus
  <2> QED
    BY <1>7, <2>2, <2>3, <2>4, <2>5, ClientTypes DEF MarkInterrupted, Base, IpcTypeOK, ApprovalTypeOK
<1>8. CASE SaveStatus(c)
  <2>1. call[c].row \in SessionSet /\ call[c].op \in {"interrupt", "pause", "resume"}
    BY <1>0, <1>8 DEF SaveStatus, At, WellFormed
  <2>2. session' \in SessionSet
    BY <1>8, <2>1 DEF SaveStatus, SessionSet, WorkerStatus
  <2>3. call' = [call EXCEPT ![c] = Quiet]
    BY <1>8 DEF SaveStatus, Return
  <2> QED
    BY <1>0, <1>8, <2>2, <2>3, ClientTypes DEF SaveStatus, Base, IpcTypeOK, ApprovalTypeOK
<1>9. CASE CommitSwitch(c)
  <2>1. call[c].row \in SessionSet /\ call[c].task \in Harness
    BY <1>0, <1>9 DEF CommitSwitch, At, WellFormed
  <2>2. session' \in SessionSet
    BY <1>9, <2>1 DEF CommitSwitch, SessionSet
  <2>3. call' = [call EXCEPT ![c] = Quiet]
    BY <1>9 DEF CommitSwitch, Return
  <2> QED
    BY <1>0, <1>9, <2>2, <2>3, ClientTypes DEF CommitSwitch, Base, IpcTypeOK, ApprovalTypeOK
<1>10. CASE AbortSwitch(c)
  <2>1. call[c] # Quiet /\ call[c].at = "stop"
    BY <1>10 DEF AbortSwitch, At
  <2> DEFINE k == [call[c] EXCEPT !.at = "stopping"]
  <2>2. k \in CallSet /\ WellFormed(k)
    BY <1>0, <2>1, Moved DEF WellFormed
  <2> HIDE DEF k
  <2>3. call' = [call EXCEPT ![c] = k]
    BY <1>10, GotoIs DEF AbortSwitch, k
  <2>4. Plain("STOP") \in MessageSet /\ Plain("STOP") \notin TaskSet
    BY MessagesAre DEF TaskSet
  <2> QED
    BY <1>0, <1>10, <2>2, <2>3, <2>4, ClientTypes DEF AbortSwitch, Base, IpcTypeOK, ApprovalTypeOK
<1>11. CASE EndTerminate(c)
  <2>1. call' = [call EXCEPT ![c] = Quiet]
    BY <1>11 DEF EndTerminate, Return
  <2>2. call' \in [Client -> CallSet \cup {Quiet}] /\ CallsOK'
    BY <1>0, <2>1, CallTo
  <2>3. PICK st \in {"ARCHIVED", "FAILED"} : Forget(st)
    BY <1>11 DEF EndTerminate
  <2>4. lines' \in Seq(LineSet)
    BY <2>3, EmptySeq DEF Forget, Base, IpcTypeOK
  <2>5. session' \in SessionSet
    BY <2>3 DEF Forget, Base, IpcTypeOK, SessionSet, WorkerStatus
  <2>6. /\ attached' \in BOOLEAN /\ rec' \in WorkerStatus /\ recTokens' \in Nat
        /\ busy' \in Task \cup {NoTask}
    BY <2>3 DEF Forget, Base, IpcTypeOK, WorkerStatus
  <2>7. /\ proc' \in {"none", "live", "exited", "killed"} /\ lock' \in Client \cup {Nobody}
        /\ ChildGone
    BY <1>11 DEF EndTerminate, Base, IpcTypeOK
  <2> QED
    BY <1>11, <2>2, <2>4, <2>5, <2>6, <2>7, GoneTypes, BaseStep
    DEF EndTerminate, Base, IpcTypeOK, ApprovalTypeOK
<1> QED
  BY <1>1, <1>2, <1>3, <1>4, <1>5, <1>6, <1>7, <1>8, <1>9, <1>10, <1>11 DEF ClientStep

\* The child takes its next message.
LEMMA NextMessage ==
  ASSUME Base, NEW cmds, Takes(cmds)
  PROVE  /\ Head(inbox) \in MessageSet /\ Head(inbox) \in ToSet(inbox)
         /\ Tail(inbox) \in Seq(MessageSet)
         /\ ToSet(Tail(inbox)) \subseteq ToSet(inbox)
         /\ Head(inbox).command \in cmds
BY TailKeeps DEF Takes, Base, IpcTypeOK

\* A step of the child that answers: one more line.
LEMMA EmitTypes ==
  ASSUME Base, NEW l \in LineSet, Emit(l)
  PROVE  attached /\ lines' \in Seq(LineSet) /\ ToSet(lines') = ToSet(lines) \cup {l}
BY AppendAdds DEF Emit, Base, IpcTypeOK

\* The pipes after the child took a message, ended its task or went on with it.
LEMMA PipesTaken ==
  ASSUME Base, UNCHANGED stdin, inbox' \in Seq(MessageSet), ToSet(inbox') \subseteq ToSet(inbox),
         \/ running' = Quiet
         \/ /\ Ticketed(running'.task, running'.action)
            /\ running'.at = "ready" => Kind[running'.task] = "command"
  PROVE  PipesOK'
BY DEF Base, PipesOK

\* What the record of the task in the main loop says.
LEMMA RunFields ==
  ASSUME Base, running # Quiet
  PROVE  /\ running \in RunSet
         /\ running.task \in Task /\ running.action \in Action \cup {NoAction}
         /\ running.n \in Nat
         /\ Ticketed(running.task, running.action)
         /\ running.at = "ready" => running.action \in Action
BY DEF Base, IpcTypeOK, RunSet, PipesOK, Ticketed

LEMMA ChildTypes ==
  ASSUME Base,
         \/ ReadStdin \/ HandleControl \/ DenyTask \/ StartTask \/ StartCommand
         \/ CancelTask \/ FinishTask
  PROVE  Base'
<1> USE DEF ctlVars, boundVars, auxVars, approvalVars
<1>1. CASE ReadStdin
  <2>1. stdin \in Seq(MessageSet) /\ stdin # <<>> /\ inbox \in Seq(MessageSet)
    BY <1>1 DEF ReadStdin, Base, IpcTypeOK
  <2>2. /\ Head(stdin) \in MessageSet /\ Head(stdin) \in ToSet(stdin)
        /\ stdin' \in Seq(MessageSet) /\ ToSet(stdin') \subseteq ToSet(stdin)
    BY <1>1, <2>1, TailKeeps DEF ReadStdin
  <2>3. inbox' \in Seq(MessageSet) /\ ToSet(inbox') = ToSet(inbox) \cup {Head(stdin)}
    BY <1>1, <2>1, <2>2, AppendAdds DEF ReadStdin
  <2>4. \/ running' = running
        \/ running # Quiet /\ running' = [running EXCEPT !.hit = TRUE]
    BY <1>1 DEF ReadStdin
  <2>5. running' \in RunSet \cup {Quiet} /\ PipesOK'
    <3>1. CASE running' = running
      BY <2>2, <2>3, <3>1 DEF Base, IpcTypeOK, PipesOK
    <3>2. CASE running # Quiet /\ running' = [running EXCEPT !.hit = TRUE]
      <4>1. /\ running' \in RunSet /\ running'.task = running.task
            /\ running'.action = running.action /\ running'.at = running.at
        BY <3>2 DEF Base, IpcTypeOK, RunSet
      <4> QED
        BY <2>2, <2>3, <3>2, <4>1 DEF Base, PipesOK
    <3> QED
      BY <2>4, <3>1, <3>2
  <2>6. cancel' \in BOOLEAN
    BY <1>1, Zenon DEF ReadStdin
  <2> QED
    BY <1>1, <2>2, <2>3, <2>5, <2>6, BaseStep DEF ReadStdin, Base, IpcTypeOK, CallsOK, ApprovalTypeOK
<1>2. CASE HandleControl
  <2> DEFINE m == Head(inbox)
  <2>1. /\ m \in MessageSet /\ m.command \in {"PING", "INTERRUPT", "RECONFIGURE"}
        /\ inbox' \in Seq(MessageSet) /\ ToSet(inbox') \subseteq ToSet(inbox)
    BY <1>2, NextMessage DEF HandleControl
  <2>2. PICK ty \in {"PONG", "INTERRUPTED", "RECONFIGURED"} : Emit(Event(ty, m.n))
    BY <1>2, <2>1 DEF HandleControl
  <2>3. lines' \in Seq(LineSet)
    BY <2>1, <2>2, MessageFields, LinesAre, EmitTypes
  <2>4. harness' \in Harness
    BY <1>2, <2>1, MessageFields DEF HandleControl, Base, IpcTypeOK
  <2>5. cancel' \in BOOLEAN
    BY <1>2, Zenon DEF HandleControl
  <2>6. running = Quiet /\ PipesOK'
    BY <1>2, <2>1, PipesTaken DEF HandleControl, Takes
  <2> QED
    BY <1>2, <2>1, <2>3, <2>4, <2>5, <2>6, BaseStep
    DEF HandleControl, Base, IpcTypeOK, CallsOK, ApprovalTypeOK
<1>3. CASE DenyTask
  <2> DEFINE m == Head(inbox)
  <2>1. /\ m \in MessageSet /\ m.command \in {"TASK"}
        /\ inbox' \in Seq(MessageSet) /\ ToSet(inbox') \subseteq ToSet(inbox)
    BY <1>3, NextMessage DEF DenyTask
  <2>2. PICK tk \in Nat \cup {NoTokens} : Answer(m.task, m.n, "DENIED", tk)
    BY <1>3 DEF DenyTask, Base, IpcTypeOK
  <2>3. lines' \in Seq(LineSet)
    BY <2>1, <2>2, MessageFields, LinesAre, EmitTypes DEF Answer
  <2>4. aimed' \subseteq Nat
    BY <2>2 DEF Answer, Base, IpcTypeOK
  <2>5. running = Quiet /\ PipesOK'
    BY <1>3, <2>1, PipesTaken DEF DenyTask, Takes
  <2> QED
    BY <1>3, <2>1, <2>3, <2>4, <2>5, BaseStep
    DEF DenyTask, Base, IpcTypeOK, CallsOK, ApprovalTypeOK
<1>4. CASE StartTask
  <2> DEFINE m == Head(inbox)
  <2>1. /\ m \in MessageSet /\ m.command \in {"TASK"} /\ m \in ToSet(inbox)
        /\ inbox' \in Seq(MessageSet) /\ ToSet(inbox') \subseteq ToSet(inbox)
    BY <1>4, NextMessage DEF StartTask
  <2>2. m.task \in Task /\ m.action \in Action \cup {NoAction} /\ m.n \in Nat /\ Ticketed(m.task, m.action)
    BY <2>1, MessageFields DEF Base, PipesOK, TaskSet
  <2>3. /\ running' = Begin(m) /\ running' \in RunSet
        /\ running'.task = m.task /\ running'.action = m.action
        /\ running'.at = "ready" => Kind[m.task] = "command"
    BY <1>4, <2>2 DEF StartTask, Begin, RunSet
  <2>4. PipesOK'
    BY <1>4, <2>1, <2>2, <2>3, PipesTaken DEF StartTask
  <2>5. seen' \subseteq Action
    BY <1>4, <2>2 DEF StartTask, Ticketed, Base, IpcTypeOK
  <2> QED
    BY <1>4, <2>1, <2>3, <2>4, <2>5, BaseStep
    DEF StartTask, Base, IpcTypeOK, CallsOK, ApprovalTypeOK
<1>5. CASE StartCommand
  <2>1. running # Quiet /\ running' = [running EXCEPT !.at = "run"]
    BY <1>5 DEF StartCommand
  <2>2. /\ running' \in RunSet /\ running'.task = running.task
        /\ running'.action = running.action /\ running'.at = "run"
    BY <2>1 DEF Base, IpcTypeOK, RunSet
  <2>3. PipesOK'
    BY <1>5, <2>1, <2>2, RunFields, PipesTaken DEF StartCommand, Base, IpcTypeOK
  <2>4. executed' \in [Action -> Nat]
    BY <1>5, RunFields DEF StartCommand, Base, IpcTypeOK
  <2> QED
    BY <1>5, <2>2, <2>3, <2>4, BaseStep DEF StartCommand, Base, IpcTypeOK, CallsOK, ApprovalTypeOK
<1>6. CASE CancelTask
  <2>1. lines' \in Seq(LineSet)
    BY <1>6, RunFields, LinesAre, EmitTypes, ZenonT(60) DEF CancelTask, Answer
  <2>2. aimed' \subseteq Nat
    BY <1>6 DEF CancelTask, Answer, Base, IpcTypeOK
  <2>3. PipesOK'
    BY <1>6, PipesTaken DEF CancelTask, Base, IpcTypeOK
  <2> QED
    BY <1>6, <2>1, <2>2, <2>3, BaseStep DEF CancelTask, Base, IpcTypeOK, CallsOK, ApprovalTypeOK
<1>7. CASE FinishTask
  <2>1. used' \in Nat
    BY <1>7 DEF FinishTask, Base, IpcTypeOK
  <2>2. PICK st \in {"COMPLETED", "FAILED"}, tk \in Nat \cup {NoTokens} :
          Answer(running.task, running.n, st, tk)
    BY <1>7, <2>1 DEF FinishTask
  <2>3. lines' \in Seq(LineSet)
    BY <1>7, <2>2, RunFields, LinesAre, EmitTypes DEF FinishTask, Answer
  <2>4. aimed' \subseteq Nat
    BY <2>2 DEF Answer, Base, IpcTypeOK
  <2>5. PipesOK'
    BY <1>7, PipesTaken DEF FinishTask, Base, IpcTypeOK
  <2> QED
    BY <1>7, <2>1, <2>3, <2>4, <2>5, BaseStep DEF FinishTask, Base, IpcTypeOK, CallsOK, ApprovalTypeOK
<1> QED
  BY <1>1, <1>2, <1>3, <1>4, <1>5, <1>6, <1>7

\* The steps of Next, sorted.
LEMMA Steps ==
  ASSUME [Next]_vars
  PROVE  \/ SpawnWorker \/ WorkerDies \/ ControllerRestarts \/ ReapDeadWorkers
         \/ ReconcileRehydratedSessions \/ RegisterPersistedSession \/ HumanActs
         \/ HandleStop \/ OrphanBreaks
         \/ \E c \in Client : NewCall(c) \/ ClientStep(c)
         \/ ReadStdin \/ HandleControl \/ DenyTask \/ StartTask \/ StartCommand
         \/ CancelTask \/ FinishTask
         \/ UNCHANGED vars
BY DEF Next, MainLoop

LEMMA BaseInit == Init => Base
<1> SUFFICES ASSUME Init PROVE Base
  OBVIOUS
<1>1. session \in SessionSet
  BY IpcAssumption DEF Init, SessionSet, WorkerStatus
<1>2. /\ stdin \in Seq(MessageSet) /\ inbox \in Seq(MessageSet) /\ lines \in Seq(LineSet)
      /\ PipesOK
  BY EmptySeq, EmptyHasNone DEF Init, PipesOK
<1>3. call \in [Client -> CallSet \cup {Quiet}] /\ CallsOK
  BY DEF Init, CallsOK
<1>4. ApprovalTypeOK /\ executed \in [Action -> Nat]
  BY DEF Init, ApprovalInit, ApprovalTypeOK, ActionState
<1> QED
  BY <1>1, <1>2, <1>3, <1>4, IpcAssumption DEF Init, Base, IpcTypeOK, WorkerStatus

LEMMA BaseNext == Base /\ [Next]_vars => Base'
<1> SUFFICES ASSUME Base, [Next]_vars PROVE Base'
  OBVIOUS
<1>1. CASE UNCHANGED vars
  BY <1>1 DEF vars, approvalVars, ctlVars, boundVars, childVars, auxVars, Base, IpcTypeOK,
    ApprovalTypeOK, CallsOK, PipesOK
<1> QED
  BY <1>1, Steps, LifeTypes, BeginTypes, ClientStepTypes, ChildTypes

(***************************************************************************)
(* Every variable of the controller, the pipes and the child keeps its     *)
(* type, whatever calls, deaths, restarts and late answers overlap.        *)
(***************************************************************************)
THEOREM IpcTypes == Spec => []IpcTypeOK
<1>1. Base => IpcTypeOK
  BY DEF Base
<1> QED
  BY <1>1, BaseInit, BaseNext, PTL DEF Spec

-----------------------------------------------------------------------------
(* How calls begin and go on, for the invariants that follow the work.     *)

\* A new call, as k: what it is, and what it does not touch.
Starts(c, k) ==
  /\ call[c] = Quiet /\ call' = [call EXCEPT ![c] = k]
  /\ k \in CallSet /\ k # Quiet
  /\ calls' = calls + 1
  /\ UNCHANGED <<attached, recTokens, busy, reading, session, lines, childVars, spawns, executed>>
  /\ \/ \E op \in {"dispatch", "async"}, t \in Task, a \in Action \cup {NoAction} :
          /\ BeginTask(c, op, t, a)
          /\ k.op = op /\ k.at = "admit" /\ k.task = t /\ k.action = a /\ k.n = calls + 1
     \/ \E h \in Harness :
          /\ BeginSwitch(c, h)
          /\ k.op = "switch" /\ k.at = (IF attached THEN "wait" ELSE "commit") /\ k.n = calls + 1
     \/ BeginInterrupt(c) /\ k.op = "interrupt" /\ k.at = "wait" /\ k.n = 0
     \/ /\ k.op # "switch" /\ k.at \in {"wait", "save", "stopping"} /\ k.n = 0
        /\ UNCHANGED <<approvalVars, lock, aimed>>
        /\ rec' \in {rec, "PAUSED", "IDLE"}
        /\ UNCHANGED stdin \/ \E cmd \in {"PING", "STOP"} : stdin' = Append(stdin, Plain(cmd))

LEMMA NewCallStarts ==
  ASSUME Base, NEW c \in Client, NewCall(c)
  PROVE  \E k : Starts(c, k)
<1> USE DEF ctlVars, boundVars, auxVars
<1>0. calls + 1 \in Nat /\ session \in SessionSet
  BY DEF Base, IpcTypeOK
<1>1. ASSUME NEW op \in {"dispatch", "async"}, NEW t \in Task, NEW a \in Action \cup {NoAction},
             BeginTask(c, op, t, a)
      PROVE  \E k : Starts(c, k)
  <2> DEFINE k == Call(op, "admit", t, a, calls + 1)
  <2>1. /\ k \in CallSet /\ k # Quiet /\ k.op = op /\ k.at = "admit" /\ k.task = t
        /\ k.action = a /\ k.n = calls + 1
    BY <1>0, NewCallIs
  <2>2. call' = [call EXCEPT ![c] = k]
    BY <1>1 DEF BeginTask, Start
  <2> HIDE DEF k
  <2>3. Starts(c, k)
    BY <1>1, <2>1, <2>2 DEF BeginTask, Start, Fresh, Starts
  <2> QED
    BY <2>3
<1>2. ASSUME NEW t \in Task, BeginCollect(c, t)
      PROVE  \E k : Starts(c, k)
  <2> DEFINE k == Call("collect", "wait", t, NoAction, 0)
  <2>1. k \in CallSet /\ k # Quiet /\ k.op = "collect" /\ k.at = "wait" /\ k.n = 0
    <3>1. NoAction \in Action \cup {NoAction} /\ t \in Task \cup Harness \cup {NoTask} /\ 0 \in Nat
      OBVIOUS
    <3> QED
      BY <3>1, NewCallIs
  <2>2. call' = [call EXCEPT ![c] = k]
    BY <1>2 DEF BeginCollect, Start
  <2> HIDE DEF k
  <2>3. Starts(c, k)
    BY <1>2, <2>1, <2>2 DEF BeginCollect, Start, Fresh, Starts
  <2> QED
    BY <2>3
<1>3. ASSUME NEW h \in Harness, BeginSwitch(c, h)
      PROVE  \E k : Starts(c, k)
  <2> DEFINE at == IF attached THEN "wait" ELSE "commit"
             k0 == Call("switch", at, h, NoAction, calls + 1)
             k == WithRow(k0)
  <2>1. at \in {"wait", "commit"}
    OBVIOUS
  <2> HIDE DEF at
  <2>2. k0 \in CallSet /\ k0.op = "switch" /\ k0.at = at /\ k0.n = calls + 1
    BY <1>0, <2>1, NewCallIs, SMTT(60)
  <2> HIDE DEF k0
  <2>3. k \in CallSet /\ k # Quiet /\ k.op = "switch" /\ k.at = at /\ k.n = calls + 1
    BY <1>0, <2>2, WithRowIs
  <2> HIDE DEF k
  <2>4. call' = [call EXCEPT ![c] = k]
    BY <1>3 DEF BeginSwitch, Start, k, k0, at
  <2>5. Starts(c, k)
    BY <1>3, <2>3, <2>4 DEF BeginSwitch, Start, Fresh, Starts, at
  <2> QED
    BY <2>5
<1>4. CASE BeginInterrupt(c)
  <2> DEFINE k == Simple("interrupt", "wait")
  <2>1. k \in CallSet /\ k # Quiet /\ k.op = "interrupt" /\ k.at = "wait" /\ k.n = 0
    BY SimpleIs
  <2>2. call' = [call EXCEPT ![c] = k]
    BY <1>4 DEF BeginInterrupt, Start
  <2> HIDE DEF k
  <2>3. Starts(c, k)
    BY <1>4, <2>1, <2>2 DEF BeginInterrupt, Start, Fresh, Starts
  <2> QED
    BY <2>3
<1>5. CASE BeginPing(c)
  <2> DEFINE k == Simple("ping", "wait")
  <2>1. k \in CallSet /\ k # Quiet /\ k.op = "ping" /\ k.at = "wait" /\ k.n = 0
    BY SimpleIs
  <2>2. call' = [call EXCEPT ![c] = k]
    BY <1>5 DEF BeginPing, Start
  <2> HIDE DEF k
  <2>3. Starts(c, k)
    BY <1>5, <2>1, <2>2 DEF BeginPing, Start, Send, Fresh, Starts
  <2> QED
    BY <2>3
<1>6. CASE BeginPause(c) \/ BeginResume(c)
  <2>1. PICK op \in {"pause", "resume"} : call' = [call EXCEPT ![c] = WithRow(Simple(op, "save"))]
    BY <1>6 DEF BeginPause, BeginResume, Start
  <2> DEFINE k0 == Simple(op, "save")
             k == WithRow(k0)
  <2>2. k0 \in CallSet /\ k0.op = op /\ k0.at = "save" /\ k0.n = 0
    BY SimpleIs
  <2> HIDE DEF k0
  <2>3. k \in CallSet /\ k # Quiet /\ k.op = op /\ k.at = "save" /\ k.n = 0
    BY <1>0, <2>2, WithRowIs
  <2> HIDE DEF k
  <2>4. call' = [call EXCEPT ![c] = k]
    BY <2>1 DEF k, k0
  <2>5. Starts(c, k)
    BY <1>6, <2>3, <2>4 DEF BeginPause, BeginResume, Start, Fresh, Starts
  <2> QED
    BY <2>5
<1>7. CASE BeginTerminate(c)
  <2>1. PICK op \in {"terminate", "kill"} : call' = [call EXCEPT ![c] = Simple(op, "stopping")]
    BY <1>7 DEF BeginTerminate, Start
  <2> DEFINE k == Simple(op, "stopping")
  <2>2. k \in CallSet /\ k # Quiet /\ k.op = op /\ k.at = "stopping" /\ k.n = 0
    BY SimpleIs
  <2> HIDE DEF k
  <2>3. call' = [call EXCEPT ![c] = k]
    BY <2>1 DEF k
  <2>4. Starts(c, k)
    BY <1>7, <2>2, <2>3 DEF BeginTerminate, Start, Fresh, Starts
  <2> QED
    BY <2>4
<1> QED
  BY <1>1, <1>2, <1>3, <1>4, <1>5, <1>6, <1>7 DEF NewCall

\* A call that goes on, as k: the step of it, and where it is then.
GoesOn(c, k) ==
  /\ call' = [call EXCEPT ![c] = k]
  /\ call[c] # Quiet /\ call[c] \in CallSet /\ WellFormed(call[c])
  /\ k # Quiet =>
       /\ k \in CallSet
       /\ k.op = call[c].op /\ k.task = call[c].task
       /\ k.action = call[c].action /\ k.n = call[c].n
  /\ \/ AdmitTask(c) /\ call[c].at = "admit" /\ (k # Quiet => k.at = "write")
     \/ WriteTask(c) /\ call[c].at = "write" /\ (k # Quiet => k.at = "wait")
     \/ EnterRead(c) /\ call[c].at = "wait" /\ k # Quiet /\ k.at = "read"
     \/ /\ TakeLine(c) /\ call[c].at = "read"
        /\ call[c].op \in {"interrupt", "switch"} => k # Quiet
        /\ k # Quiet => \/ k.at = "account" /\ k.op \in {"dispatch", "collect"}
                        \/ k.at = "mark" /\ k.op = "interrupt"
                        \/ k.at = "commit" /\ k.op = "switch"
     \/ /\ TimeOut(c) /\ call[c].at = "read"
        /\ call[c].op \in {"interrupt", "switch"} => k # Quiet
        /\ k # Quiet => k.at = (IF k.op = "switch" THEN "stop" ELSE "mark")
     \/ Account(c) /\ call[c].at = "account" /\ k = Quiet
     \/ MarkInterrupted(c) /\ call[c].at = "mark" /\ k # Quiet /\ k.at = "save"
     \/ SaveStatus(c) /\ call[c].at = "save" /\ k = Quiet
     \/ CommitSwitch(c) /\ call[c].at = "commit" /\ k = Quiet
     \/ AbortSwitch(c) /\ call[c].at = "stop" /\ k # Quiet /\ k.at = "stopping"
     \/ EndTerminate(c) /\ call[c].at = "stopping" /\ k = Quiet

LEMMA ClientGoesOn ==
  ASSUME Base, NEW c \in Client, ClientStep(c)
  PROVE  \E k : GoesOn(c, k)
<1>0. call[c] # Quiet
  BY DEF ClientStep, AdmitTask, WriteTask, EnterRead, TakeLine, TimeOut, Account, MarkInterrupted,
    SaveStatus, CommitSwitch, AbortSwitch, EndTerminate, At
<1> DEFINE o == call[c]
<1>1. call[c] \in CallSet /\ WellFormed(call[c]) /\ session \in SessionSet
  BY <1>0, CallFields DEF Base, IpcTypeOK
<1>2. CASE AdmitTask(c) \/ WriteTask(c) \/ EnterRead(c) \/ AbortSwitch(c)
  <2>1. ASSUME call' = [call EXCEPT ![c] = Quiet], AdmitTask(c) \/ WriteTask(c)
        PROVE  \E k : GoesOn(c, k)
    <3>1. GoesOn(c, Quiet)
      BY <1>0, <1>1, <2>1 DEF AdmitTask, WriteTask, At, GoesOn
    <3> QED
      BY <3>1
  <2>2. ASSUME NEW at \in {"write", "wait", "read", "stopping"}, Goto(c, at),
               \/ AdmitTask(c) /\ at = "write"
               \/ WriteTask(c) /\ at = "wait"
               \/ EnterRead(c) /\ at = "read"
               \/ AbortSwitch(c) /\ at = "stopping"
        PROVE  \E k : GoesOn(c, k)
    <3> DEFINE k == [call[c] EXCEPT !.at = at]
    <3>1. /\ k \in CallSet /\ k # Quiet /\ k.at = at
          /\ k.op = call[c].op /\ k.task = call[c].task
          /\ k.action = call[c].action /\ k.n = call[c].n
      BY <1>1, Moved
    <3>2. call' = [call EXCEPT ![c] = k]
      BY <2>2, GotoIs
    <3> HIDE DEF k
    <3>3. GoesOn(c, k)
      BY <1>0, <1>1, <2>2, <3>1, <3>2 DEF AdmitTask, WriteTask, EnterRead, AbortSwitch, At, GoesOn
    <3> QED
      BY <3>3
  <2>3. \/ call' = [call EXCEPT ![c] = Quiet] /\ (AdmitTask(c) \/ WriteTask(c))
        \/ AdmitTask(c) /\ Goto(c, "write")
        \/ WriteTask(c) /\ Goto(c, "wait")
        \/ EnterRead(c) /\ Goto(c, "read")
        \/ AbortSwitch(c) /\ Goto(c, "stopping")
    BY <1>2 DEF AdmitTask, WriteTask, EnterRead, AbortSwitch, Return
  <2> QED
    BY <2>1, <2>2, <2>3
<1>3. CASE TakeLine(c)
  <2>1. PICK i \in 1 .. Len(lines) : call' = [call EXCEPT ![c] = AfterAnswer(call[c], lines[i])]
    BY <1>3 DEF TakeLine
  <2>2. call[c].at = "read" /\ lines[i] \in LineSet
    BY <1>3, ElementOfSeq DEF TakeLine, At, Base, IpcTypeOK
  <2> DEFINE k == AfterAnswer(call[c], lines[i])
  <2>3. /\ k = Quiet => call[c].op = "ping"
        /\ k # Quiet =>
             /\ k \in CallSet
             /\ k.op = call[c].op /\ k.task = call[c].task
             /\ k.action = call[c].action /\ k.n = call[c].n
             /\ \/ k.at = "account" /\ k.op \in {"dispatch", "collect"}
                \/ k.at = "mark" /\ k.op = "interrupt"
                \/ k.at = "commit" /\ k.op = "switch"
    <3>1. CASE call[c].op \in {"dispatch", "collect"}
      <4>1. k = [call[c] EXCEPT !.at = "account", !.line = lines[i]]
        BY <3>1 DEF AfterAnswer
      <4>2. k \in CallSet
        BY <1>1, <2>2, <4>1 DEF CallSet
      <4> QED
        BY <1>1, <3>1, <4>1, <4>2, QuietAssumption DEF CallSet
    <3>2. CASE call[c].op = "ping"
      BY <3>2 DEF AfterAnswer
    <3>3. CASE call[c].op = "interrupt"
      BY <1>1, <3>3, Moved DEF AfterAnswer
    <3>4. CASE call[c].op = "switch"
      BY <1>1, <3>4, Moved DEF AfterAnswer
    <3> QED
      BY <1>1, <2>2, <3>1, <3>2, <3>3, <3>4 DEF WellFormed
  <2> HIDE DEF k
  <2>4. call' = [call EXCEPT ![c] = k]
    BY <2>1 DEF k
  <2>5. GoesOn(c, k)
    BY <1>0, <1>1, <1>3, <2>2, <2>3, <2>4 DEF GoesOn
  <2> QED
    BY <2>5
<1>4. CASE TimeOut(c)
  <2>1. call[c].at = "read" /\ call' = [call EXCEPT ![c] = AfterTimeout(call[c])]
    BY <1>4 DEF TimeOut, At
  <2> DEFINE k == AfterTimeout(call[c])
  <2>2. /\ k = Quiet => call[c].op \in {"dispatch", "collect", "ping"}
        /\ k # Quiet =>
             /\ k \in CallSet
             /\ k.op = call[c].op /\ k.task = call[c].task
             /\ k.action = call[c].action /\ k.n = call[c].n
             /\ k.at = (IF k.op = "switch" THEN "stop" ELSE "mark")
    <3>1. CASE call[c].op \in {"dispatch", "collect", "ping"}
      BY <3>1 DEF AfterTimeout
    <3>3. CASE call[c].op = "interrupt"
      BY <1>1, <3>3, Moved DEF AfterTimeout
    <3>4. CASE call[c].op = "switch"
      BY <1>1, <3>4, Moved DEF AfterTimeout
    <3> QED
      BY <1>1, <2>1, <3>1, <3>3, <3>4 DEF WellFormed
  <2> HIDE DEF k
  <2>3. call' = [call EXCEPT ![c] = k]
    BY <2>1 DEF k
  <2>4. GoesOn(c, k)
    BY <1>0, <1>1, <1>4, <2>1, <2>2, <2>3 DEF GoesOn
  <2> QED
    BY <2>4
<1>5. CASE MarkInterrupted(c)
  <2> DEFINE k == [call[c] EXCEPT !.at = "save", !.row = session]
  <2>1. k \in CallSet
    BY <1>1 DEF CallSet
  <2>2. /\ k # Quiet /\ k.at = "save" /\ k.op = call[c].op /\ k.task = call[c].task
        /\ k.action = call[c].action /\ k.n = call[c].n
    BY <1>1, <2>1, QuietAssumption DEF CallSet
  <2>3. call' = [call EXCEPT ![c] = k] /\ call[c].at = "mark"
    BY <1>5 DEF MarkInterrupted, At
  <2> HIDE DEF k
  <2>4. GoesOn(c, k)
    BY <1>0, <1>1, <1>5, <2>1, <2>2, <2>3 DEF GoesOn
  <2> QED
    BY <2>4
<1>6. CASE Account(c) \/ SaveStatus(c) \/ CommitSwitch(c) \/ EndTerminate(c)
  <2>1. GoesOn(c, Quiet)
    BY <1>0, <1>1, <1>6 DEF Account, SaveStatus, CommitSwitch, EndTerminate, At, Return, GoesOn
  <2> QED
    BY <2>1
<1> QED
  BY <1>2, <1>3, <1>4, <1>5, <1>6 DEF ClientStep

-----------------------------------------------------------------------------
(* Locks.                                                                  *)

\* A thread goes on with a call that is no switch, or is one still, and holds
\* the locks it is supposed to hold.
LEMMA LocksStep ==
  ASSUME Base, LocksAreReleased, NEW c \in Client, NEW k,
         call' = [call EXCEPT ![c] = k],
         lock' \in {lock, c, Nobody}, reading' \in {reading, c, Nobody},
         lock' = c =>
           /\ k # Quiet /\ k.op = "switch"
           /\ k.at \in {"wait", "read", "commit", "stop", "stopping"},
         k # Quiet /\ k.op = "switch" => lock' = c,
         lock' # lock => lock \in {c, Nobody},
         reading' = c => k # Quiet /\ k.at = "read"
  PROVE  LocksAreReleased'
<1>1. call \in [Client -> CallSet \cup {Quiet}] /\ lock \in Client \cup {Nobody}
      /\ reading \in Client \cup {Nobody}
  BY DEF Base, IpcTypeOK
<1>2. call'[c] = k /\ \A d \in Client : d # c => call'[d] = call[d]
  BY <1>1
<1>3. lock' # Nobody =>
        /\ call'[lock'] # Quiet /\ call'[lock'].op = "switch"
        /\ call'[lock'].at \in {"wait", "read", "commit", "stop", "stopping"}
  BY <1>1, <1>2 DEF LocksAreReleased
<1>4. reading' # Nobody => call'[reading'] # Quiet /\ call'[reading'].at = "read"
  BY <1>1, <1>2 DEF LocksAreReleased, At
<1>5. \A d \in Client : call'[d] # Quiet /\ call'[d].op = "switch" => lock' = d
  BY <1>1, <1>2, IpcAssumption DEF LocksAreReleased
<1> QED
  BY <1>3, <1>4, <1>5 DEF LocksAreReleased, At

\* A new call takes no lock, unless it is a switch.
LEMMA LocksBegin ==
  ASSUME Base, LocksAreReleased, NEW c \in Client, NEW k, Starts(c, k)
  PROVE  LocksAreReleased'
<1>1. /\ call[c] = Quiet /\ call' = [call EXCEPT ![c] = k] /\ k # Quiet /\ reading' = reading
      /\ lock # c /\ reading # c
  BY IpcAssumption DEF Starts, LocksAreReleased, At
<1>2. CASE \E h \in Harness : BeginSwitch(c, h)
  <2>1. lock' = c /\ lock = Nobody /\ k.op = "switch" /\ k.at \in {"wait", "commit"}
    BY <1>2, IpcAssumption DEF BeginSwitch, Starts, BeginTask, BeginInterrupt, ctlVars
  <2> QED
    BY <1>1, <2>1, LocksStep
<1>3. CASE ~\E h \in Harness : BeginSwitch(c, h)
  <2>1. lock' = lock /\ k.op # "switch"
    BY <1>3 DEF Starts, BeginTask, BeginInterrupt, ctlVars
  <2> QED
    BY <1>1, <2>1, LocksStep
<1> QED
  BY <1>2, <1>3

\* A call that goes on keeps the locks it is supposed to keep.
LEMMA LocksGoOn ==
  ASSUME Base, LocksAreReleased, NEW c \in Client, NEW k, GoesOn(c, k)
  PROVE  LocksAreReleased'
<1> USE DEF ctlVars
<1>1. /\ call[c] # Quiet /\ WellFormed(call[c]) /\ call' = [call EXCEPT ![c] = k]
      /\ k # Quiet => k.op = call[c].op
  BY DEF GoesOn
<1>2. /\ lock = c <=> call[c].op = "switch"
      /\ reading = c => call[c].at = "read"
  BY <1>1, IpcAssumption DEF LocksAreReleased, At
<1>3. CASE AdmitTask(c) \/ WriteTask(c) \/ Account(c) \/ MarkInterrupted(c) \/ SaveStatus(c)
  <2>1. lock # c /\ reading # c /\ UNCHANGED <<lock, reading>>
    BY <1>1, <1>2, <1>3 DEF AdmitTask, WriteTask, Account, MarkInterrupted, SaveStatus, At, WellFormed
  <2> QED
    BY <1>1, <1>2, <2>1, LocksStep
<1>4. CASE EnterRead(c)
  <2>1. lock' = lock /\ reading' = c /\ k # Quiet /\ k.at = "read"
    BY <1>4 DEF EnterRead, At, GoesOn, AdmitTask, WriteTask, TakeLine, TimeOut, Account,
      MarkInterrupted, SaveStatus, CommitSwitch, AbortSwitch, EndTerminate
  <2> QED
    BY <1>1, <1>2, <2>1, LocksStep
<1>5. CASE TakeLine(c) \/ TimeOut(c)
  <2>1. lock' = lock /\ reading' = Nobody /\ call[c].at = "read"
    BY <1>5 DEF TakeLine, TimeOut, At
  <2>2. call[c].op = "switch" => k # Quiet /\ k.at \in {"commit", "stop"}
    BY <2>1 DEF GoesOn
  <2> QED
    BY <1>1, <1>2, <2>1, <2>2, IpcAssumption, LocksStep
<1>6. CASE CommitSwitch(c) \/ EndTerminate(c)
  <2>1. /\ lock' = IF lock = c THEN Nobody ELSE lock
        /\ reading' = reading /\ k = Quiet /\ reading # c
    BY <1>1, <1>2, <1>6 DEF CommitSwitch, EndTerminate, At, GoesOn, WellFormed, AdmitTask, WriteTask,
      EnterRead, TakeLine, TimeOut, Account, MarkInterrupted, SaveStatus, AbortSwitch
  <2> QED
    BY <1>1, <1>2, <2>1, IpcAssumption, LocksStep
<1>7. CASE AbortSwitch(c)
  <2>1. lock' = lock /\ reading' = reading /\ call[c].at = "stop" /\ reading # c
    BY <1>2, <1>7 DEF AbortSwitch, At
  <2>2. k # Quiet /\ k.at = "stopping"
    BY <2>1 DEF GoesOn
  <2> QED
    BY <1>1, <1>2, <2>1, <2>2, LocksStep
<1> QED
  BY <1>3, <1>4, <1>5, <1>6, <1>7 DEF GoesOn

\* No other step takes a lock or moves a call; a restart clears all.
LEMMA LocksOther ==
  ASSUME Base, LocksAreReleased, [Next]_vars, ~\E c \in Client : NewCall(c) \/ ClientStep(c)
  PROVE  LocksAreReleased'
<1>1. \/ UNCHANGED <<lock, reading, call>>
      \/ lock' = Nobody /\ reading' = Nobody /\ call' = [c \in Client |-> Quiet]
  BY Steps, Zenon DEF SpawnWorker, WorkerDies, ControllerRestarts, ReapDeadWorkers, ReconcileRehydratedSessions,
    RegisterPersistedSession, HumanActs, HandleStop, OrphanBreaks, ReadStdin, HandleControl,
    DenyTask, StartTask, StartCommand, CancelTask, FinishTask, vars, ctlVars
<1> QED
  BY <1>1 DEF LocksAreReleased, At

LEMMA LocksInit == Init => LocksAreReleased
BY DEF Init, LocksAreReleased, At

LEMMA LocksNext == Base /\ LocksAreReleased /\ [Next]_vars => LocksAreReleased'
BY LocksBegin, LocksOther, LocksGoOn, NewCallStarts, ClientGoesOn

(***************************************************************************)
(* No call waits for a lock whose holder cannot go on: for any number of   *)
(* threads, a lock is held only by a call that is inside its critical      *)
(* section, and no exit of a call leaves one behind.                       *)
(***************************************************************************)
THEOREM LocksReleased == Spec => []LocksAreReleased
BY BaseInit, BaseNext, LocksInit, LocksNext, PTL DEF Spec

-----------------------------------------------------------------------------
(* The work of an attached worker is in one place at a time, and the claim *)
(* names its task.  This is what makes ClaimCoversWork inductive: a result *)
(* that nobody has taken remembers that its tokens are still to be         *)
(* accounted for, and a call that holds it, that no other work is around.  *)

Place == {"none", "write", "stdin", "inbox", "running", "lines", "account"}

\* A result brings the child's total, or the record has it already.
Reported(l) == l.tokens = used \/ (l.tokens = NoTokens /\ recTokens = used)

\* The work is at p; w is the thread that has it when p is "write" or "account".
Work(p, w) ==
  /\ rec # "UNKNOWN"
  /\ busy = NoTask => p = "none"
  /\ p \notin {"lines", "account"} => recTokens = used
  /\ \A c \in Client : At(c, "write") => p = "write" /\ w = c /\ busy = call[c].task
  /\ \A c \in Client : At(c, "account") =>
       p = "account" /\ w = c /\ busy = call[c].line.task /\ Reported(call[c].line)
  /\ OneIn(stdin, TaskSet)
  /\ \A m \in ToSet(stdin) : m \in TaskSet => p = "stdin" /\ busy = m.task
  /\ OneIn(inbox, TaskSet)
  /\ \A m \in ToSet(inbox) : m \in TaskSet => p = "inbox" /\ busy = m.task
  /\ running # Quiet => p = "running" /\ busy = running.task
  /\ OneIn(lines, ResultSet)
  /\ \A l \in ToSet(lines) : l \in ResultSet => p = "lines" /\ busy = l.task /\ Reported(l)

WorkInOnePlace == AttachedIpc => \E p \in Place, w \in Client \cup {Nobody} : Work(p, w)

\* s2 has no elements of M that s did not have.
NoNew(s, s2, M) ==
  /\ \A x \in ToSet(s2) : x \in M => x \in ToSet(s)
  /\ OneIn(s, M) => OneIn(s2, M)

LEMMA NoNewIn ==
  ASSUME NEW S, NEW s \in Seq(S), NEW M
  PROVE  /\ NoNew(s, s, M) /\ NoNew(s, <<>>, M)
         /\ \A x \in S : x \notin M => NoNew(s, Append(s, x), M)
         /\ s # <<>> => NoNew(s, Tail(s), M)
         /\ \A i \in 1 .. Len(s) : NoNew(s, RemoveAt(s, i), M)
<1>1. NoNew(s, s, M) /\ NoNew(s, <<>>, M)
  BY EmptyHasNone DEF NoNew
<1>2. ASSUME NEW x \in S, x \notin M
      PROVE  NoNew(s, Append(s, x), M)
  BY <1>2, AppendAdds, OneInAppend DEF NoNew
<1>3. ASSUME s # <<>>
      PROVE  NoNew(s, Tail(s), M)
  BY <1>3, TailKeeps, OneInTail DEF NoNew
<1>4. ASSUME NEW i \in 1 .. Len(s)
      PROVE  NoNew(s, RemoveAt(s, i), M)
  BY <1>4, RemoveAtKeeps, OneInRemoveAt DEF NoNew
<1> QED
  BY <1>1, <1>2, <1>3, <1>4

\* The work stays where it is.
LEMMA WorkStays ==
  ASSUME Base, NEW p, NEW w, Work(p, w),
         rec' # "UNKNOWN", UNCHANGED <<busy, recTokens, used>>,
         \A c \in Client : At(c, "write")' => At(c, "write") /\ call'[c].task = call[c].task,
         \A c \in Client : At(c, "account")' => At(c, "account") /\ call'[c].line = call[c].line,
         NoNew(stdin, stdin', TaskSet), NoNew(inbox, inbox', TaskSet),
         running' # Quiet => running # Quiet /\ running'.task = running.task,
         NoNew(lines, lines', ResultSet)
  PROVE  Work(p, w)'
<1>1. \A l : Reported(l)' <=> Reported(l)
  BY DEF Reported
<1>2. /\ OneIn(stdin', TaskSet)
      /\ \A m \in ToSet(stdin') : m \in TaskSet => p = "stdin" /\ busy' = m.task
  BY DEF Work, NoNew
<1>3. /\ OneIn(inbox', TaskSet)
      /\ \A m \in ToSet(inbox') : m \in TaskSet => p = "inbox" /\ busy' = m.task
  BY DEF Work, NoNew
<1>4. /\ OneIn(lines', ResultSet)
      /\ \A l \in ToSet(lines') : l \in ResultSet => p = "lines" /\ busy' = l.task /\ Reported(l)'
  BY <1>1 DEF Work, NoNew
<1>5. \A c \in Client : At(c, "write")' => p = "write" /\ w = c /\ busy' = call'[c].task
  BY DEF Work
<1>6. \A c \in Client : At(c, "account")' =>
        p = "account" /\ w = c /\ busy' = call'[c].line.task /\ Reported(call[c].line)'
  BY <1>1 DEF Work
<1> QED
  BY <1>2, <1>3, <1>4, <1>5, <1>6 DEF Work

\* A call goes on elsewhere than at the work.
LEMMA ElsewhereIs ==
  ASSUME Base, NEW c \in Client, NEW k, call' = [call EXCEPT ![c] = k],
         k # Quiet => k.at \notin {"write", "account"}
  PROVE  /\ \A d \in Client : At(d, "write")' => At(d, "write") /\ call'[d].task = call[d].task
         /\ \A d \in Client : At(d, "account")' => At(d, "account") /\ call'[d].line = call[d].line
BY DEF Base, IpcTypeOK, At

\* A new call does no work yet.
LEMMA WorkBegin ==
  ASSUME Base, WorkInOnePlace, NEW c \in Client, NEW k, Starts(c, k)
  PROVE  WorkInOnePlace'
<1> SUFFICES ASSUME AttachedIpc' PROVE \E p \in Place, w \in Client \cup {Nobody} : Work(p, w)'
  BY DEF WorkInOnePlace
<1>1. AttachedIpc /\ UNCHANGED <<busy, recTokens, used, inbox, running, lines>>
  BY DEF Starts, AttachedIpc, Alive, childVars
<1>2. PICK p \in Place, w \in Client \cup {Nobody} : Work(p, w)
  BY <1>1 DEF WorkInOnePlace
<1>3. /\ \A d \in Client : At(d, "write")' => At(d, "write") /\ call'[d].task = call[d].task
      /\ \A d \in Client : At(d, "account")' => At(d, "account") /\ call'[d].line = call[d].line
  <2>1. k.at \notin {"write", "account"} /\ call' = [call EXCEPT ![c] = k]
    BY DEF Starts
  <2> QED
    BY <2>1, ElsewhereIs
<1>4. UNCHANGED stdin \/ \E m \in MessageSet : m \notin TaskSet /\ stdin' = Append(stdin, m)
  BY MessagesAre DEF Starts, BeginTask, BeginSwitch, BeginInterrupt, Send, TaskSet, Base, IpcTypeOK
<1>5. NoNew(stdin, stdin', TaskSet)
  <2>1. stdin \in Seq(MessageSet)
    BY DEF Base, IpcTypeOK
  <2> QED
    BY <1>4, <2>1, NoNewIn
<1>6. NoNew(inbox, inbox', TaskSet) /\ NoNew(lines, lines', ResultSet)
  BY <1>1, NoNewIn DEF Base, IpcTypeOK
<1>7. rec' # "UNKNOWN"
  BY <1>2 DEF Work, Starts, BeginTask, BeginSwitch, BeginInterrupt, ctlVars
<1>8. Work(p, w)'
  BY <1>1, <1>2, <1>3, <1>5, <1>6, <1>7, WorkStays
<1> QED
  BY <1>8

\* A call that goes on takes the work with it, or leaves it where it is.
LEMMA WorkGoesOn ==
  ASSUME Base, WorkInOnePlace, NEW c \in Client, NEW k, GoesOn(c, k)
  PROVE  WorkInOnePlace'
<1> SUFFICES ASSUME AttachedIpc' PROVE \E p \in Place, w \in Client \cup {Nobody} : Work(p, w)'
  BY DEF WorkInOnePlace
<1> USE DEF ctlVars, childVars
<1>1. /\ call[c] # Quiet /\ call[c] \in CallSet /\ WellFormed(call[c])
      /\ call' = [call EXCEPT ![c] = k]
      /\ call'[c] = k /\ \A d \in Client : d # c => call'[d] = call[d]
      /\ k # Quiet => k \in CallSet /\ k.task = call[c].task
  BY DEF GoesOn, Base, IpcTypeOK
<1>2. ~EndTerminate(c)
  BY DEF EndTerminate, Forget, AttachedIpc
<1>3. AttachedIpc /\ UNCHANGED <<used, inbox, running>>
  BY <1>2 DEF GoesOn, AttachedIpc, Alive, AdmitTask, WriteTask, EnterRead, TakeLine, TimeOut, Account,
    MarkInterrupted, SaveStatus, CommitSwitch, AbortSwitch
<1>4. PICK p \in Place, w \in Client \cup {Nobody} : Work(p, w)
  BY <1>3 DEF WorkInOnePlace
<1>5. rec' # "UNKNOWN"
  BY <1>2, <1>4 DEF Work, GoesOn, AdmitTask, WriteTask, EnterRead, TakeLine, TimeOut, Account,
    MarkInterrupted, SaveStatus, CommitSwitch, AbortSwitch
<1>6. stdin \in Seq(MessageSet) /\ inbox \in Seq(MessageSet) /\ lines \in Seq(LineSet)
  BY DEF Base, IpcTypeOK
<1>7. NoNew(inbox, inbox', TaskSet)
  BY <1>3, <1>6, NoNewIn
<1>8. ASSUME k # Quiet => k.at \notin {"write", "account"}, UNCHANGED <<busy, recTokens>>,
             NoNew(stdin, stdin', TaskSet), NoNew(lines, lines', ResultSet)
      PROVE  Work(p, w)'
  <2>1. /\ \A d \in Client : At(d, "write")' => At(d, "write") /\ call'[d].task = call[d].task
        /\ \A d \in Client : At(d, "account")' => At(d, "account") /\ call'[d].line = call[d].line
    BY <1>1, <1>8, ElsewhereIs
  <2> QED
    BY <1>3, <1>4, <1>5, <1>7, <1>8, <2>1, WorkStays
<1>9. CASE AdmitTask(c) /\ k = Quiet
  <2>1. busy' = busy \/ busy' = call[c].task
    BY <1>9 DEF AdmitTask
  <2>2. busy' = busy
    BY <1>1, <1>9, QuietAssumption, Moved, GotoIs DEF AdmitTask, Goto
  <2>3. UNCHANGED <<recTokens, stdin, lines>>
    BY <1>9 DEF AdmitTask
  <2> QED
    BY <1>4, <1>6, <1>8, <1>9, <2>2, <2>3, NoNewIn
<1>10. CASE AdmitTask(c) /\ k # Quiet
  <2>1. /\ busy = NoTask /\ busy' = call[c].task /\ UNCHANGED <<recTokens, stdin, lines>>
        /\ call[c].at = "admit"
    BY <1>1, <1>10 DEF AdmitTask, Admissible, Return, At, Base, IpcTypeOK
  <2>2. k.at = "write" /\ call[c].task \in Task
    BY <1>1, <1>10, <2>1 DEF GoesOn, WellFormed
  <2>3. p = "none"
    BY <1>4, <2>1 DEF Work
  <2>4. Work("write", c)'
    <3>1. \A d \in Client : At(d, "write")' => d = c /\ busy' = call'[d].task
      BY <1>1, <1>4, <1>10, <2>1, <2>3 DEF Work, At
    <3>2. \A d \in Client : ~At(d, "account")'
      BY <1>1, <1>4, <2>2, <2>3 DEF Work, At
    <3>3. busy' # NoTask
      BY <2>1, <2>2, IpcAssumption
    <3>4. /\ \A m \in ToSet(stdin') \cup ToSet(inbox') : m \notin TaskSet
          /\ \A l \in ToSet(lines') : l \notin ResultSet
          /\ OneIn(stdin', TaskSet) /\ OneIn(inbox', TaskSet) /\ OneIn(lines', ResultSet)
          /\ running' = Quiet /\ recTokens' = used'
      BY <1>3, <1>4, <2>1, <2>3 DEF Work
    <3> QED
      BY <1>5, <3>1, <3>2, <3>3, <3>4 DEF Work
  <2> QED
    BY <2>4 DEF Place
<1>11. CASE WriteTask(c)
  <2> DEFINE m == TaskMsg(call[c].task, call[c].action, call[c].n)
  <2>1. /\ stdin' = Append(stdin, m) /\ UNCHANGED <<busy, recTokens, lines>>
        /\ call[c].at = "write" /\ (k # Quiet => k.at = "wait")
    BY <1>1, <1>3, <1>11 DEF WriteTask, At, GoesOn, AdmitTask, EnterRead, TakeLine, TimeOut, Account,
      MarkInterrupted, SaveStatus, CommitSwitch, AbortSwitch, EndTerminate
  <2>2. m \in MessageSet /\ m \in TaskSet /\ m.task = call[c].task
    <3>1. call[c].task \in Task /\ call[c].action \in Action \cup {NoAction} /\ call[c].n \in Nat
      BY <1>1, <2>1 DEF WellFormed, CallSet
    <3>2. m \in MessageSet /\ m.command = "TASK" /\ m.task = call[c].task
      BY <3>1 DEF TaskMsg, MessageSet
    <3> QED
      BY <3>2 DEF TaskSet
  <2> HIDE DEF m
  <2>3. p = "write" /\ w = c /\ busy = call[c].task
    BY <1>1, <1>4, <2>1 DEF Work, At
  <2>4. ToSet(stdin) \cap TaskSet = {} /\ OneIn(stdin, TaskSet)
    BY <1>4, <2>3 DEF Work
  <2>5. OneIn(stdin', TaskSet) /\ ToSet(stdin') = ToSet(stdin) \cup {m}
    BY <1>6, <2>1, <2>2, <2>4, AppendAdds, OneInAppend
  <2>6. Work("stdin", w)'
    <3>1. \A d \in Client : ~At(d, "write")' /\ ~At(d, "account")'
      BY <1>1, <1>4, <2>1, <2>3 DEF Work, At
    <3>2. \A x \in ToSet(stdin') : x \in TaskSet => busy' = x.task
      BY <2>1, <2>2, <2>3, <2>4, <2>5
    <3>3. /\ \A x \in ToSet(inbox') : x \notin TaskSet
          /\ \A l \in ToSet(lines') : l \notin ResultSet
          /\ OneIn(inbox', TaskSet) /\ OneIn(lines', ResultSet)
          /\ running' = Quiet /\ recTokens' = used' /\ busy' # NoTask
      BY <1>3, <1>4, <2>1, <2>3 DEF Work
    <3> QED
      BY <1>5, <2>5, <3>1, <3>2, <3>3 DEF Work
  <2> QED
    BY <2>6 DEF Place
<1>12. CASE TakeLine(c)
  <2>1. PICK i \in 1 .. Len(lines) :
          /\ Answers(call[c], lines[i]) /\ lines' = RemoveAt(lines, i)
          /\ call' = [call EXCEPT ![c] = AfterAnswer(call[c], lines[i])]
    BY <1>12 DEF TakeLine
  <2>2. UNCHANGED <<busy, recTokens, stdin>> /\ call[c].at = "read"
    BY <1>12 DEF TakeLine, At
  <2>3. lines[i] \in LineSet /\ lines[i] \in ToSet(lines)
    BY <1>6, ElementOfSeq, LenProperties DEF ToSet
  <2>4. CASE call[c].op \notin {"dispatch", "collect"}
    <3>1. k # Quiet => k.at \notin {"write", "account"}
      BY <2>2, <2>4 DEF GoesOn
    <3> QED
      BY <1>4, <1>6, <1>8, <2>1, <2>2, <3>1, NoNewIn
  <2>5. CASE call[c].op \in {"dispatch", "collect"}
    <3>1. lines[i] \in ResultSet
      BY <2>1, <2>3, <2>5, LineFields DEF Answers
    <3>2. k.at = "account" /\ k.line = lines[i] /\ k # Quiet
      <4>1. k = [call[c] EXCEPT !.at = "account", !.line = lines[i]]
        BY <1>1, <2>1, <2>5 DEF AfterAnswer, Base, IpcTypeOK
      <4>2. k \in CallSet
        BY <1>1, <2>3, <4>1 DEF CallSet
      <4> QED
        BY <1>1, <4>1, <4>2, QuietAssumption, ZenonT(60) DEF CallSet
    <3>3. p = "lines" /\ busy = lines[i].task /\ Reported(lines[i])
      BY <1>4, <2>3, <3>1 DEF Work
    <3>4. ToSet(lines') \cap ResultSet = {} /\ OneIn(lines', ResultSet)
      BY <1>4, <1>6, <2>1, <3>1, OneInRemoveAt DEF Work
    <3>5. Work("account", c)'
      <4>1. \A d \in Client : ~At(d, "write")'
        BY <1>1, <1>4, <3>2, <3>3 DEF Work, At
      <4>2. \A d \in Client : At(d, "account")' => d = c
        BY <1>1, <1>4, <3>2, <3>3 DEF Work, At
      <4>3. busy' = call'[c].line.task /\ Reported(call[c].line)'
        BY <1>1, <1>3, <2>2, <3>2, <3>3 DEF Reported
      <4>4. /\ \A x \in ToSet(stdin') \cup ToSet(inbox') : x \notin TaskSet
            /\ \A l \in ToSet(lines') : l \notin ResultSet
            /\ OneIn(stdin', TaskSet) /\ OneIn(inbox', TaskSet) /\ OneIn(lines', ResultSet)
            /\ running' = Quiet /\ busy' # NoTask
        BY <1>3, <1>4, <2>2, <3>3, <3>4 DEF Work
      <4> QED
        BY <1>5, <4>1, <4>2, <4>3, <4>4 DEF Work
    <3> QED
      BY <3>5 DEF Place
  <2> QED
    BY <2>4, <2>5
<1>13. CASE Account(c)
  <2>1. /\ busy' = NoTask /\ UNCHANGED <<stdin, lines>> /\ call[c].at = "account" /\ k = Quiet
        /\ call[c].line.tokens = NoTokens => recTokens' = recTokens
        /\ call[c].line.tokens # NoTokens => recTokens' = call[c].line.tokens
    BY <1>1, <1>4, <1>13 DEF Account, At, GoesOn, Work, AdmitTask, WriteTask, EnterRead, TakeLine,
      TimeOut, MarkInterrupted, SaveStatus, CommitSwitch, AbortSwitch, EndTerminate
  <2>2. p = "account" /\ w = c /\ Reported(call[c].line)
    BY <1>1, <1>4, <2>1 DEF Work, At
  <2>3. recTokens' = used'
    <3>1. used # NoTokens
      BY IpcAssumption DEF Base, IpcTypeOK
    <3> QED
      BY <1>3, <2>1, <2>2, <3>1 DEF Reported
  <2>4. Work("none", w)'
    <3>1. \A d \in Client : ~At(d, "write")' /\ ~At(d, "account")'
      BY <1>1, <1>4, <2>1, <2>2 DEF Work, At
    <3>2. /\ \A x \in ToSet(stdin') \cup ToSet(inbox') : x \notin TaskSet
          /\ \A l \in ToSet(lines') : l \notin ResultSet
          /\ OneIn(stdin', TaskSet) /\ OneIn(inbox', TaskSet) /\ OneIn(lines', ResultSet)
          /\ running' = Quiet
      BY <1>3, <1>4, <2>1, <2>2 DEF Work
    <3> QED
      BY <1>5, <2>1, <2>3, <3>1, <3>2 DEF Work
  <2> QED
    BY <2>4 DEF Place
<1>14. CASE /\ EnterRead(c) \/ TimeOut(c) \/ MarkInterrupted(c) \/ SaveStatus(c) \/ CommitSwitch(c)
            /\ k # Quiet => k.at \notin {"write", "account"}
  <2>1. UNCHANGED <<busy, recTokens, stdin, lines>>
    BY <1>14 DEF EnterRead, TimeOut, MarkInterrupted, SaveStatus, CommitSwitch
  <2> QED
    BY <1>4, <1>6, <1>8, <1>14, <2>1, NoNewIn
<1>15. CASE AbortSwitch(c)
  <2>1. k # Quiet => k.at \notin {"write", "account"}
    BY <1>15 DEF AbortSwitch, At, GoesOn
  <2>2. UNCHANGED <<busy, recTokens, lines>> /\ stdin' = Append(stdin, Plain("STOP"))
    BY <1>3, <1>15 DEF AbortSwitch
  <2>3. Plain("STOP") \in MessageSet /\ Plain("STOP") \notin TaskSet
    BY MessagesAre DEF TaskSet
  <2>4. NoNew(stdin, stdin', TaskSet)
    BY <1>6, <2>2, <2>3, NoNewIn
  <2> QED
    BY <1>4, <1>6, <1>8, <2>1, <2>2, <2>4, NoNewIn
<1> QED
  BY <1>2, <1>9, <1>10, <1>11, <1>12, <1>13, <1>14, <1>15 DEF GoesOn

\* The child moves the work along: reads it, starts it, answers it.
LEMMA WorkChild ==
  ASSUME Base, WorkInOnePlace,
         \/ ReadStdin \/ HandleControl \/ DenyTask \/ StartTask \/ StartCommand
         \/ CancelTask \/ FinishTask
  PROVE  WorkInOnePlace'
<1> SUFFICES ASSUME AttachedIpc' PROVE \E p \in Place, w \in Client \cup {Nobody} : Work(p, w)'
  BY DEF WorkInOnePlace
<1> USE DEF ctlVars
<1>1. AttachedIpc /\ UNCHANGED <<busy, recTokens, rec, call>>
  BY DEF AttachedIpc, Alive, ReadStdin, HandleControl, DenyTask, StartTask, StartCommand, CancelTask, FinishTask
<1>2. PICK p \in Place, w \in Client \cup {Nobody} : Work(p, w)
  BY <1>1 DEF WorkInOnePlace
<1>3. /\ stdin \in Seq(MessageSet) /\ inbox \in Seq(MessageSet) /\ lines \in Seq(LineSet)
      /\ used \in Nat /\ rec' # "UNKNOWN"
  BY <1>1, <1>2 DEF Base, IpcTypeOK, Work
<1>4. \A c \in Client : \A at : At(c, at)' <=> At(c, at)
  BY <1>1 DEF At
<1>5. ASSUME NoNew(stdin, stdin', TaskSet), NoNew(inbox, inbox', TaskSet), UNCHANGED used,
             running' # Quiet => running # Quiet /\ running'.task = running.task,
             NoNew(lines, lines', ResultSet)
      PROVE  \E q \in Place, v \in Client \cup {Nobody} : Work(q, v)'
  <2>1. Work(p, w)'
    BY <1>1, <1>2, <1>3, <1>4, <1>5, WorkStays
  <2> QED
    BY <2>1
\* The task is answered, with the total or without tokens.
<1>6. ASSUME p \in {"inbox", "running"}, NEW l \in ResultSet, busy = l.task, Emit(l),
             ToSet(stdin') \cap TaskSet = {}, OneIn(stdin', TaskSet),
             ToSet(inbox') \cap TaskSet = {}, OneIn(inbox', TaskSet),
             running' = Quiet,
             l.tokens = used' \/ (l.tokens = NoTokens /\ used' = used)
      PROVE  \E q \in Place, v \in Client \cup {Nobody} : Work(q, v)'
  <2>1. ToSet(lines) \cap ResultSet = {} /\ OneIn(lines, ResultSet) /\ recTokens = used /\ busy # NoTask
    BY <1>2, <1>6 DEF Work
  <2>2. lines' = Append(lines, l) /\ l \in LineSet
    BY <1>6 DEF Emit, LineSet
  <2>3. ToSet(lines') = ToSet(lines) \cup {l} /\ OneIn(lines', ResultSet)
    BY <1>3, <1>6, <2>1, <2>2, AppendAdds, OneInAppend
  <2>4. Reported(l)'
    BY <1>1, <1>6, <2>1 DEF Reported
  <2>5. \A c \in Client : ~At(c, "write")' /\ ~At(c, "account")'
    BY <1>2, <1>4, <1>6 DEF Work
  <2>6. \A x \in ToSet(lines') : x \in ResultSet => x = l
    BY <2>1, <2>3
  <2>7. Work("lines", w)'
    BY <1>1, <1>3, <1>6, <2>1, <2>3, <2>4, <2>5, <2>6 DEF Work
  <2> QED
    BY <2>7 DEF Place
<1>7. CASE ReadStdin
  <2>1. /\ stdin # <<>> /\ stdin' = Tail(stdin) /\ inbox' = Append(inbox, Head(stdin))
        /\ UNCHANGED <<used, lines>>
        /\ running' # Quiet => running # Quiet
    BY <1>7 DEF ReadStdin
  <2>2. Head(stdin) \in MessageSet /\ Head(stdin) \in ToSet(stdin)
    BY <1>3, <2>1, TailKeeps
  <2>3. running' # Quiet => running'.task = running.task
    BY <1>7 DEF ReadStdin, Base, IpcTypeOK, RunSet
  <2>4. NoNew(stdin, stdin', TaskSet) /\ NoNew(lines, lines', ResultSet)
    BY <1>3, <2>1, NoNewIn
  <2>5. CASE Head(stdin) \notin TaskSet
    <3>1. NoNew(inbox, inbox', TaskSet)
      BY <1>3, <2>1, <2>2, <2>5, NoNewIn
    <3> QED
      BY <1>5, <2>1, <2>3, <2>4, <3>1
  <2>6. CASE Head(stdin) \in TaskSet
    <3>1. p = "stdin" /\ busy = Head(stdin).task /\ running = Quiet /\ running' = Quiet
      BY <1>2, <2>1, <2>2, <2>6 DEF Work
    <3>2. ToSet(stdin') \cap TaskSet = {} /\ OneIn(stdin', TaskSet)
      BY <1>2, <1>3, <2>1, <2>6, OneInTail DEF Work
    <3>3. ToSet(inbox) \cap TaskSet = {} /\ OneIn(inbox, TaskSet)
      BY <1>2, <3>1 DEF Work
    <3>4. ToSet(inbox') = ToSet(inbox) \cup {Head(stdin)} /\ OneIn(inbox', TaskSet)
      BY <1>3, <2>1, <2>2, <3>3, AppendAdds, OneInAppend
    <3>5. \A x \in ToSet(inbox') : x \in TaskSet => x = Head(stdin)
      BY <3>3, <3>4
    <3>6. /\ ToSet(lines') \cap ResultSet = {} /\ OneIn(lines', ResultSet)
          /\ recTokens' = used' /\ busy' # NoTask
          /\ \A c \in Client : ~At(c, "write")' /\ ~At(c, "account")'
      BY <1>1, <1>2, <1>4, <2>1, <3>1 DEF Work
    <3>7. Work("inbox", w)'
      BY <1>1, <1>3, <3>1, <3>2, <3>4, <3>5, <3>6 DEF Work
    <3> QED
      BY <3>7 DEF Place
  <2> QED
    BY <2>5, <2>6
<1>8. CASE HandleControl
  <2>1. /\ inbox # <<>> /\ inbox' = Tail(inbox) /\ running = Quiet
        /\ UNCHANGED <<stdin, running, used>>
    BY <1>8 DEF HandleControl, Takes
  <2>2. PICK ty \in {"PONG", "INTERRUPTED", "RECONFIGURED"} : Emit(Event(ty, Head(inbox).n))
    BY <1>8 DEF HandleControl, Takes
  <2>3. Head(inbox).n \in Nat
    BY <1>3, <2>1, TailKeeps, MessageFields
  <2> DEFINE l == Event(ty, Head(inbox).n)
  <2>4. l \in LineSet /\ l \notin ResultSet
    BY <2>3, LinesAre
  <2> HIDE DEF l
  <2>5. lines' = Append(lines, l)
    BY <2>2 DEF Emit, l
  <2>6. NoNew(lines, lines', ResultSet)
    BY <1>3, <2>4, <2>5, NoNewIn
  <2>7. NoNew(inbox, inbox', TaskSet) /\ NoNew(stdin, stdin', TaskSet)
    BY <1>3, <2>1, NoNewIn
  <2> QED
    BY <1>5, <2>1, <2>6, <2>7
<1>9. CASE DenyTask \/ StartTask
  <2> DEFINE m == Head(inbox)
  <2>1. /\ inbox # <<>> /\ inbox' = Tail(inbox) /\ running = Quiet /\ m.command = "TASK"
        /\ UNCHANGED <<stdin, used>>
    BY <1>9 DEF DenyTask, StartTask, Takes
  <2>2. /\ m \in TaskSet /\ m \in ToSet(inbox) /\ m.task \in Task /\ m.n \in Nat
    BY <1>3, <2>1, TailKeeps, MessageFields DEF TaskSet
  <2>3. p = "inbox" /\ busy = m.task
    BY <1>2, <2>2 DEF Work
  <2>4. ToSet(inbox') \cap TaskSet = {} /\ OneIn(inbox', TaskSet)
    BY <1>2, <1>3, <2>1, <2>2, OneInTail DEF Work
  <2>5. ToSet(stdin') \cap TaskSet = {} /\ OneIn(stdin', TaskSet)
    BY <1>2, <2>1, <2>3 DEF Work
  <2>6. CASE DenyTask
    <3>1. PICK tk \in {used, NoTokens} : Answer(m.task, m.n, "DENIED", tk)
      BY <2>6 DEF DenyTask
    <3> DEFINE l == Result(m.task, m.n, "DENIED", tk)
    <3>2. l \in ResultSet /\ l.task = m.task /\ l.tokens = tk
      BY <1>3, <2>2, LinesAre, SMTT(60)
    <3>3. Emit(l) /\ running' = Quiet
      BY <2>1, <2>6, <3>1 DEF Answer, DenyTask
    <3> HIDE DEF l
    <3> QED
      BY <1>6, <2>1, <2>3, <2>4, <2>5, <3>2, <3>3
  <2>7. CASE StartTask
    <3>1. running'.task = m.task /\ UNCHANGED lines
      BY <2>7 DEF StartTask, Begin
    <3>2. /\ ToSet(lines') \cap ResultSet = {} /\ OneIn(lines', ResultSet)
          /\ recTokens' = used' /\ busy' # NoTask
          /\ \A c \in Client : ~At(c, "write")' /\ ~At(c, "account")'
      BY <1>1, <1>2, <1>4, <2>1, <2>3, <3>1 DEF Work
    <3>3. Work("running", w)'
      BY <1>1, <1>3, <2>3, <2>4, <2>5, <3>1, <3>2 DEF Work
    <3> QED
      BY <3>3 DEF Place
  <2> QED
    BY <1>9, <2>6, <2>7
<1>10. CASE StartCommand
  <2>1. UNCHANGED <<stdin, inbox, lines, used>> /\ running # Quiet /\ running' = [running EXCEPT !.at = "run"]
    BY <1>10 DEF StartCommand
  <2>2. running'.task = running.task
    BY <2>1 DEF Base, IpcTypeOK, RunSet
  <2> QED
    BY <1>3, <1>5, <2>1, <2>2, NoNewIn
<1>11. CASE CancelTask \/ FinishTask
  <2>1. running # Quiet /\ running' = Quiet /\ UNCHANGED <<stdin, inbox>>
    BY <1>11 DEF CancelTask, FinishTask
  <2>2. running.task \in Task /\ running.n \in Nat
    BY <2>1, RunFields
  <2>3. p = "running" /\ busy = running.task
    BY <1>2, <2>1 DEF Work
  <2>4. used' \in Nat
    BY <1>3, <1>11 DEF CancelTask, FinishTask
  <2>5. PICK st \in {"COMPLETED", "FAILED", "CANCELLED"}, tk \in {used', NoTokens} :
          /\ Answer(running.task, running.n, st, tk)
          /\ tk = used' \/ (tk = NoTokens /\ used' = used)
    BY <1>11 DEF CancelTask, FinishTask
  <2> DEFINE l == Result(running.task, running.n, st, tk)
  <2>6. l \in ResultSet /\ l.task = running.task /\ l.tokens = tk
    BY <2>2, <2>4, LinesAre
  <2>7. Emit(l)
    BY <2>5 DEF Answer
  <2> HIDE DEF l
  <2>8. /\ ToSet(stdin') \cap TaskSet = {} /\ OneIn(stdin', TaskSet)
        /\ ToSet(inbox') \cap TaskSet = {} /\ OneIn(inbox', TaskSet)
    BY <1>2, <2>1, <2>3 DEF Work
  <2> QED
    BY <1>6, <2>1, <2>3, <2>5, <2>6, <2>7, <2>8
<1> QED
  BY <1>7, <1>8, <1>9, <1>10, <1>11

\* The process and the controller: a new worker has no work, and no other step
\* but the human's leaves one attached.
LEMMA WorkOther ==
  ASSUME Base, WorkInOnePlace,
         \/ SpawnWorker \/ WorkerDies \/ ControllerRestarts \/ ReapDeadWorkers
         \/ ReconcileRehydratedSessions \/ RegisterPersistedSession \/ HumanActs
         \/ HandleStop \/ OrphanBreaks \/ UNCHANGED vars
  PROVE  WorkInOnePlace'
<1> SUFFICES ASSUME AttachedIpc' PROVE \E p \in Place, w \in Client \cup {Nobody} : Work(p, w)'
  BY DEF WorkInOnePlace
<1> USE DEF ctlVars, childVars
<1>1. CASE SpawnWorker
  <2>1. /\ rec' # "UNKNOWN" /\ busy' = NoTask /\ recTokens' = used'
        /\ stdin' = <<>> /\ inbox' = <<>> /\ lines' = <<>> /\ running' = Quiet
        /\ \A c \in Client : ~At(c, "write")' /\ ~At(c, "account")'
    BY <1>1 DEF SpawnWorker, At
  <2>2. Work("none", Nobody)'
    BY <2>1, EmptyHasNone DEF Work
  <2> QED
    BY <2>2 DEF Place
<1>2. CASE HumanActs \/ UNCHANGED vars
  <2>1. /\ AttachedIpc
        /\ UNCHANGED <<call, busy, rec, recTokens, used, stdin, inbox, running, lines>>
    BY <1>2 DEF HumanActs, vars, AttachedIpc, Alive
  <2>2. PICK p \in Place, w \in Client \cup {Nobody} : Work(p, w)
    BY <2>1 DEF WorkInOnePlace
  <2>3. Work(p, w)'
    BY <2>1, <2>2 DEF Work, At, Reported
  <2> QED
    BY <2>3
<1>3. ~(\/ WorkerDies \/ ControllerRestarts \/ ReapDeadWorkers \/ ReconcileRehydratedSessions
        \/ RegisterPersistedSession \/ HandleStop \/ OrphanBreaks)
  BY DEF AttachedIpc, Alive, WorkerDies, ControllerRestarts, ReapDeadWorkers, Forget,
    ReconcileRehydratedSessions, RegisterPersistedSession, HandleStop, OrphanBreaks
<1> QED
  BY <1>1, <1>2, <1>3

LEMMA WorkInit == Init => WorkInOnePlace
BY DEF Init, WorkInOnePlace, AttachedIpc

LEMMA WorkNext == Base /\ WorkInOnePlace /\ [Next]_vars => WorkInOnePlace'
<1> SUFFICES ASSUME Base, WorkInOnePlace, [Next]_vars PROVE WorkInOnePlace'
  OBVIOUS
<1>1. ASSUME NEW c \in Client, NewCall(c) \/ ClientStep(c)
      PROVE  WorkInOnePlace'
  BY <1>1, NewCallStarts, ClientGoesOn, WorkBegin, WorkGoesOn
<1> QED
  BY <1>1, Steps, WorkChild, WorkOther

LEMMA WorkAlways == Spec => [](Base /\ WorkInOnePlace)
BY BaseInit, BaseNext, WorkInit, WorkNext, PTL DEF Spec

(***************************************************************************)
(* The claim on a worker covers all the work it may be doing, for any      *)
(* number of threads, tasks and calls: what is in the pipes, in execution, *)
(* answered or taken and not accounted for is one attempt, and             *)
(* _busy_task_ids names its task.                                          *)
(***************************************************************************)
THEOREM ClaimCovers == Spec => []ClaimCoversWork
<1>1. Base /\ WorkInOnePlace => ClaimCoversWork
  <2> SUFFICES ASSUME Base, WorkInOnePlace, AttachedIpc, NEW x \in Outstanding, NEW y \in Outstanding
               PROVE  x = y /\ busy = x.task
    BY DEF ClaimCoversWork
  <2>1. PICK p \in Place, w \in Client \cup {Nobody} : Work(p, w)
    BY DEF WorkInOnePlace
  <2> DEFINE here == {m \in ToSet(stdin) \cup ToSet(inbox) : m.command = "TASK"}
                      \cup (IF running = Quiet THEN {} ELSE {running})
                      \cup Results
                      \cup {call[c].line : c \in {d \in Client : At(d, "account")}}
  <2>2. PICK u \in here, v \in here : x = [task |-> u.task, n |-> u.n] /\ y = [task |-> v.task, n |-> v.n]
    BY DEF Outstanding
  <2>3. /\ \A m \in ToSet(stdin) : m \in MessageSet
        /\ \A m \in ToSet(inbox) : m \in MessageSet
        /\ \A l \in ToSet(lines) : l \in LineSet
    BY DEF Base, IpcTypeOK, ToSet
  <2>4. ASSUME NEW z \in here
        PROVE  /\ busy = z.task
               /\ \/ p = "stdin" /\ z \in ToSet(stdin) /\ z \in TaskSet
                  \/ p = "inbox" /\ z \in ToSet(inbox) /\ z \in TaskSet
                  \/ p = "running" /\ z = running
                  \/ p = "lines" /\ z \in ToSet(lines) /\ z \in ResultSet
                  \/ p = "account" /\ z = call[w].line
    <3>1. CASE z \in ToSet(stdin) \cup ToSet(inbox) /\ z.command = "TASK"
      BY <2>1, <2>3, <3>1 DEF Work, TaskSet
    <3>2. CASE running # Quiet /\ z = running
      BY <2>1, <3>2 DEF Work
    <3>3. CASE z \in Results
      <4>1. z \in ToSet(lines) /\ z \in ResultSet
        BY <2>3, <3>3, LineFields DEF Results
      <4> QED
        BY <2>1, <4>1 DEF Work
    <3>4. CASE z \in {call[c].line : c \in {d \in Client : At(d, "account")}}
      BY <2>1, <3>4 DEF Work
    <3> QED
      BY <2>4, <3>1, <3>2, <3>3, <3>4
  <2> HIDE DEF here
  <2>5. OneIn(stdin, TaskSet) /\ OneIn(inbox, TaskSet) /\ OneIn(lines, ResultSet)
    BY <2>1 DEF Work
  <2>6. u = v
    BY <2>4, <2>5 DEF OneIn, ToSet
  <2> QED
    BY <2>2, <2>4, <2>6
<1> QED
  BY <1>1, WorkAlways, PTL

(***************************************************************************)
(* When the claim is released the tokens of the task are accounted for,    *)
(* whichever call took the result, or took it late.                        *)
(***************************************************************************)
THEOREM TokensCounted == Spec => []TokensAccounted
<1>1. Base /\ WorkInOnePlace => TokensAccounted
  BY DEF WorkInOnePlace, Work, TokensAccounted
<1> QED
  BY <1>1, WorkAlways, PTL

-----------------------------------------------------------------------------
(* A RECONFIGURE on its way belongs to the switch that holds _state_lock,  *)
(* which knows of no acknowledgement: numbers are not used twice, and a    *)
(* line with the number of a switch was written after its message was      *)
(* taken.                                                                  *)

SwitchSet == {m \in MessageSet : m.command = "RECONFIGURE"}

\* The switch that the message m belongs to waits for its end.
Awaited(m) == lock # Nobody /\ m.n = call[lock].n /\ call[lock].at # "commit"

Pending ==
  /\ \A m \in ToSet(stdin) \cup ToSet(inbox) : m \in SwitchSet => Awaited(m)
  /\ OneIn(stdin, SwitchSet) /\ OneIn(inbox, SwitchSet)
  /\ \A m \in ToSet(stdin), x \in ToSet(inbox) : ~(m \in SwitchSet /\ x \in SwitchSet)
  /\ \A l \in ToSet(lines) : l.type = "RECONFIGURED" =>
       /\ l.n <= calls
       /\ \A m \in ToSet(stdin) \cup ToSet(inbox) : m \in SwitchSet => m.n # l.n

Numbered == \A c \in Client : call[c] # Quiet => call[c].n <= calls

SwitchInv == Base /\ LocksAreReleased /\ Numbered /\ (AttachedIpc => Pending)

\* Calls keep their numbers, new ones get a new one.
LEMMA NumberedNext ==
  ASSUME Base, Numbered, [Next]_vars
  PROVE  Numbered'
<1>1. call \in [Client -> CallSet \cup {Quiet}] /\ calls \in Nat
  BY DEF Base, IpcTypeOK
<1>2. ASSUME NEW c \in Client, NEW k, Starts(c, k)
      PROVE  Numbered'
  <2>1. call' = [call EXCEPT ![c] = k] /\ calls' = calls + 1 /\ k.n \in {0, calls + 1}
    BY <1>2 DEF Starts
  <2>2. \A d \in Client : d # c /\ call[d] # Quiet => call[d].n \in Nat
    BY <1>1 DEF CallSet
  <2> QED
    BY <1>1, <2>1, <2>2 DEF Numbered
<1>3. ASSUME NEW c \in Client, NEW k, GoesOn(c, k)
      PROVE  Numbered'
  <2>1. call' = [call EXCEPT ![c] = k] /\ (k # Quiet => k.n = call[c].n) /\ call[c] # Quiet
    BY <1>3 DEF GoesOn
  <2>2. calls' = calls
    BY <1>3 DEF GoesOn, AdmitTask, WriteTask, EnterRead, TakeLine, TimeOut, Account,
      MarkInterrupted, SaveStatus, CommitSwitch, AbortSwitch, EndTerminate, boundVars
  <2> QED
    BY <1>1, <2>1, <2>2 DEF Numbered
<1>4. CASE ~\E c \in Client : NewCall(c) \/ ClientStep(c)
  <2>1. calls' = calls /\ (call' = call \/ call' = [c \in Client |-> Quiet])
    BY <1>4, Steps, Zenon DEF SpawnWorker, WorkerDies, ControllerRestarts, ReapDeadWorkers,
      ReconcileRehydratedSessions, RegisterPersistedSession, HumanActs, HandleStop, OrphanBreaks,
      ReadStdin, HandleControl, DenyTask, StartTask, StartCommand, CancelTask, FinishTask, vars, boundVars
  <2> QED
    BY <2>1 DEF Numbered
<1> QED
  BY <1>2, <1>3, <1>4, NewCallStarts, ClientGoesOn

\* What is pending stays so while nothing is added and the switch waits on.
LEMMA PendingStays ==
  ASSUME Base, Pending, calls' \in Nat, calls <= calls',
         NoNew(stdin, stdin', SwitchSet), NoNew(inbox, inbox', SwitchSet),
         \A l \in ToSet(lines') : l.type = "RECONFIGURED" => l \in ToSet(lines),
         \A m : Awaited(m) => Awaited(m)'
  PROVE  Pending'
<1>1. /\ OneIn(stdin', SwitchSet) /\ OneIn(inbox', SwitchSet)
      /\ \A m \in ToSet(stdin') : m \in SwitchSet => m \in ToSet(stdin)
      /\ \A m \in ToSet(inbox') : m \in SwitchSet => m \in ToSet(inbox)
  BY DEF Pending, NoNew
<1>2. \A m \in ToSet(stdin') \cup ToSet(inbox') : m \in SwitchSet => Awaited(m)'
  BY <1>1 DEF Pending
<1>3. \A m \in ToSet(stdin'), x \in ToSet(inbox') : ~(m \in SwitchSet /\ x \in SwitchSet)
  BY <1>1 DEF Pending
<1>4. \A l \in ToSet(lines') : l.type = "RECONFIGURED" =>
        /\ l.n <= calls'
        /\ \A m \in ToSet(stdin') \cup ToSet(inbox') : m \in SwitchSet => m.n # l.n
  <2>1. \A l \in ToSet(lines) : l.n \in Nat
    BY LineFields DEF Base, IpcTypeOK, ToSet
  <2>2. calls \in Nat
    BY DEF Base, IpcTypeOK
  <2> QED
    BY <1>1, <2>1, <2>2 DEF Pending
<1> QED
  BY <1>1, <1>2, <1>3, <1>4 DEF Pending

\* Nothing is pending: no RECONFIGURE, and no line from the future.
LEMMA NothingPending ==
  ASSUME Base, Pending, calls' = calls,
         \A m \in ToSet(stdin') \cup ToSet(inbox') : m \notin SwitchSet,
         \A l \in ToSet(lines') : l.type = "RECONFIGURED" => l.n <= calls
  PROVE  Pending'
BY DEF Pending, OneIn, ToSet

LEMMA PendingBegin ==
  ASSUME SwitchInv, AttachedIpc, NEW c \in Client, NEW k, Starts(c, k)
  PROVE  Pending'
<1>1. /\ Pending /\ Base /\ calls \in Nat /\ calls' = calls + 1
      /\ UNCHANGED <<inbox, lines>> /\ call' = [call EXCEPT ![c] = k] /\ call[c] = Quiet
      /\ stdin \in Seq(MessageSet) /\ inbox \in Seq(MessageSet)
      /\ call \in [Client -> CallSet \cup {Quiet}]
      /\ lock \in Client \cup {Nobody}
  BY DEF SwitchInv, Starts, childVars, Base, IpcTypeOK
<1>2. CASE \E h \in Harness : BeginSwitch(c, h)
  <2>1. PICK h \in Harness : BeginSwitch(c, h)
    BY <1>2
  <2>0. PICK m : m = Reconfigure(h, calls + 1)
    OBVIOUS
  <2>2. /\ m \in MessageSet /\ m \in SwitchSet /\ m.n = calls + 1
    BY <1>1, <2>0 DEF Reconfigure, SwitchSet, MessageSet
  <2>3. stdin' = Append(stdin, m) /\ lock = Nobody /\ lock' = c
    BY <2>0, <2>1 DEF BeginSwitch, Send, AttachedIpc
  <2>4. \A x \in ToSet(stdin) \cup ToSet(inbox) : x \notin SwitchSet
    BY <1>1, <2>3 DEF Pending, Awaited
  <2>5. ToSet(stdin') = ToSet(stdin) \cup {m} /\ OneIn(stdin', SwitchSet)
    BY <1>1, <2>2, <2>3, <2>4, AppendAdds, OneInAppend DEF Pending
  <2>6. call'[c].n = calls + 1 /\ call'[c].at # "commit"
    BY <1>1, <2>1, <2>3, IpcAssumption DEF Starts, AttachedIpc, BeginTask, BeginInterrupt, BeginSwitch, ctlVars
  <2>7. Awaited(m)'
    BY <2>2, <2>3, <2>6, IpcAssumption DEF Awaited
  <2>8. \A l \in ToSet(lines) : l.type = "RECONFIGURED" => l.n \in Nat /\ l.n <= calls
    BY <1>1, LineFields DEF Pending, Base, IpcTypeOK, ToSet
  <2>9. \A x \in ToSet(stdin') \cup ToSet(inbox') : x \in SwitchSet => x = m
    BY <1>1, <2>4, <2>5
  <2>10. \A l \in ToSet(lines') : l.type = "RECONFIGURED" =>
           l.n <= calls' /\ \A x \in ToSet(stdin') \cup ToSet(inbox') : x \in SwitchSet => x.n # l.n
    BY <1>1, <2>2, <2>8, <2>9
  <2> QED
    BY <1>1, <2>4, <2>5, <2>7, <2>9, <2>10 DEF Pending
<1>3. CASE ~\E h \in Harness : BeginSwitch(c, h)
  <2>1. UNCHANGED stdin \/ \E cmd \in {"PING", "STOP", "INTERRUPT"} : stdin' = Append(stdin, Plain(cmd))
    BY <1>3 DEF Starts, BeginTask, BeginInterrupt, Send
  <2>2. NoNew(stdin, stdin', SwitchSet)
    <3>1. \A cmd \in {"PING", "STOP", "INTERRUPT"} : Plain(cmd) \in MessageSet /\ Plain(cmd) \notin SwitchSet
      BY MessagesAre DEF SwitchSet
    <3> QED
      BY <1>1, <2>1, <3>1, NoNewIn
  <2>3. NoNew(inbox, inbox', SwitchSet)
    BY <1>1, NoNewIn
  <2>4. lock' = lock
    BY <1>3 DEF Starts, BeginTask, BeginInterrupt, ctlVars
  <2>5. \A m : Awaited(m) => Awaited(m)'
    <3>1. lock # Nobody => call[lock] # Quiet /\ lock # c
      BY <1>1 DEF SwitchInv, LocksAreReleased
    <3> QED
      BY <1>1, <2>4, <3>1 DEF Awaited
  <2> QED
    BY <1>1, <2>2, <2>3, <2>5, PendingStays
<1> QED
  BY <1>2, <1>3

LEMMA PendingGoesOn ==
  ASSUME SwitchInv, AttachedIpc, AttachedIpc', NEW c \in Client, NEW k, GoesOn(c, k)
  PROVE  Pending'
<1> USE DEF ctlVars, childVars, boundVars
<1>1. /\ Pending /\ Base /\ LocksAreReleased /\ calls \in Nat
      /\ call[c] # Quiet /\ WellFormed(call[c])
      /\ call' = [call EXCEPT ![c] = k]
      /\ call'[c] = k /\ \A d \in Client : d # c => call'[d] = call[d]
      /\ k # Quiet => k.op = call[c].op /\ k.n = call[c].n
      /\ stdin \in Seq(MessageSet) /\ inbox \in Seq(MessageSet) /\ lines \in Seq(LineSet)
      /\ lock \in Client \cup {Nobody}
      /\ lock = c <=> call[c].op = "switch"
  BY IpcAssumption DEF SwitchInv, GoesOn, Base, IpcTypeOK, LocksAreReleased
<1>2. ~EndTerminate(c)
  BY DEF EndTerminate, Forget, AttachedIpc
<1>3. calls' = calls /\ UNCHANGED inbox
  BY <1>2 DEF GoesOn, AdmitTask, WriteTask, EnterRead, TakeLine, TimeOut, Account,
    MarkInterrupted, SaveStatus, CommitSwitch, AbortSwitch
<1>4. NoNew(stdin, stdin', SwitchSet)
  <2>1. \/ UNCHANGED stdin
        \/ stdin' = Append(stdin, Plain("STOP"))
        \/ call[c].at = "write" /\ stdin' = Append(stdin, TaskMsg(call[c].task, call[c].action, call[c].n))
    BY <1>2 DEF GoesOn, AdmitTask, WriteTask, EnterRead, TakeLine, TimeOut, Account,
      MarkInterrupted, SaveStatus, CommitSwitch, AbortSwitch
  <2>2. Plain("STOP") \in MessageSet /\ Plain("STOP") \notin SwitchSet
    BY MessagesAre DEF SwitchSet
  <2>3. ASSUME call[c].at = "write"
        PROVE  /\ TaskMsg(call[c].task, call[c].action, call[c].n) \in MessageSet
               /\ TaskMsg(call[c].task, call[c].action, call[c].n) \notin SwitchSet
    <3>1. call[c].task \in Task /\ call[c].action \in Action \cup {NoAction} /\ call[c].n \in Nat
      BY <1>1, <2>3, CallFields DEF WellFormed, CallSet
    <3> QED
      BY <3>1 DEF TaskMsg, MessageSet, SwitchSet
  <2> QED
    BY <1>1, <2>1, <2>2, <2>3, NoNewIn, ZenonT(60)
<1>5. NoNew(inbox, inbox', SwitchSet)
  BY <1>1, <1>3, NoNewIn
<1>6. \A l \in ToSet(lines') : l \in ToSet(lines)
  <2>1. lines' = lines \/ \E i \in 1 .. Len(lines) : lines' = RemoveAt(lines, i)
    BY <1>2 DEF GoesOn, AdmitTask, WriteTask, EnterRead, TakeLine, TimeOut, Account,
      MarkInterrupted, SaveStatus, CommitSwitch, AbortSwitch
  <2> QED
    BY <1>1, <2>1, RemoveAtKeeps
<1>7. CASE ~CommitSwitch(c) /\ (lock = c => k.at # "commit")
  <2>1. lock' = lock
    BY <1>2, <1>7 DEF GoesOn, AdmitTask, WriteTask, EnterRead, TakeLine, TimeOut, Account,
      MarkInterrupted, SaveStatus, AbortSwitch
  <2>2. lock = c => k # Quiet
    BY <1>1, <1>2, <1>7 DEF GoesOn, WellFormed
  <2>3. \A m : Awaited(m) => Awaited(m)'
    BY <1>1, <1>7, <2>1, <2>2 DEF Awaited
  <2> QED
    BY <1>1, <1>3, <1>4, <1>5, <1>6, <2>3, PendingStays
<1>8. CASE CommitSwitch(c)
  <2>1. call[c].at = "commit" /\ UNCHANGED stdin
    BY <1>8 DEF CommitSwitch, At
  <2>2. lock = c
    BY <1>1, <2>1 DEF WellFormed
  <2>3. \A m \in ToSet(stdin) \cup ToSet(inbox) : m \notin SwitchSet
    BY <1>1, <2>1, <2>2 DEF Pending, Awaited
  <2>4. \A m \in ToSet(stdin') \cup ToSet(inbox') : m \notin SwitchSet
    BY <1>3, <2>1, <2>3
  <2> QED
    BY <1>1, <1>3, <1>6, <2>4, NothingPending DEF Pending
<1>9. CASE ~CommitSwitch(c) /\ lock = c /\ k.at = "commit"
  <2>1. TakeLine(c) /\ call[c].op = "switch"
    BY <1>1, <1>2, <1>9 DEF GoesOn, WellFormed
  <2>2. PICK i \in 1 .. Len(lines) : Answers(call[c], lines[i])
    BY <2>1 DEF TakeLine
  <2>3. lines[i] \in ToSet(lines) /\ lines[i].type = "RECONFIGURED" /\ lines[i].n = call[c].n
    BY <1>1, <2>1, <2>2, LenProperties DEF Answers, ToSet
  <2>4. \A m \in ToSet(stdin) \cup ToSet(inbox) : m \notin SwitchSet
    BY <1>1, <1>9, <2>3 DEF Pending, Awaited
  <2>5. stdin' = stdin
    BY <2>1 DEF TakeLine
  <2>6. \A m \in ToSet(stdin') \cup ToSet(inbox') : m \notin SwitchSet
    BY <1>3, <2>4, <2>5
  <2> QED
    BY <1>1, <1>3, <1>6, <2>6, NothingPending DEF Pending
<1> QED
  BY <1>7, <1>8, <1>9

LEMMA PendingChild ==
  ASSUME SwitchInv, AttachedIpc,
         \/ ReadStdin \/ HandleControl \/ DenyTask \/ StartTask \/ StartCommand
         \/ CancelTask \/ FinishTask
  PROVE  Pending'
<1> USE DEF ctlVars, boundVars
<1>1. /\ Pending /\ Base /\ LocksAreReleased /\ Numbered /\ calls \in Nat
      /\ stdin \in Seq(MessageSet) /\ inbox \in Seq(MessageSet) /\ lines \in Seq(LineSet)
      /\ lock \in Client \cup {Nobody}
  BY DEF SwitchInv, Base, IpcTypeOK
<1>2. UNCHANGED <<calls, lock, call>>
  BY DEF ReadStdin, HandleControl, DenyTask, StartTask, StartCommand, CancelTask, FinishTask
<1>3. \A m : Awaited(m)' <=> Awaited(m)
  BY <1>2 DEF Awaited
<1>4. CASE ReadStdin
  <2>0. PICK m : m = Head(stdin)
    OBVIOUS
  <2>1. stdin # <<>> /\ stdin' = Tail(stdin) /\ inbox' = Append(inbox, m) /\ UNCHANGED lines
    BY <1>4, <2>0 DEF ReadStdin
  <2>2. m \in MessageSet /\ m \in ToSet(stdin)
    BY <1>1, <2>0, <2>1, TailKeeps
  <2>3. NoNew(stdin, stdin', SwitchSet)
    BY <1>1, <2>1, NoNewIn
  <2>4. CASE m \notin SwitchSet
    <3>1. NoNew(inbox, inbox', SwitchSet)
      BY <1>1, <2>1, <2>2, <2>4, NoNewIn
    <3> QED
      BY <1>1, <1>2, <1>3, <2>1, <2>3, <3>1, PendingStays
  <2>5. CASE m \in SwitchSet
    <3>1. ToSet(inbox) \cap SwitchSet = {} /\ OneIn(inbox, SwitchSet)
      BY <1>1, <2>2, <2>5 DEF Pending
    <3>2. ToSet(inbox') = ToSet(inbox) \cup {m} /\ OneIn(inbox', SwitchSet)
      BY <1>1, <2>1, <2>2, <3>1, AppendAdds, OneInAppend
    <3>3. ToSet(stdin') \cap SwitchSet = {} /\ OneIn(stdin', SwitchSet)
      BY <1>1, <2>0, <2>1, <2>5, OneInTail DEF Pending
    <3>4. \A x \in ToSet(stdin') \cup ToSet(inbox') : x \in SwitchSet => x = m
      BY <3>1, <3>2, <3>3
    <3>5. Awaited(m)'
      BY <1>1, <1>3, <2>2, <2>5 DEF Pending
    <3>6. \A l \in ToSet(lines') : l.type = "RECONFIGURED" => l.n <= calls' /\ m.n # l.n
      BY <1>1, <1>2, <2>1, <2>2, <2>5 DEF Pending
    <3> QED
      BY <3>2, <3>3, <3>4, <3>5, <3>6 DEF Pending
  <2> QED
    BY <2>4, <2>5
<1>5. CASE HandleControl
  <2>0. PICK m : m = Head(inbox)
    OBVIOUS
  <2>1. /\ inbox # <<>> /\ inbox' = Tail(inbox) /\ UNCHANGED stdin
        /\ m.command \in {"PING", "INTERRUPT", "RECONFIGURE"}
    BY <1>5, <2>0 DEF HandleControl, Takes
  <2>2. m \in MessageSet /\ m \in ToSet(inbox) /\ m.n \in Nat
    BY <1>1, <2>0, <2>1, TailKeeps, MessageFields
  <2>3. PICK ty \in {"PONG", "INTERRUPTED", "RECONFIGURED"} :
          Emit(Event(ty, m.n)) /\ (ty = "RECONFIGURED" => m \in SwitchSet)
    BY <1>5, <2>0, <2>1, <2>2 DEF HandleControl, SwitchSet
  <2>4. PICK l : l = Event(ty, m.n)
    OBVIOUS
  <2>5. l \in LineSet /\ l.type = ty /\ l.n = m.n
    BY <2>2, <2>4, LinesAre
  <2>6. lines' = Append(lines, l)
    BY <2>3, <2>4 DEF Emit
  <2>7. ToSet(lines') = ToSet(lines) \cup {l}
    BY <1>1, <2>5, <2>6, AppendAdds
  <2>8. NoNew(inbox, inbox', SwitchSet) /\ NoNew(stdin, stdin', SwitchSet)
    BY <1>1, <2>1, NoNewIn
  <2>9. CASE ty # "RECONFIGURED"
    <3>1. \A x \in ToSet(lines') : x.type = "RECONFIGURED" => x \in ToSet(lines)
      BY <2>5, <2>7, <2>9
    <3> QED
      BY <1>1, <1>2, <1>3, <2>8, <3>1, PendingStays
  <2>10. CASE ty = "RECONFIGURED"
    <3>1. m \in SwitchSet /\ Awaited(m)
      BY <1>1, <2>2, <2>3, <2>10 DEF Pending
    <3>2. ToSet(inbox') \cap SwitchSet = {}
      BY <1>1, <2>0, <2>1, <3>1, OneInTail DEF Pending
    <3>3. ToSet(stdin) \cap SwitchSet = {}
      BY <1>1, <2>2, <3>1 DEF Pending
    <3>4. m.n <= calls
      BY <1>1, <3>1 DEF Awaited, Numbered, LocksAreReleased
    <3>5. \A x \in ToSet(lines') : x.type = "RECONFIGURED" => x.n <= calls
      BY <1>1, <2>5, <2>7, <3>4 DEF Pending
    <3>6. \A x \in ToSet(stdin') \cup ToSet(inbox') : x \notin SwitchSet
      BY <2>1, <3>2, <3>3
    <3> QED
      BY <1>1, <1>2, <3>5, <3>6, NothingPending
  <2> QED
    BY <2>9, <2>10
<1>6. CASE DenyTask \/ StartTask \/ StartCommand \/ CancelTask \/ FinishTask
  <2>1. /\ UNCHANGED stdin
        /\ UNCHANGED inbox \/ (inbox # <<>> /\ inbox' = Tail(inbox))
    BY <1>6 DEF DenyTask, StartTask, StartCommand, CancelTask, FinishTask, Takes
  <2>2. UNCHANGED lines \/ \E l : lines' = Append(lines, l) /\ l \in LineSet /\ l.type = "RESULT"
    <3>1. CASE StartTask \/ StartCommand
      BY <3>1 DEF StartTask, StartCommand
    <3>2. ASSUME NEW t \in Task, NEW n \in Nat, NEW st \in {"COMPLETED", "FAILED", "CANCELLED", "DENIED"},
                 NEW tk \in Nat \cup {NoTokens}, Answer(t, n, st, tk)
          PROVE  \E l : lines' = Append(lines, l) /\ l \in LineSet /\ l.type = "RESULT"
      BY <3>2, LinesAre DEF Answer, Emit
    <3>3. used \in Nat /\ used + 1 \in Nat
      BY <1>1 DEF Base, IpcTypeOK
    <3>4. CASE DenyTask
      <4>1. Head(inbox).task \in Task /\ Head(inbox).n \in Nat
        BY <1>1, <3>4, TailKeeps, MessageFields DEF DenyTask, Takes
      <4>2. \E tk \in Nat \cup {NoTokens} : Answer(Head(inbox).task, Head(inbox).n, "DENIED", tk)
        BY <3>3, <3>4 DEF DenyTask
      <4> QED
        BY <3>2, <4>1, <4>2
    <3>5. CASE CancelTask \/ FinishTask
      <4>1. running.task \in Task /\ running.n \in Nat
        BY <1>1, <3>5, RunFields DEF CancelTask, FinishTask
      <4>2. \E st \in {"COMPLETED", "FAILED", "CANCELLED", "DENIED"}, tk \in Nat \cup {NoTokens} :
              Answer(running.task, running.n, st, tk)
        BY <3>3, <3>5 DEF CancelTask, FinishTask
      <4> QED
        BY <3>2, <4>1, <4>2
    <3> QED
      BY <1>6, <3>1, <3>4, <3>5
  <2>3. \A x \in ToSet(lines') : x.type = "RECONFIGURED" => x \in ToSet(lines)
    <3>1. ASSUME NEW l \in LineSet, lines' = Append(lines, l), l.type = "RESULT"
          PROVE  \A x \in ToSet(lines') : x.type = "RECONFIGURED" => x \in ToSet(lines)
      BY <1>1, <3>1, AppendAdds
    <3> QED
      BY <2>2, <3>1
  <2>4. NoNew(inbox, inbox', SwitchSet) /\ NoNew(stdin, stdin', SwitchSet)
    BY <1>1, <2>1, NoNewIn
  <2> QED
    BY <1>1, <1>2, <1>3, <2>3, <2>4, PendingStays
<1> QED
  BY <1>4, <1>5, <1>6

LEMMA PendingOther ==
  ASSUME SwitchInv, AttachedIpc',
         \/ SpawnWorker \/ WorkerDies \/ ControllerRestarts \/ ReapDeadWorkers
         \/ ReconcileRehydratedSessions \/ RegisterPersistedSession \/ HumanActs
         \/ HandleStop \/ OrphanBreaks \/ UNCHANGED vars
  PROVE  Pending'
<1> USE DEF ctlVars, childVars, boundVars
<1>1. CASE SpawnWorker
  BY <1>1, EmptyHasNone DEF SpawnWorker, Pending
<1>2. CASE HumanActs \/ UNCHANGED vars
  <2>1. AttachedIpc /\ UNCHANGED <<stdin, inbox, lines, lock, call, calls>>
    BY <1>2 DEF HumanActs, vars, AttachedIpc, Alive
  <2>2. Pending
    BY <2>1 DEF SwitchInv
  <2> QED
    BY <2>1, <2>2 DEF Pending, Awaited
<1>3. ~(\/ WorkerDies \/ ControllerRestarts \/ ReapDeadWorkers \/ ReconcileRehydratedSessions
        \/ RegisterPersistedSession \/ HandleStop \/ OrphanBreaks)
  BY DEF AttachedIpc, Alive, WorkerDies, ControllerRestarts, ReapDeadWorkers, Forget,
    ReconcileRehydratedSessions, RegisterPersistedSession, HandleStop, OrphanBreaks
<1> QED
  BY <1>1, <1>2, <1>3

\* No call attaches a worker.
LEMMA AttachedBefore ==
  ASSUME Base, NEW c \in Client, NewCall(c) \/ ClientStep(c), AttachedIpc'
  PROVE  AttachedIpc
<1>1. CASE NewCall(c)
  BY <1>1, NewCallStarts DEF Starts, childVars, AttachedIpc, Alive
<1>2. CASE ClientStep(c)
  BY <1>2 DEF ClientStep, AdmitTask, WriteTask, EnterRead, TakeLine, TimeOut, Account,
    MarkInterrupted, SaveStatus, CommitSwitch, AbortSwitch, EndTerminate, Forget,
    AttachedIpc, Alive, ctlVars, childVars
<1> QED
  BY <1>1, <1>2

LEMMA SwitchNext == SwitchInv /\ [Next]_vars => SwitchInv'
<1> SUFFICES ASSUME SwitchInv, [Next]_vars PROVE SwitchInv'
  OBVIOUS
<1>1. Base' /\ LocksAreReleased' /\ Numbered'
  BY BaseNext, LocksNext, NumberedNext DEF SwitchInv
<1>2. ASSUME AttachedIpc' PROVE Pending'
  <2>1. ASSUME NEW c \in Client, NewCall(c) \/ ClientStep(c)
        PROVE  Pending'
    <3>2. Base
      BY DEF SwitchInv
    <3>1. AttachedIpc
      BY <1>2, <2>1, <3>2, AttachedBefore
    <3> QED
      BY <1>2, <2>1, <3>1, <3>2, NewCallStarts, ClientGoesOn, PendingBegin, PendingGoesOn
  <2>2. CASE \/ ReadStdin \/ HandleControl \/ DenyTask \/ StartTask \/ StartCommand
             \/ CancelTask \/ FinishTask
    <3>1. AttachedIpc
      BY <1>2, <2>2 DEF AttachedIpc, Alive, ReadStdin, HandleControl, DenyTask, StartTask,
        StartCommand, CancelTask, FinishTask, ctlVars
    <3> QED
      BY <2>2, <3>1, PendingChild
  <2> QED
    BY <1>2, <2>1, <2>2, Steps, PendingOther
<1> QED
  BY <1>1, <1>2 DEF SwitchInv

LEMMA SwitchInit == Init => SwitchInv
BY BaseInit, LocksInit DEF Init, SwitchInv, Numbered, AttachedIpc

(***************************************************************************)
(* Once switch_worker_harness has returned or raised, an attached worker   *)
(* has no RECONFIGURE left to apply, whatever timed out and however late   *)
(* the child reads its messages.                                           *)
(***************************************************************************)
THEOREM NoLateReconfigure == Spec => []NoDelayedReconfigure
<1>1. SwitchInv => NoDelayedReconfigure
  <2> SUFFICES ASSUME SwitchInv, AttachedIpc, lock = Nobody, NEW m \in ToSet(stdin) \cup ToSet(inbox)
               PROVE  m.command # "RECONFIGURE"
    BY DEF NoDelayedReconfigure
  <2>1. m \in MessageSet
    BY DEF SwitchInv, Base, IpcTypeOK, ToSet
  <2> QED
    BY <2>1 DEF SwitchInv, Pending, Awaited, SwitchSet
<1> QED
  BY <1>1, SwitchInit, SwitchNext, PTL DEF Spec

-----------------------------------------------------------------------------
(* The ticket of an approval is in one place, until its command is started *)
(* or it is lost: with a call before its write, in a pipe, or ready to be  *)
(* started.  It is there only for a consumed approval whose command has    *)
(* not been started, so it cannot be issued or used again.                 *)

TicketSet(a) == {m \in TaskSet : m.action = a}

Carries(c, a) == call[c] # Quiet /\ call[c].at \in {"admit", "write"} /\ call[c].action = a
Ready(a) == running # Quiet /\ running.at = "ready" /\ running.action = a

\* The ticket of a is at p; w is the thread that has it when p is "call".
Ticket(a, p, w) ==
  /\ \A c \in Client : Carries(c, a) => p = "call" /\ w = c
  /\ OneIn(stdin, TicketSet(a)) /\ OneIn(inbox, TicketSet(a))
  /\ \A m \in ToSet(stdin) : m \in TicketSet(a) => p = "stdin"
  /\ \A m \in ToSet(inbox) : m \in TicketSet(a) => p = "inbox"
  /\ Ready(a) => p = "running"
  /\ p # "none" => a \in consumed /\ executed[a] = 0
  /\ executed[a] \in {0, 1} /\ (executed[a] = 1 => a \in consumed)

HasTicket(a) ==
  \E p \in {"none", "call", "stdin", "inbox", "running"}, w \in Client \cup {Nobody} : Ticket(a, p, w)

TicketsInOnePlace == \A a \in Action : HasTicket(a)

\* A ticket stays where it is, or is lost.
LEMMA TicketStays ==
  ASSUME NEW a \in Action, HasTicket(a),
         \A c \in Client : Carries(c, a)' => Carries(c, a),
         NoNew(stdin, stdin', TicketSet(a)), NoNew(inbox, inbox', TicketSet(a)),
         Ready(a)' => Ready(a), consumed \subseteq consumed', executed'[a] = executed[a]
  PROVE  HasTicket(a)'
<1>1. PICK p \in {"none", "call", "stdin", "inbox", "running"}, w \in Client \cup {Nobody} : Ticket(a, p, w)
  BY DEF HasTicket
<1>2. /\ OneIn(stdin', TicketSet(a)) /\ OneIn(inbox', TicketSet(a))
      /\ \A m \in ToSet(stdin') : m \in TicketSet(a) => p = "stdin"
      /\ \A m \in ToSet(inbox') : m \in TicketSet(a) => p = "inbox"
  BY <1>1 DEF Ticket, NoNew
<1>3. Ticket(a, p, w)'
  BY <1>1, <1>2 DEF Ticket
<1> QED
  BY <1>3 DEF HasTicket

\* The process, the controller and the human: tickets are lost, none is made.
LEMMA TicketOther ==
  ASSUME Base, TicketsInOnePlace,
         \/ SpawnWorker \/ WorkerDies \/ ControllerRestarts \/ ReapDeadWorkers
         \/ ReconcileRehydratedSessions \/ RegisterPersistedSession \/ HumanActs
         \/ HandleStop \/ OrphanBreaks \/ UNCHANGED vars
  PROVE  TicketsInOnePlace'
<1> USE DEF ctlVars, childVars, boundVars, auxVars, approvalVars
<1> SUFFICES ASSUME NEW a \in Action PROVE HasTicket(a)'
  BY DEF TicketsInOnePlace
<1>1. /\ HasTicket(a) /\ stdin \in Seq(MessageSet) /\ inbox \in Seq(MessageSet)
      /\ call \in [Client -> CallSet \cup {Quiet}]
  BY DEF TicketsInOnePlace, Base, IpcTypeOK
<1>2. stdin' = <<>> \/ stdin' = stdin \/ stdin' = Append(stdin, Plain("EOF"))
  BY DEF SpawnWorker, WorkerDies, ControllerRestarts, ReapDeadWorkers, ReconcileRehydratedSessions,
    RegisterPersistedSession, HumanActs, HandleStop, OrphanBreaks, ChildGone, vars
<1>3. /\ inbox' = <<>> \/ inbox' = inbox
      /\ running' = Quiet \/ running' = running
      /\ consumed' = consumed /\ executed' = executed
  BY DEF SpawnWorker, WorkerDies, ControllerRestarts, ReapDeadWorkers, ReconcileRehydratedSessions,
    RegisterPersistedSession, HumanActs, HandleStop, OrphanBreaks, ChildGone, AuthorityLost,
    ApprovalStep, RequestCommandApproval, ResolveByHuman, ExpireIfNeeded, vars
<1>4. call' = call \/ call' = [c \in Client |-> Quiet]
  BY DEF SpawnWorker, WorkerDies, ControllerRestarts, ReapDeadWorkers, ReconcileRehydratedSessions,
    RegisterPersistedSession, HumanActs, HandleStop, OrphanBreaks, vars
<1>5. Plain("EOF") \in MessageSet /\ Plain("EOF") \notin TicketSet(a)
  BY MessagesAre DEF TicketSet, TaskSet
<1>6. NoNew(stdin, stdin', TicketSet(a)) /\ NoNew(inbox, inbox', TicketSet(a))
  BY <1>1, <1>2, <1>3, <1>5, NoNewIn
<1>7. \A c \in Client : Carries(c, a)' => Carries(c, a)
  BY <1>4 DEF Carries
<1>8. Ready(a)' => Ready(a)
  BY <1>3 DEF Ready
<1> QED
  BY <1>1, <1>3, <1>6, <1>7, <1>8, TicketStays

\* A ticket is issued only for an approval that has not been consumed.
LEMMA TicketBegin ==
  ASSUME Base, TicketsInOnePlace, NEW c \in Client, NEW k, Starts(c, k)
  PROVE  TicketsInOnePlace'
<1> USE DEF childVars, approvalVars
<1> SUFFICES ASSUME NEW a \in Action PROVE HasTicket(a)'
  BY DEF TicketsInOnePlace
<1>1. /\ HasTicket(a) /\ stdin \in Seq(MessageSet) /\ inbox \in Seq(MessageSet)
      /\ call \in [Client -> CallSet \cup {Quiet}]
      /\ call' = [call EXCEPT ![c] = k] /\ call[c] = Quiet /\ k # Quiet
      /\ UNCHANGED <<inbox, running, executed>>
  BY DEF TicketsInOnePlace, Base, IpcTypeOK, Starts
<1>2. UNCHANGED stdin \/ \E m \in MessageSet : m \notin TaskSet /\ stdin' = Append(stdin, m)
  BY MessagesAre DEF Starts, BeginTask, BeginSwitch, BeginInterrupt, Send, TaskSet, Base, IpcTypeOK
<1>3. NoNew(stdin, stdin', TicketSet(a)) /\ NoNew(inbox, inbox', TicketSet(a))
  <2>1. \A m \in MessageSet : m \notin TaskSet => m \notin TicketSet(a)
    BY DEF TicketSet
  <2>2. NoNew(inbox, inbox', TicketSet(a))
    <3>1. NoNew(inbox, inbox, TicketSet(a))
      BY <1>1, NoNewIn
    <3> QED
      BY <1>1, <3>1
  <2>3. CASE UNCHANGED stdin
    <3>1. NoNew(stdin, stdin, TicketSet(a))
      BY <1>1, NoNewIn
    <3> QED
      BY <2>2, <2>3, <3>1
  <2>4. CASE \E m \in MessageSet : m \notin TaskSet /\ stdin' = Append(stdin, m)
    <3>1. PICK m \in MessageSet : m \notin TaskSet /\ stdin' = Append(stdin, m)
      BY <2>4
    <3>2. NoNew(stdin, Append(stdin, m), TicketSet(a))
      BY <1>1, <2>1, <3>1, NoNewIn
    <3> QED
      BY <2>2, <3>1, <3>2
  <2> QED
    BY <1>2, <2>3, <2>4
<1>4. Ready(a)' <=> Ready(a)
  BY <1>1 DEF Ready
<1>5. consumed \subseteq consumed'
  BY DEF Starts, BeginTask, BeginSwitch, BeginInterrupt, VerifyAndConsume
<1>6. CASE k.at = "admit" /\ k.action = a
  <2>1. a \notin consumed /\ consumed' = consumed \cup {a} /\ UNCHANGED stdin
    BY <1>6, IpcAssumption DEF Starts, BeginTask, VerifyAndConsume
  <2>2. PICK p \in {"none", "call", "stdin", "inbox", "running"}, w \in Client \cup {Nobody} : Ticket(a, p, w)
    BY <1>1 DEF HasTicket
  <2>3. p = "none" /\ executed[a] = 0
    BY <2>1, <2>2 DEF Ticket
  <2>4. \A d \in Client : Carries(d, a)' => d = c
    BY <1>1, <2>2, <2>3 DEF Ticket, Carries
  <2>5. Ticket(a, "call", c)'
    BY <1>1, <1>4, <2>1, <2>2, <2>3, <2>4 DEF Ticket
  <2> QED
    BY <2>5 DEF HasTicket
<1>7. CASE ~(k.at = "admit" /\ k.action = a)
  <2>1. k.at # "write"
    BY DEF Starts
  <2>2. \A d \in Client : Carries(d, a)' => Carries(d, a)
    BY <1>1, <1>7, <2>1 DEF Carries
  <2> QED
    BY <1>1, <1>3, <1>4, <1>5, <2>2, TicketStays
<1> QED
  BY <1>6, <1>7

\* A call hands its ticket to the pipe, or drops it.
LEMMA TicketGoesOn ==
  ASSUME Base, TicketsInOnePlace, NEW c \in Client, NEW k, GoesOn(c, k)
  PROVE  TicketsInOnePlace'
<1> USE DEF ctlVars, childVars, boundVars, auxVars, approvalVars
<1> SUFFICES ASSUME NEW a \in Action PROVE HasTicket(a)'
  BY DEF TicketsInOnePlace
<1>1. /\ HasTicket(a) /\ stdin \in Seq(MessageSet) /\ inbox \in Seq(MessageSet)
      /\ call \in [Client -> CallSet \cup {Quiet}]
      /\ call[c] # Quiet /\ call[c] \in CallSet /\ WellFormed(call[c])
      /\ call' = [call EXCEPT ![c] = k]
  BY DEF TicketsInOnePlace, Base, IpcTypeOK, GoesOn
<1>2. /\ inbox' = <<>> \/ inbox' = inbox
      /\ running' = Quiet \/ running' = running
      /\ consumed' = consumed /\ executed' = executed
  BY DEF GoesOn, AdmitTask, WriteTask, EnterRead, TakeLine, TimeOut, Account, MarkInterrupted,
    SaveStatus, CommitSwitch, AbortSwitch, EndTerminate, ChildGone
<1>3. NoNew(inbox, inbox', TicketSet(a)) /\ (Ready(a)' => Ready(a))
  BY <1>1, <1>2, NoNewIn DEF Ready
<1>4. \A d \in Client : Carries(d, a)' => Carries(d, a)
  <2>1. k # Quiet /\ k.at \in {"admit", "write"} => call[c].at = "admit" /\ k.action = call[c].action
    BY DEF GoesOn
  <2> QED
    BY <1>1, <2>1 DEF Carries
<1>5. CASE ~(WriteTask(c) /\ AttachedIpc /\ call[c].action = a)
  <2>1. \/ stdin' = <<>> \/ stdin' = stdin \/ stdin' = Append(stdin, Plain("STOP"))
        \/ /\ call[c].at = "write" /\ call[c].action # a
           /\ stdin' = Append(stdin, TaskMsg(call[c].task, call[c].action, call[c].n))
    BY <1>5 DEF GoesOn, AdmitTask, WriteTask, EnterRead, TakeLine, TimeOut, Account, MarkInterrupted,
      SaveStatus, CommitSwitch, AbortSwitch, EndTerminate, ChildGone
  <2>2. Plain("STOP") \in MessageSet /\ Plain("STOP") \notin TicketSet(a)
    BY MessagesAre DEF TicketSet, TaskSet
  <2>3. ASSUME call[c].at = "write", call[c].action # a
        PROVE  /\ TaskMsg(call[c].task, call[c].action, call[c].n) \in MessageSet
               /\ TaskMsg(call[c].task, call[c].action, call[c].n) \notin TicketSet(a)
    <3>1. call[c].task \in Task /\ call[c].action \in Action \cup {NoAction} /\ call[c].n \in Nat
      BY <1>1, <2>3 DEF WellFormed, CallSet
    <3> QED
      BY <2>3, <3>1 DEF TaskMsg, MessageSet, TicketSet
  <2>4. NoNew(stdin, stdin', TicketSet(a))
    BY <1>1, <2>1, <2>2, <2>3, NoNewIn
  <2> QED
    BY <1>1, <1>2, <1>3, <1>4, <2>4, TicketStays
<1>6. CASE WriteTask(c) /\ AttachedIpc /\ call[c].action = a
  <2>0. PICK m : m = TaskMsg(call[c].task, call[c].action, call[c].n)
    OBVIOUS
  <2>1. call[c].at = "write" /\ stdin' = Append(stdin, m)
    BY <1>6, <2>0 DEF WriteTask, At
  <2>2. m \in MessageSet /\ m \in TicketSet(a)
    <3>1. call[c].task \in Task /\ call[c].action \in Action \cup {NoAction} /\ call[c].n \in Nat
      BY <1>1, <2>1 DEF WellFormed, CallSet
    <3> QED
      BY <1>6, <2>0, <3>1 DEF TaskMsg, MessageSet, TicketSet, TaskSet
  <2>3. PICK p \in {"none", "call", "stdin", "inbox", "running"}, w \in Client \cup {Nobody} : Ticket(a, p, w)
    BY <1>1 DEF HasTicket
  <2>4. p = "call" /\ w = c
    BY <1>1, <1>6, <2>1, <2>3 DEF Ticket, Carries
  <2>5. ToSet(stdin) \cap TicketSet(a) = {} /\ ToSet(inbox) \cap TicketSet(a) = {} /\ ~Ready(a)
    BY <2>3, <2>4 DEF Ticket
  <2>6. OneIn(stdin', TicketSet(a))
    BY <1>1, <2>1, <2>2, <2>3, <2>5, OneInAppend DEF Ticket
  <2>7. \A d \in Client : ~Carries(d, a)'
    <3>1. k = Quiet \/ k.at = "wait"
      BY <1>6, <2>1 DEF GoesOn
    <3> QED
      BY <1>1, <2>3, <2>4, <3>1 DEF Ticket, Carries
  <2>8. OneIn(inbox', TicketSet(a)) /\ ToSet(inbox') \cap TicketSet(a) = {}
    BY <1>3, <2>3, <2>5 DEF NoNew, Ticket
  <2>9. Ticket(a, "stdin", w)'
    BY <1>2, <1>3, <2>3, <2>4, <2>5, <2>6, <2>7, <2>8 DEF Ticket
  <2> QED
    BY <2>9 DEF HasTicket
<1> QED
  BY <1>5, <1>6

\* The child takes the ticket from pipe to pipe, and uses it up.
LEMMA TicketChild ==
  ASSUME Base, TicketsInOnePlace,
         \/ ReadStdin \/ HandleControl \/ DenyTask \/ StartTask \/ StartCommand
         \/ CancelTask \/ FinishTask
  PROVE  TicketsInOnePlace'
<1> USE DEF ctlVars, auxVars, approvalVars
<1> SUFFICES ASSUME NEW a \in Action PROVE HasTicket(a)'
  BY DEF TicketsInOnePlace
<1>1. /\ HasTicket(a) /\ stdin \in Seq(MessageSet) /\ inbox \in Seq(MessageSet)
      /\ executed \in [Action -> Nat]
  BY DEF TicketsInOnePlace, Base, IpcTypeOK
<1>2. PICK p \in {"none", "call", "stdin", "inbox", "running"}, w \in Client \cup {Nobody} : Ticket(a, p, w)
  BY <1>1 DEF HasTicket
<1>3. consumed' = consumed /\ call' = call
  BY DEF ReadStdin, HandleControl, DenyTask, StartTask, StartCommand, CancelTask, FinishTask
<1>4. \A c \in Client : Carries(c, a)' <=> Carries(c, a)
  BY <1>3 DEF Carries
<1>5. CASE ReadStdin
  <2>0. PICK m : m = Head(stdin)
    OBVIOUS
  <2>1. stdin # <<>> /\ stdin' = Tail(stdin) /\ inbox' = Append(inbox, m) /\ UNCHANGED executed
    BY <1>5, <2>0 DEF ReadStdin
  <2>2. m \in MessageSet /\ m \in ToSet(stdin)
    BY <1>1, <2>0, <2>1, TailKeeps
  <2>3. NoNew(stdin, stdin', TicketSet(a))
    BY <1>1, <2>1, NoNewIn
  <2>4. Ready(a)' => Ready(a)
    BY <1>5 DEF ReadStdin, Ready, Base, IpcTypeOK, RunSet
  <2>5. CASE m \notin TicketSet(a)
    <3>1. NoNew(inbox, inbox', TicketSet(a))
      BY <1>1, <2>1, <2>2, <2>5, NoNewIn
    <3> QED
      BY <1>1, <1>3, <1>4, <2>1, <2>3, <2>4, <3>1, TicketStays
  <2>6. CASE m \in TicketSet(a)
    <3>1. p = "stdin"
      BY <1>2, <2>2, <2>6 DEF Ticket
    <3>2. ToSet(inbox) \cap TicketSet(a) = {} /\ OneIn(inbox, TicketSet(a)) /\ ~Ready(a)
      BY <1>2, <3>1 DEF Ticket
    <3>3. OneIn(inbox', TicketSet(a))
      BY <1>1, <2>1, <2>2, <3>2, OneInAppend
    <3>4. ToSet(stdin') \cap TicketSet(a) = {} /\ OneIn(stdin', TicketSet(a))
      BY <1>1, <1>2, <2>0, <2>1, <2>6, OneInTail DEF Ticket
    <3>5. Ticket(a, "inbox", w)'
      BY <1>2, <1>3, <1>4, <2>1, <2>4, <3>1, <3>2, <3>3, <3>4 DEF Ticket
    <3> QED
      BY <3>5 DEF HasTicket
  <2> QED
    BY <2>5, <2>6
<1>6. CASE HandleControl \/ DenyTask
  <2>1. /\ inbox # <<>> /\ inbox' = Tail(inbox) /\ UNCHANGED <<stdin, running, executed>>
    BY <1>6 DEF HandleControl, DenyTask, Takes
  <2>2. NoNew(stdin, stdin', TicketSet(a)) /\ NoNew(inbox, inbox', TicketSet(a))
    BY <1>1, <2>1, NoNewIn
  <2>3. Ready(a)' <=> Ready(a)
    BY <2>1 DEF Ready
  <2> QED
    BY <1>1, <1>3, <1>4, <2>1, <2>2, <2>3, TicketStays
<1>7. CASE StartTask
  <2>0. PICK m : m = Head(inbox)
    OBVIOUS
  <2>1. /\ inbox # <<>> /\ inbox' = Tail(inbox) /\ UNCHANGED <<stdin, executed>>
        /\ m.command = "TASK" /\ running = Quiet /\ running'.action = m.action
    BY <1>7, <2>0 DEF StartTask, Takes, Begin
  <2>2. m \in TaskSet /\ m \in ToSet(inbox)
    BY <1>1, <2>0, <2>1, TailKeeps DEF TaskSet
  <2>3. NoNew(stdin, stdin', TicketSet(a)) /\ NoNew(inbox, inbox', TicketSet(a))
    BY <1>1, <2>1, NoNewIn
  <2>4. CASE m.action # a
    <3>1. ~Ready(a)'
      BY <2>1, <2>4 DEF Ready
    <3> QED
      BY <1>1, <1>3, <1>4, <2>1, <2>3, <3>1, TicketStays
  <2>5. CASE m.action = a
    <3>1. m \in TicketSet(a)
      BY <2>2, <2>5 DEF TicketSet
    <3>2. p = "inbox"
      BY <1>2, <2>2, <3>1 DEF Ticket
    <3>3. ToSet(inbox') \cap TicketSet(a) = {} /\ OneIn(inbox', TicketSet(a))
      BY <1>1, <1>2, <2>0, <2>1, <3>1, OneInTail DEF Ticket
    <3>4. Ticket(a, "running", w)'
      BY <1>2, <1>3, <1>4, <2>1, <3>2, <3>3 DEF Ticket
    <3> QED
      BY <3>4 DEF HasTicket
  <2> QED
    BY <2>4, <2>5
<1>8. CASE StartCommand
  <2>1. /\ UNCHANGED <<stdin, inbox>> /\ running # Quiet /\ running.at = "ready"
        /\ running' = [running EXCEPT !.at = "run"]
        /\ executed' = [executed EXCEPT ![running.action] = @ + 1]
    BY <1>8 DEF StartCommand
  <2>2. running.action \in Action /\ ~Ready(a)'
    BY <2>1, RunFields DEF Ready, RunSet
  <2>3. NoNew(stdin, stdin', TicketSet(a)) /\ NoNew(inbox, inbox', TicketSet(a))
    BY <1>1, <2>1, NoNewIn
  <2>4. CASE running.action # a
    BY <1>1, <1>3, <1>4, <2>1, <2>2, <2>3, <2>4, TicketStays
  <2>5. CASE running.action = a
    <3>1. p = "running" /\ a \in consumed /\ executed[a] = 0
      BY <1>2, <2>1, <2>5 DEF Ticket, Ready
    <3>2. executed'[a] = 1
      BY <1>1, <2>1, <2>5, <3>1
    <3>3. Ticket(a, "none", w)'
      BY <1>2, <1>3, <1>4, <2>1, <2>2, <3>1, <3>2 DEF Ticket
    <3> QED
      BY <3>3 DEF HasTicket
  <2> QED
    BY <2>4, <2>5
<1>9. CASE CancelTask \/ FinishTask
  <2>1. UNCHANGED <<stdin, inbox, executed>> /\ running' = Quiet
    BY <1>9 DEF CancelTask, FinishTask
  <2>2. NoNew(stdin, stdin', TicketSet(a)) /\ NoNew(inbox, inbox', TicketSet(a)) /\ ~Ready(a)'
    BY <1>1, <2>1, NoNewIn DEF Ready
  <2> QED
    BY <1>1, <1>3, <1>4, <2>1, <2>2, TicketStays
<1> QED
  BY <1>5, <1>6, <1>7, <1>8, <1>9

LEMMA TicketInit == Init => TicketsInOnePlace
<1> SUFFICES ASSUME Init, NEW a \in Action PROVE HasTicket(a)
  BY DEF TicketsInOnePlace
<1>1. Ticket(a, "none", Nobody)
  BY EmptyHasNone DEF Init, ApprovalInit, Ticket, Carries, Ready
<1> QED
  BY <1>1 DEF HasTicket

LEMMA TicketNext == Base /\ TicketsInOnePlace /\ [Next]_vars => TicketsInOnePlace'
<1> SUFFICES ASSUME Base, TicketsInOnePlace, [Next]_vars PROVE TicketsInOnePlace'
  OBVIOUS
<1>1. ASSUME NEW c \in Client, NewCall(c) \/ ClientStep(c)
      PROVE  TicketsInOnePlace'
  BY <1>1, NewCallStarts, ClientGoesOn, TicketBegin, TicketGoesOn
<1> QED
  BY <1>1, Steps, TicketChild, TicketOther

LEMMA TicketAlways == Spec => [](Base /\ TicketsInOnePlace)
BY BaseInit, BaseNext, TicketInit, TicketNext, PTL DEF Spec

(***************************************************************************)
(* A command runs only on a consumed approval and at most once per         *)
(* approval, over all the processes the worker has had.                    *)
(***************************************************************************)
THEOREM CommandsOnce == Spec => []CommandsRunOnce
<1>1. Base /\ TicketsInOnePlace => CommandsRunOnce
  BY DEF TicketsInOnePlace, HasTicket, Ticket, CommandsRunOnce
<1> QED
  BY <1>1, TicketAlways, PTL

-----------------------------------------------------------------------------
(* Authority, tickets and worker implement the one-shot approval.          *)

\* What happens to one approval, b standing for all the others.
LEMMA StatusSame ==
  ASSUME Base, NEW b \in Action, act'[b] = act[b], b \in consumed' <=> b \in consumed,
         executed'[b] = executed[b]
  PROVE  StatusOf(b)' = StatusOf(b)
<1>1. act[b] \in ActionState
  BY DEF Base, IpcTypeOK, ApprovalTypeOK
<1>2. CASE b \in consumed
  BY <1>2 DEF StatusOf
<1>3. CASE b \notin consumed /\ act[b] = "UNKNOWN"
  BY <1>3 DEF StatusOf
<1>4. CASE b \notin consumed /\ act[b] \in {"BLOCKED", "APPROVED", "REJECTED", "EXPIRED", "LOST"}
  BY <1>4 DEF StatusOf
<1> QED
  BY <1>1, <1>2, <1>3, <1>4 DEF ActionState

\* The human asks, grants or closes.
LEMMA HumanStatus ==
  ASSUME Base, HumanActs
  PROVE  \E a \in Action :
           /\ \A b \in Action : b # a => StatusOf(b)' = StatusOf(b)
           /\ \/ StatusOf(a)' = StatusOf(a)
              \/ StatusOf(a) = "unasked" /\ StatusOf(a)' = "open"
              \/ StatusOf(a) = "open" /\ StatusOf(a)' = "granted"
              \/ StatusOf(a) \in {"open", "granted"} /\ StatusOf(a)' = "closed"
<1>1. UNCHANGED <<consumed, executed>>
  BY DEF HumanActs, ApprovalStep, RequestCommandApproval, ResolveByHuman, ExpireIfNeeded, auxVars
<1>2. PICK a \in Action, st \in ActionState :
        /\ act' = [act EXCEPT ![a] = st]
        /\ \/ act[a] = "UNKNOWN" /\ st = "BLOCKED"
           \/ act[a] = "BLOCKED" /\ st \in {"APPROVED", "REJECTED", "EXPIRED"}
           \/ act[a] = "APPROVED" /\ st = "EXPIRED"
  BY DEF HumanActs, ApprovalStep, RequestCommandApproval, ResolveByHuman, Resolvable, ExpireIfNeeded,
    ActionState
<1>3. act \in [Action -> ActionState]
  BY DEF Base, IpcTypeOK, ApprovalTypeOK
<1>4. \A b \in Action : b # a => StatusOf(b)' = StatusOf(b)
  BY <1>1, <1>2, <1>3, StatusSame
<1>5. CASE a \in consumed
  <2>1. StatusOf(a)' = StatusOf(a)
    BY <1>1, <1>5 DEF StatusOf
  <2> QED
    BY <1>4, <2>1
<1>6. CASE a \notin consumed
  <2>1. act'[a] = st
    BY <1>2, <1>3
  <2>2. \/ StatusOf(a) = "unasked" /\ StatusOf(a)' = "open"
        \/ StatusOf(a) = "open" /\ StatusOf(a)' = "granted"
        \/ StatusOf(a) \in {"open", "granted"} /\ StatusOf(a)' = "closed"
    BY <1>1, <1>2, <1>6, <2>1 DEF StatusOf
  <2> QED
    BY <1>4, <2>2
<1> QED
  BY <1>5, <1>6

\* A restart closes all the requests that are open or granted.
LEMMA RestartStatus ==
  ASSUME Base, ControllerRestarts
  PROVE  \A a \in Action :
           \/ StatusOf(a)' = StatusOf(a)
           \/ StatusOf(a) \in {"open", "granted"} /\ StatusOf(a)' = "closed"
<1>1. /\ UNCHANGED <<consumed, executed>> /\ act \in [Action -> ActionState]
      /\ act' = [a \in Action |-> IF act[a] = "UNKNOWN" THEN "UNKNOWN" ELSE "LOST"]
  BY DEF ControllerRestarts, AuthorityLost, auxVars, Base, IpcTypeOK, ApprovalTypeOK
<1> SUFFICES ASSUME NEW a \in Action
             PROVE  \/ StatusOf(a)' = StatusOf(a)
                    \/ StatusOf(a) \in {"open", "granted"} /\ StatusOf(a)' = "closed"
  OBVIOUS
<1>2. act'[a] = IF act[a] = "UNKNOWN" THEN "UNKNOWN" ELSE "LOST"
  BY <1>1
<1>3. CASE a \in consumed
  BY <1>1, <1>3 DEF StatusOf
<1>4. CASE a \notin consumed /\ act[a] = "UNKNOWN"
  BY <1>1, <1>2, <1>4 DEF StatusOf
<1>5. CASE a \notin consumed /\ act[a] \in {"BLOCKED", "APPROVED", "REJECTED", "EXPIRED", "LOST"}
  BY <1>1, <1>2, <1>5 DEF StatusOf
<1> QED
  BY <1>1, <1>3, <1>4, <1>5 DEF ActionState

\* A ticket spends the grant, the start of its command uses it up.
LEMMA TicketStatus ==
  ASSUME Base, TicketsInOnePlace, StartCommand \/ \E c \in Client : \E k : Starts(c, k)
  PROVE  \/ \A a \in Action : StatusOf(a)' = StatusOf(a)
         \/ \E a \in Action :
              /\ \A b \in Action : b # a => StatusOf(b)' = StatusOf(b)
              /\ \/ StatusOf(a) = "granted" /\ StatusOf(a)' = "spent"
                 \/ StatusOf(a) = "spent" /\ StatusOf(a)' = "ticketed"
<1>1. CASE StartCommand
  <2>1. /\ running # Quiet /\ running.at = "ready" /\ UNCHANGED <<act, consumed>>
        /\ executed' = [executed EXCEPT ![running.action] = @ + 1]
    BY <1>1 DEF StartCommand, approvalVars
  <2>2. PICK a \in Action : a = running.action
    BY <2>1, RunFields
  <2>3. executed \in [Action -> Nat] /\ HasTicket(a)
    BY DEF Base, IpcTypeOK, TicketsInOnePlace
  <2>4. a \in consumed /\ executed[a] = 0
    BY <2>1, <2>2, <2>3 DEF HasTicket, Ticket, Ready
  <2>5. executed'[a] = 1 /\ \A b \in Action : b # a => executed'[b] = executed[b]
    BY <2>1, <2>2, <2>3, <2>4
  <2>6. \A b \in Action : b # a => StatusOf(b)' = StatusOf(b)
    BY <2>1, <2>5, StatusSame
  <2>7. StatusOf(a) = "spent" /\ StatusOf(a)' = "ticketed"
    BY <2>1, <2>4, <2>5 DEF StatusOf
  <2> QED
    BY <2>6, <2>7
<1>2. ASSUME NEW c \in Client, NEW k, Starts(c, k)
      PROVE  \/ \A a \in Action : StatusOf(a)' = StatusOf(a)
             \/ \E a \in Action :
                  /\ \A b \in Action : b # a => StatusOf(b)' = StatusOf(b)
                  /\ StatusOf(a) = "granted" /\ StatusOf(a)' = "spent"
  <2>1. /\ UNCHANGED <<act, executed>>
        /\ UNCHANGED consumed \/ \E a \in Action : VerifyAndConsume(a)
    BY <1>2 DEF Starts, BeginTask, BeginSwitch, BeginInterrupt, VerifyAndConsume, approvalVars
  <2>2. CASE UNCHANGED consumed
    BY <2>1, <2>2, StatusSame
  <2>3. ASSUME NEW a \in Action, VerifyAndConsume(a)
        PROVE  /\ \A b \in Action : b # a => StatusOf(b)' = StatusOf(b)
               /\ StatusOf(a) = "granted" /\ StatusOf(a)' = "spent"
    <3>1. a \notin consumed /\ act[a] = "APPROVED" /\ consumed' = consumed \cup {a}
      BY <2>3 DEF VerifyAndConsume
    <3>2. executed[a] = 0
      BY <3>1 DEF TicketsInOnePlace, HasTicket, Ticket
    <3>3. \A b \in Action : b # a => StatusOf(b)' = StatusOf(b)
      BY <2>1, <3>1, StatusSame
    <3>4. StatusOf(a) = "granted"
      BY <3>1 DEF StatusOf
    <3>5. StatusOf(a)' = "spent"
      <4>1. a \in consumed' /\ executed'[a] = 0
        BY <2>1, <3>1, <3>2
      <4> QED
        BY <4>1 DEF StatusOf
    <3> QED
      BY <3>3, <3>4, <3>5
  <2> QED
    BY <2>1, <2>2, <2>3
<1> QED
  BY <1>1, <1>2

\* No other step touches an approval.
LEMMA OtherStatus ==
  ASSUME [Next]_vars, ~HumanActs, ~ControllerRestarts, ~StartCommand, ~\E c \in Client : NewCall(c)
  PROVE  UNCHANGED <<act, consumed, executed>>
<1> USE DEF approvalVars, auxVars
<1>1. ASSUME NEW c \in Client, ClientStep(c)
      PROVE  UNCHANGED <<act, consumed, executed>>
  BY <1>1 DEF ClientStep, AdmitTask, WriteTask, EnterRead, TakeLine, TimeOut, Account,
    MarkInterrupted, SaveStatus, CommitSwitch, AbortSwitch, EndTerminate
<1> QED
  BY <1>1, Steps DEF SpawnWorker, WorkerDies, ReapDeadWorkers, ReconcileRehydratedSessions,
    RegisterPersistedSession, HandleStop, OrphanBreaks, ReadStdin, HandleControl, DenyTask,
    StartTask, CancelTask, FinishTask, vars

(***************************************************************************)
(* The authority, the tickets and the worker together implement one-shot   *)
(* approvals, over restarts of the controller and deaths of the worker: a  *)
(* ticket that is lost at the admission or in a pipe is spent for good.    *)
(***************************************************************************)
THEOREM WorkerIsOneShot == Spec => ImplementsOneShot
<1> DEFINE st == [a \in Action |-> StatusOf(a)]
<1>1. Init => OneShot!Init
  BY DEF Init, ApprovalInit, StatusOf, OneShot!Init
<1>2. Base /\ TicketsInOnePlace /\ [Next]_vars => [OneShot!Next]_st
  <2> SUFFICES ASSUME Base, TicketsInOnePlace, [Next]_vars PROVE OneShot!Next \/ st' = st
    OBVIOUS
  <2>1. CASE \A a \in Action : StatusOf(a)' = StatusOf(a)
    BY <2>1
  <2>2. \A a \in Action : st[a] = StatusOf(a)
    OBVIOUS
  <2>3. ASSUME NEW a \in Action, \A b \in Action : b # a => StatusOf(b)' = StatusOf(b)
        PROVE  st' = [st EXCEPT ![a] = StatusOf(a)']
    BY <2>3
  <2>4. CASE \A a \in Action : \/ StatusOf(a)' = StatusOf(a)
                               \/ StatusOf(a) \in {"open", "granted"} /\ StatusOf(a)' = "closed"
    <3> DEFINE S == {a \in Action : StatusOf(a)' # StatusOf(a)}
    <3>1. OneShot!Close(S)
      BY <2>2, <2>4 DEF OneShot!Close
    <3>2. S \in SUBSET Action
      OBVIOUS
    <3> QED
      BY <3>1, <3>2 DEF OneShot!Next
  <2>5. ASSUME NEW a \in Action, \A b \in Action : b # a => StatusOf(b)' = StatusOf(b),
               \/ StatusOf(a) = "unasked" /\ StatusOf(a)' = "open"
               \/ StatusOf(a) = "open" /\ StatusOf(a)' = "granted"
               \/ StatusOf(a) = "granted" /\ StatusOf(a)' = "spent"
               \/ StatusOf(a) = "spent" /\ StatusOf(a)' = "ticketed"
        PROVE  OneShot!Next
    BY <2>2, <2>3, <2>5 DEF OneShot!Next, OneShot!Ask, OneShot!Grant, OneShot!Spend, OneShot!Ticket,
      OneShot!Move
  <2>6. ASSUME NEW a \in Action, \A b \in Action : b # a => StatusOf(b)' = StatusOf(b),
               StatusOf(a) \in {"open", "granted"}, StatusOf(a)' = "closed"
        PROVE  OneShot!Next \/ st' = st
    BY <2>4, <2>6
  <2>7. CASE HumanActs
    <3>1. PICK a \in Action :
            /\ \A b \in Action : b # a => StatusOf(b)' = StatusOf(b)
            /\ \/ StatusOf(a)' = StatusOf(a)
               \/ StatusOf(a) = "unasked" /\ StatusOf(a)' = "open"
               \/ StatusOf(a) = "open" /\ StatusOf(a)' = "granted"
               \/ StatusOf(a) \in {"open", "granted"} /\ StatusOf(a)' = "closed"
      BY <2>7, HumanStatus
    <3>2. CASE StatusOf(a)' = StatusOf(a)
      BY <2>1, <3>1, <3>2
    <3> QED
      BY <2>5, <2>6, <3>1, <3>2
  <2>8. CASE ControllerRestarts
    BY <2>4, <2>8, RestartStatus
  <2>9. CASE StartCommand \/ \E c \in Client : NewCall(c)
    <3>1. StartCommand \/ \E c \in Client : \E k : Starts(c, k)
      BY <2>9, NewCallStarts
    <3> QED
      BY <2>1, <2>5, <3>1, TicketStatus
  <2>10. CASE ~HumanActs /\ ~ControllerRestarts /\ ~StartCommand /\ ~\E c \in Client : NewCall(c)
    <3>1. UNCHANGED <<act, consumed, executed>>
      BY <2>10, OtherStatus
    <3>2. \A a \in Action : StatusOf(a)' = StatusOf(a)
      BY <3>1, StatusSame
    <3> QED
      BY <2>1, <3>2
  <2> QED
    BY <2>7, <2>8, <2>9, <2>10
<1> QED
  BY <1>1, <1>2, TicketAlways, PTL DEF Spec, ImplementsOneShot, OneShot!Spec

-----------------------------------------------------------------------------
(* Interrupts.  An attempt that an INTERRUPT can still reach, because the  *)
(* event is set or the message is behind the attempt, is one the INTERRUPT *)
(* was written after.                                                      *)

Interrupting == \E m \in ToSet(stdin) : m.command = "INTERRUPT"

\* In s, what comes before an INTERRUPT has its number in S.
Ahead(s, S) ==
  \A i, j \in DOMAIN s :
    i < j /\ s[j].command = "INTERRUPT" /\ s[i] \in TaskSet => s[i].n \in S

AimInv ==
  /\ running # Quiet /\ running.hit => cancel
  /\ running # Quiet /\ (cancel \/ Interrupting) => running.n \in aimed
  /\ Interrupting => \A m \in ToSet(inbox) : m \in TaskSet => m.n \in aimed
  /\ Ahead(stdin, aimed)

LEMMA AheadAppend ==
  ASSUME NEW s \in Seq(MessageSet), NEW S, NEW T, S \subseteq T, Ahead(s, S), NEW m \in MessageSet,
         m.command = "INTERRUPT" => \A x \in ToSet(s) : x \in TaskSet => x.n \in T
  PROVE  Ahead(Append(s, m), T)
<1>1. /\ DOMAIN s = 1 .. Len(s) /\ Len(s) \in Nat
      /\ DOMAIN Append(s, m) = 1 .. Len(s) + 1
      /\ Append(s, m)[Len(s) + 1] = m
      /\ \A i \in 1 .. Len(s) : Append(s, m)[i] = s[i]
  BY LenProperties, AppendProperties
<1> DEFINE t == Append(s, m)
<1> HIDE DEF t
<1>2. ASSUME NEW i \in DOMAIN t, NEW j \in DOMAIN t, i < j, t[j].command = "INTERRUPT", t[i] \in TaskSet
      PROVE  t[i].n \in T
  <2>1. i \in DOMAIN s /\ t[i] = s[i] /\ s[i] \in ToSet(s)
    BY <1>1, <1>2 DEF t, ToSet
  <2>2. CASE j \in DOMAIN s
    BY <1>1, <1>2, <2>1, <2>2 DEF t, Ahead
  <2>3. CASE j = Len(s) + 1
    BY <1>1, <1>2, <2>1, <2>3 DEF t
  <2> QED
    BY <1>1, <1>2, <2>2, <2>3 DEF t
<1> QED
  BY <1>2 DEF Ahead, t

LEMMA AheadTail ==
  ASSUME NEW s \in Seq(MessageSet), s # <<>>, NEW S, Ahead(s, S)
  PROVE  /\ Ahead(Tail(s), S)
         /\ Head(s) \in TaskSet /\ (\E x \in ToSet(Tail(s)) : x.command = "INTERRUPT") => Head(s).n \in S
<1>1. /\ Head(s) = s[1] /\ Len(s) \in Nat \ {0} /\ DOMAIN s = 1 .. Len(s)
      /\ DOMAIN Tail(s) = 1 .. Len(s) - 1
      /\ \A i \in 1 .. Len(s) - 1 : Tail(s)[i] = s[i + 1]
  BY EmptySeq, LenProperties, HeadTailProperties
<1>2. Ahead(Tail(s), S)
  BY <1>1 DEF Ahead
<1>3. ASSUME Head(s) \in TaskSet, NEW j \in DOMAIN Tail(s), Tail(s)[j].command = "INTERRUPT"
      PROVE  Head(s).n \in S
  <2>1. j + 1 \in DOMAIN s /\ 1 \in DOMAIN s /\ 1 < j + 1 /\ s[j + 1].command = "INTERRUPT"
    BY <1>1, <1>3
  <2> QED
    BY <1>1, <1>3, <2>1 DEF Ahead
<1> QED
  BY <1>2, <1>3 DEF ToSet

LEMMA AheadEmpty == \A S : Ahead(<<>>, S)
BY DEF Ahead

\* A message other than INTERRUPT is written, or none; the child does not move.
LEMMA AimWrite ==
  ASSUME Base, AimInv, UNCHANGED <<inbox, running, cancel, aimed>>,
         \/ UNCHANGED stdin
         \/ \E m \in MessageSet : m.command # "INTERRUPT" /\ stdin' = Append(stdin, m)
  PROVE  AimInv'
<1>1. stdin \in Seq(MessageSet)
  BY DEF Base, IpcTypeOK
<1>2. CASE UNCHANGED stdin
  BY <1>2 DEF AimInv, Interrupting
<1>3. ASSUME NEW m \in MessageSet, m.command # "INTERRUPT", stdin' = Append(stdin, m)
      PROVE  AimInv'
  <2>1. ToSet(stdin') = ToSet(stdin) \cup {m}
    BY <1>1, <1>3, AppendAdds
  <2>2. Interrupting' => Interrupting
    BY <1>3, <2>1 DEF Interrupting
  <2>3. Ahead(stdin', aimed')
    BY <1>1, <1>3, AheadAppend DEF AimInv
  <2> QED
    BY <2>2, <2>3 DEF AimInv
<1> QED
  BY <1>2, <1>3

\* A child that is gone can be interrupted no more.
LEMMA AimGone ==
  ASSUME running' = Quiet, stdin' = <<>>
  PROVE  AimInv'
BY EmptyHasNone, AheadEmpty DEF AimInv, Interrupting

LEMMA AimOther ==
  ASSUME Base, AimInv,
         \/ SpawnWorker \/ WorkerDies \/ ControllerRestarts \/ ReapDeadWorkers
         \/ ReconcileRehydratedSessions \/ RegisterPersistedSession \/ HumanActs
         \/ HandleStop \/ OrphanBreaks \/ UNCHANGED vars
  PROVE  AimInv'
<1> USE DEF childVars, auxVars
<1>1. CASE SpawnWorker \/ WorkerDies \/ HandleStop \/ OrphanBreaks
  BY <1>1, AimGone DEF SpawnWorker, WorkerDies, HandleStop, OrphanBreaks, ChildGone
<1>2. CASE ControllerRestarts
  <2>1. Plain("EOF") \in MessageSet /\ Plain("EOF").command # "INTERRUPT"
    BY MessagesAre
  <2> QED
    BY <1>2, <2>1, AimWrite DEF ControllerRestarts
<1>3. CASE \/ ReapDeadWorkers \/ ReconcileRehydratedSessions \/ RegisterPersistedSession
           \/ HumanActs \/ UNCHANGED vars
  BY <1>3, AimWrite DEF ReapDeadWorkers, ReconcileRehydratedSessions, RegisterPersistedSession,
    HumanActs, vars
<1> QED
  BY <1>1, <1>2, <1>3

LEMMA AimBegin ==
  ASSUME Base, AimInv, NEW c \in Client, NEW k, Starts(c, k)
  PROVE  AimInv'
<1> USE DEF childVars, auxVars
<1>1. UNCHANGED <<inbox, running, cancel>> /\ stdin \in Seq(MessageSet) /\ calls + 1 \in Nat
  BY DEF Starts, Base, IpcTypeOK
<1>2. CASE ~BeginInterrupt(c)
  <2>1. /\ UNCHANGED aimed
        /\ \/ UNCHANGED stdin
           \/ \E h \in Harness : stdin' = Append(stdin, Reconfigure(h, calls + 1))
           \/ \E cmd \in {"PING", "STOP"} : stdin' = Append(stdin, Plain(cmd))
    BY <1>2 DEF Starts, BeginTask, BeginSwitch, Send
  <2>2. /\ \A h \in Harness : /\ Reconfigure(h, calls + 1) \in MessageSet
                             /\ Reconfigure(h, calls + 1).command # "INTERRUPT"
        /\ \A cmd \in {"PING", "STOP"} :
             Plain(cmd) \in MessageSet /\ Plain(cmd).command # "INTERRUPT"
    BY <1>1, MessagesAre
  <2>3. UNCHANGED stdin \/ \E m \in MessageSet : m.command # "INTERRUPT" /\ stdin' = Append(stdin, m)
    BY <2>1, <2>2
  <2> QED
    BY <1>1, <2>1, <2>3, AimWrite
<1>3. CASE BeginInterrupt(c)
  <2>1. stdin' = Append(stdin, Plain("INTERRUPT")) /\ aimed' = aimed \cup Unanswered
    BY <1>3 DEF BeginInterrupt, Send
  <2>2. /\ running # Quiet => running.n \in aimed'
        /\ \A m \in ToSet(stdin) \cup ToSet(inbox) : m \in TaskSet => m.n \in aimed'
    BY <2>1 DEF Unanswered, TaskSet
  <2>3. Plain("INTERRUPT") \in MessageSet
    BY MessagesAre
  <2>4. Ahead(stdin', aimed')
    <3>1. aimed \subseteq aimed' /\ Ahead(stdin, aimed)
      BY <2>1 DEF AimInv
    <3> QED
      BY <1>1, <2>1, <2>2, <2>3, <3>1, AheadAppend
  <2> QED
    BY <1>1, <2>2, <2>4 DEF AimInv
<1> QED
  BY <1>2, <1>3

LEMMA AimGoesOn ==
  ASSUME Base, AimInv, NEW c \in Client, NEW k, GoesOn(c, k)
  PROVE  AimInv'
<1> USE DEF childVars, auxVars
<1>1. CASE EndTerminate(c)
  BY <1>1, AimGone DEF EndTerminate, ChildGone
<1>2. CASE ~EndTerminate(c)
  <2>1. /\ UNCHANGED <<inbox, running, cancel, aimed>>
        /\ \/ UNCHANGED stdin
           \/ stdin' = Append(stdin, Plain("STOP"))
           \/ call[c].at = "write" /\ stdin' = Append(stdin, TaskMsg(call[c].task, call[c].action, call[c].n))
    BY <1>2 DEF GoesOn, AdmitTask, WriteTask, EnterRead, TakeLine, TimeOut, Account,
      MarkInterrupted, SaveStatus, CommitSwitch, AbortSwitch
  <2>2. Plain("STOP") \in MessageSet /\ Plain("STOP").command # "INTERRUPT"
    BY MessagesAre
  <2>3. ASSUME call[c].at = "write"
        PROVE  /\ TaskMsg(call[c].task, call[c].action, call[c].n) \in MessageSet
               /\ TaskMsg(call[c].task, call[c].action, call[c].n).command # "INTERRUPT"
    <3>1. call[c].task \in Task /\ call[c].action \in Action \cup {NoAction} /\ call[c].n \in Nat
      BY <2>3 DEF GoesOn, WellFormed, CallSet
    <3> QED
      BY <3>1 DEF TaskMsg, MessageSet
  <2> QED
    BY <2>1, <2>2, <2>3, AimWrite
<1> QED
  BY <1>1, <1>2

\* Answers come from the only attempt of an attached worker: nothing is left.
LEMMA AnswerIsLast ==
  ASSUME Base, WorkInOnePlace, DenyTask \/ CancelTask \/ FinishTask
  PROVE  /\ running' = Quiet
         /\ \A m \in ToSet(stdin') \cup ToSet(inbox') : m \notin TaskSet
<1>1. AttachedIpc
  BY DEF DenyTask, CancelTask, FinishTask, Answer, Emit, Takes, AttachedIpc
<1>2. PICK p \in Place, w \in Client \cup {Nobody} : Work(p, w)
  BY <1>1 DEF WorkInOnePlace
<1>3. stdin \in Seq(MessageSet) /\ inbox \in Seq(MessageSet)
  BY DEF Base, IpcTypeOK
<1>4. CASE DenyTask
  <2>1. /\ inbox # <<>> /\ inbox' = Tail(inbox) /\ running = Quiet /\ running' = running /\ stdin' = stdin
        /\ Head(inbox).command = "TASK"
    BY <1>4 DEF DenyTask, Takes
  <2>2. Head(inbox) \in TaskSet /\ Head(inbox) \in ToSet(inbox)
    BY <1>3, <2>1, TailKeeps DEF TaskSet
  <2>3. p = "inbox" /\ OneIn(inbox, TaskSet)
    BY <1>2, <2>2 DEF Work
  <2>4. ToSet(inbox') \cap TaskSet = {}
    BY <1>3, <2>1, <2>2, <2>3, OneInTail
  <2> QED
    BY <1>2, <2>1, <2>3, <2>4 DEF Work
<1>5. CASE CancelTask \/ FinishTask
  <2>1. running # Quiet /\ running' = Quiet /\ UNCHANGED <<stdin, inbox>>
    BY <1>5 DEF CancelTask, FinishTask
  <2> QED
    BY <1>2, <2>1 DEF Work
<1> QED
  BY <1>4, <1>5

LEMMA AimChild ==
  ASSUME Base, WorkInOnePlace, AimInv,
         \/ ReadStdin \/ HandleControl \/ DenyTask \/ StartTask \/ StartCommand
         \/ CancelTask \/ FinishTask
  PROVE  AimInv'
<1> USE DEF auxVars
<1>1. stdin \in Seq(MessageSet) /\ inbox \in Seq(MessageSet)
  BY DEF Base, IpcTypeOK
<1>2. CASE ReadStdin
  <2>0. PICK m : m = Head(stdin)
    OBVIOUS
  <2>1. /\ stdin # <<>> /\ stdin' = Tail(stdin) /\ inbox' = Append(inbox, m)
        /\ UNCHANGED aimed
    BY <1>2, <2>0 DEF ReadStdin
  <2>2. /\ m \in MessageSet /\ m \in ToSet(stdin) /\ ToSet(stdin') \subseteq ToSet(stdin)
        /\ ToSet(inbox') = ToSet(inbox) \cup {m}
    BY <1>1, <2>0, <2>1, TailKeeps, AppendAdds
  <2>3. Interrupting' => Interrupting
    BY <2>2 DEF Interrupting
  <2>4. Ahead(stdin', aimed') /\ (m \in TaskSet /\ Interrupting' => m.n \in aimed)
    BY <1>1, <2>0, <2>1, AheadTail DEF AimInv, Interrupting
  <2>5. Interrupting' => \A x \in ToSet(inbox') : x \in TaskSet => x.n \in aimed'
    BY <2>1, <2>2, <2>3, <2>4 DEF AimInv
  <2>6. CASE m.command = "INTERRUPT"
    <3>1. Interrupting
      BY <2>2, <2>6 DEF Interrupting
    <3>2. cancel' /\ (running' # Quiet => running # Quiet /\ running'.n = running.n)
      BY <1>2, <2>0, <2>6 DEF ReadStdin, Base, IpcTypeOK, RunSet
    <3> QED
      BY <2>1, <2>4, <2>5, <3>1, <3>2 DEF AimInv
  <2>7. CASE m.command # "INTERRUPT"
    <3>1. cancel' = cancel /\ running' = running
      BY <1>2, <2>0, <2>7 DEF ReadStdin, Base, IpcTypeOK
    <3> QED
      BY <2>1, <2>3, <2>4, <2>5, <3>1 DEF AimInv
  <2> QED
    BY <2>6, <2>7
<1>3. CASE HandleControl
  <2>1. /\ running' = Quiet /\ inbox # <<>> /\ inbox' = Tail(inbox) /\ UNCHANGED <<stdin, aimed>>
    BY <1>3 DEF HandleControl, Takes
  <2>2. ToSet(inbox') \subseteq ToSet(inbox)
    BY <1>1, <2>1, TailKeeps
  <2> QED
    BY <2>1, <2>2 DEF AimInv, Interrupting
<1>4. CASE StartTask
  <2>0. PICK m : m = Head(inbox)
    OBVIOUS
  <2>1. /\ inbox # <<>> /\ inbox' = Tail(inbox) /\ UNCHANGED <<stdin, aimed>>
        /\ m.command = "TASK" /\ running'.n = m.n /\ running'.hit = FALSE /\ cancel' = FALSE
    BY <1>4, <2>0 DEF StartTask, Takes, Begin
  <2>2. ToSet(inbox') \subseteq ToSet(inbox) /\ m \in TaskSet /\ m \in ToSet(inbox)
    BY <1>1, <2>0, <2>1, TailKeeps DEF TaskSet
  <2> QED
    BY <2>1, <2>2 DEF AimInv, Interrupting
<1>5. CASE StartCommand
  <2>1. /\ running # Quiet /\ running' = [running EXCEPT !.at = "run"]
        /\ UNCHANGED <<stdin, inbox, cancel, aimed>>
    BY <1>5 DEF StartCommand
  <2>2. running'.n = running.n /\ running'.hit = running.hit
    BY <2>1 DEF Base, IpcTypeOK, RunSet
  <2> QED
    BY <2>1, <2>2 DEF AimInv, Interrupting
<1>6. CASE DenyTask \/ CancelTask \/ FinishTask
  <2>1. /\ running' = Quiet
        /\ \A m \in ToSet(stdin') \cup ToSet(inbox') : m \notin TaskSet
    BY <1>6, AnswerIsLast
  <2>2. Ahead(stdin', aimed')
    BY <2>1 DEF Ahead, ToSet
  <2> QED
    BY <2>1, <2>2 DEF AimInv
<1> QED
  BY <1>2, <1>3, <1>4, <1>5, <1>6

LEMMA AimInit == Init => AimInv
BY EmptyHasNone, AheadEmpty DEF Init, AimInv, Interrupting

LEMMA AimNext == Base /\ WorkInOnePlace /\ AimInv /\ [Next]_vars => AimInv'
<1> SUFFICES ASSUME Base, WorkInOnePlace, AimInv, [Next]_vars PROVE AimInv'
  OBVIOUS
<1>1. ASSUME NEW c \in Client, NewCall(c) \/ ClientStep(c)
      PROVE  AimInv'
  BY <1>1, NewCallStarts, ClientGoesOn, AimBegin, AimGoesOn
<1> QED
  BY <1>1, Steps, AimChild, AimOther

\* Only the child makes the output longer, by one line.
LEMMA LongerIs ==
  ASSUME Base, [Next]_vars, Len(lines') = Len(lines) + 1
  PROVE  HandleControl \/ DenyTask \/ CancelTask \/ FinishTask
<1>1. lines \in Seq(LineSet) /\ Len(lines) \in Nat
  BY LenProperties DEF Base, IpcTypeOK
<1>2. lines' # lines /\ lines' # <<>> /\ \A i \in 1 .. Len(lines) : lines' # RemoveAt(lines, i)
  <2>1. lines' # lines
    BY <1>1
  <2>2. lines' # <<>>
    <3>1. Len(<<>>) = 0
      BY EmptySeq
    <3> QED
      BY <1>1, <3>1
  <2>3. ASSUME NEW i \in 1 .. Len(lines), lines' = RemoveAt(lines, i)
        PROVE  FALSE
    <3>1. Len(RemoveAt(lines, i)) = Len(lines) - 1
      BY <1>1, RemoveAtKeeps
    <3> QED
      BY <1>1, <2>3, <3>1
  <2> QED
    BY <2>1, <2>2, <2>3
<1>3. ASSUME NEW c \in Client, NewCall(c)
      PROVE  FALSE
  BY <1>2, <1>3, NewCallStarts DEF Starts
<1>4. ASSUME NEW c \in Client, ClientStep(c)
      PROVE  FALSE
  BY <1>2, <1>4 DEF ClientStep, AdmitTask, WriteTask, EnterRead, TakeLine, TimeOut, Account,
    MarkInterrupted, SaveStatus, CommitSwitch, AbortSwitch, EndTerminate, Forget
<1> QED
  BY <1>2, <1>3, <1>4, Steps DEF SpawnWorker, WorkerDies, ControllerRestarts, ReapDeadWorkers, Forget,
    ReconcileRehydratedSessions, RegisterPersistedSession, HumanActs, HandleStop, OrphanBreaks,
    ReadStdin, StartTask, StartCommand, vars

(***************************************************************************)
(* An interrupt hits the task it was sent for, or none: a task that was in *)
(* the main loop when its INTERRUPT was read is CANCELLED, and nothing is  *)
(* CANCELLED by an INTERRUPT that was written before its TASK.             *)
(***************************************************************************)
THEOREM InterruptExact == Spec => InterruptIsExact
<1> DEFINE Exact ==
      \A k \in 1 .. MaxCalls :
        (k \in Unanswered /\ Len(lines') = Len(lines) + 1
           /\ lines'[Len(lines')].type = "RESULT" /\ lines'[Len(lines')].n = k) =>
        LET status == lines'[Len(lines')].status IN
          /\ (running # Quiet /\ running.hit /\ Cancellable) => status = "CANCELLED"
          /\ status = "CANCELLED" => k \in aimed
<1>1. Base /\ AimInv /\ [Next]_vars => Exact
  <2> SUFFICES ASSUME Base, AimInv, [Next]_vars, NEW k \in 1 .. MaxCalls,
                      Len(lines') = Len(lines) + 1,
                      lines'[Len(lines')].type = "RESULT", lines'[Len(lines')].n = k
               PROVE  /\ (running # Quiet /\ running.hit /\ Cancellable) =>
                           lines'[Len(lines')].status = "CANCELLED"
                      /\ lines'[Len(lines')].status = "CANCELLED" => k \in aimed
    OBVIOUS
  <2>1. lines \in Seq(LineSet) /\ used \in Nat /\ used + 1 \in Nat
    BY DEF Base, IpcTypeOK
  <2>2. ASSUME NEW l \in LineSet, Emit(l)
        PROVE  lines'[Len(lines')] = l
    BY <2>1, <2>2, AppendProperties, LenProperties DEF Emit
  <2>3. CASE HandleControl
    <3>1. Head(inbox).n \in Nat
      BY <2>3, NextMessage, MessageFields DEF HandleControl
    <3>2. \E ty \in {"PONG", "INTERRUPTED", "RECONFIGURED"} : Emit(Event(ty, Head(inbox).n))
      BY <2>3 DEF HandleControl, Takes
    <3> QED
      BY <2>2, <3>1, <3>2, LinesAre
  <2>4. CASE DenyTask
    <3>1. Head(inbox).task \in Task /\ Head(inbox).n \in Nat /\ running = Quiet
      BY <2>4, NextMessage, MessageFields DEF DenyTask, Takes
    <3>2. \E tk \in Nat \cup {NoTokens} : Emit(Result(Head(inbox).task, Head(inbox).n, "DENIED", tk))
      BY <2>1, <2>4 DEF DenyTask, Answer
    <3> QED
      BY <2>2, <3>1, <3>2, LinesAre
  <2>5. CASE CancelTask
    <3>1. running # Quiet /\ cancel /\ Emit(Result(running.task, running.n, "CANCELLED", NoTokens))
      BY <2>5 DEF CancelTask, Answer
    <3>2. running.task \in Task /\ running.n \in Nat
      BY <3>1, RunFields
    <3>3. lines'[Len(lines')].n = running.n /\ lines'[Len(lines')].status = "CANCELLED"
      <4>1. PICK l : l = Result(running.task, running.n, "CANCELLED", NoTokens)
        OBVIOUS
      <4>2. l \in LineSet /\ l.n = running.n /\ l.status = "CANCELLED"
        BY <3>2, <4>1 DEF Result, LineSet, ResultSet
      <4> QED
        BY <2>2, <3>1, <4>1, <4>2
    <3> QED
      BY <3>1, <3>3 DEF AimInv
  <2>6. CASE FinishTask
    <3>1. running # Quiet /\ ~(Cancellable /\ cancel)
      BY <2>6 DEF FinishTask
    <3>2. running.task \in Task /\ running.n \in Nat
      BY <3>1, RunFields
    <3>3. \E st \in {"COMPLETED", "FAILED"}, tk \in Nat \cup {NoTokens} :
            Emit(Result(running.task, running.n, st, tk))
      BY <2>1, <2>6 DEF FinishTask, Answer
    <3>4. lines'[Len(lines')].status \in {"COMPLETED", "FAILED"}
      BY <2>2, <3>2, <3>3, LinesAre
    <3> QED
      BY <3>1, <3>4 DEF AimInv
  <2> QED
    BY <2>3, <2>4, <2>5, <2>6, LongerIs
<1>2. Spec => []AimInv
  BY WorkAlways, AimInit, AimNext, PTL DEF Spec
<1> QED
  BY <1>1, <1>2, WorkAlways, PTL DEF Spec, InterruptIsExact
=============================================================================
