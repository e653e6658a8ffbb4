--------------------------- MODULE UnitOfWorkProofs ---------------------------
(***************************************************************************)
(* Proofs about UnitOfWork with one request at a time, for any number of   *)
(* requests, writes per handler, runners and connections: where the runner *)
(* of the field and its statements are at each await, and that the unit of *)
(* work then does what AtomicRequests promises.                            *)
(***************************************************************************)
EXTENDS UnitOfWork, SequenceTheorems, TLAPS

(* A runner that is of no use to anybody: never connected, or given back   *)
(* after its transaction, its connection clean.                            *)
Clean(s) ==
  /\ s.link \in {"unused", "returned", "gone"}
  /\ s.levels = << >> /\ s.queue = << >> /\ ~s.aborted
  /\ s.link = "unused" => s.depth = 0 /\ ~s.released

Idle(q) == Clean(session[q])

AtRest ==
  /\ queryRunner = NoRunner /\ transactionCount = 0
  /\ \A q \in Runners : Idle(q)

RunnerRecord == RunnerType(Runners, Writes, Requests)

Level == [save : Int, writes : SUBSET Writes]

Statements ==
  [kind : {"begin", "save", "write", "commit", "merge", "rollback", "undo"},
   save : Int, writes : SUBSET Writes, on : Runners, by : Requests]

(* The runner of the request under way: at depth d of a transaction with   *)
(* these levels, with these statements under way.                          *)
Runs(s, d, levels, queue) ==
  /\ s \in RunnerRecord
  /\ ~s.released /\ ~s.aborted
  /\ s.depth = d /\ s.levels = levels /\ s.queue = queue

Opened(s, d, levels, queue) == s.link = "held" /\ s.active /\ Runs(s, d, levels, queue)

Fresh(r) == session[target[r]].link \in {"waiting", "held"}
            /\ Runs(session[target[r]], 0, << >>, << >>)

(* It is in a transaction with the writes that have returned.              *)
WrittenBy(r, n) == << [save |-> 0, writes |-> {r} \X (1 .. n)] >>

Open(r, queue) == Opened(session[target[r]], 1, WrittenBy(r, leg[r]), queue)

Active(r) == pc[r] \notin {"absent", "done"}

InHandler(r) == transactionCount = 2 /\ frame[r] = "execute" /\ ~wasOuter[r]

Position(r) ==
  /\ target[r] \in Runners /\ queryRunner = target[r]
  /\ \A q \in Runners \ {target[r]} : Idle(q)
  /\ \/ /\ pc[r] = "connecting" /\ transactionCount = 0 /\ reply[r] = "none"
        /\ frame[r] = "interceptor" /\ leg[r] = 0
        /\ Fresh(r)
     \/ /\ pc[r] = "begin" /\ transactionCount = 0 /\ reply[r] = "none"
        /\ frame[r] = "interceptor" /\ leg[r] = 0
        /\ Opened(session[target[r]], 0, << >>, << Statement("begin", 0, {}, target[r], r) >>)
     \/ /\ pc[r] = "intercepted" /\ transactionCount = 1 /\ reply[r] = "none"
        /\ leg[r] = 0 /\ Open(r, << >>)
     \/ /\ pc[r] = "op" /\ InHandler(r) /\ reply[r] = "none" /\ Open(r, << >>)
     \/ /\ pc[r] = "write" /\ InHandler(r) /\ reply[r] = "none" /\ leg[r] < Legs
        /\ Open(r, << Statement("write", 0, {<<r, leg[r] + 1>>}, target[r], r) >>)
     \/ /\ pc[r] = "returned" /\ transactionCount = 1 /\ reply[r] = "none"
        /\ leg[r] = Legs /\ Open(r, << >>)
     \/ /\ pc[r] = "thrown" /\ transactionCount = 1 /\ reply[r] = "none"
        /\ Open(r, << >>)
     \/ /\ pc[r] = "commit" /\ transactionCount = 0 /\ reply[r] = "ok"
        /\ frame[r] = "interceptor" /\ leg[r] = Legs
        /\ Open(r, << Statement("commit", 0, {}, target[r], r) >>)
     \/ /\ pc[r] = "rollback" /\ transactionCount = 1 /\ reply[r] = "error"
        /\ frame[r] = "interceptor"
        /\ Open(r, << Statement("rollback", 0, {}, target[r], r) >>)

(* Requests that are not under way.                                        *)
Waiting(r) ==
  /\ pc[r] = "absent" => reply[r] = "none" /\ frame[r] = "interceptor" /\ leg[r] = 0
  /\ pc[r] = "done" => reply[r] # "none"

Applied(r) == pc[r] = "done" /\ reply[r] = "ok"

SerialInv ==
  /\ TypeOK
  /\ \A r \in Requests : Waiting(r)
  /\ \A r \in Requests : Active(r) => Position(r)
  /\ \A r, other \in Requests : Active(r) /\ Active(other) => r = other
  /\ Quiescent => AtRest
  /\ durable = {w \in Writes : Applied(w[1])}

-----------------------------------------------------------------------------
(* What the library makes of the runner of one request.                    *)

LEMMA IssuedFirst ==
  ASSUME NEW s, NEW d, NEW levels, Runs(s, d, levels, << >>), NEW st \in Statements,
         NEW t, t = Issue(s, st)
  PROVE  Runs(t, d, levels, << st >>) /\ t.link = s.link /\ t.active = s.active
<1>1. PICK x \in Seq(Statements) : x = << st >>
  <2>1. << st >> \in Seq(Statements)
    OBVIOUS
  <2> QED  BY <2>1
<1>2. t = [s EXCEPT !.queue = x]
  BY <1>1 DEF Issue, Runs
<1> QED  BY <1>1, <1>2 DEF Runs, RunnerRecord, RunnerType, Statements

LEMMA StatementTyped ==
  ASSUME NEW q \in Runners, NEW r \in Requests, NEW w \in SUBSET Writes,
         NEW k \in {"begin", "write", "commit", "rollback"}
  PROVE  /\ Statement(k, 0, w, q, r) \in Statements
         /\ Statement(k, 0, w, q, r).kind = k /\ Statement(k, 0, w, q, r).writes = w
         /\ Statement(k, 0, w, q, r).on = q /\ Statement(k, 0, w, q, r).by = r
BY DEF Statement, Statements

LEMMA IssuedStart ==
  ASSUME NEW s, Runs(s, 0, << >>, << >>), NEW q \in Runners, NEW r \in Requests,
         NEW t, t = IssueStart(s, q, r)
  PROVE  /\ Runs(t, 0, << >>, << Statement("begin", 0, {}, q, r) >>)
         /\ t.link = s.link /\ t.active
<1>1. StartStatement(s, q, r) = Statement("begin", 0, {}, q, r)
  BY DEF StartStatement, Runs
<1>2. PICK u : u = Issue(s, Statement("begin", 0, {}, q, r))
  OBVIOUS
<1>3. Runs(u, 0, << >>, << Statement("begin", 0, {}, q, r) >>) /\ u.link = s.link
  BY <1>2, IssuedFirst, StatementTyped
<1>4. t = [u EXCEPT !.active = TRUE]
  BY <1>1, <1>2 DEF IssueStart
<1> QED  BY <1>3, <1>4 DEF Runs, RunnerRecord, RunnerType

LEMMA IssuedFinish ==
  ASSUME NEW s, NEW levels, Runs(s, 1, levels, << >>), NEW q, NEW r
  PROVE  /\ CommitStatement(s, q, r) = Statement("commit", 0, {}, q, r)
         /\ RollbackStatement(s, q, r) = Statement("rollback", 0, {}, q, r)
BY DEF CommitStatement, RollbackStatement, Runs

(* The answer to the only statement under way takes it off the queue.      *)
LEMMA Dequeued ==
  ASSUME NEW s, NEW st \in Statements, s.queue = << st >>, ~s.aborted,
         st.kind \in {"begin", "write", "commit", "rollback"},
         NEW d, NEW after, NEW u, u = Executed(s, st), Runs(u, d, after, << st >>),
         NEW t, t = Served(s)
  PROVE  /\ Accepts(s, st) /\ Head(s.queue) = st
         /\ Runs(t, d, after, << >>) /\ t.link = u.link /\ t.active = u.active
<1>1. Head(s.queue) = st /\ Tail(s.queue) = << >>
  OBVIOUS
<1>2. Accepts(s, st)
  BY DEF Accepts
<1>3. PICK none \in Seq(Statements) : none = << >>
  <2>1. << >> \in Seq(Statements)
    OBVIOUS
  <2> QED  BY <2>1
<1>4. t = [u EXCEPT !.queue = none]
  BY <1>1, <1>2, <1>3 DEF Served
<1>5. Runs(t, d, after, << >>) /\ t.link = u.link /\ t.active = u.active
  BY <1>3, <1>4 DEF Runs, RunnerRecord, RunnerType, Statements
<1> QED  BY <1>1, <1>2, <1>5

(* START TRANSACTION opens a level without writes.                         *)
LEMMA ServedBegin ==
  ASSUME NEW s, NEW st \in Statements, Runs(s, 0, << >>, << st >>), st.kind = "begin",
         NEW base \in Seq(Level), base = << [save |-> 0, writes |-> {}] >>,
         NEW t, t = Served(s)
  PROVE  /\ Accepts(s, st) /\ Head(s.queue) = st
         /\ Runs(t, 0, base, << >>) /\ t.link = s.link /\ t.active = s.active
<1>1. PICK u : u = Executed(s, st)
  OBVIOUS
<1>2. u = [s EXCEPT !.levels = base]
  <2>1. s.levels = << >>
    BY DEF Runs
  <2> QED  BY <1>1, <2>1 DEF Executed
<1>3. Runs(u, 0, base, << st >>) /\ u.link = s.link /\ u.active = s.active
  BY <1>2 DEF Runs, RunnerRecord, RunnerType, Level
<1>4. s.queue = << st >> /\ ~s.aborted
  BY DEF Runs
<1>5. st.kind \in {"begin", "write", "commit", "rollback"}
  OBVIOUS
<1> QED  BY <1>1, <1>3, <1>4, <1>5, Dequeued

(* A write joins the level that is open.                                   *)
LEMMA ServedWrite ==
  ASSUME NEW s, NEW st \in Statements, NEW levels \in Seq(Level),
         Runs(s, 1, levels, << st >>), levels # << >>, st.kind = "write",
         NEW after \in Seq(Level),
         after = [levels EXCEPT ![Len(levels)].writes = @ \cup st.writes],
         NEW t, t = Served(s)
  PROVE  /\ Accepts(s, st) /\ Head(s.queue) = st
         /\ Runs(t, 1, after, << >>) /\ t.link = s.link /\ t.active = s.active
<1>1. PICK u : u = Executed(s, st)
  OBVIOUS
<1>2. u = [s EXCEPT !.levels = after]
  <2>1. s.levels = levels
    BY DEF Runs
  <2> QED  BY <1>1, <2>1 DEF Executed
<1>3. Runs(u, 1, after, << st >>) /\ u.link = s.link /\ u.active = s.active
  BY <1>2 DEF Runs, RunnerRecord, RunnerType, Level
<1>4. s.queue = << st >> /\ ~s.aborted
  BY DEF Runs
<1>5. st.kind \in {"begin", "write", "commit", "rollback"}
  OBVIOUS
<1> QED  BY <1>1, <1>3, <1>4, <1>5, Dequeued

(* COMMIT and ROLLBACK close it.                                           *)
LEMMA ServedEnd ==
  ASSUME NEW s, NEW st \in Statements, NEW levels,
         Runs(s, 1, levels, << st >>), st.kind \in {"commit", "rollback"},
         NEW t, t = Served(s)
  PROVE  /\ Accepts(s, st) /\ Head(s.queue) = st
         /\ Runs(t, 1, << >>, << >>) /\ t.link = s.link /\ t.active = s.active
<1>1. PICK u : u = Executed(s, st)
  OBVIOUS
<1>2. PICK none \in Seq(Level) : none = << >>
  <2>1. << >> \in Seq(Level)
    OBVIOUS
  <2> QED  BY <2>1
<1>3. PICK v : v = [s EXCEPT !.levels = none]
  OBVIOUS
<1>4. Runs(v, 1, none, << st >>) /\ v.link = s.link /\ v.active = s.active
  BY <1>3 DEF Runs, RunnerRecord, RunnerType, Level
<1>5. u = [v EXCEPT !.aborted = FALSE]
  BY <1>1, <1>2, <1>3 DEF Executed
<1>6. Runs(u, 1, << >>, << st >>) /\ u.link = s.link /\ u.active = s.active
  BY <1>2, <1>4, <1>5 DEF Runs, RunnerRecord, RunnerType
<1>7. s.queue = << st >> /\ ~s.aborted
  BY DEF Runs
<1> QED  BY <1>1, <1>6, <1>7, Dequeued

(* Once its commit or rollback was answered, it is given back.             *)
LEMMA ReleasedIdle ==
  ASSUME NEW s, Runs(s, 1, << >>, << >>), s.link = "held",
         NEW t, t = Release(AfterFinish(s))
  PROVE  t \in RunnerRecord /\ Clean(t)
<1>1. (s.depth > 1) = FALSE /\ s.depth - 1 = 0
  BY DEF Runs
<1>2. AfterFinish(s) = [s EXCEPT !.depth = 0, !.active = FALSE]
  BY <1>1, Zenon DEF AfterFinish
<1>3. PICK u : u = [s EXCEPT !.depth = 0]
  OBVIOUS
<1>4. /\ u \in RunnerRecord /\ u.levels = << >> /\ u.queue = << >>
      /\ ~u.aborted /\ u.link = "held"
  BY <1>3 DEF Runs, RunnerRecord, RunnerType
<1>5. PICK v : v = AfterFinish(s)
  OBVIOUS
<1>6. v = [u EXCEPT !.active = FALSE]
  BY <1>2, <1>3, <1>5
<1>7. /\ v \in RunnerRecord /\ v.levels = << >> /\ v.queue = << >>
      /\ ~v.aborted /\ v.link = "held"
  BY <1>4, <1>6 DEF RunnerRecord, RunnerType
<1> QED  BY <1>5, <1>7 DEF Release, RunnerRecord, RunnerType, Clean

-----------------------------------------------------------------------------
(* The two ways a step leaves the invariant: the request goes on, or is    *)
(* over.                                                                   *)

Alone(r) == \A other \in Requests \ {r} : ~Active(other)

OthersKept(r) ==
  \A other \in Requests \ {r} :
    /\ pc'[other] = pc[other] /\ reply'[other] = reply[other]
    /\ frame'[other] = frame[other] /\ leg'[other] = leg[other]

LEMMA GoesOn ==
  ASSUME SerialInv, NEW r \in Requests, Alone(r), OthersKept(r), pc[r] # "done",
         TypeOK', UNCHANGED durable, Active(r)', Position(r)'
  PROVE  SerialInv'
<1>1. \A other \in Requests \ {r} : ~Active(other)' /\ Waiting(other)'
  BY DEF Alone, OthersKept, Active, SerialInv, Waiting
<1>2. Waiting(r)' /\ ~Quiescent'
  BY DEF Waiting, Active, Quiescent
<1>3. durable' = {w \in Writes : Applied(w[1])'}
  BY DEF SerialInv, Writes, Applied, OthersKept, Active
<1> QED  BY <1>1, <1>2, <1>3 DEF SerialInv

LEMMA IsOver ==
  ASSUME SerialInv, NEW r \in Requests, Alone(r), OthersKept(r), pc[r] # "done",
         TypeOK', pc'[r] = "done", reply'[r] # "none", AtRest',
         durable' = durable \cup (IF reply'[r] = "ok" THEN WritesOf(r) ELSE {})
  PROVE  SerialInv'
<1>1. \A other \in Requests : ~Active(other)'
  BY DEF Alone, OthersKept, Active
<1>2. \A other \in Requests : Waiting(other)'
  BY DEF SerialInv, OthersKept, Waiting
<1>3. durable' = {w \in Writes : Applied(w[1])'}
  BY DEF SerialInv, Writes, WritesOf, Applied, OthersKept
<1> QED  BY <1>1, <1>2, <1>3 DEF SerialInv

(* What a step does to the answers and the database, by which it is known  *)
(* in AtomicRequests.                                                      *)
Silent == UNCHANGED <<durable, reply>>

Answers(r) ==
  /\ reply[r] = "none" /\ UNCHANGED durable
  /\ \E a \in {"ok", "error"} : reply' = [reply EXCEPT ![r] = a]

Takes(r) ==
  /\ pc[r] # "done" /\ UNCHANGED reply
  /\ durable' = durable \cup (IF reply[r] = "ok" THEN WritesOf(r) ELSE {})

(* What a request under way may rely on.                                   *)
LEMMA UnderWay ==
  ASSUME SerialInv, NEW r \in Requests, Active(r)
  PROVE  /\ Alone(r) /\ Position(r)
         /\ queryRunner # NoRunner /\ pc[r] # "done" /\ pc[r] # "absent"
BY UnitOfWorkAssumption DEF SerialInv, Alone, Position, Active

-----------------------------------------------------------------------------
(* Each step.                                                              *)

LEMMA ReceiveKeeps ==
  ASSUME SerialInv, NEW r \in Requests, SerialReceive(r)  PROVE SerialInv'
<1>1. /\ Quiescent /\ pc[r] = "absent" /\ Start(r, "interceptor")
      /\ UNCHANGED <<durable, frame, wasOuter, leg, reply>>
  BY DEF SerialReceive, Receive
<1>2. AtRest /\ Waiting(r)
  BY <1>1 DEF SerialInv
<1>3. PICK q \in Runners : /\ session[q].link = "unused"
                           /\ session' = [session EXCEPT ![q].link = "waiting"]
                           /\ queryRunner' = q
                           /\ target' = [target EXCEPT ![r] = q]
                           /\ Goto(r, "connecting") /\ UNCHANGED transactionCount
  BY <1>1, <1>2 DEF Start, AtRest
<1>4. Runs(session[q], 0, << >>, << >>)
  BY <1>2, <1>3 DEF AtRest, Idle, Clean, Runs, SerialInv, TypeOK, RunnerRecord
<1>5. PICK s : s = [session[q] EXCEPT !.link = "waiting"]
  OBVIOUS
<1>6. Runs(s, 0, << >>, << >>) /\ s.link = "waiting"
  BY <1>4, <1>5 DEF Runs, RunnerRecord, RunnerType
<1>7. session'[q] = s /\ \A p \in Runners \ {q} : session'[p] = session[p]
  BY <1>3, <1>5 DEF SerialInv, TypeOK
<1>8. TypeOK'
  BY <1>1, <1>3, <1>5, <1>6 DEF SerialInv, TypeOK, Goto, PCs, Runs, RunnerRecord
<1>9. target'[r] = q /\ pc'[r] = "connecting"
  BY <1>3 DEF SerialInv, TypeOK, Goto
<1>10. \A p \in Runners \ {q} : Idle(p)'
  BY <1>2, <1>7 DEF AtRest, Idle
<1>11. transactionCount' = 0 /\ reply'[r] = "none" /\ frame'[r] = "interceptor" /\ leg'[r] = 0
  BY <1>1, <1>2, <1>3 DEF AtRest, Waiting
<1>12. Position(r)' /\ Active(r)'
  BY <1>3, <1>6, <1>7, <1>9, <1>10, <1>11 DEF Position, Active, Fresh
<1>13. Alone(r) /\ OthersKept(r)
  BY <1>1, <1>3 DEF Alone, Active, Quiescent, OthersKept, Goto, SerialInv, TypeOK
<1> QED  BY <1>1, <1>8, <1>12, <1>13, GoesOn

LEMMA ConnectedKeeps ==
  ASSUME SerialInv, NEW r \in Requests, Connected(r)  PROVE SerialInv'
<1>1. /\ pc[r] = "connecting" /\ session[target[r]].link # "waiting"
      /\ UNCHANGED <<durable, frame, wasOuter, leg, target, reply>>
  BY DEF Connected
<1>2. /\ Alone(r) /\ Position(r) /\ queryRunner # NoRunner
  BY <1>1, UnderWay DEF Active
<1> DEFINE q == target[r]
<1>3. /\ q \in Runners /\ queryRunner = q /\ transactionCount = 0
      /\ reply[r] = "none" /\ frame[r] = "interceptor" /\ leg[r] = 0
      /\ session[q].link = "held" /\ Runs(session[q], 0, << >>, << >>)
  BY <1>1, <1>2 DEF Position, Fresh
<1>4. /\ session' = [session EXCEPT ![queryRunner] = IssueStart(@, queryRunner, r)]
      /\ Goto(r, "begin")
      /\ UNCHANGED <<queryRunner, transactionCount>>
  BY <1>2, <1>3 DEF Connected, StartThrows, Runs
<1>5. PICK s : s = IssueStart(session[q], q, r)
  OBVIOUS
<1>6. Opened(s, 0, << >>, << Statement("begin", 0, {}, target[r], r) >>)
  BY <1>3, <1>5, IssuedStart DEF Opened
<1>7. session' = [session EXCEPT ![q] = s] /\ session'[q] = s
  BY <1>3, <1>4, <1>5 DEF SerialInv, TypeOK
<1>8. TypeOK' /\ OthersKept(r) /\ pc'[r] = "begin"
  BY <1>1, <1>3, <1>4, <1>6, <1>7
     DEF SerialInv, TypeOK, Goto, PCs, OthersKept, Opened, Runs, RunnerRecord
<1>9. \A p \in Runners \ {q} : Idle(p)'
  BY <1>2, <1>7 DEF Position, Idle, SerialInv, TypeOK
<1>10. Position(r)' /\ Active(r)'
  BY <1>1, <1>3, <1>4, <1>6, <1>7, <1>8, <1>9 DEF Position, Active
<1> QED  BY <1>1, <1>2, <1>8, <1>10, GoesOn

(* The other runners do not notice what happens to the one in use.         *)
LEMMA RunnerMoves ==
  ASSUME SerialInv, NEW r \in Requests, Position(r), UNCHANGED target,
         NEW s \in RunnerRecord, session' = [session EXCEPT ![target[r]] = s]
  PROVE  /\ session'[target'[r]] = s /\ session' \in [Runners -> RunnerRecord]
         /\ \A q \in Runners \ {target'[r]} : Idle(q)'
BY DEF SerialInv, TypeOK, Position, Idle, RunnerRecord

LEMMA ExecuteKeeps ==
  ASSUME SerialInv, NEW r \in Requests, Execute(r)  PROVE SerialInv'
<1>1. /\ pc[r] = "intercepted" /\ Start(r, "execute")
      /\ frame' = [frame EXCEPT ![r] = "execute"]
      /\ UNCHANGED <<durable, leg, reply>>
  BY DEF Execute
<1>2. Alone(r) /\ Position(r) /\ queryRunner # NoRunner
  BY <1>1, UnderWay DEF Active
<1>3. transactionCount = 1 /\ reply[r] = "none" /\ leg[r] = 0 /\ Open(r, << >>)
  BY <1>1, <1>2 DEF Position
<1>4. /\ transactionCount' = 2 /\ Goto(r, "op") /\ UNCHANGED <<queryRunner, session, target>>
  BY <1>1, <1>2, <1>3 DEF Start, Started
<1>5. wasOuter' = [wasOuter EXCEPT ![r] = FALSE]
  <2>1. (transactionCount = 0) = FALSE
    BY <1>3
  <2> QED  BY <2>1, Zenon DEF Execute
<1>6. TypeOK' /\ OthersKept(r)
  BY <1>1, <1>4, <1>5 DEF SerialInv, TypeOK, Goto, PCs, OthersKept
<1>7. pc'[r] = "op" /\ InHandler(r)'
  BY <1>1, <1>4, <1>5 DEF InHandler, SerialInv, TypeOK, Goto
<1>8. /\ \A q \in Runners \ {target'[r]} : Idle(q)'
      /\ Open(r, << >>)'
      /\ target'[r] \in Runners /\ queryRunner' = target'[r] /\ reply'[r] = "none"
  BY <1>1, <1>2, <1>3, <1>4 DEF Position, Open, Idle
<1>9. Position(r)' /\ Active(r)'
  BY <1>7, <1>8 DEF Position, Active
<1> QED  BY <1>1, <1>2, <1>6, <1>9, GoesOn

LEMMA WriteKeeps ==
  ASSUME SerialInv, NEW r \in Requests, Write(r)  PROVE SerialInv' /\ Silent
<1>1. /\ pc[r] = "op" /\ leg[r] < Legs
      /\ UNCHANGED <<frame, wasOuter, target, reply>>
  BY DEF Write
<1>2. Alone(r) /\ Position(r) /\ queryRunner # NoRunner
  BY <1>1, UnderWay DEF Active
<1> DEFINE q == target[r]
           w == {<<r, leg[r] + 1>>}
           st == Statement("write", 0, w, q, r)
<1>3. /\ q \in Runners /\ queryRunner = q /\ InHandler(r) /\ reply[r] = "none"
      /\ Open(r, << >>) /\ transactionCount = 2
  BY <1>1, <1>2 DEF Position, InHandler
<1>4. /\ session' = [session EXCEPT ![queryRunner] = Issue(@, st)]
      /\ Goto(r, "write") /\ UNCHANGED <<queryRunner, transactionCount, durable, leg>>
  BY <1>2, <1>3 DEF Write, NextWrite, Open, Opened, Runs
<1>5. w \in SUBSET Writes /\ st \in Statements
  <2>1. leg[r] + 1 \in 1 .. Legs
    BY <1>1, UnitOfWorkAssumption DEF SerialInv, TypeOK
  <2>2. w \in SUBSET Writes
    BY <2>1 DEF Writes
  <2> QED  BY <1>3, <2>2, StatementTyped
<1>6. PICK s : s = Issue(session[q], st)
  OBVIOUS
<1>7. Opened(s, 1, WrittenBy(r, leg[r]), << st >>)
  <2>1. /\ Runs(session[q], 1, WrittenBy(r, leg[r]), << >>)
        /\ session[q].link = "held" /\ session[q].active
    BY <1>3 DEF Open, Opened
  <2>2. Runs(s, 1, WrittenBy(r, leg[r]), << st >>) /\ s.link = "held" /\ s.active
    <3>1. PICK before : before = session[q]
      OBVIOUS
    <3>2. PICK levels : levels = WrittenBy(r, leg[r])
      OBVIOUS
    <3>3. PICK write \in Statements : write = st
      BY <1>5
    <3>4. s = Issue(before, write) /\ Runs(before, 1, levels, << >>)
      BY <1>6, <2>1, <3>1, <3>2, <3>3
    <3>5. Runs(s, 1, levels, << write >>) /\ s.link = before.link /\ s.active = before.active
      BY <3>4, IssuedFirst
    <3> QED  BY <2>1, <3>1, <3>2, <3>3, <3>5
  <2> QED  BY <2>2 DEF Opened
<1>8. session' = [session EXCEPT ![q] = s] /\ s \in RunnerRecord
  BY <1>3, <1>4, <1>6, <1>7 DEF SerialInv, TypeOK, Opened, Runs
<1>9. /\ session'[target'[r]] = s /\ session' \in [Runners -> RunnerRecord]
      /\ \A p \in Runners \ {target'[r]} : Idle(p)'
  BY <1>1, <1>2, <1>8, RunnerMoves
<1>10. TypeOK' /\ OthersKept(r) /\ pc'[r] = "write"
  BY <1>1, <1>4, <1>9 DEF SerialInv, TypeOK, Goto, PCs, OthersKept, RunnerRecord
<1>11. /\ Open(r, << Statement("write", 0, {<<r, leg[r] + 1>>}, target[r], r) >>)'
       /\ leg'[r] < Legs /\ target'[r] \in Runners
       /\ queryRunner' = target'[r] /\ reply'[r] = "none"
  BY <1>1, <1>3, <1>4, <1>7, <1>9 DEF Open
<1>12. InHandler(r)'
  BY <1>1, <1>3, <1>4 DEF InHandler
<1>13. Position(r)' /\ Active(r)'
  BY <1>9, <1>10, <1>11, <1>12 DEF Position, Active
<1> QED  BY <1>2, <1>1, <1>4, <1>10, <1>13, GoesOn DEF Silent

(* The operation throws or is done: its frame is taken off and the runner  *)
(* is left to the interceptor.                                             *)
LEMMA OperationEnds ==
  ASSUME SerialInv, NEW r \in Requests, Throw(r) \/ Finish(r)  PROVE SerialInv'
<1>1. pc[r] = "op" /\ UNCHANGED <<durable, frame, wasOuter, leg, target, reply>>
  BY DEF Throw, Finish
<1>2. Alone(r) /\ Position(r) /\ queryRunner # NoRunner
  BY <1>1, UnderWay DEF Active
<1>3. InHandler(r) /\ reply[r] = "none" /\ Open(r, << >>) /\ transactionCount = 2
  BY <1>1, <1>2 DEF Position, InHandler
<1>4. /\ transactionCount' = 1 /\ UNCHANGED <<queryRunner, session>>
      /\ Goto(r, "thrown") \/ (Goto(r, "returned") /\ leg[r] = Legs)
  <2>1. CASE Throw(r)
    <3>1. ~wasOuter[r] /\ ExecuteCatch(r, session, transactionCount)
      BY <1>3, <2>1 DEF Throw, InHandler
    <3>2. /\ transactionCount' = transactionCount - 1 /\ Goto(r, "thrown")
          /\ session' = session /\ UNCHANGED queryRunner
      BY <3>1 DEF ExecuteCatch
    <3> QED  BY <1>3, <3>2
  <2>2. CASE Finish(r)
    BY <1>2, <1>3, <2>2 DEF Finish, Complete, CompleteReturns
  <2> QED  BY <2>1, <2>2
<1>5. TypeOK' /\ OthersKept(r)
  BY <1>1, <1>4 DEF SerialInv, TypeOK, Goto, PCs, OthersKept
<1>6. pc'[r] = "thrown" \/ (pc'[r] = "returned" /\ leg[r] = Legs)
  BY <1>4 DEF Goto, SerialInv, TypeOK
<1>7. /\ \A q \in Runners \ {target'[r]} : Idle(q)'
      /\ Open(r, << >>)' /\ leg'[r] = leg[r]
      /\ target'[r] \in Runners /\ queryRunner' = target'[r] /\ reply'[r] = "none"
  BY <1>1, <1>2, <1>3, <1>4 DEF Position, Open, Idle
<1>8. Position(r)' /\ Active(r)'
  BY <1>4, <1>6, <1>7 DEF Position, Active
<1> QED  BY <1>1, <1>2, <1>5, <1>8, GoesOn

(* The interceptor answers and sends the commit or the rollback.           *)
LEMMA AnswerKeeps ==
  ASSUME SerialInv, NEW r \in Requests, Respond(r) \/ RespondError(r)  PROVE SerialInv' /\ Answers(r)
<1>1. /\ pc[r] \in {"returned", "thrown"}
      /\ frame' = [frame EXCEPT ![r] = "interceptor"]
      /\ UNCHANGED <<durable, wasOuter, leg, target>>
  BY DEF Respond, RespondError
<1>2. Alone(r) /\ Position(r) /\ queryRunner # NoRunner
  BY <1>1, UnderWay DEF Active
<1> DEFINE q == target[r]
<1>3. /\ q \in Runners /\ queryRunner = q /\ transactionCount = 1 /\ reply[r] = "none"
      /\ Open(r, << >>) /\ (pc[r] = "returned" => leg[r] = Legs)
  BY <1>1, <1>2 DEF Position
<1>4. ~FinishThrows(session)
  BY <1>3 DEF FinishThrows, Open, Opened, Runs
<1>5. Runs(session[q], 1, WrittenBy(r, leg[r]), << >>) /\ session[q].link = "held"
      /\ session[q].active
  BY <1>3 DEF Open, Opened
<1>6. PICK k \in {"commit", "rollback"} :
        /\ session' = [session EXCEPT ![q] = Issue(@, Statement(k, 0, {}, q, r))]
        /\ UNCHANGED queryRunner
        /\ \/ /\ k = "commit" /\ pc[r] = "returned" /\ transactionCount' = 0
              /\ reply' = [reply EXCEPT ![r] = "ok"] /\ Goto(r, "commit")
           \/ /\ k = "rollback" /\ pc[r] = "thrown" /\ transactionCount' = 1
              /\ reply' = [reply EXCEPT ![r] = "error"] /\ Goto(r, "rollback")
  <2>1. CASE Respond(r)
    <3>1. /\ session' = [session EXCEPT ![q] = Issue(@, CommitStatement(@, q, r))]
          /\ pc[r] = "returned" /\ transactionCount' = 0 /\ UNCHANGED queryRunner
          /\ reply' = [reply EXCEPT ![r] = "ok"] /\ Goto(r, "commit")
      BY <1>2, <1>3, <1>4, <2>1 DEF Respond, ResponseHandler, Complete
    <3>2. CommitStatement(session[q], q, r) = Statement("commit", 0, {}, target[r], r)
      BY <1>5, IssuedFinish
    <3> QED  BY <3>1, <3>2
  <2>2. CASE RespondError(r)
    <3>1. /\ session' = [session EXCEPT ![q] = Issue(@, RollbackStatement(@, q, r))]
          /\ pc[r] = "thrown" /\ transactionCount' = 1 /\ UNCHANGED queryRunner
          /\ reply' = [reply EXCEPT ![r] = "error"] /\ Goto(r, "rollback")
      BY <1>2, <1>3, <1>4, <2>2 DEF RespondError, ErrorHandler, Rollback
    <3>2. RollbackStatement(session[q], q, r) = Statement("rollback", 0, {}, target[r], r)
      BY <1>5, IssuedFinish
    <3> QED  BY <3>1, <3>2
  <2> QED  BY <2>1, <2>2
<1> DEFINE st == Statement(k, 0, {}, q, r)
<1>7. PICK s : s = Issue(session[q], st)
  OBVIOUS
<1>8. Opened(s, 1, WrittenBy(r, leg[r]), << st >>)
  BY <1>3, <1>5, <1>7, IssuedFirst, StatementTyped DEF Opened
<1>9. session' = [session EXCEPT ![q] = s] /\ s \in RunnerRecord
  BY <1>6, <1>7, <1>8 DEF Opened, Runs
<1>10. /\ session'[target'[r]] = s /\ session' \in [Runners -> RunnerRecord]
       /\ \A p \in Runners \ {target'[r]} : Idle(p)'
  BY <1>1, <1>2, <1>9, RunnerMoves
<1>11. TypeOK' /\ OthersKept(r)
  BY <1>1, <1>6, <1>10 DEF SerialInv, TypeOK, Goto, PCs, OthersKept, RunnerRecord
<1>12. Open(r, << st >>)' /\ frame'[r] = "interceptor"
  BY <1>1, <1>8, <1>10 DEF Open, SerialInv, TypeOK
<1>13. \/ k = "commit" /\ pc'[r] = "commit" /\ reply'[r] = "ok" /\ leg'[r] = Legs
       \/ k = "rollback" /\ pc'[r] = "rollback" /\ reply'[r] = "error"
  BY <1>1, <1>3, <1>6 DEF SerialInv, TypeOK, Goto
<1>14. Position(r)' /\ Active(r)'
  BY <1>1, <1>3, <1>6, <1>10, <1>12, <1>13 DEF Position, Active
<1>15. Answers(r)
  BY <1>1, <1>3, <1>6 DEF Answers
<1> QED  BY <1>1, <1>2, <1>11, <1>14, <1>15, GoesOn

(* The pool and the server work for the request under way only.            *)
LEMMA WorkedFor ==
  ASSUME SerialInv, NEW q \in Runners, ~Idle(q)
  PROVE  \E r \in Requests : Active(r) /\ target[r] = q
<1>1. ~Quiescent
  BY DEF SerialInv, AtRest
<1>2. PICK r \in Requests : Active(r)
  BY <1>1 DEF Quiescent, Active
<1>3. target[r] = q
  BY <1>2 DEF SerialInv, Position
<1> QED  BY <1>2, <1>3

(* A clean connection changes hands: the next runner starts with nothing.  *)
LEMMA TakenOver ==
  ASSUME NEW s, Runs(s, 0, << >>, << >>), NEW p \in RunnerRecord, Clean(p),
         NEW t, t = TakeOver(s, p), NEW u, u = Parted(p)
  PROVE  /\ Runs(t, 0, << >>, << >>) /\ t.link = "held"
         /\ u \in RunnerRecord /\ (u.link = "gone" /\ Clean(u))
<1>1. PICK levels \in Seq(Level), queue \in Seq(Statements) :
        levels = << >> /\ queue = << >> /\ p.queue \o s.queue = queue
  <2>1. p.queue = << >> /\ s.queue = << >>
    BY DEF Clean, Runs
  <2>2. << >> \in Seq(Level) /\ << >> \in Seq(Statements) /\ << >> \o << >> = << >>
    OBVIOUS
  <2> QED  BY <2>1, <2>2
<1>2. /\ t = [s EXCEPT !.link = "held", !.levels = levels, !.aborted = FALSE, !.queue = queue]
      /\ u = [p EXCEPT !.link = "gone", !.levels = levels, !.aborted = FALSE, !.queue = queue]
  <2>1. p.levels = levels /\ p.aborted = FALSE
    BY <1>1 DEF Clean, RunnerRecord, RunnerType
  <2>2. t = [s EXCEPT !.link = "held", !.levels = levels, !.aborted = FALSE, !.queue = queue]
    BY <1>1, <2>1, Zenon DEF TakeOver
  <2> QED  BY <1>1, <2>2 DEF Parted
<1>3. Runs(t, 0, << >>, << >>) /\ t.link = "held"
  BY <1>1, <1>2 DEF Runs, RunnerRecord, RunnerType, Level, Statements
<1>4. u \in RunnerRecord /\ u.link = "gone" /\ Clean(u)
  BY <1>1, <1>2 DEF Clean, RunnerRecord, RunnerType, Level, Statements
<1> QED  BY <1>3, <1>4

LEMMA GrantKeeps ==
  ASSUME SerialInv, NEW q \in Runners, Grant(q)  PROVE SerialInv'
<1>1. /\ session[q].link = "waiting"
      /\ UNCHANGED <<queryRunner, transactionCount, durable,
                     pc, frame, wasOuter, leg, target, reply>>
  BY DEF Grant
<1>2. PICK r \in Requests : Active(r) /\ target[r] = q
  BY <1>1, WorkedFor DEF Idle, Clean
<1>3. Alone(r) /\ Position(r) /\ pc[r] # "done" /\ pc[r] # "absent"
  BY <1>2, UnderWay
<1>4. /\ pc[r] = "connecting" /\ transactionCount = 0 /\ reply[r] = "none"
      /\ frame[r] = "interceptor" /\ leg[r] = 0
      /\ Runs(session[q], 0, << >>, << >>) /\ queryRunner = q
      /\ \A p \in Runners \ {q} : Idle(p)
  BY <1>1, <1>2, <1>3 DEF Position, Fresh, Open, Opened
<1>5. /\ Runs(session'[q], 0, << >>, << >>) /\ session'[q].link = "held"
      /\ session' \in [Runners -> RunnerRecord] /\ \A p \in Runners \ {q} : Idle(p)'
  <2>0. session \in [Runners -> RunnerRecord]
    BY DEF SerialInv, TypeOK, RunnerRecord
  <2>1. CASE session' = [session EXCEPT ![q].link = "held"]
    <3>1. PICK s : s = [session[q] EXCEPT !.link = "held"]
      OBVIOUS
    <3>2. Runs(s, 0, << >>, << >>) /\ s.link = "held"
      BY <1>4, <3>1 DEF Runs, RunnerRecord, RunnerType
    <3>3. session' = [session EXCEPT ![q] = s] /\ s \in RunnerRecord
      BY <2>1, <3>1, <3>2 DEF Runs
    <3> QED  BY <1>4, <2>0, <3>2, <3>3 DEF Idle
  <2>2. ASSUME NEW p \in Left,
               session' = [session EXCEPT ![q] = TakeOver(@, session[p]), ![p] = Parted(@)]
        PROVE  /\ Runs(session'[q], 0, << >>, << >>) /\ session'[q].link = "held"
               /\ session' \in [Runners -> RunnerRecord] /\ \A x \in Runners \ {q} : Idle(x)'
    <3>1. p \in Runners /\ p # q /\ Clean(session[p]) /\ session[p] \in RunnerRecord
      BY <1>1, <1>4, <2>0 DEF Left, Idle
    <3>2. PICK t, u : t = TakeOver(session[q], session[p]) /\ u = Parted(session[p])
      OBVIOUS
    <3>3. /\ Runs(t, 0, << >>, << >>) /\ t.link = "held"
          /\ u \in RunnerRecord /\ Clean(u)
      BY <1>4, <3>1, <3>2, TakenOver
    <3>4. session' = [session EXCEPT ![q] = t, ![p] = u] /\ t \in RunnerRecord
      BY <2>0, <2>2, <3>1, <3>2, <3>3 DEF Runs
    <3>5. /\ session'[q] = t /\ session'[p] = u /\ session' \in [Runners -> RunnerRecord]
          /\ \A x \in Runners \ {p, q} : session'[x] = session[x]
      BY <2>0, <3>1, <3>3, <3>4
    <3> QED  BY <1>4, <3>3, <3>5 DEF Idle
  <2> QED  BY <2>1, <2>2 DEF Grant
<1>6. TypeOK' /\ OthersKept(r)
  BY <1>1, <1>5 DEF SerialInv, TypeOK, OthersKept, RunnerRecord
<1>7. Fresh(r)' /\ target'[r] \in Runners /\ queryRunner' = target'[r]
  BY <1>1, <1>2, <1>4, <1>5 DEF Fresh
<1>8. Position(r)' /\ Active(r)'
  BY <1>1, <1>2, <1>4, <1>5, <1>7 DEF Position, Active
<1> QED  BY <1>1, <1>3, <1>6, <1>8, GoesOn

(* The pool closes a clean connection, and nothing is lost with it.        *)
LEMMA RetireKeeps ==
  ASSUME SerialInv, NEW p \in Runners, Retire(p)  PROVE SerialInv'
<1>1. /\ session[p].link = "returned" /\ session' = [session EXCEPT ![p] = Parted(@)]
      /\ UNCHANGED <<queryRunner, transactionCount, durable,
                     pc, frame, wasOuter, leg, target, reply>>
  BY DEF Retire
<1>2. \A r \in Requests : Active(r) => target[r] # p /\ target[r] \in Runners
  BY <1>1 DEF SerialInv, Position, Fresh, Open, Opened
<1>3. Clean(session[p])
  <2>1. CASE Quiescent
    BY <2>1 DEF SerialInv, AtRest, Idle
  <2>2. CASE ~Quiescent
    <3>1. PICK r \in Requests : Active(r)
      BY <2>2 DEF Quiescent, Active
    <3> QED  BY <1>2, <3>1 DEF SerialInv, Position, Idle
  <2> QED  BY <2>1, <2>2
<1>4. PICK u : u = Parted(session[p])
  OBVIOUS
<1>5. u \in RunnerRecord /\ Clean(u)
  <2>1. PICK levels \in Seq(Level), queue \in Seq(Statements) : levels = << >> /\ queue = << >>
    <3>1. << >> \in Seq(Level) /\ << >> \in Seq(Statements)
      OBVIOUS
    <3> QED  BY <3>1
  <2>2. PICK s \in RunnerRecord : s = session[p]
    BY DEF SerialInv, TypeOK, RunnerRecord
  <2>3. u = [s EXCEPT !.link = "gone", !.levels = levels, !.aborted = FALSE, !.queue = queue]
    BY <1>4, <2>1, <2>2 DEF Parted
  <2> QED  BY <2>1, <2>3 DEF Clean, RunnerRecord, RunnerType, Level, Statements
<1>6. /\ session' \in [Runners -> RunnerRecord] /\ session'[p] = u
      /\ \A q \in Runners \ {p} : session'[q] = session[q]
  BY <1>1, <1>4, <1>5 DEF SerialInv, TypeOK, RunnerRecord
<1>7. \A q \in Runners : Idle(q) => Idle(q)'
  BY <1>5, <1>6 DEF Idle
<1>8. TypeOK'
  BY <1>1, <1>6 DEF SerialInv, TypeOK, RunnerRecord
<1>9. \A r \in Requests : /\ Waiting(r)' <=> Waiting(r)
                          /\ Active(r)' <=> Active(r)
  BY <1>1 DEF Waiting, Active
<1>10. \A r \in Requests : Active(r) => Position(r)'
  <2> SUFFICES ASSUME NEW r \in Requests, Active(r)  PROVE Position(r)'
    OBVIOUS
  <2>1. Position(r) /\ session'[target[r]] = session[target[r]]
    BY <1>2, <1>6 DEF SerialInv
  <2>2. \A q \in Runners \ {target'[r]} : Idle(q)'
    BY <1>1, <1>7, <2>1 DEF Position
  <2>3. (Fresh(r) => Fresh(r)') /\ (InHandler(r) => InHandler(r)')
    BY <1>1, <2>1 DEF Fresh, InHandler
  <2> QED  BY <1>1, <2>1, <2>2, <2>3 DEF Position, Open
<1>11. (Quiescent' <=> Quiescent) /\ (AtRest => AtRest')
  BY <1>1, <1>7 DEF Quiescent, AtRest
<1>12. durable' = {w \in Writes : Applied(w[1])'}
  BY <1>1 DEF SerialInv, Applied
<1> QED  BY <1>8, <1>9, <1>10, <1>11, <1>12 DEF SerialInv

LEMMA BegunKeeps ==
  ASSUME SerialInv, NEW q \in Runners, Serve(q), NEW r \in Requests,
         target[r] = q, pc[r] = "begin"
  PROVE  SerialInv' /\ Silent
<1>1. Alone(r) /\ Position(r) /\ queryRunner # NoRunner /\ pc[r] # "done"
  BY UnderWay DEF Active
<1> DEFINE st == Statement("begin", 0, {}, target[r], r)
<1>2. /\ transactionCount = 0 /\ reply[r] = "none" /\ frame[r] = "interceptor"
      /\ leg[r] = 0 /\ queryRunner = q
      /\ Runs(session[q], 0, << >>, << st >>)
      /\ session[q].link = "held" /\ session[q].active
  BY <1>1 DEF Position, Opened
<1>3. PICK base \in Seq(Level) : base = << [save |-> 0, writes |-> {}] >>
  <2>1. << [save |-> 0, writes |-> {}] >> \in Seq(Level)
    BY DEF Level
  <2> QED  BY <2>1
<1>4. PICK begin \in Statements : begin = st
  BY StatementTyped
<1>5. begin.kind = "begin" /\ begin.on = q /\ begin.by = r
  BY <1>4, StatementTyped
<1>6. PICK served : served = Served(session[q])
  OBVIOUS
<1>7. /\ Accepts(session[q], begin) /\ Head(session[q].queue) = begin
      /\ Runs(served, 0, base, << >>) /\ served.link = "held" /\ served.active
  <2>1. PICK before : before = session[q]
    OBVIOUS
  <2>2. Runs(before, 0, << >>, << begin >>) /\ served = Served(before)
    BY <1>2, <1>4, <1>6, <2>1
  <2>3. /\ Accepts(before, begin) /\ Head(before.queue) = begin
        /\ Runs(served, 0, base, << >>)
        /\ served.link = before.link /\ served.active = before.active
    BY <1>3, <1>5, <2>2, ServedBegin
  <2> QED  BY <1>2, <2>1, <2>3
<1>8. MadeDurable(session[q], begin) = {}
  BY <1>5 DEF MadeDurable
<1>9. PICK all : all = [session EXCEPT ![q] = served]
  OBVIOUS
<1>10. /\ Begun(r, q, all, TRUE) /\ UNCHANGED <<durable, frame, wasOuter, target, reply>>
  BY <1>5, <1>6, <1>7, <1>8, <1>9 DEF Serve, Begun, Wrote, Committed, RolledBack
<1>11. /\ session' = [all EXCEPT ![q] = AfterStart(@)] /\ transactionCount' = 1
       /\ Goto(r, "intercepted") /\ UNCHANGED <<queryRunner, leg>>
  BY <1>2, <1>10 DEF Begun, Started
<1>12. PICK s : s = AfterStart(served)
  OBVIOUS
<1>13. Opened(s, 1, base, << >>)
  BY <1>7, <1>12 DEF AfterStart, Opened, Runs, RunnerRecord, RunnerType
<1>14. session' = [session EXCEPT ![target[r]] = s] /\ s \in RunnerRecord
  BY <1>9, <1>11, <1>12, <1>13 DEF SerialInv, TypeOK, Opened, Runs
<1>15. /\ session'[target'[r]] = s /\ session' \in [Runners -> RunnerRecord]
       /\ \A p \in Runners \ {target'[r]} : Idle(p)'
  BY <1>1, <1>10, <1>14, RunnerMoves
<1>16. TypeOK' /\ OthersKept(r) /\ pc'[r] = "intercepted"
  BY <1>10, <1>11, <1>15 DEF SerialInv, TypeOK, Goto, PCs, OthersKept, RunnerRecord
<1>17. WrittenBy(r, leg'[r]) = base
  <2>1. leg'[r] = 0 /\ {r} \X (1 .. 0) = {}
    BY <1>2, <1>11
  <2> QED  BY <1>3, <2>1, Zenon DEF WrittenBy
<1>18. /\ Open(r, << >>)' /\ leg'[r] = 0 /\ reply'[r] = "none"
       /\ target'[r] \in Runners /\ queryRunner' = target'[r]
  BY <1>2, <1>10, <1>11, <1>13, <1>15, <1>17 DEF Open
<1>19. Position(r)' /\ Active(r)'
  BY <1>11, <1>15, <1>16, <1>18 DEF Position, Active
<1> QED  BY <1>1, <1>10, <1>16, <1>19, GoesOn DEF Silent

LEMMA WroteKeeps ==
  ASSUME SerialInv, NEW q \in Runners, Serve(q), NEW r \in Requests,
         target[r] = q, pc[r] = "write"
  PROVE  SerialInv' /\ Silent
<1>1. Alone(r) /\ Position(r) /\ queryRunner # NoRunner /\ pc[r] # "done"
  BY UnderWay DEF Active
<1> DEFINE w == {<<r, leg[r] + 1>>}
           st == Statement("write", 0, w, q, r)
<1>2. /\ InHandler(r) /\ reply[r] = "none" /\ leg[r] < Legs /\ queryRunner = q
      /\ Runs(session[q], 1, WrittenBy(r, leg[r]), << st >>)
      /\ session[q].link = "held" /\ session[q].active
  BY <1>1 DEF Position, Open, Opened
<1>3. leg[r] \in Nat /\ leg[r] + 1 \in 1 .. Legs
  BY <1>2, UnitOfWorkAssumption DEF SerialInv, TypeOK
<1>4. w \in SUBSET Writes
  BY <1>3 DEF Writes
<1>5. PICK write \in Statements : write = st
  BY <1>4, StatementTyped
<1>6. write.kind = "write" /\ write.on = q /\ write.by = r /\ write.writes = w
  BY <1>4, <1>5, StatementTyped
<1>7. \A n \in 0 .. Legs : WrittenBy(r, n) \in Seq(Level) /\ WrittenBy(r, n) # << >>
  <2> SUFFICES ASSUME NEW n \in 0 .. Legs
               PROVE  WrittenBy(r, n) \in Seq(Level) /\ WrittenBy(r, n) # << >>
    OBVIOUS
  <2>1. {r} \X (1 .. n) \in SUBSET Writes
    BY UnitOfWorkAssumption DEF Writes
  <2>2. [save |-> 0, writes |-> {r} \X (1 .. n)] \in Level
    BY <2>1 DEF Level
  <2> QED  BY <2>2 DEF WrittenBy
<1>8. PICK levels \in Seq(Level) : levels = WrittenBy(r, leg[r]) /\ levels # << >>
  BY <1>7 DEF SerialInv, TypeOK
<1>9. PICK more \in Seq(Level) : more = WrittenBy(r, leg[r] + 1)
  BY <1>3, <1>7
<1>10. more = [levels EXCEPT ![Len(levels)].writes = @ \cup write.writes]
  <2>1. {r} \X (1 .. leg[r]) \cup w = {r} \X (1 .. leg[r] + 1)
    BY <1>3
  <2>2. Len(levels) = 1 /\ levels[1] = [save |-> 0, writes |-> {r} \X (1 .. leg[r])]
    BY <1>8 DEF WrittenBy
  <2>3. PICK level \in Level : level = [save |-> 0, writes |-> {r} \X (1 .. leg[r] + 1)]
    <3>1. {r} \X (1 .. leg[r] + 1) \in SUBSET Writes
      BY <1>3, UnitOfWorkAssumption DEF Writes
    <3>2. [save |-> 0, writes |-> {r} \X (1 .. leg[r] + 1)] \in Level
      BY <3>1 DEF Level
    <3> QED  BY <3>2, Zenon
  <2>4. [levels[1] EXCEPT !.writes = @ \cup write.writes] = level
    <3>1. PICK first \in Level : first = levels[1]
      BY <1>8, <2>2
    <3>2. first.save = 0 /\ first.writes = {r} \X (1 .. leg[r])
      BY <2>2, <3>1
    <3>3. first.writes \cup write.writes = {r} \X (1 .. leg[r] + 1)
      BY <1>6, <2>1, <3>2
    <3>4. PICK written : written = {r} \X (1 .. leg[r] + 1)
      OBVIOUS
    <3>5. [first EXCEPT !.writes = written] = [save |-> 0, writes |-> written]
      BY <3>1, <3>2 DEF Level
    <3>6. [first EXCEPT !.writes = @ \cup write.writes] = [first EXCEPT !.writes = written]
      BY <3>3, <3>4, Zenon
    <3> QED  BY <2>3, <3>1, <3>4, <3>5, <3>6
  <2>5. more = << level >>
    BY <1>9, <2>3, Zenon DEF WrittenBy
  <2>6. [levels EXCEPT ![1] = level] = << level >>
    <3>1. PICK changed : changed = [levels EXCEPT ![1] = level]
      OBVIOUS
    <3>2. changed \in Seq(Level) /\ Len(changed) = 1 /\ changed[1] = level
      BY <1>8, <2>2, <3>1
    <3>3. << level >> \in Seq(Level) /\ Len(<< level >>) = 1 /\ << level >>[1] = level
      OBVIOUS
    <3> QED  BY <3>1, <3>2, <3>3, SeqEqual
  <2>7. [levels EXCEPT ![Len(levels)].writes = @ \cup write.writes]
          = [levels EXCEPT ![1] = [levels[1] EXCEPT !.writes = @ \cup write.writes]]
    BY <2>2
  <2> QED  BY <2>4, <2>5, <2>6, <2>7
<1>11. PICK served : served = Served(session[q])
  OBVIOUS
<1>12. /\ Accepts(session[q], write) /\ Head(session[q].queue) = write
       /\ Runs(served, 1, more, << >>) /\ served.link = "held" /\ served.active
  <2>1. PICK before : before = session[q]
    OBVIOUS
  <2>2. Runs(before, 1, levels, << write >>) /\ served = Served(before)
    BY <1>2, <1>5, <1>8, <1>11, <2>1
  <2>3. /\ Accepts(before, write) /\ Head(before.queue) = write
        /\ Runs(served, 1, more, << >>)
        /\ served.link = before.link /\ served.active = before.active
    BY <1>6, <1>8, <1>10, <2>2, ServedWrite
  <2> QED  BY <1>2, <2>1, <2>3
<1>13. MadeDurable(session[q], write) = {}
  <2>1. session[q].levels # << >>
    BY <1>2, <1>8 DEF Runs
  <2> QED  BY <1>6, <2>1 DEF MadeDurable
<1>14. PICK all : all = [session EXCEPT ![q] = served]
  OBVIOUS
<1>15. Wrote(r, all, TRUE) /\ UNCHANGED <<durable, frame, wasOuter, target, reply>>
  BY <1>6, <1>11, <1>12, <1>13, <1>14 DEF Serve, Begun, Wrote, Committed, RolledBack
<1>16. /\ session' = [session EXCEPT ![target[r]] = served] /\ Goto(r, "op")
       /\ leg' = [leg EXCEPT ![r] = @ + 1]
       /\ UNCHANGED <<queryRunner, transactionCount>>
  BY <1>14, <1>15 DEF Wrote
<1>17. /\ session'[target'[r]] = served /\ session' \in [Runners -> RunnerRecord]
       /\ \A p \in Runners \ {target'[r]} : Idle(p)'
  BY <1>1, <1>12, <1>15, <1>16, RunnerMoves DEF Runs
<1>18. TypeOK' /\ OthersKept(r) /\ pc'[r] = "op" /\ leg'[r] = leg[r] + 1
  BY <1>3, <1>15, <1>16, <1>17, UnitOfWorkAssumption
     DEF SerialInv, TypeOK, Goto, PCs, OthersKept, RunnerRecord
<1>19. /\ Open(r, << >>)' /\ reply'[r] = "none"
       /\ target'[r] \in Runners /\ queryRunner' = target'[r]
  BY <1>2, <1>9, <1>12, <1>15, <1>16, <1>17, <1>18 DEF Open, Opened
<1>20. InHandler(r)'
  BY <1>2, <1>15, <1>16 DEF InHandler
<1>21. Position(r)' /\ Active(r)'
  BY <1>17, <1>18, <1>19, <1>20 DEF Position, Active
<1> QED  BY <1>1, <1>15, <1>18, <1>21, GoesOn DEF Silent

(* A runner given back, and the fields reset, leave nothing behind.        *)
LEMMA GivenBack ==
  ASSUME SerialInv, NEW r \in Requests, Position(r), UNCHANGED target,
         NEW s \in RunnerRecord, Clean(s),
         session' = [session EXCEPT ![target[r]] = s],
         queryRunner' = NoRunner, transactionCount' = 0
  PROVE  AtRest' /\ session' \in [Runners -> RunnerRecord]
<1>1. /\ session'[target'[r]] = s /\ session' \in [Runners -> RunnerRecord]
      /\ \A q \in Runners \ {target'[r]} : Idle(q)'
  BY RunnerMoves
<1>2. \A q \in Runners : q = target[r] => Idle(q)'
  BY <1>1 DEF Idle
<1>3. \A q \in Runners : Idle(q)'
  BY <1>1, <1>2
<1> QED  BY <1>1, <1>3 DEF AtRest

LEMMA EndKeeps ==
  ASSUME SerialInv, NEW q \in Runners, Serve(q), NEW r \in Requests,
         target[r] = q, NEW k \in {"commit", "rollback"}, pc[r] = k
  PROVE  SerialInv' /\ Takes(r)
<1>1. Alone(r) /\ Position(r) /\ queryRunner # NoRunner /\ pc[r] # "done"
  BY UnderWay DEF Active
<1> DEFINE st == Statement(k, 0, {}, q, r)
<1>2. /\ queryRunner = q /\ frame[r] = "interceptor"
      /\ Runs(session[q], 1, WrittenBy(r, leg[r]), << st >>)
      /\ session[q].link = "held"
      /\ \/ k = "commit" /\ transactionCount = 0 /\ reply[r] = "ok" /\ leg[r] = Legs
         \/ k = "rollback" /\ reply[r] = "error"
  BY <1>1 DEF Position, Open, Opened
<1>3. PICK last \in Statements : last = st
  BY StatementTyped
<1>4. last.kind = k /\ last.on = q /\ last.by = r
  BY <1>3, StatementTyped
<1>5. PICK served : served = Served(session[q])
  OBVIOUS
<1>6. /\ Accepts(session[q], last) /\ Head(session[q].queue) = last
      /\ Runs(served, 1, << >>, << >>) /\ served.link = "held"
  <2>1. PICK before : before = session[q]
    OBVIOUS
  <2>2. PICK levels : levels = WrittenBy(r, leg[r])
    OBVIOUS
  <2>3. Runs(before, 1, levels, << last >>) /\ served = Served(before)
    BY <1>2, <1>3, <1>5, <2>1, <2>2
  <2>4. /\ Accepts(before, last) /\ Head(before.queue) = last
        /\ Runs(served, 1, << >>, << >>) /\ served.link = before.link
    BY <1>4, <2>3, ServedEnd
  <2> QED  BY <1>2, <2>1, <2>4
<1>7. PICK s : s = Release(AfterFinish(served))
  OBVIOUS
<1>8. s \in RunnerRecord /\ Clean(s)
  BY <1>6, <1>7, ReleasedIdle
<1>9. PICK all : all = [session EXCEPT ![q] = served]
  OBVIOUS
<1>10. /\ durable' = durable \cup MadeDurable(session[q], last)
       /\ Committed(r, q, all, TRUE) \/ RolledBack(r, q, all, TRUE)
       /\ UNCHANGED <<frame, wasOuter, target, reply>>
  BY <1>4, <1>5, <1>6, <1>9 DEF Serve, Begun, Wrote, Committed, RolledBack
<1>11. /\ session' = [[all EXCEPT ![q] = AfterFinish(@)] EXCEPT ![q] = Release(@)]
       /\ queryRunner' = NoRunner /\ transactionCount' = 0
       /\ Goto(r, "done") /\ UNCHANGED leg
  <2>1. CASE k = "commit"
    <3>1. Committed(r, q, all, TRUE)
      BY <1>10, <2>1 DEF RolledBack
    <3> QED  BY <1>1, <1>2, <2>1, <3>1 DEF Committed, CompleteReturns
  <2>2. CASE k = "rollback"
    <3>1. RolledBack(r, q, all, TRUE)
      BY <1>10, <2>2 DEF Committed
    <3> QED  BY <1>1, <1>2, <3>1 DEF RolledBack, RollbackReturns
  <2> QED  BY <2>1, <2>2
<1>12. session' = [session EXCEPT ![target[r]] = s]
  BY <1>7, <1>9, <1>11 DEF SerialInv, TypeOK
<1>13. AtRest' /\ session' \in [Runners -> RunnerRecord]
  BY <1>1, <1>8, <1>10, <1>11, <1>12, GivenBack
<1>14. MadeDurable(session[q], last) = IF reply'[r] = "ok" THEN WritesOf(r) ELSE {}
  <2>1. CASE k = "commit"
    <3>1. session[q].levels = WrittenBy(r, Legs) /\ ~session[q].aborted
      BY <1>2, <2>1 DEF Runs
    <3>2. WritesFrom(session[q], 1) = WritesOf(r)
      BY <3>1 DEF WritesFrom, WrittenBy, WritesOf
    <3> QED  BY <1>2, <1>4, <1>10, <2>1, <3>1, <3>2 DEF MadeDurable
  <2>2. CASE k = "rollback"
    BY <1>2, <1>4, <1>10, <2>2 DEF MadeDurable
  <2> QED  BY <2>1, <2>2
<1>15. TypeOK'
  <2>1. durable' \subseteq Writes
    BY <1>10, <1>14 DEF SerialInv, TypeOK, WritesOf, Writes
  <2>2. pc' \in [Requests -> PCs]
    BY <1>11 DEF SerialInv, TypeOK, Goto, PCs
  <2>4. leg' \in [Requests -> 0 .. Legs] /\ wasOuter' \in [Requests -> BOOLEAN]
    BY <1>10, <1>11 DEF SerialInv, TypeOK
  <2>5. /\ frame' \in [Requests -> {"interceptor", "execute"}]
        /\ target' \in [Requests -> Runners \cup {NoRunner}]
        /\ reply' \in [Requests -> {"none", "ok", "error"}]
    BY <1>10 DEF SerialInv, TypeOK
  <2>3. /\ queryRunner' \in Runners \cup {NoRunner} /\ transactionCount' \in Int
        /\ session' \in [Runners -> RunnerType(Runners, Writes, Requests)]
    <3>1. queryRunner' = NoRunner /\ transactionCount' = 0
      BY <1>11, Zenon
    <3> QED  BY <1>13, <3>1 DEF RunnerRecord
  <2> QED  BY <2>1, <2>2, <2>3, <2>4, <2>5 DEF TypeOK
<1>16. OthersKept(r) /\ pc'[r] = "done" /\ reply'[r] # "none"
  BY <1>2, <1>10, <1>11 DEF SerialInv, TypeOK, Goto, OthersKept
<1>17. Takes(r)
  BY <1>1, <1>10, <1>14 DEF Takes
<1> QED  BY <1>1, <1>10, <1>13, <1>14, <1>15, <1>16, <1>17, IsOver

LEMMA ServeKeeps ==
  ASSUME SerialInv, NEW q \in Runners, Serve(q)
  PROVE  SerialInv' /\ (Silent \/ \E r \in Requests : Takes(r))
<1>1. session[q].queue # << >>
  BY DEF Serve
<1>2. PICK r \in Requests : Active(r) /\ target[r] = q
  BY <1>1, WorkedFor DEF Idle, Clean
<1>3. Position(r)
  BY <1>2, UnderWay
<1>4. pc[r] \in {"begin", "write", "commit", "rollback"}
  BY <1>1, <1>2, <1>3 DEF Position, Fresh, Open, Opened, Runs
<1> QED  BY <1>2, <1>4, BegunKeeps, WroteKeeps, EndKeeps

(* Every step keeps the invariant and is one of AtomicRequests, or none.   *)
LEMMA SerialStep ==
  ASSUME SerialInv, [SerialNext]_vars
  PROVE  /\ SerialInv'
         /\ \/ Silent
            \/ \E r \in Requests : Answers(r) \/ Takes(r)
<1>1. CASE \E r \in Requests : Connected(r)
  BY <1>1, ConnectedKeeps DEF Connected, Silent
<1>2. CASE \E r \in Requests : Execute(r)
  BY <1>2, ExecuteKeeps DEF Execute, Silent
<1>3. CASE \E r \in Requests : Write(r)
  BY <1>3, WriteKeeps
<1>4. CASE \E r \in Requests : Finish(r) \/ Throw(r)
  BY <1>4, OperationEnds DEF Finish, Throw, Silent
<1>5. CASE \E r \in Requests : Respond(r) \/ RespondError(r)
  BY <1>5, AnswerKeeps
<1>6. ~\E r \in Requests : RefuseRequest(r)
  <2> SUFFICES ASSUME NEW r \in Requests, RefuseRequest(r)  PROVE FALSE
    OBVIOUS
  <2>1. pc[r] = "startFailed"
    BY DEF RefuseRequest
  <2>2. Position(r)
    BY <2>1, UnderWay DEF Active
  <2> QED  BY <2>1, <2>2 DEF Position
<1>11. ~\E r \in Requests : PlainWrite(r)
  <2> SUFFICES ASSUME NEW r \in Requests, PlainWrite(r)  PROVE FALSE
    OBVIOUS
  <2>1. pc[r] = "plain"
    BY DEF PlainWrite
  <2>2. Position(r)
    BY <2>1, UnderWay DEF Active
  <2> QED  BY <2>1, <2>2 DEF Position
<1>12. CASE \E q \in Runners : Retire(q)
  BY <1>12, RetireKeeps DEF Retire, Silent
<1>7. CASE \E r \in Requests : SerialReceive(r)
  BY <1>7, ReceiveKeeps DEF SerialReceive, Receive, Silent
<1>8. CASE \E q \in Runners : Grant(q)
  BY <1>8, GrantKeeps DEF Grant, Silent
<1>9. CASE \E q \in Runners : Serve(q)
  BY <1>9, ServeKeeps
<1>10. CASE UNCHANGED vars
  <2>1. TypeOK' /\ (Quiescent' <=> Quiescent) /\ (AtRest' <=> AtRest)
    BY <1>10 DEF SerialInv, vars, TypeOK, Quiescent, AtRest, Idle
  <2>2. \A r \in Requests : /\ Waiting(r)' <=> Waiting(r)
                            /\ Active(r)' <=> Active(r)
    BY <1>10 DEF vars, Waiting, Active
  <2>3. \A r \in Requests : Position(r) => Position(r)'
    <3>1. \A r \in Requests : Fresh(r) => Fresh(r)'
      BY <1>10 DEF vars, Fresh
    <3>2. \A q \in Runners : Idle(q) => Idle(q)'
      BY <1>10 DEF vars, Idle
    <3> QED  BY <1>10, <3>1, <3>2 DEF vars, Position, Open, InHandler
  <2>4. durable' = {w \in Writes : Applied(w[1])'}
    BY <1>10 DEF SerialInv, vars, Applied
  <2>5. SerialInv'
    BY <2>1, <2>2, <2>3, <2>4 DEF SerialInv
  <2> QED  BY <1>10, <2>5 DEF vars, Silent
<1> QED
  BY <1>1, <1>2, <1>3, <1>4, <1>5, <1>6, <1>7, <1>8, <1>9, <1>10, <1>11, <1>12
     DEF SerialNext, Progress, Mishap

LEMMA SerialStart ==
  ASSUME Init  PROVE SerialInv
<1>1. UnusedRunner \in RunnerRecord
  BY DEF UnusedRunner, RunnerRecord, RunnerType
<1>2. TypeOK
  BY <1>1, UnitOfWorkAssumption DEF Init, TypeOK, PCs, RunnerRecord
<1>3. AtRest /\ Quiescent
  BY DEF Init, AtRest, Idle, Clean, UnusedRunner, Quiescent
<1>4. \A r \in Requests : Waiting(r) /\ ~Active(r)
  BY DEF Init, Waiting, Active
<1>5. durable = {w \in Writes : Applied(w[1])}
  BY DEF Init, Writes, Applied
<1> QED  BY <1>2, <1>3, <1>4, <1>5 DEF SerialInv

-----------------------------------------------------------------------------
(* With one request at a time the runner of the field, its statements and  *)
(* the database are, at every await, where the request under way left      *)
(* them; between requests nothing is left.                                 *)
THEOREM SerialSound == SerialSpec => []SerialInv
<1>1. SerialInv /\ [SerialNext]_vars => SerialInv'
  BY SerialStep
<1> QED  BY <1>1, SerialStart, PTL DEF SerialSpec

(* One request at a time: a request's writes are all durable or none is,   *)
(* and only those of a request answered "ok" are.                          *)
THEOREM WritesAreAtomic == SerialSpec => []AllOrNothing
<1>1. SerialInv => AllOrNothing
  <2> SUFFICES ASSUME SerialInv, NEW r \in Requests
               PROVE  \/ WritesOf(r) \cap durable = {}
                      \/ WritesOf(r) \subseteq durable /\ reply[r] = "ok"
    BY DEF AllOrNothing
  <2>1. durable = {w \in Writes : Applied(w[1])}
    BY DEF SerialInv
  <2>2. CASE Applied(r)
    BY <2>1, <2>2 DEF WritesOf, Writes, Applied
  <2>3. CASE ~Applied(r)
    BY <2>1, <2>3 DEF WritesOf, Writes
  <2> QED  BY <2>2, <2>3
<1> QED  BY <1>1, SerialSound, PTL

(* One request at a time: between requests the writes of every request     *)
(* answered "ok" are durable, although nobody awaited the commit.          *)
THEOREM AnswersAreTrue == SerialSpec => []AnswerIsTrue
<1>1. SerialInv => AnswerIsTrue
  <2> SUFFICES ASSUME SerialInv, Quiescent, NEW r \in Requests, reply[r] = "ok"
               PROVE  WritesOf(r) \subseteq durable
    BY DEF AnswerIsTrue
  <2>1. Waiting(r) /\ durable = {w \in Writes : Applied(w[1])}
    BY DEF SerialInv
  <2>2. Applied(r)
    BY <2>1 DEF Waiting, Quiescent, Applied
  <2> QED  BY <2>1, <2>2 DEF WritesOf, Writes
<1> QED  BY <1>1, SerialSound, PTL

(* One request at a time: between requests no connection and no open       *)
(* transaction is left, and the fields are reset.                          *)
THEOREM NothingLeaks == SerialSpec => []NoLeak
<1>1. SerialInv => NoLeak
  BY DEF SerialInv, AtRest, Idle, Clean, NoLeak
<1> QED  BY <1>1, SerialSound, PTL

(* One request at a time the unit of work implements AtomicRequests: every *)
(* await, write and commit is one of its steps or invisible.               *)
THEOREM UnitOfWorkIsAtomic == SerialSpec => Atomic!Spec
<1>1. Init => Atomic!Init
  BY DEF Init, Atomic!Init
<1>2. SerialInv /\ [SerialNext]_vars => [Atomic!Next]_(Atomic!vars)
  <2> SUFFICES ASSUME SerialInv, [SerialNext]_vars
               PROVE  Atomic!Next \/ UNCHANGED <<durable, reply>>
    BY DEF Atomic!vars
  <2>1. CASE Silent
    BY <2>1 DEF Silent
  <2>2. ASSUME NEW r \in Requests, Answers(r)
        PROVE  Atomic!Next
    BY <2>2 DEF Answers, Atomic!Next, Atomic!Answer
  <2>3. ASSUME NEW r \in Requests, Takes(r)
        PROVE  Atomic!Next \/ UNCHANGED <<durable, reply>>
    <3>1. CASE reply[r] # "ok"
      BY <2>3, <3>1 DEF Takes
    <3>2. CASE reply[r] = "ok"
      <4>1. ~Applied(r) /\ durable = {w \in Writes : Applied(w[1])}
        BY <2>3 DEF SerialInv, Applied, Takes
      <4>2. WritesOf(r) \cap durable = {}
        BY <4>1 DEF WritesOf, Writes
      <4>3. Atomic!Apply(r)
        BY <2>3, <3>2, <4>2 DEF Takes, Atomic!Apply, Atomic!WritesOf, WritesOf
      <4> QED  BY <4>3 DEF Atomic!Next
    <3> QED  BY <3>1, <3>2
  <2> QED  BY <2>1, <2>2, <2>3, SerialStep
<1> QED  BY <1>1, <1>2, SerialSound, PTL DEF SerialSpec, Atomic!Spec
=============================================================================
