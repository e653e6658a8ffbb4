------------------------------ MODULE UnitOfWork ------------------------------
(***************************************************************************)
(* The unit of work: one object shared by every request of the process,    *)
(* driven by TransactionInterceptor around each write request and by       *)
(* executeInTransaction inside the handler.                                *)
(*                                                                         *)
(* A step is what runs between two awaits.  The fields are read again      *)
(* after every await, as the code does (`this.queryRunner.` after          *)
(* `await`), so a request resumes on whatever runner the field holds then. *)
(* The handler is any sequence of Legs writes through                      *)
(* BaseRepository.manager, which may throw between two of them.            *)
(***************************************************************************)
EXTENDS QueryRunner, FiniteSets

CONSTANTS Requests,   \* write requests (POST, PUT, PATCH, DELETE)
          Runners,    \* identities for createQueryRunner; a bound on its calls
          NoRunner,   \* the null of the queryRunner field
          Legs,       \* writes per handler
          PoolSize    \* connections in the pool

ASSUME UnitOfWorkAssumption ==
  /\ NoRunner \notin Runners
  /\ Legs \in Nat \ {0}
  /\ PoolSize \in Nat \ {0}

VARIABLES queryRunner,       \* UnitOfWork.queryRunner
          transactionCount,  \* UnitOfWork.transactionCount
          session,           \* the runners createQueryRunner has made
          durable,           \* writes committed in the database
          pc,                \* where each request is suspended
          frame,             \* whose start, complete or rollback it is in
          wasOuter,          \* executeInTransaction's wasOuterTransaction
          leg,               \* writes of its handler that have returned
          target,            \* the runner whose connect() it awaits
          reply              \* what the client was told

vars == <<queryRunner, transactionCount, session, durable,
          pc, frame, wasOuter, leg, target, reply>>

Writes == Requests \X (1 .. Legs)
WritesOf(r) == {r} \X (1 .. Legs)

PCs == {"absent",        \* not received yet
        "connecting",    \* start: await this.queryRunner.connect()
        "begin",         \* start: await this.queryRunner.startTransaction()
        "startFailed",   \* the interceptor's start threw
        "intercepted",   \* the interceptor's start returned
        "op",            \* inside the operation of executeInTransaction
        "write",         \* await of a write in the operation
        "plain",         \* await of a write through the default manager
        "commit",        \* complete: await this.queryRunner.commitTransaction()
        "rollback",      \* rollback: await this.queryRunner.rollbackTransaction()
        "returned",      \* executeInTransaction returned
        "thrown",        \* executeInTransaction threw
        "done"}

Init ==
  /\ queryRunner = NoRunner
  /\ transactionCount = 0
  /\ session = [q \in Runners |-> UnusedRunner]
  /\ durable = {}
  /\ pc = [r \in Requests |-> "absent"]
  /\ frame = [r \in Requests |-> "interceptor"]
  /\ wasOuter = [r \in Requests |-> FALSE]
  /\ leg = [r \in Requests |-> 0]
  /\ target = [r \in Requests |-> NoRunner]
  /\ reply = [r \in Requests |-> "none"]

-----------------------------------------------------------------------------
(* The methods of UnitOfWork, as called by request r from frame f.  They   *)
(* fix queryRunner', transactionCount', session' and pc'; s is what the    *)
(* step has made of the sessions before the call.                          *)

Goto(r, p) == pc' = [pc EXCEPT ![r] = p]

Started(r, f) == Goto(r, IF f = "interceptor" THEN "intercepted" ELSE "op")

(* start(): joins the running transaction or asks for a new runner.        *)
Start(r, f) ==
  \/ /\ queryRunner # NoRunner /\ transactionCount > 0
     /\ transactionCount' = transactionCount + 1
     /\ Started(r, f)
     /\ UNCHANGED <<queryRunner, session, target>>
  \/ /\ queryRunner = NoRunner \/ transactionCount <= 0
     /\ \E q \in Runners :
          /\ session[q].link = "unused"
          /\ session' = [session EXCEPT ![q].link = "waiting"]
          /\ queryRunner' = q
          /\ target' = [target EXCEPT ![r] = q]
     /\ Goto(r, "connecting")
     /\ UNCHANGED transactionCount

(* Whether a call on the runner of the field throws before it sends a      *)
(* statement: the field is null, the runner was released, or (for commit   *)
(* and rollback) it has no active transaction.                             *)
StartThrows(s)  == queryRunner # NoRunner => s[queryRunner].released
FinishThrows(s) == s[queryRunner].released \/ ~s[queryRunner].active

(* rollback(): the fields are cleared even when the runner threw, which is *)
(* then not released.                                                      *)
RollbackReturns(r, f) == Goto(r, IF f = "execute" THEN "thrown" ELSE "done")

Rollback(r, f, s, count) ==
  \/ /\ queryRunner = NoRunner
     /\ RollbackReturns(r, f)
     /\ session' = s
     /\ transactionCount' = count
     /\ UNCHANGED queryRunner
  \/ /\ queryRunner # NoRunner /\ FinishThrows(s)
     /\ RollbackReturns(r, f)
     /\ session' = s
     /\ queryRunner' = NoRunner
     /\ transactionCount' = 0
  \/ /\ queryRunner # NoRunner /\ ~FinishThrows(s)
     /\ session' = [s EXCEPT ![queryRunner] = Issue(@, RollbackStatement(@, queryRunner, r))]
     /\ Goto(r, "rollback")
     /\ transactionCount' = count
     /\ UNCHANGED queryRunner

(* The catch of executeInTransaction.                                      *)
ExecuteCatch(r, s, count) ==
  \/ /\ wasOuter[r]
     /\ Rollback(r, "execute", s, count)
  \/ /\ ~wasOuter[r]
     /\ transactionCount' = count - 1
     /\ Goto(r, "thrown")
     /\ session' = s
     /\ UNCHANGED queryRunner

StartFails(r, f, s) ==
  \/ /\ f = "interceptor"
     /\ Goto(r, "startFailed")
     /\ session' = s
     /\ UNCHANGED <<queryRunner, transactionCount>>
  \/ /\ f = "execute"
     /\ ExecuteCatch(r, s, transactionCount)

(* complete(): executeInTransaction catches what it throws, the            *)
(* interceptor only logs it.                                               *)
CompleteReturns(r, f) == Goto(r, IF f = "execute" THEN "returned" ELSE "done")

CompleteFails(r, f, s, count) ==
  \/ /\ f = "execute"
     /\ ExecuteCatch(r, s, count)
  \/ /\ f = "interceptor"
     /\ Goto(r, "done")
     /\ session' = s
     /\ transactionCount' = count
     /\ UNCHANGED queryRunner

(* Slip: the count is tested before it is decremented.                     *)
Complete_TestedFirst(r, f) ==
  /\ queryRunner # NoRunner
  /\ transactionCount' = transactionCount - 1
  /\ CompleteReturns(r, f)
  /\ UNCHANGED <<queryRunner, session>>

(* Slip: executeInTransaction does not await the commit.                   *)
Complete_NotAwaited(r, f) ==
  \/ /\ queryRunner # NoRunner /\ transactionCount # 1
     /\ transactionCount' = transactionCount - 1
     /\ CompleteReturns(r, f)
     /\ UNCHANGED <<queryRunner, session>>
  \/ /\ queryRunner # NoRunner /\ transactionCount = 1 /\ ~FinishThrows(session)
     /\ transactionCount' = 0
     /\ session' = [session EXCEPT ![queryRunner] = Issue(@, CommitStatement(@, queryRunner, r))]
     /\ CompleteReturns(r, f)
     /\ UNCHANGED queryRunner

(* Slip: the inner frame commits, the outer one finds nothing to do.       *)
Complete_Inner(r, f) ==
  \/ /\ f = "execute" /\ queryRunner # NoRunner
     /\ transactionCount' = 0
     /\ session' = [session EXCEPT ![queryRunner] = Issue(@, CommitStatement(@, queryRunner, r))]
     /\ Goto(r, "commit")
     /\ UNCHANGED queryRunner
  \/ /\ f = "interceptor"
     /\ CompleteFails(r, f, session, transactionCount)

Complete(r, f) ==
  \/ /\ queryRunner = NoRunner
     /\ CompleteFails(r, f, session, transactionCount)
  \/ /\ queryRunner # NoRunner /\ transactionCount # 1
     /\ transactionCount' = transactionCount - 1
     /\ CompleteReturns(r, f)
     /\ UNCHANGED <<queryRunner, session>>
  \/ /\ queryRunner # NoRunner /\ transactionCount = 1 /\ FinishThrows(session)
     /\ CompleteFails(r, f, session, 0)
  \/ /\ queryRunner # NoRunner /\ transactionCount = 1 /\ ~FinishThrows(session)
     /\ transactionCount' = 0
     /\ session' = [session EXCEPT ![queryRunner] = Issue(@, CommitStatement(@, queryRunner, r))]
     /\ Goto(r, "commit")
     /\ UNCHANGED queryRunner

-----------------------------------------------------------------------------
(* A request's own steps.                                                  *)

(* TransactionInterceptor.intercept on a write method.                     *)
Receive(r) ==
  /\ pc[r] = "absent"
  /\ Start(r, "interceptor")
  /\ UNCHANGED <<durable, frame, wasOuter, leg, reply>>

(* start() after its first await: connect() of the runner it made has      *)
(* returned, and startTransaction() is sent on the runner of the field.    *)
Connected(r) ==
  /\ pc[r] = "connecting"
  /\ session[target[r]].link # "waiting"
  /\ \/ /\ StartThrows(session)
        /\ StartFails(r, frame[r], session)
     \/ /\ ~StartThrows(session)
        /\ session' = [session EXCEPT ![queryRunner] = IssueStart(@, queryRunner, r)]
        /\ Goto(r, "begin")
        /\ UNCHANGED <<queryRunner, transactionCount>>
  /\ UNCHANGED <<durable, frame, wasOuter, leg, target, reply>>

(* The handler calls executeInTransaction.                                 *)
Execute(r) ==
  /\ pc[r] = "intercepted"
  /\ frame' = [frame EXCEPT ![r] = "execute"]
  /\ wasOuter' = [wasOuter EXCEPT ![r] = transactionCount = 0]
  /\ Start(r, "execute")
  /\ UNCHANGED <<durable, leg, reply>>

(* Slip: the handler writes once more than it should.                      *)
Write_Again(r) ==
  /\ pc[r] = "op"
  /\ leg' = [leg EXCEPT ![r] = @ + 1]
  /\ UNCHANGED <<queryRunner, transactionCount, session, durable, pc, frame, wasOuter,
                 target, reply>>

(* Slip: the repository uses its own manager inside a transaction too.     *)
Write_DefaultManager(r) ==
  /\ pc[r] = "op" /\ leg[r] < Legs
  /\ durable' = durable \cup {<<r, leg[r] + 1>>}
  /\ leg' = [leg EXCEPT ![r] = @ + 1]
  /\ UNCHANGED <<queryRunner, transactionCount, session, pc, frame, wasOuter, target, reply>>

NextWrite(r) == <<r, leg[r] + 1>>

(* The next write of the operation.  BaseRepository.manager is the unit of *)
(* work's when it has a runner and a count, else the default manager.      *)
Write(r) ==
  /\ pc[r] = "op" /\ leg[r] < Legs
  /\ \/ /\ queryRunner = NoRunner \/ transactionCount = 0
        /\ Goto(r, "plain")
        /\ UNCHANGED <<queryRunner, transactionCount, session>>
     \/ /\ queryRunner # NoRunner /\ transactionCount # 0
        /\ session[queryRunner].released
        /\ ExecuteCatch(r, session, transactionCount)
     \/ /\ queryRunner # NoRunner /\ transactionCount # 0
        /\ ~session[queryRunner].released
        /\ session' = [session EXCEPT ![queryRunner] =
                         Issue(@, Statement("write", 0, {NextWrite(r)}, queryRunner, r))]
        /\ Goto(r, "write")
        /\ UNCHANGED <<queryRunner, transactionCount>>
  /\ UNCHANGED <<durable, frame, wasOuter, leg, target, reply>>

(* The operation throws: a missing wallet, a rejected amount, a TypeError. *)
Throw(r) ==
  /\ pc[r] = "op"
  /\ ExecuteCatch(r, session, transactionCount)
  /\ UNCHANGED <<durable, frame, wasOuter, leg, target, reply>>

(* The operation returns and executeInTransaction completes.               *)
Finish(r) ==
  /\ pc[r] = "op" /\ leg[r] = Legs
  /\ Complete(r, "execute")
  /\ UNCHANGED <<durable, frame, wasOuter, leg, target, reply>>

(* ResponseInterceptor, inside the transaction's: it forms the answer of a *)
(* handler that returned, and sends that of one that threw by itself,      *)
(* before the transaction's catchError runs.                               *)
ResponseHandler(r) == reply' = [reply EXCEPT ![r] = "ok"]
ErrorHandler(r) == reply' = [reply EXCEPT ![r] = "error"]

(* The interceptor's tap: complete() is called and not awaited, and the    *)
(* response goes out.                                                      *)
Respond(r) ==
  /\ pc[r] = "returned"
  /\ frame' = [frame EXCEPT ![r] = "interceptor"]
  /\ ResponseHandler(r)
  /\ Complete(r, "interceptor")
  /\ UNCHANGED <<durable, wasOuter, leg, target>>

(* The interceptor's catchError: rollback() is called and not awaited.     *)
RespondError(r) ==
  /\ pc[r] = "thrown"
  /\ frame' = [frame EXCEPT ![r] = "interceptor"]
  /\ ErrorHandler(r)
  /\ Rollback(r, "interceptor", session, transactionCount)
  /\ UNCHANGED <<durable, wasOuter, leg, target>>

(* intercept() itself rejects: no catchError is attached yet.              *)
RefuseRequest(r) ==
  /\ pc[r] = "startFailed"
  /\ Goto(r, "done")
  /\ reply' = [reply EXCEPT ![r] = "error"]
  /\ UNCHANGED <<queryRunner, transactionCount, session, durable,
                 frame, wasOuter, leg, target>>

-----------------------------------------------------------------------------
(* Steps of the database, each with the continuation it resumes.           *)

(* The connections of the pool that a runner holds or left there idle.     *)
Held == {q \in Runners : session[q].link = "held"}
Left == {q \in Runners : session[q].link = "returned"}

(* The pool has a connection that no runner ever held, or room for one.    *)
CleanConnection == Cardinality(Held \cup Left) < PoolSize

(* The pool hands a connection to a waiting runner, an idle one as it was  *)
(* left.                                                                   *)
Grant(q) ==
  /\ session[q].link = "waiting"
  /\ \/ /\ CleanConnection
        /\ session' = [session EXCEPT ![q].link = "held"]
     \/ \E p \in Left :
          session' = [session EXCEPT ![q] = TakeOver(@, session[p]), ![p] = Parted(@)]
  /\ UNCHANGED <<queryRunner, transactionCount, durable,
                 pc, frame, wasOuter, leg, target, reply>>

(* The pool closes a connection that was idle for ten seconds; the server  *)
(* rolls back what was open on it.                                         *)
Retire(p) ==
  /\ session[p].link = "returned" /\ session[p].queue = << >>
  /\ session' = [session EXCEPT ![p] = Parted(@)]
  /\ UNCHANGED <<queryRunner, transactionCount, durable,
                 pc, frame, wasOuter, leg, target, reply>>

(* The default manager's write on the idle connection of p: a save is BEGIN, *)
(* INSERT and COMMIT, and commits whatever was left open there (an aborted *)
(* transaction refuses BEGIN and is rolled back); an update is a statement *)
(* by itself, and joins what was left open.                                *)
PlainSave(s, w) ==
  [runner |-> [s EXCEPT !.levels = << >>, !.aborted = FALSE],
   made   |-> IF s.aborted THEN {} ELSE WritesFrom(s, 1) \cup {w}]

PlainUpdate(s, w) ==
  LET st == Statement("write", 0, {w}, NoRunner, w[1])
  IN  [runner |-> IF s.aborted THEN s ELSE Executed(s, st),
       made   |-> IF s.aborted THEN {} ELSE MadeDurable(s, st)]

(* The default manager's write, on a connection it takes for that.         *)
PlainWrite(r) ==
  /\ pc[r] = "plain"
  /\ \/ /\ CleanConnection
        /\ durable' = durable \cup {NextWrite(r)}
        /\ leg' = [leg EXCEPT ![r] = @ + 1]
        /\ Goto(r, "op")
        /\ UNCHANGED <<queryRunner, transactionCount, session>>
     \/ \E p \in Left :
        \E after \in {PlainSave(session[p], NextWrite(r)),
                     PlainUpdate(session[p], NextWrite(r))} :
          LET s == [session EXCEPT ![p] = after.runner]
          IN  /\ session[p].queue = << >>
              /\ durable' = durable \cup after.made
              /\ \/ /\ ~session[p].aborted
                    /\ leg' = [leg EXCEPT ![r] = @ + 1]
                    /\ Goto(r, "op")
                    /\ session' = s
                    /\ UNCHANGED <<queryRunner, transactionCount>>
                 \/ /\ session[p].aborted
                    /\ ExecuteCatch(r, s, transactionCount)
                    /\ UNCHANGED leg
  /\ UNCHANGED <<frame, wasOuter, target, reply>>

(* start() after startTransaction() answered.                              *)
Begun(r, q, s, ok) ==
  /\ pc[r] = "begin"
  /\ \/ /\ ok
        /\ session' = [s EXCEPT ![q] = AfterStart(@)]
        /\ transactionCount' = 1
        /\ Started(r, frame[r])
        /\ UNCHANGED queryRunner
     \/ /\ ~ok
        /\ StartFails(r, frame[r], s)
  /\ UNCHANGED leg

Wrote(r, s, ok) ==
  /\ pc[r] = "write"
  /\ \/ /\ ok
        /\ leg' = [leg EXCEPT ![r] = @ + 1]
        /\ Goto(r, "op")
        /\ session' = s
        /\ UNCHANGED <<queryRunner, transactionCount>>
     \/ /\ ~ok
        /\ ExecuteCatch(r, s, transactionCount)
        /\ UNCHANGED leg

(* Slip: the runner is not released after the commit.                      *)
Committed_NotReleased(r, q, s, ok) ==
  /\ pc[r] = "commit"
  /\ session' = [s EXCEPT ![q] = AfterFinish(@)]
  /\ queryRunner' = NoRunner
  /\ CompleteReturns(r, frame[r])
  /\ UNCHANGED <<transactionCount, leg>>

(* Slip: nothing resumes a commit that finds the field cleared.            *)
Committed_FieldNull(r, q, s, ok) ==
  /\ pc[r] = "commit" /\ ok /\ queryRunner # NoRunner
  /\ session' = [s EXCEPT ![q] = AfterFinish(@), ![queryRunner] = Release(@)]
  /\ queryRunner' = NoRunner
  /\ CompleteReturns(r, frame[r])
  /\ UNCHANGED <<transactionCount, leg>>

(* complete() after commitTransaction() answered: it releases and clears   *)
(* the runner of the field, and throws if that is null by now.             *)
Committed(r, q, s, ok) ==
  /\ pc[r] = "commit"
  /\ LET answered == IF ok THEN [s EXCEPT ![q] = AfterFinish(@)] ELSE s
     IN  \/ /\ ok /\ queryRunner # NoRunner
            /\ session' = [answered EXCEPT ![queryRunner] = Release(@)]
            /\ queryRunner' = NoRunner
            /\ CompleteReturns(r, frame[r])
            /\ UNCHANGED transactionCount
         \/ /\ ~ok \/ queryRunner = NoRunner
            /\ CompleteFails(r, frame[r], answered, transactionCount)
  /\ UNCHANGED leg

(* Slip: the runner is not released after a rollback.                      *)
RolledBack_NotReleased(r, q, s, ok) ==
  /\ pc[r] = "rollback"
  /\ session' = [s EXCEPT ![q] = AfterFinish(@)]
  /\ queryRunner' = NoRunner
  /\ transactionCount' = 0
  /\ RollbackReturns(r, frame[r])
  /\ UNCHANGED leg

(* rollback() after rollbackTransaction() answered: finally clears both    *)
(* fields, whosever they are by now.                                       *)
RolledBack(r, q, s, ok) ==
  /\ pc[r] = "rollback"
  /\ LET answered == IF ok THEN [s EXCEPT ![q] = AfterFinish(@)] ELSE s
     IN  session' = IF ok /\ queryRunner # NoRunner
                    THEN [answered EXCEPT ![queryRunner] = Release(@)]
                    ELSE answered
  /\ queryRunner' = NoRunner
  /\ transactionCount' = 0
  /\ RollbackReturns(r, frame[r])
  /\ UNCHANGED leg

(* The server executes the oldest statement of a runner and the request    *)
(* that awaits it resumes.                                                 *)
Serve(q) ==
  /\ session[q].link \in {"held", "returned"}
  /\ session[q].queue # << >>
  /\ LET st == Head(session[q].queue)
         s  == [session EXCEPT ![q] = Served(@)]
         ok == Accepts(session[q], st)
     IN  /\ durable' = durable \cup (IF ok THEN MadeDurable(session[q], st) ELSE {})
         /\ \/ Begun(st.by, st.on, s, ok)
            \/ Wrote(st.by, s, ok)
            \/ Committed(st.by, st.on, s, ok)
            \/ RolledBack(st.by, st.on, s, ok)
  /\ UNCHANGED <<frame, wasOuter, target, reply>>

-----------------------------------------------------------------------------
(* Everything but the arrival of a request.                                *)
Progress ==
  \/ \E r \in Requests :
       \/ Connected(r) \/ Execute(r) \/ Write(r) \/ PlainWrite(r) \/ Finish(r)
       \/ Respond(r) \/ RespondError(r) \/ RefuseRequest(r)
  \/ \E q \in Runners : Grant(q) \/ Serve(q)

(* What may happen and need not: the operation throws, a connection is     *)
(* idle for long enough.                                                   *)
Mishap ==
  \/ \E r \in Requests : Throw(r)
  \/ \E q \in Runners : Retire(q)

Next == Progress \/ Mishap \/ \E r \in Requests : Receive(r)

(* Requests overlap freely.                                                *)
Spec == Init /\ [][Next]_vars

(* Node's event loop runs every ready continuation, and the pool and the   *)
(* server answer: no step of Progress stays enabled for ever.              *)
Fairness ==
  /\ \A r \in Requests :
       /\ WF_vars(Connected(r)) /\ WF_vars(Execute(r))
       /\ WF_vars(Write(r)) /\ WF_vars(PlainWrite(r)) /\ WF_vars(Finish(r))
       /\ WF_vars(Respond(r)) /\ WF_vars(RespondError(r))
       /\ WF_vars(RefuseRequest(r))
  /\ \A q \in Runners : WF_vars(Grant(q)) /\ WF_vars(Serve(q))

FairSpec == Spec /\ Fairness

(* One request at a time: the next is sent when the work of the last one,  *)
(* its commit or rollback included, is over.                               *)
Quiescent == \A r \in Requests : pc[r] \in {"absent", "done"}

SerialReceive(r) == Quiescent /\ Receive(r)

SerialNext == Progress \/ Mishap \/ \E r \in Requests : SerialReceive(r)

SerialSpec == Init /\ [][SerialNext]_vars
FairSerialSpec == SerialSpec /\ Fairness

(* A client that waits for the answer to its last request and no longer.   *)
Answered(r) == pc[r] = "absent" \/ reply[r] # "none"

PacedReceive(r) == (\A other \in Requests : Answered(other)) /\ Receive(r)

PacedNext == Progress \/ Mishap \/ \E r \in Requests : PacedReceive(r)

PacedSpec == Init /\ [][PacedNext]_vars

-----------------------------------------------------------------------------
(* Properties.                                                             *)

(* The fields, the runners and each request's position keep their types.   *)
TypeOK ==
  /\ queryRunner \in Runners \cup {NoRunner}
  /\ transactionCount \in Int
  /\ session \in [Runners -> RunnerType(Runners, Writes, Requests)]
  /\ durable \subseteq Writes
  /\ pc \in [Requests -> PCs]
  /\ frame \in [Requests -> {"interceptor", "execute"}]
  /\ wasOuter \in [Requests -> BOOLEAN]
  /\ leg \in [Requests -> 0 .. Legs]
  /\ target \in [Requests -> Runners \cup {NoRunner}]
  /\ reply \in [Requests -> {"none", "ok", "error"}]

(* One request at a time, at every moment: a request's writes are all      *)
(* committed or none is, and only those of a request answered "ok" are.    *)
(* Its failed writes never show, nor do half-done ones.                    *)
AllOrNothing ==
  \A r \in Requests :
    \/ WritesOf(r) \cap durable = {}
    \/ WritesOf(r) \subseteq durable /\ reply[r] = "ok"

(* One request at a time: between requests the answer and the database     *)
(* agree, so an "ok" was not lost by the commit nobody awaited.            *)
AnswerIsTrue ==
  Quiescent =>
    \A r \in Requests : reply[r] = "ok" => WritesOf(r) \subseteq durable

(* One request at a time: between requests every connection is back in     *)
(* the pool with no transaction left open, and the fields are reset.       *)
NoLeak ==
  Quiescent =>
    /\ queryRunner = NoRunner /\ transactionCount = 0
    /\ \A q \in Runners :
         /\ session[q].link \in {"unused", "returned", "gone"}
         /\ session[q].levels = << >> /\ session[q].queue = << >>

(* One request at a time: a request that was received is answered, and its *)
(* commit or rollback ends.                                                *)
EveryRequestEnds ==
  \A r \in Requests : pc[r] # "absent" ~> pc[r] = "done" /\ reply[r] # "none"

(* The await at which the answer to statement st is expected.              *)
Awaits(place, st) ==
  \/ place = "begin" /\ st.kind \in {"begin", "save"}
  \/ place = "write" /\ st.kind = "write"
  \/ place = "commit" /\ st.kind \in {"commit", "merge"}
  \/ place = "rollback" /\ st.kind \in {"rollback", "undo"}

(* Requests overlapping in any way, runners replaced and connections       *)
(* handed on with their queues: each request that is suspended at an await *)
(* of unitOfWork.trx.ts or of a repository has exactly one statement under *)
(* way, of the kind it awaits, with a runner that will be served; and a    *)
(* request that is not suspended there has none, so nothing of it runs     *)
(* behind its back but the commit or rollback of the interceptor.          *)
EachAwaitsOne ==
  /\ \A q \in Runners : \A i \in DOMAIN session[q].queue :
       /\ Awaits(pc[session[q].queue[i].by], session[q].queue[i])
       /\ session[q].link \in {"waiting", "held", "returned"}
  /\ \A q, t \in Runners :
       \A i \in DOMAIN session[q].queue, j \in DOMAIN session[t].queue :
         session[q].queue[i].by = session[t].queue[j].by => q = t /\ i = j
  /\ \A r \in Requests : pc[r] \in {"begin", "write", "commit", "rollback"} =>
       \E q \in Runners : \E i \in DOMAIN session[q].queue : session[q].queue[i].by = r

(* Requests overlapping in any way: a request that was received ends, or   *)
(* it waits for ever for a connection of a pool that has none left, whose  *)
(* connections are all with runners that will not release them.  Nothing   *)
(* else stops it: no answer is lost when the field was replaced or cleared *)
(* during an await, or when a connection changed hands.                    *)
AwaitsConnection(r) ==
  \/ pc[r] = "plain"
  \/ \E q \in Runners :
       /\ session[q].link = "waiting"
       /\ \/ pc[r] = "connecting" /\ target[r] = q
          \/ \E i \in DOMAIN session[q].queue : session[q].queue[i].by = r

Starved(r) == AwaitsConnection(r) /\ Cardinality(Held) = PoolSize

EndsUnlessStarved ==
  \A r \in Requests :
    <>[](pc[r] = "absent" \/ (pc[r] = "done" /\ reply[r] # "none") \/ Starved(r))

(* One request at a time, the unit of work implements AtomicRequests: what *)
(* the client is told and what the database holds are those variables.     *)
Atomic == INSTANCE AtomicRequests WITH durable <- durable, reply <- reply
ImplementsAtomicRequests == Atomic!LiveSpec
=============================================================================
