------------------------ MODULE UnitOfWorkOverlapProofs ------------------------
(***************************************************************************)
(* Proofs about UnitOfWork with requests overlapping in any way, for any   *)
(* number of requests, writes per handler, runners and connections: the    *)
(* state keeps its types, and each request awaits exactly the statement    *)
(* that is under way for it, whatever becomes of its runner.               *)
(***************************************************************************)
EXTENDS UnitOfWorkProofs, WellFoundedInduction

Sessions == [Runners -> RunnerRecord]

(* Every statement under way in the sessions s is awaited by its request   *)
(* where it says, when the requests are at p, and each awaits only one.    *)
Tidy(s, p) ==
  /\ \A q \in Runners : \A i \in DOMAIN s[q].queue :
       Awaits(p[s[q].queue[i].by], s[q].queue[i])
  /\ \A q, t \in Runners : \A i \in DOMAIN s[q].queue, j \in DOMAIN s[t].queue :
       s[q].queue[i].by = s[t].queue[j].by => q = t /\ i = j

Free(s, r) == \A q \in Runners : \A i \in DOMAIN s[q].queue : s[q].queue[i].by # r

(* Of the requests in R, each that is suspended has a statement under way. *)
Suspended == {"begin", "write", "commit", "rollback"}

Attended(s, p, R) == \A r \in R : p[r] \in Suspended => ~Free(s, r)

(* The requests in R that had a statement under way still have one.        *)
Remain(s, t, R) == \A r \in R : ~Free(s, r) => ~Free(t, r)

(* The runner of the field holds a connection or waits for one, and no     *)
(* statement is on a runner whose connection is gone.                      *)
Usable(s, field) ==
  /\ \A q \in Runners :
       /\ s[q].link = "unused" => ~s[q].released
       /\ s[q].queue # << >> => s[q].link \in {"waiting", "held", "returned"}
  /\ field # NoRunner => s[field].link \in {"waiting", "held"} /\ ~s[field].released

OverlapInv ==
  /\ TypeOK
  /\ \A r \in Requests : pc[r] \in {"write", "plain"} => leg[r] < Legs
  /\ Tidy(session, pc) /\ Attended(session, pc, Requests)
  /\ Usable(session, queryRunner)

-----------------------------------------------------------------------------
(* What the library makes of any runner.                                   *)

(* A statement joins the queue and nothing else changes.                   *)
LEMMA Queued ==
  ASSUME NEW s \in RunnerRecord, NEW st \in Statements, NEW t, t = Issue(s, st)
  PROVE  /\ t \in RunnerRecord /\ t.queue = Append(s.queue, st)
         /\ t.link = s.link /\ t.released = s.released /\ t.active = s.active
         /\ t.depth = s.depth /\ t.levels = s.levels /\ t.aborted = s.aborted
<1>1. PICK x \in Seq(Statements) : x = Append(s.queue, st)
  <2>1. s.queue \in Seq(Statements)
    BY DEF RunnerRecord, RunnerType, Statements
  <2>2. Append(s.queue, st) \in Seq(Statements)
    BY <2>1, AppendProperties, Zenon
  <2> QED  BY <2>2
<1>2. t = [s EXCEPT !.queue = x]
  BY <1>1 DEF Issue
<1> QED  BY <1>1, <1>2 DEF RunnerRecord, RunnerType, Statements

LEMMA QueuedStart ==
  ASSUME NEW s \in RunnerRecord, NEW q \in Runners, NEW r \in Requests,
         NEW t, t = IssueStart(s, q, r)
  PROVE  /\ StartStatement(s, q, r) \in Statements
         /\ t \in RunnerRecord /\ t.queue = Append(s.queue, StartStatement(s, q, r))
         /\ t.link = s.link /\ t.released = s.released
         /\ t.depth = s.depth /\ t.levels = s.levels /\ t.aborted = s.aborted
<1>1. StartStatement(s, q, r) \in Statements
  BY DEF StartStatement, Statement, Statements, RunnerRecord, RunnerType
<1>2. PICK u : u = Issue(s, StartStatement(s, q, r))
  OBVIOUS
<1>3. /\ u \in RunnerRecord /\ u.queue = Append(s.queue, StartStatement(s, q, r))
      /\ u.link = s.link /\ u.released = s.released
      /\ u.depth = s.depth /\ u.levels = s.levels /\ u.aborted = s.aborted
  BY <1>1, <1>2, Queued
<1>4. t = [u EXCEPT !.active = TRUE]
  BY <1>2 DEF IssueStart
<1> QED  BY <1>1, <1>3, <1>4 DEF RunnerRecord, RunnerType

(* The statements of startTransaction, commitTransaction and               *)
(* rollbackTransaction are awaited at the places that send them.           *)
LEMMA StatementsMade ==
  ASSUME NEW s \in RunnerRecord, NEW q \in Runners, NEW r \in Requests
  PROVE  /\ StartStatement(s, q, r).by = r /\ Awaits("begin", StartStatement(s, q, r))
         /\ CommitStatement(s, q, r) \in Statements /\ CommitStatement(s, q, r).by = r
         /\ Awaits("commit", CommitStatement(s, q, r))
         /\ RollbackStatement(s, q, r) \in Statements /\ RollbackStatement(s, q, r).by = r
         /\ Awaits("rollback", RollbackStatement(s, q, r))
<1>1. s.depth \in Int
  BY DEF RunnerRecord, RunnerType
<1>2. StartStatement(s, q, r).by = r /\ Awaits("begin", StartStatement(s, q, r))
  BY DEF StartStatement, Statement, Awaits
<1>3. /\ CommitStatement(s, q, r) \in Statements /\ CommitStatement(s, q, r).by = r
      /\ Awaits("commit", CommitStatement(s, q, r))
  BY <1>1 DEF CommitStatement, Statement, Statements, Awaits
<1>4. /\ RollbackStatement(s, q, r) \in Statements /\ RollbackStatement(s, q, r).by = r
      /\ Awaits("rollback", RollbackStatement(s, q, r))
  BY <1>1 DEF RollbackStatement, Statement, Statements, Awaits
<1> QED  BY <1>2, <1>3, <1>4

LEMMA Released ==
  ASSUME NEW s \in RunnerRecord, NEW t, t = Release(s)
  PROVE  /\ t \in RunnerRecord /\ t.queue = s.queue
         /\ (t.link = "unused" <=> s.link = "unused")
         /\ s.link \in {"waiting", "held", "returned"} =>
              t.link \in {"waiting", "held", "returned"}
<1>1. PICK u : u = [s EXCEPT !.released = TRUE]
  OBVIOUS
<1>2. u \in RunnerRecord /\ u.queue = s.queue /\ u.link = s.link
  BY <1>1 DEF RunnerRecord, RunnerType
<1>3. PICK link \in {"unused", "waiting", "held", "returned", "gone"} :
         link = IF s.link = "held" THEN "returned" ELSE s.link
  BY DEF RunnerRecord, RunnerType
<1>4. t = [u EXCEPT !.link = link]
  BY <1>1, <1>3 DEF Release, RunnerRecord, RunnerType
<1> QED  BY <1>2, <1>3, <1>4 DEF RunnerRecord, RunnerType

LEMMA Resumed ==
  ASSUME NEW s \in RunnerRecord, NEW t, t = AfterStart(s) \/ t = AfterFinish(s)
  PROVE  /\ t \in RunnerRecord /\ t.queue = s.queue
         /\ t.link = s.link /\ t.released = s.released
<1>1. s.depth + 1 \in Int /\ s.depth - 1 \in Int /\ (s.depth > 1) \in BOOLEAN
  BY DEF RunnerRecord, RunnerType
<1>2. CASE t = AfterStart(s)
  <2>1. PICK d \in Int : d = s.depth + 1
    BY <1>1
  <2>2. t = [s EXCEPT !.depth = d]
    BY <1>2, <2>1 DEF AfterStart
  <2> QED  BY <2>1, <2>2 DEF RunnerRecord, RunnerType
<1>3. CASE t = AfterFinish(s)
  <2>1. PICK d \in Int : d = s.depth - 1
    BY <1>1
  <2>2. PICK b \in BOOLEAN : b = (s.depth > 1)
    BY <1>1
  <2>3. PICK u : u = [s EXCEPT !.depth = d]
    OBVIOUS
  <2>4. u \in RunnerRecord /\ u.queue = s.queue /\ u.link = s.link /\ u.released = s.released
    BY <2>1, <2>3 DEF RunnerRecord, RunnerType
  <2>5. t = [u EXCEPT !.active = b]
    BY <1>3, <2>1, <2>2, <2>3, Zenon DEF AfterFinish
  <2> QED  BY <2>2, <2>4, <2>5 DEF RunnerRecord, RunnerType
<1> QED  BY <1>2, <1>3

(* Of the savepoints with one name there is an innermost.                  *)
LEMMA Innermost ==
  ASSUME NEW s \in RunnerRecord, NEW k, HasSave(s, k)
  PROVE  LevelOf(s, k) \in 2 .. Len(s.levels)
<1>1. PICK n \in Nat : n = Len(s.levels)
  <2>1. s.levels \in Seq(Level)
    BY DEF RunnerRecord, RunnerType, Level
  <2> QED  BY <2>1
<1> DEFINE Below == {m \in Nat : n - m \in 2 .. n /\ s.levels[n - m].save = k}
<1>2. PICK i \in 2 .. n : s.levels[i].save = k
  BY <1>1 DEF HasSave
<1>3. n - i \in Below
  <2>1. n - i \in Nat /\ n - (n - i) = i
    OBVIOUS
  <2> QED  BY <1>2, <2>1
<1>4. PICK m \in Below : \A x \in Below : <<x, m>> \notin OpToRel(<, Nat)
  <2>1. Below \subseteq Nat /\ Below # {}
    BY <1>3
  <2> HIDE DEF Below
  <2> QED  BY <2>1, WFMin, NatLessThanWellFounded
<1>5. \A x \in Below : ~(x < m)
  BY <1>4 DEF OpToRel
<1>6. \A j \in (n - m + 1) .. n : s.levels[j].save # k
  <2> SUFFICES ASSUME NEW j \in (n - m + 1) .. n, s.levels[j].save = k  PROVE FALSE
    OBVIOUS
  <2>1. n - j \in Nat /\ n - (n - j) = j /\ n - j < m /\ j \in 2 .. n
    OBVIOUS
  <2>2. n - j \in Below
    BY <2>1
  <2> QED  BY <1>5, <2>1, <2>2
<1>7. \E x \in 2 .. Len(s.levels) :
        /\ s.levels[x].save = k
        /\ \A j \in (x + 1) .. Len(s.levels) : s.levels[j].save # k
  <2>1. n - m \in 2 .. n /\ s.levels[n - m].save = k
    OBVIOUS
  <2> QED  BY <1>1, <1>6, <2>1
<1> QED  BY <1>7 DEF LevelOf

LEMMA WritesFromTyped ==
  ASSUME NEW s \in RunnerRecord, NEW i \in 1 .. Len(s.levels) + 1
  PROVE  WritesFrom(s, i) \in SUBSET Writes
<1>1. s.levels \in Seq(Level)
  BY DEF RunnerRecord, RunnerType, Level
<1>2. \A j \in i .. Len(s.levels) : s.levels[j].writes \in SUBSET Writes
  <2> SUFFICES ASSUME NEW j \in i .. Len(s.levels)  PROVE s.levels[j].writes \in SUBSET Writes
    OBVIOUS
  <2>1. s.levels[j] \in Level
    BY <1>1
  <2> QED  BY <2>1 DEF Level
<1> QED  BY <1>2 DEF WritesFrom

(* What the server makes of the levels, for each statement it accepts.     *)
LEMMA LevelsExecuted ==
  ASSUME NEW s \in RunnerRecord, NEW st \in Statements, Accepts(s, st)
  PROVE  \E levels \in Seq(Level), aborted \in BOOLEAN :
           Executed(s, st) = [s EXCEPT !.levels = levels, !.aborted = aborted]
<1>1. PICK l \in Seq(Level), a \in BOOLEAN : l = s.levels /\ a = s.aborted
  BY DEF RunnerRecord, RunnerType, Level
<1>2. [s EXCEPT !.levels = l, !.aborted = a] = s
  BY <1>1 DEF RunnerRecord, RunnerType
<1>3. \A k \in Seq(Level) : [s EXCEPT !.levels = k, !.aborted = a] = [s EXCEPT !.levels = k]
  BY <1>1 DEF RunnerRecord, RunnerType
<1>4. st.kind \in {"begin", "save", "write", "commit", "merge", "rollback", "undo"}
      /\ st.save \in Int /\ st.writes \in SUBSET Writes
  BY DEF Statements
<1>5. CASE st.kind = "begin"
  <2>1. [save |-> 0, writes |-> {}] \in Level
    BY DEF Level
  <2>2. PICK k \in Seq(Level) : k = << [save |-> 0, writes |-> {}] >>
    <3>1. << [save |-> 0, writes |-> {}] >> \in Seq(Level)
      BY <2>1
    <3> QED  BY <3>1
  <2>3. Executed(s, st) = IF s.levels = << >> THEN [s EXCEPT !.levels = k] ELSE s
    BY <1>5, <2>2 DEF Executed
  <2> QED  BY <1>1, <1>2, <1>3, <2>2, <2>3
<1>6. CASE st.kind = "save"
  <2>1. [save |-> st.save, writes |-> {}] \in Level
    BY <1>4 DEF Level
  <2>2. PICK k \in Seq(Level) : k = Append(l, [save |-> st.save, writes |-> {}])
    <3>1. Append(l, [save |-> st.save, writes |-> {}]) \in Seq(Level)
      BY <1>1, <2>1, AppendProperties, Zenon
    <3> QED  BY <3>1
  <2>3. Executed(s, st) = [s EXCEPT !.levels = k]
    BY <1>1, <1>6, <2>2, Zenon DEF Executed
  <2> QED  BY <1>1, <1>3, <2>2, <2>3
<1>7. CASE st.kind = "write"
  <2>1. CASE s.levels = << >>
    <3>1. Executed(s, st) = s
      BY <1>7, <2>1 DEF Executed
    <3> QED  BY <1>1, <1>2, <3>1
  <2>2. CASE s.levels # << >>
    <3>1. Len(l) \in 1 .. Len(l) /\ l[Len(l)] \in Level
      BY <1>1, <2>2
    <3>2. PICK x \in Level : x = [l[Len(l)] EXCEPT !.writes = @ \cup st.writes]
      <4>1. PICK y \in Level : y = l[Len(l)]
        BY <3>1
      <4>2. PICK w \in SUBSET Writes : w = y.writes \cup st.writes
        BY <1>4, <4>1 DEF Level
      <4>3. [y EXCEPT !.writes = w] \in Level
        BY <4>1, <4>2 DEF Level
      <4> QED  BY <4>1, <4>2, <4>3, Zenon
    <3>3. PICK k \in Seq(Level) : k = [l EXCEPT ![Len(l)] = x]
      <4>1. [l EXCEPT ![Len(l)] = x] \in Seq(Level)
        BY <3>1, <3>2, ExceptSeq
      <4> QED  BY <4>1
    <3>4. Executed(s, st) = [s EXCEPT !.levels = k]
      <4>1. Executed(s, st) = [s EXCEPT !.levels[Len(s.levels)].writes = @ \cup st.writes]
        BY <1>7, <2>2 DEF Executed
      <4> QED  BY <1>1, <3>2, <3>3, <4>1
    <3> QED  BY <1>1, <1>3, <3>3, <3>4
  <2> QED  BY <2>1, <2>2
<1>8. CASE st.kind = "merge"
  <2>1. HasSave(s, st.save)
    BY <1>8 DEF Accepts
  <2>2. PICK i \in 2 .. Len(l) : i = LevelOf(s, st.save)
    BY <1>1, <2>1, Innermost
  <2>3. i - 1 \in 1 .. Len(l) /\ i - 2 \in 0 .. Len(l) /\ l[i - 1] \in Level
    BY <1>1, <2>2
  <2>4. WritesFrom(s, i - 1) \in SUBSET Writes
    BY <1>1, <2>3, WritesFromTyped
  <2>5. [save |-> l[i - 1].save, writes |-> WritesFrom(s, i - 1)] \in Level
    BY <2>3, <2>4 DEF Level
  <2>6. SubSeq(l, 1, i - 2) \in Seq(Level)
    BY <1>1, <2>3
  <2>7. PICK k \in Seq(Level) : k = Append(SubSeq(l, 1, i - 2),
                                           [save |-> l[i - 1].save,
                                            writes |-> WritesFrom(s, i - 1)])
    <3>1. Append(SubSeq(l, 1, i - 2),
                 [save |-> l[i - 1].save, writes |-> WritesFrom(s, i - 1)]) \in Seq(Level)
      BY <2>5, <2>6, AppendProperties, Zenon
    <3> QED  BY <3>1
  <2>8. Executed(s, st) = [s EXCEPT !.levels = k]
    BY <1>1, <1>8, <2>2, <2>7, Zenon DEF Executed
  <2> QED  BY <1>1, <1>3, <2>7, <2>8
<1>9. CASE st.kind = "undo"
  <2>1. HasSave(s, st.save)
    BY <1>9 DEF Accepts
  <2>2. PICK i \in 2 .. Len(l) : i = LevelOf(s, st.save)
    BY <1>1, <2>1, Innermost
  <2>3. SubSeq(l, 1, i - 1) \in Seq(Level)
    BY <1>1, <2>2
  <2>4. [save |-> st.save, writes |-> {}] \in Level
    BY <1>4 DEF Level
  <2>5. PICK k \in Seq(Level) : k = Append(SubSeq(l, 1, i - 1),
                                           [save |-> st.save, writes |-> {}])
    <3>1. Append(SubSeq(l, 1, i - 1), [save |-> st.save, writes |-> {}]) \in Seq(Level)
      BY <2>3, <2>4, AppendProperties, Zenon
    <3> QED  BY <3>1
  <2>6. Executed(s, st) = [s EXCEPT !.aborted = FALSE, !.levels = k]
    BY <1>1, <1>9, <2>2, <2>5, Zenon DEF Executed
  <2>7. [s EXCEPT !.aborted = FALSE, !.levels = k] = [s EXCEPT !.levels = k, !.aborted = FALSE]
    BY DEF RunnerRecord, RunnerType
  <2> QED  BY <2>5, <2>6, <2>7
<1>10. CASE st.kind \in {"commit", "rollback"}
  <2>1. PICK k \in Seq(Level) : k = << >>
    <3>1. << >> \in Seq(Level)
      OBVIOUS
    <3> QED  BY <3>1
  <2>2. Executed(s, st) = [s EXCEPT !.levels = k, !.aborted = FALSE]
    BY <1>10, <2>1 DEF Executed
  <2> QED  BY <2>1, <2>2
<1> QED  BY <1>4, <1>5, <1>6, <1>7, <1>8, <1>9, <1>10

(* Serving the head of the queue.                                          *)
LEMMA ServedHead ==
  ASSUME NEW s \in RunnerRecord, s.queue # << >>, NEW t, t = Served(s)
  PROVE  /\ Head(s.queue) \in Statements
         /\ t \in RunnerRecord /\ t.queue = Tail(s.queue)
         /\ t.link = s.link /\ t.released = s.released /\ t.depth = s.depth
<1>1. PICK st \in Statements, rest \in Seq(Statements) :
        st = Head(s.queue) /\ rest = Tail(s.queue)
  <2>1. s.queue \in Seq(Statements)
    BY DEF RunnerRecord, RunnerType, Statements
  <2>2. Head(s.queue) \in Statements /\ Tail(s.queue) \in Seq(Statements)
    BY <2>1, HeadTailProperties
  <2> QED  BY <2>2
<1>2. PICK levels \in Seq(Level), aborted \in BOOLEAN :
        t = [[s EXCEPT !.levels = levels, !.aborted = aborted] EXCEPT !.queue = rest]
  <2>1. CASE Accepts(s, st)
    <3>1. t = [Executed(s, st) EXCEPT !.queue = rest]
      BY <1>1, <2>1, Zenon DEF Served
    <3>2. PICK levels \in Seq(Level), aborted \in BOOLEAN :
            Executed(s, st) = [s EXCEPT !.levels = levels, !.aborted = aborted]
      BY <2>1, LevelsExecuted
    <3>3. t = [[s EXCEPT !.levels = levels, !.aborted = aborted] EXCEPT !.queue = rest]
      BY <3>1, <3>2, Zenon
    <3> QED  BY <3>3
  <2>2. CASE ~Accepts(s, st)
    <3>1. t = [Refused(s) EXCEPT !.queue = rest]
      BY <1>1, <2>2, Zenon DEF Served
    <3>2. PICK levels \in Seq(Level), aborted \in BOOLEAN :
            levels = s.levels /\ aborted = (s.levels # << >>)
      BY DEF RunnerRecord, RunnerType, Level
    <3>3. Refused(s) = [s EXCEPT !.aborted = aborted]
      BY <3>2, Zenon DEF Refused
    <3>4. [s EXCEPT !.aborted = aborted] = [s EXCEPT !.levels = levels, !.aborted = aborted]
      BY <3>2 DEF RunnerRecord, RunnerType
    <3>5. t = [[s EXCEPT !.levels = levels, !.aborted = aborted] EXCEPT !.queue = rest]
      BY <3>1, <3>3, <3>4, Zenon
    <3> QED  BY <3>5
  <2> QED  BY <2>1, <2>2
<1>3. PICK u : u = [s EXCEPT !.levels = levels, !.aborted = aborted]
  OBVIOUS
<1>4. /\ u \in RunnerRecord /\ u.link = s.link
      /\ u.released = s.released /\ u.depth = s.depth
  BY <1>3 DEF RunnerRecord, RunnerType, Level
<1>5. t = [u EXCEPT !.queue = rest]
  BY <1>2, <1>3
<1> QED  BY <1>1, <1>4, <1>5 DEF RunnerRecord, RunnerType, Statements

LEMMA DurableTyped ==
  ASSUME NEW s \in RunnerRecord, NEW st \in Statements
  PROVE  MadeDurable(s, st) \in SUBSET Writes
<1>1. st.writes \in SUBSET Writes
  BY DEF Statements
<1>2. WritesFrom(s, 1) \in SUBSET Writes
  <2>1. s.levels \in Seq(Level)
    BY DEF RunnerRecord, RunnerType, Level
  <2>2. 1 \in 1 .. Len(s.levels) + 1
    BY <2>1
  <2> QED  BY <2>2, WritesFromTyped
<1> QED  BY <1>1, <1>2 DEF MadeDurable

-----------------------------------------------------------------------------
(* What keeps the queues of all runners tidy.                              *)

LEMMA QueueTyped ==
  ASSUME NEW s \in Sessions, NEW q \in Runners
  PROVE  s[q] \in RunnerRecord /\ s[q].queue \in Seq(Statements)
BY DEF Sessions, RunnerRecord, RunnerType, Statements

LEMMA NothingAwaited ==
  ASSUME NEW s \in Sessions, NEW p, Tidy(s, p), NEW r \in Requests,
         p[r] \notin Suspended
  PROVE  Free(s, r)
<1> SUFFICES ASSUME NEW q \in Runners, NEW i \in DOMAIN s[q].queue,
                    s[q].queue[i].by = r
             PROVE  FALSE
  BY DEF Free
<1>1. Awaits(p[r], s[q].queue[i])
  BY DEF Tidy
<1> QED  BY <1>1 DEF Awaits, Suspended

LEMMA QueuesKept ==
  ASSUME NEW s \in Sessions, NEW p, Tidy(s, p), NEW r \in Requests, Free(s, r),
         NEW t \in Sessions, \A q \in Runners : t[q].queue = s[q].queue,
         NEW place, \A x \in Requests \ {r} : place[x] = p[x]
  PROVE  Tidy(t, place) /\ Free(t, r)
<1>1. \A q \in Runners : \A i \in DOMAIN s[q].queue :
        s[q].queue[i].by \in Requests \ {r}
  <2> SUFFICES ASSUME NEW q \in Runners, NEW i \in DOMAIN s[q].queue
               PROVE  s[q].queue[i].by \in Requests \ {r}
    OBVIOUS
  <2>1. s[q].queue[i] \in Statements
    BY QueueTyped
  <2> QED  BY <2>1 DEF Free, Statements
<1>2. \A q \in Runners : \A i \in DOMAIN t[q].queue :
        Awaits(place[t[q].queue[i].by], t[q].queue[i])
  <2> SUFFICES ASSUME NEW q \in Runners, NEW i \in DOMAIN t[q].queue
               PROVE  Awaits(place[t[q].queue[i].by], t[q].queue[i])
    OBVIOUS
  <2>1. i \in DOMAIN s[q].queue /\ t[q].queue[i] = s[q].queue[i]
    OBVIOUS
  <2>2. place[s[q].queue[i].by] = p[s[q].queue[i].by]
    BY <1>1, <2>1
  <2>3. Awaits(p[s[q].queue[i].by], s[q].queue[i])
    BY <2>1 DEF Tidy
  <2> QED  BY <2>1, <2>2, <2>3, Zenon
<1>3. \A q, x \in Runners : \A i \in DOMAIN t[q].queue, j \in DOMAIN t[x].queue :
        t[q].queue[i].by = t[x].queue[j].by => q = x /\ i = j
  BY DEF Tidy
<1>4. Free(t, r)
  BY DEF Free
<1> QED  BY <1>2, <1>3, <1>4 DEF Tidy

LEMMA QueueGrows ==
  ASSUME NEW s \in Sessions, NEW p, Tidy(s, p), NEW r \in Requests, Free(s, r),
         NEW q \in Runners, NEW st \in Statements, st.by = r,
         NEW t \in Sessions, t[q].queue = Append(s[q].queue, st),
         \A x \in Runners \ {q} : t[x].queue = s[x].queue,
         NEW place, \A x \in Requests \ {r} : place[x] = p[x], Awaits(place[r], st)
  PROVE  Tidy(t, place) /\ ~Free(t, r) /\ Remain(s, t, Requests)
<1> DEFINE n == Len(s[q].queue) + 1
<1>1. s[q].queue \in Seq(Statements) /\ n \in Nat
  BY QueueTyped
<1>2. /\ n \in DOMAIN t[q].queue /\ t[q].queue[n] = st /\ n \notin DOMAIN s[q].queue
      /\ \A i \in DOMAIN t[q].queue \ {n} :
           i \in DOMAIN s[q].queue /\ t[q].queue[i] = s[q].queue[i]
      /\ \A i \in DOMAIN s[q].queue :
           i \in DOMAIN t[q].queue /\ t[q].queue[i] = s[q].queue[i]
  BY <1>1
<1> HIDE DEF n
<1>3. \A x \in Runners : \A i \in DOMAIN t[x].queue :
        \/ x = q /\ i = n
        \/ /\ i \in DOMAIN s[x].queue /\ t[x].queue[i] = s[x].queue[i]
           /\ s[x].queue[i].by \in Requests \ {r}
  <2> SUFFICES ASSUME NEW x \in Runners, NEW i \in DOMAIN t[x].queue, ~(x = q /\ i = n)
               PROVE  /\ i \in DOMAIN s[x].queue /\ t[x].queue[i] = s[x].queue[i]
                      /\ s[x].queue[i].by \in Requests \ {r}
    OBVIOUS
  <2>1. i \in DOMAIN s[x].queue /\ t[x].queue[i] = s[x].queue[i]
    BY <1>2
  <2>2. s[x].queue[i] \in Statements
    BY <2>1, QueueTyped
  <2> QED  BY <2>1, <2>2 DEF Free, Statements
<1>4. \A x \in Runners : \A i \in DOMAIN t[x].queue :
        Awaits(place[t[x].queue[i].by], t[x].queue[i])
  <2> SUFFICES ASSUME NEW x \in Runners, NEW i \in DOMAIN t[x].queue
               PROVE  Awaits(place[t[x].queue[i].by], t[x].queue[i])
    OBVIOUS
  <2>1. CASE x = q /\ i = n
    BY <1>2, <2>1
  <2>2. CASE ~(x = q /\ i = n)
    <3>1. /\ i \in DOMAIN s[x].queue /\ t[x].queue[i] = s[x].queue[i]
          /\ s[x].queue[i].by \in Requests \ {r}
      BY <1>3, <2>2
    <3>2. Awaits(p[s[x].queue[i].by], s[x].queue[i])
      BY <3>1 DEF Tidy
    <3>3. place[s[x].queue[i].by] = p[s[x].queue[i].by]
      BY <3>1
    <3> QED  BY <3>1, <3>2, <3>3, Zenon
  <2> QED  BY <2>1, <2>2
<1>5. \A x, y \in Runners : \A i \in DOMAIN t[x].queue, j \in DOMAIN t[y].queue :
        t[x].queue[i].by = t[y].queue[j].by => x = y /\ i = j
  <2> SUFFICES ASSUME NEW x \in Runners, NEW y \in Runners,
                      NEW i \in DOMAIN t[x].queue, NEW j \in DOMAIN t[y].queue,
                      t[x].queue[i].by = t[y].queue[j].by
               PROVE  x = y /\ i = j
    OBVIOUS
  <2>1. CASE x = q /\ i = n
    <3>1. t[y].queue[j].by = r
      BY <1>2, <2>1
    <3>2. ~(s[y].queue[j].by \in Requests \ {r} /\ t[y].queue[j] = s[y].queue[j])
      BY <3>1
    <3> QED  BY <1>3, <2>1, <3>2, Zenon
  <2>2. CASE y = q /\ j = n
    <3>1. t[x].queue[i].by = r
      BY <1>2, <2>2
    <3>2. ~(s[x].queue[i].by \in Requests \ {r} /\ t[x].queue[i] = s[x].queue[i])
      BY <3>1
    <3> QED  BY <1>3, <2>2, <3>2, Zenon
  <2>3. CASE ~(x = q /\ i = n) /\ ~(y = q /\ j = n)
    <3>1. /\ i \in DOMAIN s[x].queue /\ t[x].queue[i] = s[x].queue[i]
          /\ j \in DOMAIN s[y].queue /\ t[y].queue[j] = s[y].queue[j]
      BY <1>3, <2>3
    <3>2. s[x].queue[i].by = s[y].queue[j].by
      BY <3>1
    <3> QED  BY <3>1, <3>2 DEF Tidy
  <2> QED  BY <2>1, <2>2, <2>3
<1>6. ~Free(t, r)
  BY <1>2 DEF Free
<1>7. ASSUME NEW x \in Requests, ~Free(s, x)  PROVE ~Free(t, x)
  <2>0. PICK y \in Runners : \E i \in DOMAIN s[y].queue : s[y].queue[i].by = x
    BY <1>7 DEF Free
  <2>1. PICK i \in DOMAIN s[y].queue : s[y].queue[i].by = x
    BY <2>0
  <2>2. i \in DOMAIN t[y].queue /\ t[y].queue[i] = s[y].queue[i]
    BY <1>2
  <2> QED  BY <2>1, <2>2 DEF Free
<1> QED  BY <1>4, <1>5, <1>6, <1>7 DEF Tidy, Remain

LEMMA QueueServed ==
  ASSUME NEW s \in Sessions, NEW p, Tidy(s, p),
         NEW q \in Runners, s[q].queue # << >>,
         NEW t \in Sessions, t[q].queue = Tail(s[q].queue),
         \A x \in Runners \ {q} : t[x].queue = s[x].queue
  PROVE  /\ Tidy(t, p) /\ Free(t, Head(s[q].queue).by)
         /\ Awaits(p[Head(s[q].queue).by], Head(s[q].queue))
         /\ Remain(s, t, Requests \ {Head(s[q].queue).by})
<1>1. s[q].queue \in Seq(Statements)
  BY QueueTyped
<1>2. /\ 1 \in DOMAIN s[q].queue /\ Head(s[q].queue) = s[q].queue[1]
      /\ \A i \in DOMAIN t[q].queue :
           i \in Nat /\ i + 1 \in DOMAIN s[q].queue /\ i + 1 # 1
           /\ t[q].queue[i] = s[q].queue[i + 1]
      /\ \A i \in DOMAIN s[q].queue \ {1} :
           i - 1 \in DOMAIN t[q].queue /\ t[q].queue[i - 1] = s[q].queue[i]
  BY <1>1
<1> DEFINE From(x, i) == IF x = q THEN i + 1 ELSE i
<1>3. \A x \in Runners : \A i \in DOMAIN t[x].queue :
        /\ From(x, i) \in DOMAIN s[x].queue
        /\ t[x].queue[i] = s[x].queue[From(x, i)]
        /\ ~(x = q /\ From(x, i) = 1)
  BY <1>2
<1>4. \A x \in Runners : \A i, j \in DOMAIN t[x].queue :
        From(x, i) = From(x, j) => i = j
  <2> SUFFICES ASSUME NEW x \in Runners, NEW i \in DOMAIN t[x].queue,
                      NEW j \in DOMAIN t[x].queue, From(x, i) = From(x, j)
               PROVE  i = j
    OBVIOUS
  <2>1. CASE x = q
    <3>1. i \in Nat /\ j \in Nat
      BY <1>2, <2>1
    <3>2. i + 1 = j + 1
      BY <2>1
    <3> QED  BY <3>1, <3>2
  <2>2. CASE x # q
    BY <2>2
  <2> QED  BY <2>1, <2>2
<1> HIDE DEF From
<1>5. \A x \in Runners : \A i \in DOMAIN t[x].queue :
        Awaits(p[t[x].queue[i].by], t[x].queue[i])
  <2> SUFFICES ASSUME NEW x \in Runners, NEW i \in DOMAIN t[x].queue
               PROVE  Awaits(p[t[x].queue[i].by], t[x].queue[i])
    OBVIOUS
  <2>1. Awaits(p[s[x].queue[From(x, i)].by], s[x].queue[From(x, i)])
    BY <1>3 DEF Tidy
  <2> QED  BY <1>3, <2>1
<1>6. \A x, y \in Runners : \A i \in DOMAIN t[x].queue, j \in DOMAIN t[y].queue :
        t[x].queue[i].by = t[y].queue[j].by => x = y /\ i = j
  <2> SUFFICES ASSUME NEW x \in Runners, NEW y \in Runners,
                      NEW i \in DOMAIN t[x].queue, NEW j \in DOMAIN t[y].queue,
                      t[x].queue[i].by = t[y].queue[j].by
               PROVE  x = y /\ i = j
    OBVIOUS
  <2>1. s[x].queue[From(x, i)].by = s[y].queue[From(y, j)].by
    BY <1>3
  <2>2. x = y /\ From(x, i) = From(y, j)
    BY <1>3, <2>1 DEF Tidy
  <2> QED  BY <1>4, <2>2
<1>7. \A x \in Runners : \A i \in DOMAIN t[x].queue :
        t[x].queue[i].by # Head(s[q].queue).by
  <2> SUFFICES ASSUME NEW x \in Runners, NEW i \in DOMAIN t[x].queue,
                      t[x].queue[i].by = Head(s[q].queue).by
               PROVE  FALSE
    OBVIOUS
  <2>1. s[x].queue[From(x, i)].by = s[q].queue[1].by
    BY <1>2, <1>3
  <2>2. x = q /\ From(x, i) = 1
    BY <1>2, <1>3, <2>1 DEF Tidy
  <2> QED  BY <1>3, <2>2
<1>8. Awaits(p[Head(s[q].queue).by], Head(s[q].queue))
  BY <1>2 DEF Tidy
<1>9. ASSUME NEW r \in Requests \ {Head(s[q].queue).by}, ~Free(s, r)  PROVE ~Free(t, r)
  <2>0. PICK y \in Runners : \E i \in DOMAIN s[y].queue : s[y].queue[i].by = r
    BY <1>9 DEF Free
  <2>1. PICK i \in DOMAIN s[y].queue : s[y].queue[i].by = r
    BY <2>0
  <2>2. CASE y = q
    <3>1. i \in DOMAIN s[q].queue \ {1}
      BY <1>2, <2>1, <2>2
    <3> QED  BY <1>2, <2>1, <2>2, <3>1 DEF Free
  <2>3. CASE y # q
    BY <2>1, <2>3 DEF Free
  <2> QED  BY <2>2, <2>3
<1> QED  BY <1>5, <1>6, <1>7, <1>8, <1>9 DEF Tidy, Free, Remain

(* The queue of p goes before that of q when its connection is taken over. *)
LEMMA QueuesJoined ==
  ASSUME NEW s \in Sessions, NEW place, Tidy(s, place),
         NEW q \in Runners, NEW p \in Runners, p # q,
         NEW t \in Sessions, t[q].queue = s[p].queue \o s[q].queue, t[p].queue = << >>,
         \A x \in Runners \ {p, q} : t[x].queue = s[x].queue
  PROVE  Tidy(t, place) /\ Remain(s, t, Requests)
<1> DEFINE n == Len(s[p].queue)
<1>1. PICK before, after \in Seq(Statements) : before = s[p].queue /\ after = s[q].queue
  BY QueueTyped
<1>2. PICK joined \in Seq(Statements) : joined = t[q].queue
  BY QueueTyped
<1>3. /\ joined = before \o after /\ n = Len(before) /\ n \in Nat
      /\ Len(joined) = n + Len(after) /\ Len(after) \in Nat
      /\ DOMAIN before = 1 .. n /\ DOMAIN after = 1 .. Len(after)
      /\ DOMAIN joined = 1 .. n + Len(after)
  BY <1>1, <1>2, ConcatProperties
<1>4. /\ \A i \in 1 .. n : joined[i] = before[i]
      /\ \A i \in 1 .. Len(after) : joined[n + i] = after[i]
  BY <1>3
<1>5. DOMAIN t[p].queue = {}
  OBVIOUS
<1>6. ASSUME NEW i \in DOMAIN joined, i <= n
      PROVE  i \in DOMAIN before /\ joined[i] = before[i]
  BY <1>3, <1>4, <1>6
<1>7. ASSUME NEW i \in DOMAIN joined, ~(i <= n)
      PROVE  i - n \in DOMAIN after /\ joined[i] = after[i - n]
  <2>1. PICK m \in Nat : m = Len(after)
    BY <1>3
  <2>2. n \in Nat /\ i \in 1 .. n + m
    BY <1>3, <1>7, <2>1
  <2>3. i - n \in 1 .. m /\ n + (i - n) = i
    BY <1>7, <2>2
  <2> QED  BY <1>3, <1>4, <2>1, <2>3
<1>8. \A i \in DOMAIN joined : i \in Nat
  BY <1>3
<1> HIDE DEF n
<1> DEFINE Who(x, i) == IF x = q /\ i <= n THEN p ELSE x
           Where(x, i) == IF x = q /\ ~(i <= n) THEN i - n ELSE i
<1>9. ASSUME NEW x \in Runners, NEW i \in DOMAIN t[x].queue
      PROVE  /\ Who(x, i) \in Runners /\ Where(x, i) \in DOMAIN s[Who(x, i)].queue
             /\ t[x].queue[i] = s[Who(x, i)].queue[Where(x, i)]
  <2>1. CASE x # q
    BY <1>5, <1>9, <2>1
  <2>2. CASE x = q /\ i <= n
    BY <1>1, <1>2, <1>6, <1>9, <2>2
  <2>3. CASE x = q /\ ~(i <= n)
    BY <1>1, <1>2, <1>7, <1>9, <2>3
  <2> QED  BY <2>1, <2>2, <2>3
<1>10. ASSUME NEW x \in Runners, NEW y \in Runners,
              NEW i \in DOMAIN t[x].queue, NEW j \in DOMAIN t[y].queue,
              Who(x, i) = Who(y, j), Where(x, i) = Where(y, j)
       PROVE  x = y /\ i = j
  <2>1. x # p /\ y # p
    BY <1>5, <1>10
  <2>2. x = y
    BY <1>10, <2>1
  <2>3. CASE x # q
    BY <1>10, <2>2, <2>3
  <2>4. CASE x = q
    <3>1. i \in Nat /\ j \in Nat
      BY <1>2, <1>8, <1>10, <2>2, <2>4
    <3>2. (i <= n) <=> (j <= n)
      BY <1>10, <2>1, <2>2, <2>4
    <3> QED  BY <1>3, <1>10, <2>2, <2>4, <3>1, <3>2
  <2> QED  BY <2>3, <2>4
<1> HIDE DEF Who, Where
<1>11. ASSUME NEW x \in Runners, NEW i \in DOMAIN t[x].queue
       PROVE  Awaits(place[t[x].queue[i].by], t[x].queue[i])
  <2>1. Awaits(place[s[Who(x, i)].queue[Where(x, i)].by], s[Who(x, i)].queue[Where(x, i)])
    BY <1>9, <1>11 DEF Tidy
  <2> QED  BY <1>9, <1>11, <2>1
<1>12. ASSUME NEW x \in Runners, NEW y \in Runners,
              NEW i \in DOMAIN t[x].queue, NEW j \in DOMAIN t[y].queue,
              t[x].queue[i].by = t[y].queue[j].by
       PROVE  x = y /\ i = j
  <2>1. s[Who(x, i)].queue[Where(x, i)].by = s[Who(y, j)].queue[Where(y, j)].by
    BY <1>9, <1>12
  <2>2. Who(x, i) = Who(y, j) /\ Where(x, i) = Where(y, j)
    BY <1>9, <1>12, <2>1 DEF Tidy
  <2> QED  BY <1>10, <1>12, <2>2
<1>13. ASSUME NEW r \in Requests, ~Free(s, r)  PROVE ~Free(t, r)
  <2>1. PICK y \in Runners : \E i \in DOMAIN s[y].queue : s[y].queue[i].by = r
    BY <1>13 DEF Free
  <2>2. PICK i \in DOMAIN s[y].queue : s[y].queue[i].by = r
    BY <2>1
  <2>3. CASE y = p
    <3>1. i \in DOMAIN before /\ before[i].by = r
      BY <1>1, <2>2, <2>3
    <3>2. i \in DOMAIN joined /\ joined[i] = before[i]
      BY <1>3, <1>4, <3>1
    <3> QED  BY <1>2, <3>1, <3>2 DEF Free
  <2>4. CASE y = q
    <3>1. i \in DOMAIN after /\ after[i].by = r
      BY <1>1, <2>2, <2>4
    <3>2. n + i \in DOMAIN joined /\ joined[n + i] = after[i]
      BY <1>3, <1>4, <3>1
    <3> QED  BY <1>2, <3>1, <3>2 DEF Free
  <2>5. CASE y \notin {p, q}
    BY <2>2, <2>5 DEF Free
  <2> QED  BY <2>3, <2>4, <2>5
<1> QED  BY <1>11, <1>12, <1>13 DEF Tidy, Remain

-----------------------------------------------------------------------------
(* What a method called by request r leaves, when the step has made s of   *)
(* the sessions before the call.                                           *)

Callable(s, r) ==
  /\ s \in Sessions /\ Tidy(s, pc) /\ Usable(s, queryRunner)
  /\ Free(s, r) /\ Attended(s, pc, Requests \ {r})

Moves(r) ==
  /\ pc' \in [Requests -> PCs]
  /\ \A x \in Requests \ {r} : pc'[x] = pc[x]

Kept(r) ==
  /\ session' \in Sessions /\ Tidy(session', pc') /\ Attended(session', pc', Requests)
  /\ Usable(session', queryRunner')
  /\ queryRunner' \in Runners \cup {NoRunner} /\ transactionCount' \in Int
  /\ Moves(r)

LEMMA Went ==
  ASSUME TypeOK, NEW r \in Requests, NEW place \in PCs, Goto(r, place)
  PROVE  Moves(r) /\ pc'[r] = place
BY DEF TypeOK, Goto, Moves

(* No statement is sent.                                                   *)
LEMMA GoesWithout ==
  ASSUME TypeOK, NEW r \in Requests, NEW s, Callable(s, r),
         NEW place \in PCs \ Suspended, Goto(r, place),
         session' \in Sessions, \A q \in Runners : session'[q].queue = s[q].queue,
         Usable(session', queryRunner'),
         queryRunner' \in Runners \cup {NoRunner}, transactionCount' \in Int
  PROVE  Kept(r)
<1>1. Moves(r) /\ pc'[r] = place
  BY Went
<1>2. s \in Sessions /\ Tidy(s, pc) /\ Free(s, r) /\ Attended(s, pc, Requests \ {r})
  BY DEF Callable
<1>3. PICK t, p : t = session' /\ p = pc'
  OBVIOUS
<1>4. Tidy(t, p)
  BY <1>1, <1>2, <1>3, QueuesKept DEF Moves
<1>5. \A x \in Requests : ~Free(s, x) => ~Free(t, x)
  BY <1>3 DEF Free
<1>6. Attended(t, p, Requests)
  BY <1>1, <1>2, <1>3, <1>5 DEF Attended, Moves
<1> QED  BY <1>1, <1>3, <1>4, <1>6 DEF Kept

(* The sessions are what they were before the call.                        *)
LEMMA GoesQuietly ==
  ASSUME TypeOK, NEW r \in Requests, NEW s, Callable(s, r),
         NEW place \in PCs \ Suspended, Goto(r, place), session' = s,
         queryRunner' \in {queryRunner, NoRunner}, transactionCount' \in Int
  PROVE  Kept(r)
<1>1. s \in Sessions /\ Usable(s, queryRunner')
  BY DEF Callable, Usable
<1> QED  BY <1>1, GoesWithout DEF TypeOK

(* A statement is sent on the runner of the field.                         *)
LEMMA GoesSending ==
  ASSUME TypeOK, NEW r \in Requests, NEW s, Callable(s, r), queryRunner # NoRunner,
         NEW st \in Statements, st.by = r,
         NEW place \in PCs, Awaits(place, st), Goto(r, place),
         NEW u \in RunnerRecord, u.queue = Append(s[queryRunner].queue, st),
         u.link = s[queryRunner].link, u.released = s[queryRunner].released,
         session' = [s EXCEPT ![queryRunner] = u],
         UNCHANGED queryRunner, transactionCount' \in Int
  PROVE  Kept(r)
<1>1. Moves(r) /\ pc'[r] = place
  BY Went
<1>2. /\ s \in Sessions /\ Tidy(s, pc) /\ Free(s, r) /\ Usable(s, queryRunner)
      /\ Attended(s, pc, Requests \ {r})
  BY DEF Callable
<1>3. PICK q \in Runners : q = queryRunner
  BY DEF TypeOK
<1>4. PICK t, p : t = session' /\ p = pc'
  OBVIOUS
<1>5. t \in Sessions /\ t[q] = u /\ \A x \in Runners \ {q} : t[x] = s[x]
  BY <1>2, <1>3, <1>4 DEF Sessions
<1>6. Tidy(t, p) /\ ~Free(t, r) /\ Remain(s, t, Requests)
  <2>1. t[q].queue = Append(s[q].queue, st) /\ \A x \in Runners \ {q} : t[x].queue = s[x].queue
    BY <1>3, <1>5
  <2>2. Awaits(p[r], st) /\ \A x \in Requests \ {r} : p[x] = pc[x]
    BY <1>1, <1>4 DEF Moves
  <2> QED  BY <1>2, <1>5, <2>1, <2>2, QueueGrows
<1>7. Usable(t, queryRunner)
  BY <1>2, <1>3, <1>5 DEF Usable
<1>8. Attended(t, p, Requests)
  BY <1>1, <1>2, <1>4, <1>6 DEF Attended, Remain, Moves
<1> QED  BY <1>1, <1>4, <1>5, <1>6, <1>7, <1>8 DEF Kept, TypeOK

LEMMA RollbackKept ==
  ASSUME TypeOK, NEW r \in Requests, NEW s, Callable(s, r),
         NEW f \in {"interceptor", "execute"}, NEW count \in Int,
         Rollback(r, f, s, count)
  PROVE  Kept(r) /\ pc'[r] \in {"thrown", "done", "rollback"}
<1>1. PICK place \in PCs \ Suspended : /\ place = IF f = "execute" THEN "thrown" ELSE "done"
                           /\ (RollbackReturns(r, f) <=> Goto(r, place))
  BY DEF PCs, Suspended, RollbackReturns
<1>2. CASE queryRunner = NoRunner /\ RollbackReturns(r, f)
           /\ session' = s /\ transactionCount' = count /\ UNCHANGED queryRunner
  BY <1>1, <1>2, GoesQuietly, Went
<1>3. CASE queryRunner # NoRunner /\ RollbackReturns(r, f)
           /\ session' = s /\ queryRunner' = NoRunner /\ transactionCount' = 0
  BY <1>1, <1>3, GoesQuietly, Went
<1>4. CASE /\ queryRunner # NoRunner
           /\ session' = [s EXCEPT ![queryRunner] = Issue(@, RollbackStatement(@, queryRunner, r))]
           /\ Goto(r, "rollback") /\ transactionCount' = count /\ UNCHANGED queryRunner
  <2>1. queryRunner \in Runners /\ s \in Sessions
    BY <1>4 DEF TypeOK, Callable
  <2>2. PICK x \in RunnerRecord : x = s[queryRunner]
    BY <2>1, QueueTyped
  <2>3. PICK st \in Statements : st = RollbackStatement(x, queryRunner, r)
    BY <2>1, StatementsMade
  <2>4. st.by = r /\ Awaits("rollback", st)
    BY <2>1, <2>3, StatementsMade
  <2>5. PICK u : u = Issue(x, st)
    OBVIOUS
  <2>6. /\ u \in RunnerRecord /\ u.queue = Append(x.queue, st)
        /\ u.link = x.link /\ u.released = x.released
    BY <2>5, Queued
  <2>7. session' = [s EXCEPT ![queryRunner] = u]
    BY <1>4, <2>1, <2>2, <2>3, <2>5 DEF Sessions
  <2>8. "rollback" \in PCs /\ transactionCount' \in Int
    BY <1>4 DEF PCs
  <2>9. /\ u.queue = Append(s[queryRunner].queue, st)
        /\ u.link = s[queryRunner].link /\ u.released = s[queryRunner].released
    BY <2>2, <2>6
  <2>10. Kept(r)
    BY <1>4, <2>4, <2>6, <2>7, <2>8, <2>9, GoesSending
  <2> QED  BY <1>4, <2>8, <2>10, Went
<1> QED  BY <1>2, <1>3, <1>4 DEF Rollback

LEMMA ExecuteCatchKept ==
  ASSUME TypeOK, NEW r \in Requests, NEW s, Callable(s, r), NEW count \in Int,
         ExecuteCatch(r, s, count)
  PROVE  Kept(r) /\ pc'[r] \notin {"write", "plain"}
<1>1. CASE wasOuter[r]
  BY <1>1, RollbackKept DEF ExecuteCatch
<1>2. CASE ~wasOuter[r]
  <2>1. /\ transactionCount' = count - 1 /\ Goto(r, "thrown")
        /\ session' = s /\ UNCHANGED queryRunner
    BY <1>2 DEF ExecuteCatch
  <2>2. "thrown" \in PCs \ Suspended
    BY DEF PCs, Suspended
  <2> QED  BY <2>1, <2>2, GoesQuietly, Went
<1> QED  BY <1>1, <1>2

LEMMA StartFailsKept ==
  ASSUME TypeOK, NEW r \in Requests, NEW s, Callable(s, r), NEW f, StartFails(r, f, s)
  PROVE  Kept(r) /\ pc'[r] \notin {"write", "plain"}
<1>1. transactionCount \in Int /\ "startFailed" \in PCs \ Suspended
  BY DEF TypeOK, PCs, Suspended
<1>2. CASE /\ Goto(r, "startFailed") /\ session' = s
           /\ UNCHANGED <<queryRunner, transactionCount>>
  BY <1>1, <1>2, GoesQuietly, Went
<1> QED  BY <1>1, <1>2, ExecuteCatchKept DEF StartFails

LEMMA CompleteFailsKept ==
  ASSUME TypeOK, NEW r \in Requests, NEW s, Callable(s, r), NEW count \in Int,
         NEW f, CompleteFails(r, f, s, count)
  PROVE  Kept(r) /\ pc'[r] \notin {"write", "plain"}
<1>1. "done" \in PCs \ Suspended
  BY DEF PCs, Suspended
<1>2. CASE Goto(r, "done") /\ session' = s /\ transactionCount' = count
           /\ UNCHANGED queryRunner
  BY <1>1, <1>2, GoesQuietly, Went
<1> QED  BY <1>2, ExecuteCatchKept DEF CompleteFails

LEMMA CompleteKept ==
  ASSUME TypeOK, NEW r \in Requests, Callable(session, r),
         NEW f \in {"interceptor", "execute"}, Complete(r, f)
  PROVE  Kept(r) /\ pc'[r] \notin {"write", "plain"}
<1>1. transactionCount \in Int
  BY DEF TypeOK
<1>2. CASE CompleteFails(r, f, session, transactionCount)
           \/ CompleteFails(r, f, session, 0)
  BY <1>1, <1>2, CompleteFailsKept
<1>3. CASE transactionCount' = transactionCount - 1 /\ CompleteReturns(r, f)
           /\ UNCHANGED <<queryRunner, session>>
  <2>1. PICK place \in PCs \ Suspended : /\ place = IF f = "execute" THEN "returned" ELSE "done"
                             /\ Goto(r, place)
    BY <1>3 DEF PCs, Suspended, CompleteReturns
  <2> QED  BY <1>1, <1>3, <2>1, GoesQuietly, Went
<1>4. CASE /\ queryRunner # NoRunner /\ transactionCount' = 0
           /\ session' = [session EXCEPT ![queryRunner] = Issue(@, CommitStatement(@, queryRunner, r))]
           /\ Goto(r, "commit") /\ UNCHANGED queryRunner
  <2>1. queryRunner \in Runners /\ session \in Sessions
    BY <1>4 DEF TypeOK, Callable
  <2>2. PICK x \in RunnerRecord : x = session[queryRunner]
    BY <2>1, QueueTyped
  <2>3. PICK st \in Statements : st = CommitStatement(x, queryRunner, r)
    BY <2>1, StatementsMade
  <2>4. st.by = r /\ Awaits("commit", st)
    BY <2>1, <2>3, StatementsMade
  <2>5. PICK u : u = Issue(x, st)
    OBVIOUS
  <2>6. /\ u \in RunnerRecord /\ u.queue = Append(x.queue, st)
        /\ u.link = x.link /\ u.released = x.released
    BY <2>5, Queued
  <2>7. session' = [session EXCEPT ![queryRunner] = u]
    BY <1>4, <2>1, <2>2, <2>3, <2>5 DEF Sessions
  <2>8. "commit" \in PCs /\ transactionCount' \in Int
    BY <1>4 DEF PCs
  <2>9. /\ u.queue = Append(session[queryRunner].queue, st)
        /\ u.link = session[queryRunner].link /\ u.released = session[queryRunner].released
    BY <2>2, <2>6
  <2>10. Kept(r)
    BY <1>4, <2>4, <2>6, <2>7, <2>8, <2>9, GoesSending
  <2> QED  BY <1>4, <2>8, <2>10, Went
<1> QED  BY <1>2, <1>3, <1>4 DEF Complete

LEMMA StartKept ==
  ASSUME TypeOK, NEW r \in Requests, Callable(session, r),
         NEW f \in {"interceptor", "execute"}, Start(r, f)
  PROVE  /\ Kept(r) /\ pc'[r] \notin {"write", "plain"}
         /\ target' \in [Requests -> Runners \cup {NoRunner}]
<1>1. CASE /\ transactionCount' = transactionCount + 1 /\ Started(r, f)
           /\ UNCHANGED <<queryRunner, session, target>>
  <2>1. PICK place \in PCs \ Suspended : /\ place = IF f = "interceptor" THEN "intercepted" ELSE "op"
                             /\ Goto(r, place)
    BY <1>1 DEF PCs, Suspended, Started
  <2> QED  BY <1>1, <2>1, GoesQuietly, Went DEF TypeOK
<1>2. CASE /\ \E q \in Runners :
                /\ session[q].link = "unused"
                /\ session' = [session EXCEPT ![q].link = "waiting"]
                /\ queryRunner' = q
                /\ target' = [target EXCEPT ![r] = q]
           /\ Goto(r, "connecting") /\ UNCHANGED transactionCount
  <2>1. PICK q \in Runners : /\ session[q].link = "unused"
                             /\ session' = [session EXCEPT ![q].link = "waiting"]
                             /\ queryRunner' = q
                             /\ target' = [target EXCEPT ![r] = q]
    BY <1>2
  <2>2. session \in Sessions /\ session[q] \in RunnerRecord /\ Usable(session, queryRunner)
    BY QueueTyped DEF Callable
  <2>3. PICK u : u = [session[q] EXCEPT !.link = "waiting"]
    OBVIOUS
  <2>4. /\ u \in RunnerRecord /\ u.queue = session[q].queue /\ u.link = "waiting"
        /\ u.released = session[q].released
    BY <2>2, <2>3 DEF RunnerRecord, RunnerType
  <2>5. session' \in Sessions /\ session'[q] = u /\ \A x \in Runners \ {q} : session'[x] = session[x]
    BY <2>1, <2>2, <2>3, <2>4 DEF Sessions
  <2>6. PICK t : t = session'
    OBVIOUS
  <2>7. Usable(t, q)
    BY <2>1, <2>2, <2>4, <2>5, <2>6 DEF Usable
  <2>8. "connecting" \in PCs \ Suspended /\ transactionCount' \in Int /\ queryRunner' \in Runners
    BY <1>2, <2>1 DEF PCs, Suspended, TypeOK
  <2>9. \A x \in Runners : session'[x].queue = session[x].queue
    BY <2>4, <2>5
  <2>10. Kept(r) /\ pc'[r] = "connecting"
    BY <1>2, <2>1, <2>5, <2>6, <2>7, <2>8, <2>9, GoesWithout, Went
  <2> QED  BY <2>1, <2>10 DEF TypeOK
<1> QED  BY <1>1, <1>2 DEF Start

-----------------------------------------------------------------------------
(* Each step.                                                              *)

LEMMA StepKeeps ==
  ASSUME OverlapInv, NEW r \in Requests, Kept(r),
         durable' \in SUBSET Writes,
         frame' \in [Requests -> {"interceptor", "execute"}],
         wasOuter' \in [Requests -> BOOLEAN],
         leg' \in [Requests -> 0 .. Legs],
         \A x \in Requests \ {r} : leg'[x] = leg[x],
         pc'[r] \in {"write", "plain"} => leg'[r] < Legs,
         target' \in [Requests -> Runners \cup {NoRunner}],
         reply' \in [Requests -> {"none", "ok", "error"}]
  PROVE  OverlapInv'
<1>1. TypeOK'
  BY DEF Kept, Moves, Sessions, RunnerRecord, TypeOK
<1> QED  BY <1>1 DEF OverlapInv, Kept, Moves

LEMMA CallableNow ==
  ASSUME OverlapInv, NEW r \in Requests, pc[r] \notin Suspended
  PROVE  TypeOK /\ Callable(session, r) /\ transactionCount \in Int
<1>1. session \in Sessions /\ Tidy(session, pc)
  BY DEF OverlapInv, TypeOK, Sessions, RunnerRecord
<1>2. Free(session, r)
  BY <1>1, NothingAwaited
<1>3. Attended(session, pc, Requests \ {r})
  BY DEF OverlapInv, Attended
<1> QED  BY <1>1, <1>2, <1>3 DEF OverlapInv, Callable, TypeOK

LEMMA ReceiveOverlaps ==
  ASSUME OverlapInv, NEW r \in Requests, Receive(r)  PROVE OverlapInv'
<1>1. pc[r] = "absent" /\ Start(r, "interceptor")
      /\ UNCHANGED <<durable, frame, wasOuter, leg, reply>>
  BY DEF Receive
<1>2. TypeOK /\ Callable(session, r)
  BY <1>1, CallableNow DEF Suspended
<1>3. /\ Kept(r) /\ pc'[r] \notin {"write", "plain"}
      /\ target' \in [Requests -> Runners \cup {NoRunner}]
  BY <1>1, <1>2, StartKept
<1> QED  BY <1>1, <1>2, <1>3, StepKeeps DEF TypeOK

LEMMA ExecuteOverlaps ==
  ASSUME OverlapInv, NEW r \in Requests, Execute(r)  PROVE OverlapInv'
<1>1. /\ pc[r] = "intercepted" /\ Start(r, "execute")
      /\ frame' = [frame EXCEPT ![r] = "execute"]
      /\ UNCHANGED <<durable, leg, reply>>
  BY DEF Execute
<1>2. TypeOK /\ Callable(session, r)
  BY <1>1, CallableNow DEF Suspended
<1>3. /\ Kept(r) /\ pc'[r] \notin {"write", "plain"}
      /\ target' \in [Requests -> Runners \cup {NoRunner}]
  BY <1>1, <1>2, StartKept
<1>4. wasOuter' \in [Requests -> BOOLEAN]
  BY <1>2 DEF Execute, TypeOK
<1>5. frame' \in [Requests -> {"interceptor", "execute"}]
  BY <1>1, <1>2 DEF TypeOK
<1> QED  BY <1>1, <1>2, <1>3, <1>4, <1>5, StepKeeps DEF TypeOK

LEMMA ConnectedOverlaps ==
  ASSUME OverlapInv, NEW r \in Requests, Connected(r)  PROVE OverlapInv'
<1>1. pc[r] = "connecting" /\ UNCHANGED <<durable, frame, wasOuter, leg, target, reply>>
  BY DEF Connected
<1>2. TypeOK /\ Callable(session, r) /\ transactionCount \in Int
  BY <1>1, CallableNow DEF Suspended
<1>3. CASE StartFails(r, frame[r], session)
  BY <1>1, <1>2, <1>3, StartFailsKept, StepKeeps DEF TypeOK
<1>4. CASE /\ ~StartThrows(session)
           /\ session' = [session EXCEPT ![queryRunner] = IssueStart(@, queryRunner, r)]
           /\ Goto(r, "begin")
           /\ UNCHANGED <<queryRunner, transactionCount>>
  <2>1. queryRunner # NoRunner /\ queryRunner \in Runners /\ session \in Sessions
    BY <1>2, <1>4 DEF StartThrows, TypeOK, Callable
  <2>2. PICK x \in RunnerRecord : x = session[queryRunner]
    BY <2>1, QueueTyped
  <2>3. PICK u : u = IssueStart(x, queryRunner, r)
    OBVIOUS
  <2>4. PICK st \in Statements : st = StartStatement(x, queryRunner, r)
    BY <2>1, <2>3, QueuedStart
  <2>5. /\ u \in RunnerRecord /\ u.queue = Append(x.queue, st)
        /\ u.link = x.link /\ u.released = x.released
    BY <2>1, <2>3, <2>4, QueuedStart
  <2>6. st.by = r /\ Awaits("begin", st)
    BY <2>1, <2>4, StatementsMade
  <2>7. session' = [session EXCEPT ![queryRunner] = u]
    BY <1>4, <2>1, <2>2, <2>3 DEF Sessions
  <2>8. "begin" \in PCs /\ transactionCount' \in Int
    BY <1>2, <1>4 DEF PCs
  <2>9. /\ u.queue = Append(session[queryRunner].queue, st)
        /\ u.link = session[queryRunner].link /\ u.released = session[queryRunner].released
    BY <2>2, <2>5
  <2>10. Kept(r) /\ pc'[r] = "begin"
    <3>1. Goto(r, "begin") /\ UNCHANGED queryRunner
      BY <1>4
    <3>2. Kept(r)
      BY <1>2, <2>1, <2>5, <2>6, <2>7, <2>8, <2>9, <3>1, GoesSending
    <3> QED  BY <1>2, <2>8, <3>1, <3>2, Went
  <2> QED  BY <1>1, <1>2, <2>10, StepKeeps DEF TypeOK
<1> QED  BY <1>3, <1>4 DEF Connected

LEMMA WriteOverlaps ==
  ASSUME OverlapInv, NEW r \in Requests, Write(r)  PROVE OverlapInv'
<1>1. pc[r] = "op" /\ leg[r] < Legs /\ UNCHANGED <<durable, frame, wasOuter, leg, target, reply>>
  BY DEF Write
<1>2. TypeOK /\ Callable(session, r) /\ transactionCount \in Int
  BY <1>1, CallableNow DEF Suspended
<1>3. leg[r] \in Nat /\ leg[r] + 1 \in 1 .. Legs
  BY <1>1, <1>2, UnitOfWorkAssumption DEF TypeOK
<1> DEFINE w == NextWrite(r)
<1>4. w \in Writes
  BY <1>3 DEF Writes, NextWrite
<1> HIDE DEF w
<1>5. CASE Goto(r, "plain") /\ UNCHANGED <<queryRunner, transactionCount, session>>
  <2>1. "plain" \in PCs \ Suspended
    BY DEF PCs, Suspended
  <2>2. Kept(r)
    BY <1>2, <1>5, <2>1, GoesQuietly
  <2> QED  BY <1>1, <1>2, <2>2, StepKeeps DEF TypeOK
<1>6. CASE ExecuteCatch(r, session, transactionCount)
  BY <1>1, <1>2, <1>6, ExecuteCatchKept, StepKeeps DEF TypeOK
<1>7. CASE /\ queryRunner # NoRunner
           /\ session' = [session EXCEPT ![queryRunner] =
                            Issue(@, Statement("write", 0, {w}, queryRunner, r))]
           /\ Goto(r, "write")
           /\ UNCHANGED <<queryRunner, transactionCount>>
  <2>1. queryRunner \in Runners /\ session \in Sessions
    BY <1>2, <1>7 DEF TypeOK, Callable
  <2>2. PICK x \in RunnerRecord : x = session[queryRunner]
    BY <2>1, QueueTyped
  <2>3. PICK st \in Statements : st = Statement("write", 0, {w}, queryRunner, r)
    BY <1>4, <2>1, StatementTyped
  <2>4. st.by = r /\ Awaits("write", st)
    BY <1>4, <2>1, <2>3, StatementTyped DEF Awaits
  <2>5. PICK u : u = Issue(x, st)
    OBVIOUS
  <2>6. /\ u \in RunnerRecord /\ u.queue = Append(x.queue, st)
        /\ u.link = x.link /\ u.released = x.released
    BY <2>5, Queued
  <2>7. session' = [session EXCEPT ![queryRunner] = u]
    BY <1>7, <2>1, <2>2, <2>3, <2>5 DEF Sessions
  <2>8. "write" \in PCs /\ transactionCount' \in Int
    BY <1>2, <1>7 DEF PCs
  <2>9. /\ u.queue = Append(session[queryRunner].queue, st)
        /\ u.link = session[queryRunner].link /\ u.released = session[queryRunner].released
    BY <2>2, <2>6
  <2>10. Kept(r)
    BY <1>2, <1>7, <2>4, <2>6, <2>7, <2>8, <2>9, GoesSending
  <2> QED  BY <1>1, <1>2, <2>10, StepKeeps DEF TypeOK
<1> QED  BY <1>1, <1>5, <1>6, <1>7 DEF Write, w

LEMMA ThrowOverlaps ==
  ASSUME OverlapInv, NEW r \in Requests, Throw(r)  PROVE OverlapInv'
<1>1. /\ pc[r] = "op" /\ ExecuteCatch(r, session, transactionCount)
      /\ UNCHANGED <<durable, frame, wasOuter, leg, target, reply>>
  BY DEF Throw
<1>2. TypeOK /\ Callable(session, r) /\ transactionCount \in Int
  BY <1>1, CallableNow DEF Suspended
<1> QED  BY <1>1, <1>2, ExecuteCatchKept, StepKeeps DEF TypeOK

LEMMA FinishOverlaps ==
  ASSUME OverlapInv, NEW r \in Requests, Finish(r)  PROVE OverlapInv'
<1>1. /\ pc[r] = "op" /\ Complete(r, "execute")
      /\ UNCHANGED <<durable, frame, wasOuter, leg, target, reply>>
  BY DEF Finish
<1>2. TypeOK /\ Callable(session, r)
  BY <1>1, CallableNow DEF Suspended
<1> QED  BY <1>1, <1>2, CompleteKept, StepKeeps DEF TypeOK

LEMMA RespondOverlaps ==
  ASSUME OverlapInv, NEW r \in Requests, Respond(r)  PROVE OverlapInv'
<1>1. /\ pc[r] = "returned" /\ Complete(r, "interceptor")
      /\ frame' = [frame EXCEPT ![r] = "interceptor"]
      /\ reply' = [reply EXCEPT ![r] = "ok"]
      /\ UNCHANGED <<durable, wasOuter, leg, target>>
  BY DEF Respond, ResponseHandler
<1>2. TypeOK /\ Callable(session, r)
  BY <1>1, CallableNow DEF Suspended
<1>3. Kept(r) /\ pc'[r] \notin {"write", "plain"}
  BY <1>1, <1>2, CompleteKept
<1>4. /\ frame' \in [Requests -> {"interceptor", "execute"}]
      /\ reply' \in [Requests -> {"none", "ok", "error"}]
  BY <1>1, <1>2 DEF TypeOK
<1> QED  BY <1>1, <1>2, <1>3, <1>4, StepKeeps DEF TypeOK

LEMMA RespondErrorOverlaps ==
  ASSUME OverlapInv, NEW r \in Requests, RespondError(r)  PROVE OverlapInv'
<1>1. /\ pc[r] = "thrown" /\ Rollback(r, "interceptor", session, transactionCount)
      /\ frame' = [frame EXCEPT ![r] = "interceptor"]
      /\ reply' = [reply EXCEPT ![r] = "error"]
      /\ UNCHANGED <<durable, wasOuter, leg, target>>
  BY DEF RespondError, ErrorHandler
<1>2. TypeOK /\ Callable(session, r) /\ transactionCount \in Int
  BY <1>1, CallableNow DEF Suspended
<1>3. Kept(r) /\ pc'[r] \notin {"write", "plain"}
  BY <1>1, <1>2, RollbackKept
<1>4. /\ frame' \in [Requests -> {"interceptor", "execute"}]
      /\ reply' \in [Requests -> {"none", "ok", "error"}]
  BY <1>1, <1>2 DEF TypeOK
<1> QED  BY <1>1, <1>2, <1>3, <1>4, StepKeeps DEF TypeOK

LEMMA RefuseRequestOverlaps ==
  ASSUME OverlapInv, NEW r \in Requests, RefuseRequest(r)  PROVE OverlapInv'
<1>1. /\ pc[r] = "startFailed" /\ Goto(r, "done") /\ "done" \in PCs \ Suspended
      /\ reply' = [reply EXCEPT ![r] = "error"]
      /\ UNCHANGED <<queryRunner, transactionCount, session, durable,
                     frame, wasOuter, leg, target>>
  BY DEF RefuseRequest, PCs, Suspended
<1>2. TypeOK /\ Callable(session, r) /\ transactionCount \in Int
  BY <1>1, CallableNow DEF Suspended
<1>3. Kept(r) /\ pc'[r] = "done"
  BY <1>1, <1>2, GoesQuietly, Went
<1>4. reply' \in [Requests -> {"none", "ok", "error"}]
  BY <1>1, <1>2 DEF TypeOK
<1> QED  BY <1>1, <1>2, <1>3, <1>4, StepKeeps DEF TypeOK

(* No request moves: a connection is granted, handed on or closed.         *)
LEMMA SessionsKeep ==
  ASSUME OverlapInv, session' \in Sessions,
         Tidy(session', pc), Remain(session, session', Requests),
         Usable(session', queryRunner),
         UNCHANGED <<queryRunner, transactionCount, durable,
                     pc, frame, wasOuter, leg, target, reply>>
  PROVE  OverlapInv'
<1>1. TypeOK'
  BY DEF OverlapInv, TypeOK, Sessions, RunnerRecord
<1>2. Attended(session', pc, Requests)
  BY DEF OverlapInv, Attended, Remain
<1> QED  BY <1>1, <1>2 DEF OverlapInv

LEMMA SessionsNow ==
  ASSUME OverlapInv
  PROVE  /\ session \in Sessions /\ Tidy(session, pc) /\ Usable(session, queryRunner)
         /\ TypeOK
BY DEF OverlapInv, TypeOK, Sessions, RunnerRecord

LEMMA PartedRunner ==
  ASSUME NEW p \in RunnerRecord, NEW t, t = Parted(p)
  PROVE  /\ t \in RunnerRecord /\ t.link = "gone" /\ t.queue = << >>
<1>1. PICK l \in Seq(Level), k \in Seq(Statements) : l = << >> /\ k = << >>
  <2>1. << >> \in Seq(Level) /\ << >> \in Seq(Statements)
    OBVIOUS
  <2> QED  BY <2>1
<1>2. t = [p EXCEPT !.link = "gone", !.levels = l, !.aborted = FALSE, !.queue = k]
  BY <1>1 DEF Parted
<1> QED  BY <1>1, <1>2 DEF RunnerRecord, RunnerType, Level, Statements

LEMMA TakenRunner ==
  ASSUME NEW s \in RunnerRecord, NEW p \in RunnerRecord, NEW t, t = TakeOver(s, p)
  PROVE  /\ t \in RunnerRecord /\ t.link = "held" /\ t.queue = p.queue \o s.queue
         /\ t.released = s.released
<1>1. PICK k \in Seq(Statements) : k = p.queue \o s.queue
  <2>1. p.queue \in Seq(Statements) /\ s.queue \in Seq(Statements)
    BY DEF RunnerRecord, RunnerType, Statements
  <2>2. p.queue \o s.queue \in Seq(Statements)
    BY <2>1
  <2> QED  BY <2>2
<1>2. PICK l \in Seq(Level), a \in BOOLEAN : l = p.levels /\ a = p.aborted
  BY DEF RunnerRecord, RunnerType, Level
<1>3. t = [s EXCEPT !.link = "held", !.levels = l, !.aborted = a, !.queue = k]
  BY <1>1, <1>2 DEF TakeOver
<1> QED  BY <1>1, <1>2, <1>3 DEF RunnerRecord, RunnerType, Level, Statements

LEMMA GrantOverlaps ==
  ASSUME OverlapInv, NEW q \in Runners, Grant(q)  PROVE OverlapInv'
<1>1. /\ session[q].link = "waiting"
      /\ UNCHANGED <<queryRunner, transactionCount, durable,
                     pc, frame, wasOuter, leg, target, reply>>
  BY DEF Grant
<1>2. /\ session \in Sessions /\ Tidy(session, pc) /\ Usable(session, queryRunner)
      /\ TypeOK
  BY SessionsNow
<1>3. CASE session' = [session EXCEPT ![q].link = "held"]
  <2>1. PICK u : u = [session[q] EXCEPT !.link = "held"]
    OBVIOUS
  <2>2. /\ u \in RunnerRecord /\ u.queue = session[q].queue /\ u.link = "held"
        /\ u.released = session[q].released
    BY <1>2, <2>1, QueueTyped DEF RunnerRecord, RunnerType
  <2>3. PICK t : t = session'
    OBVIOUS
  <2>4. t \in Sessions /\ t[q] = u /\ \A x \in Runners \ {q} : t[x] = session[x]
    BY <1>2, <1>3, <2>1, <2>2, <2>3 DEF Sessions
  <2>5. \A x \in Runners : t[x].queue = session[x].queue
    BY <2>2, <2>4
  <2>6. Tidy(t, pc) /\ Remain(session, t, Requests)
    BY <1>2, <2>5 DEF Tidy, Free, Remain
  <2>7. Usable(t, queryRunner)
    BY <1>1, <1>2, <2>2, <2>4 DEF Usable, TypeOK
  <2> QED  BY <1>1, <2>3, <2>4, <2>6, <2>7, SessionsKeep
<1>4. ASSUME NEW p \in Left,
             session' = [session EXCEPT ![q] = TakeOver(@, session[p]), ![p] = Parted(@)]
      PROVE  OverlapInv'
  <2>1. p \in Runners /\ session[p].link = "returned" /\ p # q
    BY <1>1, <1>4 DEF Left
  <2>2. PICK u, v : u = TakeOver(session[q], session[p]) /\ v = Parted(session[p])
    OBVIOUS
  <2>3. /\ u \in RunnerRecord /\ u.queue = session[p].queue \o session[q].queue
        /\ u.link = "held" /\ u.released = session[q].released
        /\ v \in RunnerRecord /\ v.queue = << >> /\ v.link = "gone"
    <3>1. session[p] \in RunnerRecord /\ session[q] \in RunnerRecord
      BY <1>2, <2>1, QueueTyped
    <3>2. /\ u \in RunnerRecord /\ u.queue = session[p].queue \o session[q].queue
          /\ u.link = "held" /\ u.released = session[q].released
      BY <2>2, <3>1, TakenRunner
    <3>3. v \in RunnerRecord /\ v.queue = << >> /\ v.link = "gone"
      BY <2>2, <3>1, PartedRunner
    <3> QED  BY <3>2, <3>3
  <2>4. PICK t : t = session'
    OBVIOUS
  <2>5. /\ t \in Sessions /\ t[q] = u /\ t[p] = v
        /\ \A x \in Runners \ {p, q} : t[x] = session[x]
    <3>1. t = [[session EXCEPT ![q] = u] EXCEPT ![p] = v]
      BY <1>2, <1>4, <2>1, <2>2, <2>4 DEF Sessions
    <3> QED  BY <1>2, <2>1, <2>3, <3>1 DEF Sessions
  <2>6. Tidy(t, pc) /\ Remain(session, t, Requests)
    <3>1. /\ t[q].queue = session[p].queue \o session[q].queue /\ t[p].queue = << >>
          /\ \A x \in Runners \ {p, q} : t[x].queue = session[x].queue
      BY <2>3, <2>5
    <3>2. PICK place : place = pc
      OBVIOUS
    <3>3. Tidy(session, place) /\ session \in Sessions /\ t \in Sessions /\ p \in Runners /\ p # q
      BY <1>2, <2>1, <2>5, <3>2
    <3>4. Tidy(t, place) /\ Remain(session, t, Requests)
      BY <3>1, <3>3, QueuesJoined
    <3> QED  BY <3>2, <3>4
  <2>7. Usable(t, queryRunner)
    BY <1>1, <1>2, <2>1, <2>3, <2>5 DEF Usable, TypeOK
  <2> QED  BY <1>1, <2>4, <2>5, <2>6, <2>7, SessionsKeep
<1> QED  BY <1>3, <1>4 DEF Grant

LEMMA RetireOverlaps ==
  ASSUME OverlapInv, NEW p \in Runners, Retire(p)  PROVE OverlapInv'
<1>1. /\ session[p].link = "returned" /\ session[p].queue = << >>
      /\ session' = [session EXCEPT ![p] = Parted(@)]
      /\ UNCHANGED <<queryRunner, transactionCount, durable,
                     pc, frame, wasOuter, leg, target, reply>>
  BY DEF Retire
<1>2. /\ session \in Sessions /\ Tidy(session, pc) /\ Usable(session, queryRunner)
      /\ TypeOK
  BY SessionsNow
<1>3. PICK v : v = Parted(session[p])
  OBVIOUS
<1>4. v \in RunnerRecord /\ v.queue = << >> /\ v.link = "gone"
  BY <1>2, <1>3, QueueTyped, PartedRunner
<1>5. PICK t : t = session'
  OBVIOUS
<1>6. t \in Sessions /\ t[p] = v /\ \A x \in Runners \ {p} : t[x] = session[x]
  BY <1>1, <1>2, <1>3, <1>4, <1>5 DEF Sessions
<1>7. \A x \in Runners : t[x].queue = session[x].queue
  BY <1>1, <1>4, <1>6
<1>8. Tidy(t, pc) /\ Remain(session, t, Requests)
  BY <1>2, <1>7 DEF Tidy, Free, Remain
<1>9. Usable(t, queryRunner)
  BY <1>1, <1>2, <1>4, <1>6 DEF Usable, TypeOK
<1> QED  BY <1>1, <1>5, <1>6, <1>8, <1>9, SessionsKeep

(* The default manager's write leaves the runner's queue, flag and link.   *)
LEMMA PlainTyped ==
  ASSUME NEW s \in RunnerRecord, NEW w \in Writes,
         NEW after \in {PlainSave(s, w), PlainUpdate(s, w)}
  PROVE  /\ after.runner \in RunnerRecord /\ after.made \in SUBSET Writes
         /\ after.runner.queue = s.queue /\ after.runner.link = s.link
         /\ after.runner.released = s.released
<1>1. WritesFrom(s, 1) \in SUBSET Writes
  <2>1. s.levels \in Seq(Level)
    BY DEF RunnerRecord, RunnerType, Level
  <2>2. 1 \in 1 .. Len(s.levels) + 1
    BY <2>1
  <2> QED  BY <2>2, WritesFromTyped
<1>2. CASE after = PlainSave(s, w)
  <2>1. PICK l \in Seq(Level) : l = << >>
    <3>1. << >> \in Seq(Level)
      OBVIOUS
    <3> QED  BY <3>1
  <2>2. after.runner = [s EXCEPT !.levels = l, !.aborted = FALSE]
    BY <1>2, <2>1 DEF PlainSave
  <2>3. after.made = IF s.aborted THEN {} ELSE WritesFrom(s, 1) \cup {w}
    BY <1>2 DEF PlainSave
  <2>4. after.made \in SUBSET Writes
    BY <1>1, <2>3
  <2> QED  BY <2>1, <2>2, <2>4 DEF RunnerRecord, RunnerType, Level
<1>3. CASE after = PlainUpdate(s, w)
  <2> DEFINE st == Statement("write", 0, {w}, NoRunner, w[1])
  <2>1. st.kind = "write" /\ st.writes = {w}
    BY DEF Statement
  <2> HIDE DEF st
  <2>2. after.made \in SUBSET Writes
    BY <1>3, <2>1 DEF PlainUpdate, MadeDurable, st
  <2>3. after.runner = IF s.aborted THEN s ELSE Executed(s, st)
    BY <1>3 DEF PlainUpdate, st
  <2>4. CASE s.aborted \/ s.levels = << >>
    <3>1. after.runner = s
      BY <2>1, <2>3, <2>4 DEF Executed
    <3> QED  BY <2>2, <3>1
  <2>5. CASE ~s.aborted /\ s.levels # << >>
    <3>1. PICK l \in Seq(Level) : l = s.levels
      BY DEF RunnerRecord, RunnerType, Level
    <3>2. Len(l) \in 1 .. Len(l) /\ l[Len(l)] \in Level
      BY <2>5, <3>1
    <3>3. PICK x \in Level : x = [l[Len(l)] EXCEPT !.writes = @ \cup {w}]
      <4>1. PICK y \in Level : y = l[Len(l)]
        BY <3>2
      <4>2. PICK m \in SUBSET Writes : m = y.writes \cup {w}
        BY <4>1 DEF Level
      <4>3. [y EXCEPT !.writes = m] \in Level
        BY <4>1, <4>2 DEF Level
      <4> QED  BY <4>1, <4>2, <4>3, Zenon
    <3>4. PICK k \in Seq(Level) : k = [l EXCEPT ![Len(l)] = x]
      <4>1. [l EXCEPT ![Len(l)] = x] \in Seq(Level)
        BY <3>2, <3>3, ExceptSeq
      <4> QED  BY <4>1
    <3>5. Executed(s, st) = [s EXCEPT !.levels = k]
      <4>1. Executed(s, st) = [s EXCEPT !.levels[Len(s.levels)].writes = @ \cup {w}]
        BY <2>1, <2>5 DEF Executed
      <4> QED  BY <3>1, <3>3, <3>4, <4>1
    <3>6. after.runner = [s EXCEPT !.levels = k]
      BY <2>3, <2>5, <3>5
    <3> QED  BY <2>2, <3>4, <3>6 DEF RunnerRecord, RunnerType, Level
  <2> QED  BY <2>4, <2>5
<1> QED  BY <1>2, <1>3

LEMMA PlainWriteOverlaps ==
  ASSUME OverlapInv, NEW r \in Requests, PlainWrite(r)  PROVE OverlapInv'
<1>1. pc[r] = "plain" /\ UNCHANGED <<frame, wasOuter, target, reply>>
  BY DEF PlainWrite
<1>2. /\ TypeOK /\ Callable(session, r) /\ transactionCount \in Int
      /\ session \in Sessions /\ Usable(session, queryRunner)
  BY <1>1, CallableNow, SessionsNow DEF Suspended
<1>3. leg[r] \in Nat /\ leg[r] + 1 \in 0 .. Legs /\ NextWrite(r) \in Writes
  BY <1>1, <1>2, UnitOfWorkAssumption DEF OverlapInv, TypeOK, NextWrite, Writes
<1>4. "op" \in PCs \ Suspended
  BY DEF PCs, Suspended
<1>5. CASE /\ durable' = durable \cup {NextWrite(r)}
           /\ leg' = [leg EXCEPT ![r] = @ + 1] /\ Goto(r, "op")
           /\ UNCHANGED <<queryRunner, transactionCount, session>>
  <2>1. Kept(r) /\ pc'[r] = "op"
    BY <1>2, <1>4, <1>5, GoesQuietly, Went
  <2>2. leg' \in [Requests -> 0 .. Legs] /\ \A x \in Requests \ {r} : leg'[x] = leg[x]
    BY <1>2, <1>3, <1>5 DEF TypeOK
  <2>3. durable' \in SUBSET Writes
    BY <1>2, <1>3, <1>5 DEF TypeOK
  <2> QED  BY <1>1, <1>2, <2>1, <2>2, <2>3, StepKeeps DEF TypeOK
<1>6. ASSUME NEW p \in Left,
             NEW after \in {PlainSave(session[p], NextWrite(r)),
                            PlainUpdate(session[p], NextWrite(r))},
             NEW s, s = [session EXCEPT ![p] = after.runner],
             durable' = durable \cup after.made,
             \/ /\ leg' = [leg EXCEPT ![r] = @ + 1] /\ Goto(r, "op")
                /\ session' = s /\ UNCHANGED <<queryRunner, transactionCount>>
             \/ ExecuteCatch(r, s, transactionCount) /\ UNCHANGED leg
      PROVE  OverlapInv'
  <2>1. p \in Runners /\ session[p].link = "returned"
    BY <1>6 DEF Left
  <2>2. PICK u : u = after.runner
    OBVIOUS
  <2>3. /\ u \in RunnerRecord /\ after.made \in SUBSET Writes
        /\ u.queue = session[p].queue /\ u.link = session[p].link
        /\ u.released = session[p].released
    BY <1>2, <1>3, <1>6, <2>1, <2>2, QueueTyped, PlainTyped
  <2>4. s \in Sessions /\ s[p] = u /\ \A x \in Runners \ {p} : s[x] = session[x]
    BY <1>2, <1>6, <2>1, <2>2, <2>3 DEF Sessions
  <2>5. \A x \in Runners : s[x].queue = session[x].queue
    BY <2>3, <2>4
  <2>6. Tidy(s, pc) /\ Free(s, r) /\ Attended(s, pc, Requests \ {r})
    BY <1>2, <2>5 DEF Callable, Tidy, Free, Attended
  <2>7. Usable(s, queryRunner)
    BY <1>2, <2>1, <2>3, <2>4 DEF Usable, TypeOK
  <2>8. Callable(s, r)
    BY <2>4, <2>6, <2>7 DEF Callable
  <2>9. durable' \in SUBSET Writes
    BY <1>2, <1>6, <2>3 DEF TypeOK
  <2>10. CASE /\ leg' = [leg EXCEPT ![r] = @ + 1] /\ Goto(r, "op")
              /\ session' = s /\ UNCHANGED <<queryRunner, transactionCount>>
    <3>1. Kept(r) /\ pc'[r] = "op"
      BY <1>2, <1>4, <2>8, <2>10, GoesQuietly, Went
    <3>2. leg' \in [Requests -> 0 .. Legs] /\ \A x \in Requests \ {r} : leg'[x] = leg[x]
      BY <1>2, <1>3, <2>10 DEF TypeOK
    <3> QED  BY <1>1, <1>2, <2>9, <3>1, <3>2, StepKeeps DEF TypeOK
  <2>11. CASE ExecuteCatch(r, s, transactionCount) /\ UNCHANGED leg
    <3>1. Kept(r) /\ pc'[r] \notin {"write", "plain"}
      BY <1>2, <2>8, <2>11, ExecuteCatchKept
    <3> QED  BY <1>1, <1>2, <2>9, <2>11, <3>1, StepKeeps DEF TypeOK
  <2> QED  BY <1>6, <2>10, <2>11
<1> QED  BY <1>5, <1>6 DEF PlainWrite

LEMMA ServeBegins ==
  ASSUME OverlapInv, NEW q \in Runners, NEW r, NEW s,
         session[q].link \in {"held", "returned"}, session[q].queue # << >>,
         r = Head(session[q].queue).by,
         s = [session EXCEPT ![q] = Served(@)]
  PROVE  /\ r \in Requests /\ Callable(s, r) /\ Head(session[q].queue).on \in Runners
         /\ MadeDurable(session[q], Head(session[q].queue)) \in SUBSET Writes
<1>1. /\ session \in Sessions /\ Tidy(session, pc) /\ Usable(session, queryRunner)
      /\ TypeOK
  BY SessionsNow
<1>2. PICK x \in RunnerRecord : x = session[q]
  BY <1>1, QueueTyped
<1>3. PICK u : u = Served(x)
  OBVIOUS
<1>4. /\ Head(x.queue) \in Statements /\ u \in RunnerRecord /\ u.queue = Tail(x.queue)
      /\ u.link = x.link /\ u.released = x.released
  BY <1>2, <1>3, ServedHead
<1>5. /\ r \in Requests /\ MadeDurable(x, Head(x.queue)) \in SUBSET Writes
      /\ Head(x.queue).on \in Runners
  BY <1>2, <1>4, DurableTyped DEF Statements
<1>6. s \in Sessions /\ s[q] = u /\ \A p \in Runners \ {q} : s[p] = session[p]
  BY <1>1, <1>2, <1>3, <1>4 DEF Sessions
<1>7. Tidy(s, pc) /\ Free(s, r) /\ Remain(session, s, Requests \ {r})
  <2>1. s[q].queue = Tail(session[q].queue) /\ \A p \in Runners \ {q} : s[p].queue = session[p].queue
    BY <1>2, <1>4, <1>6
  <2>2. session[q].queue # << >> /\ r = Head(session[q].queue).by
    OBVIOUS
  <2>3. PICK place : place = pc
    OBVIOUS
  <2>4. /\ Tidy(s, place) /\ Free(s, Head(session[q].queue).by)
        /\ Remain(session, s, Requests \ {Head(session[q].queue).by})
    BY <1>1, <1>6, <2>1, <2>2, <2>3, QueueServed
  <2> QED  BY <2>2, <2>3, <2>4
<1>8. Attended(s, pc, Requests \ {r})
  BY <1>7 DEF OverlapInv, Attended, Remain
<1>9. Usable(s, queryRunner)
  <2>1. \A p \in Runners : s[p].link = session[p].link /\ s[p].released = session[p].released
    BY <1>2, <1>4, <1>6
  <2>2. \A p \in Runners : s[p].queue # << >> => s[p].link \in {"waiting", "held", "returned"}
    BY <1>1, <1>2, <1>4, <1>6 DEF Usable
  <2>3. queryRunner # NoRunner => queryRunner \in Runners
    BY <1>1 DEF TypeOK
  <2> QED  BY <1>1, <2>1, <2>2, <2>3 DEF Usable
<1> QED  BY <1>2, <1>5, <1>6, <1>7, <1>8, <1>9 DEF Callable

(* The runner resumes, and then the request.                               *)
LEMMA ResumedCallable ==
  ASSUME TypeOK, NEW q \in Runners, NEW r \in Requests, NEW s, Callable(s, r),
         NEW u, u = AfterStart(s[q]) \/ u = AfterFinish(s[q]),
         NEW t, t = [s EXCEPT ![q] = u]
  PROVE  Callable(t, r)
<1>1. /\ s \in Sessions /\ Tidy(s, pc) /\ Usable(s, queryRunner) /\ Free(s, r)
      /\ Attended(s, pc, Requests \ {r})
  BY DEF Callable
<1>2. /\ u \in RunnerRecord /\ u.queue = s[q].queue
      /\ u.link = s[q].link /\ u.released = s[q].released
  BY <1>1, QueueTyped, Resumed
<1>3. t \in Sessions /\ t[q] = u /\ \A x \in Runners \ {q} : t[x] = s[x]
  BY <1>1, <1>2 DEF Sessions
<1>4. \A x \in Runners : t[x].queue = s[x].queue
  BY <1>2, <1>3
<1>5. Tidy(t, pc) /\ Free(t, r) /\ Attended(t, pc, Requests \ {r})
  BY <1>1, <1>4 DEF Tidy, Free, Attended
<1>6. Usable(t, queryRunner)
  BY <1>1, <1>2, <1>3 DEF Usable, TypeOK
<1> QED  BY <1>3, <1>5, <1>6 DEF Callable

(* A resumption leaves the request where Kept holds.                       *)
LEMMA BegunKept ==
  ASSUME TypeOK, NEW q \in Runners, NEW r \in Requests, NEW s, NEW ok,
         Callable(s, r), Begun(r, q, s, ok)
  PROVE  Kept(r) /\ pc'[r] \notin {"write", "plain"}
<1>1. CASE /\ session' = [s EXCEPT ![q] = AfterStart(@)]
           /\ transactionCount' = 1 /\ Started(r, frame[r]) /\ UNCHANGED queryRunner
  <2>1. PICK u : u = AfterStart(s[q])
    OBVIOUS
  <2>2. session' = [s EXCEPT ![q] = u]
    BY <1>1, <2>1 DEF Callable, Sessions
  <2>3. PICK t : t = [s EXCEPT ![q] = u]
    OBVIOUS
  <2>4. Callable(t, r)
    BY <2>1, <2>3, ResumedCallable
  <2>5. PICK place \in PCs \ Suspended :
          /\ place = IF frame[r] = "interceptor" THEN "intercepted" ELSE "op"
          /\ Goto(r, place)
    BY <1>1 DEF PCs, Suspended, Started
  <2>6. session' = t /\ queryRunner' = queryRunner /\ transactionCount' = 1
    BY <1>1, <2>2, <2>3, Zenon
  <2>7. Kept(r) /\ pc'[r] = place
    BY <2>4, <2>5, <2>6, GoesQuietly, Went
  <2> QED  BY <2>5, <2>7
<1>2. CASE StartFails(r, frame[r], s)
  BY <1>2, StartFailsKept
<1> QED  BY <1>1, <1>2 DEF Begun

LEMMA WroteKept ==
  ASSUME TypeOK, NEW r \in Requests, NEW s, NEW ok, Callable(s, r), Wrote(r, s, ok)
  PROVE  Kept(r) /\ pc'[r] \notin {"write", "plain"}
<1>1. transactionCount \in Int /\ "op" \in PCs \ Suspended
  BY DEF TypeOK, PCs, Suspended
<1>2. CASE Goto(r, "op") /\ session' = s /\ UNCHANGED <<queryRunner, transactionCount>>
  BY <1>1, <1>2, GoesQuietly, Went
<1>3. CASE ExecuteCatch(r, s, transactionCount)
  BY <1>1, <1>3, ExecuteCatchKept
<1> QED  BY <1>2, <1>3 DEF Wrote

(* The runner of the field is released and the field cleared.              *)
Cleared(t) == [t EXCEPT ![queryRunner] = Release(@)]

SameQueues(s, t) == \A x \in Runners : s[x].queue = t[x].queue

LEMMA ReleasedField ==
  ASSUME TypeOK, NEW r \in Requests, NEW t, Callable(t, r), queryRunner # NoRunner,
         NEW done, done = Cleared(t)
  PROVE  done \in Sessions /\ Usable(done, NoRunner) /\ SameQueues(done, t)
<1>1. t \in Sessions /\ Usable(t, queryRunner)
  BY DEF Callable
<1>2. PICK f \in Runners : f = queryRunner
  BY DEF TypeOK
<1>3. PICK v : v = Release(t[f])
  OBVIOUS
<1>4. /\ v \in RunnerRecord /\ v.queue = t[f].queue
      /\ (v.link = "unused" <=> t[f].link = "unused")
      /\ t[f].link \in {"waiting", "held", "returned"} =>
           v.link \in {"waiting", "held", "returned"}
  BY <1>1, <1>3, QueueTyped, Released
<1>6. done \in Sessions /\ done[f] = v /\ \A x \in Runners \ {f} : done[x] = t[x]
  BY <1>1, <1>2, <1>3, <1>4 DEF Sessions, Cleared
<1>7. t[f].link \in {"waiting", "held"}
  BY <1>1, <1>2 DEF Usable
<1>8. Usable(done, NoRunner)
  BY <1>1, <1>4, <1>6, <1>7 DEF Usable
<1> QED  BY <1>4, <1>6, <1>8 DEF SameQueues

LEMMA CommittedKept ==
  ASSUME TypeOK, NEW q \in Runners, NEW r \in Requests, NEW s, NEW ok,
         Callable(s, r), Committed(r, q, s, ok)
  PROVE  Kept(r) /\ pc'[r] \notin {"write", "plain"}
<1>1. transactionCount \in Int /\ {"returned", "done"} \subseteq PCs \ Suspended
  BY DEF TypeOK, PCs, Suspended
<1>2. PICK u : u = AfterFinish(s[q])
  OBVIOUS
<1>3. PICK t : t = [s EXCEPT ![q] = u]
  OBVIOUS
<1>4. Callable(t, r) /\ t = [s EXCEPT ![q] = AfterFinish(@)]
  BY <1>2, <1>3, ResumedCallable DEF Callable, Sessions
<1>5. CASE /\ queryRunner # NoRunner
           /\ session' = [t EXCEPT ![queryRunner] = Release(@)]
           /\ queryRunner' = NoRunner
           /\ CompleteReturns(r, frame[r])
           /\ UNCHANGED transactionCount
  <2>1. /\ session' \in Sessions /\ Usable(session', NoRunner)
        /\ \A x \in Runners : session'[x].queue = t[x].queue
    <3>1. PICK done : done = Cleared(t)
      OBVIOUS
    <3>2. session' = done
      BY <1>5, <3>1 DEF Cleared
    <3>3. done \in Sessions /\ Usable(done, NoRunner) /\ SameQueues(done, t)
      BY <1>4, <1>5, <3>1, ReleasedField
    <3> QED  BY <3>2, <3>3 DEF SameQueues
  <2>2. PICK place \in PCs \ Suspended :
          /\ place = IF frame[r] = "execute" THEN "returned" ELSE "done"
          /\ Goto(r, place)
    BY <1>1, <1>5 DEF CompleteReturns
  <2>3. /\ Usable(session', queryRunner') /\ queryRunner' \in Runners \cup {NoRunner}
        /\ transactionCount' \in Int
    BY <1>1, <1>5, <2>1
  <2>4. Kept(r) /\ pc'[r] = place
    BY <1>4, <2>1, <2>2, <2>3, GoesWithout, Went
  <2> QED  BY <2>2, <2>4
<1>6. CASE CompleteFails(r, frame[r], t, transactionCount)
           \/ CompleteFails(r, frame[r], s, transactionCount)
  BY <1>1, <1>4, <1>6, CompleteFailsKept
<1> QED  BY <1>4, <1>5, <1>6 DEF Committed

LEMMA RolledBackKept ==
  ASSUME TypeOK, NEW q \in Runners, NEW r \in Requests, NEW s, NEW ok,
         Callable(s, r), RolledBack(r, q, s, ok)
  PROVE  Kept(r) /\ pc'[r] \notin {"write", "plain"}
<1>1. /\ queryRunner' = NoRunner /\ transactionCount' = 0
      /\ RollbackReturns(r, frame[r])
  BY DEF RolledBack
<1>2. PICK u : u = AfterFinish(s[q])
  OBVIOUS
<1>3. PICK t : t = [s EXCEPT ![q] = u]
  OBVIOUS
<1>4. Callable(t, r) /\ t = [s EXCEPT ![q] = AfterFinish(@)]
  BY <1>2, <1>3, ResumedCallable DEF Callable, Sessions
<1>5. PICK place \in PCs \ Suspended :
        /\ place = IF frame[r] = "execute" THEN "thrown" ELSE "done"
        /\ Goto(r, place)
  BY <1>1 DEF RollbackReturns, PCs, Suspended
<1>6. CASE queryRunner # NoRunner /\ session' = [t EXCEPT ![queryRunner] = Release(@)]
  <2>1. /\ session' \in Sessions /\ Usable(session', NoRunner)
        /\ \A x \in Runners : session'[x].queue = t[x].queue
    <3>1. PICK done : done = Cleared(t)
      OBVIOUS
    <3>2. session' = done
      BY <1>6, <3>1 DEF Cleared
    <3>3. done \in Sessions /\ Usable(done, NoRunner) /\ SameQueues(done, t)
      BY <1>4, <1>6, <3>1, ReleasedField
    <3> QED  BY <3>2, <3>3 DEF SameQueues
  <2>2. /\ Usable(session', queryRunner') /\ queryRunner' \in Runners \cup {NoRunner}
        /\ transactionCount' \in Int
    BY <1>1, <2>1
  <2>3. Kept(r) /\ pc'[r] = place
    BY <1>4, <1>5, <2>1, <2>2, GoesWithout, Went
  <2> QED  BY <1>5, <2>3
<1>7. ASSUME NEW x, Callable(x, r), session' = x
      PROVE  Kept(r) /\ pc'[r] \notin {"write", "plain"}
  <2>1. queryRunner' \in {queryRunner, NoRunner} /\ transactionCount' \in Int
    BY <1>1
  <2>2. Kept(r) /\ pc'[r] = place
    BY <1>5, <1>7, <2>1, GoesQuietly, Went
  <2> QED  BY <1>5, <2>2
<1>8. session' = s \/ session' = t \/ (queryRunner # NoRunner /\ session' = [t EXCEPT ![queryRunner] = Release(@)])
  BY <1>4 DEF RolledBack
<1> QED  BY <1>4, <1>6, <1>7, <1>8

LEMMA ServeOverlaps ==
  ASSUME OverlapInv, NEW q \in Runners, Serve(q)  PROVE OverlapInv'
<1> DEFINE st == Head(session[q].queue)
           r == st.by
           on == st.on
           s == [session EXCEPT ![q] = Served(@)]
           ok == Accepts(session[q], st)
<1>1. /\ session[q].link \in {"held", "returned"} /\ session[q].queue # << >>
      /\ durable' = durable \cup (IF ok THEN MadeDurable(session[q], st) ELSE {})
      /\ \/ Begun(r, on, s, ok) \/ Wrote(r, s, ok)
         \/ Committed(r, on, s, ok) \/ RolledBack(r, on, s, ok)
      /\ UNCHANGED <<frame, wasOuter, target, reply>>
  BY DEF Serve
<1>2. /\ r \in Requests /\ Callable(s, r) /\ on \in Runners
      /\ MadeDurable(session[q], st) \in SUBSET Writes
  BY <1>1, ServeBegins
<1> HIDE DEF st, r, on, s, ok
<1>3. TypeOK
  BY DEF OverlapInv
<1>4. Kept(r) /\ pc'[r] \notin {"write", "plain"}
  BY <1>1, <1>2, <1>3, BegunKept, WroteKept, CommittedKept, RolledBackKept
<1>5. /\ leg' \in [Requests -> 0 .. Legs]
      /\ \A x \in Requests \ {r} : leg'[x] = leg[x]
  <2>1. CASE UNCHANGED leg
    BY <1>3, <2>1 DEF TypeOK
  <2>2. CASE pc[r] = "write" /\ leg' = [leg EXCEPT ![r] = @ + 1]
    <3>1. leg[r] < Legs
      BY <1>2, <2>2 DEF OverlapInv
    <3>2. leg[r] + 1 \in 0 .. Legs
      BY <1>2, <1>3, <3>1, UnitOfWorkAssumption DEF TypeOK
    <3> QED  BY <1>2, <1>3, <2>2, <3>2 DEF TypeOK
  <2> QED  BY <1>1, <2>1, <2>2 DEF Begun, Wrote, Committed, RolledBack
<1>6. durable' \in SUBSET Writes
  BY <1>1, <1>2, <1>3 DEF TypeOK
<1> QED  BY <1>1, <1>2, <1>3, <1>4, <1>5, <1>6, StepKeeps DEF TypeOK

-----------------------------------------------------------------------------
(* The specification.                                                      *)

LEMMA InitOverlaps == Init => OverlapInv
<1> SUFFICES ASSUME Init  PROVE OverlapInv
  OBVIOUS
<1>1. UnusedRunner \in RunnerRecord
  <2>1. << >> \in Seq(Level) /\ << >> \in Seq(Statements)
    OBVIOUS
  <2> QED  BY <2>1 DEF UnusedRunner, RunnerRecord, RunnerType, Level, Statements
<1>2. TypeOK
  BY <1>1, UnitOfWorkAssumption DEF Init, TypeOK, RunnerRecord, PCs
<1>3. \A q \in Runners : session[q] = UnusedRunner
  BY DEF Init
<1>4. Tidy(session, pc) /\ Usable(session, queryRunner)
  BY <1>3 DEF Init, UnusedRunner, Tidy, Usable
<1>5. Attended(session, pc, Requests)
  BY DEF Init, Attended, Suspended
<1> QED  BY <1>2, <1>4, <1>5 DEF Init, OverlapInv

LEMMA StepOverlaps ==
  ASSUME OverlapInv, [Next]_vars  PROVE OverlapInv'
<1>1. CASE UNCHANGED vars
  <2>1. UNCHANGED <<queryRunner, transactionCount, session, durable,
                    pc, frame, wasOuter, leg, target, reply>>
    BY <1>1 DEF vars
  <2> QED  BY <2>1 DEF OverlapInv, TypeOK, Tidy, Attended, Free, Usable
<1>2. CASE Progress
  BY <1>2, ConnectedOverlaps, ExecuteOverlaps, WriteOverlaps, PlainWriteOverlaps,
     FinishOverlaps, RespondOverlaps, RespondErrorOverlaps, RefuseRequestOverlaps,
     GrantOverlaps, ServeOverlaps DEF Progress
<1>3. CASE Mishap
  BY <1>3, ThrowOverlaps, RetireOverlaps DEF Mishap
<1>4. CASE \E r \in Requests : Receive(r)
  BY <1>4, ReceiveOverlaps
<1> QED  BY <1>1, <1>2, <1>3, <1>4 DEF Next

(* Requests overlapping in any way: the inductive invariant.  Statements   *)
(* under way are awaited by their request, and the runner of the field     *)
(* holds a connection or waits for one, whoever replaced or cleared it.    *)
THEOREM OverlapSound == Spec => []OverlapInv
<1> QED  BY InitOverlaps, StepOverlaps, PTL DEF Spec

(* Requests overlapping in any way: the state keeps its types.             *)
THEOREM TypesKept == Spec => []TypeOK
<1>1. OverlapInv => TypeOK
  BY DEF OverlapInv
<1> QED  BY <1>1, OverlapSound, PTL

(* Requests overlapping in any way: a request suspended at an await of     *)
(* unitOfWork.trx.ts or of a repository has exactly one statement under    *)
(* way, with a runner that will be served, though the field was replaced   *)
(* or cleared and the connection handed on; and no other has any.          *)
THEOREM NobodyForgotten == Spec => []EachAwaitsOne
<1>1. ASSUME OverlapInv  PROVE EachAwaitsOne
  <2>1. /\ session \in Sessions /\ Tidy(session, pc) /\ Usable(session, queryRunner)
        /\ TypeOK
    BY <1>1, SessionsNow
  <2>2. ASSUME NEW q \in Runners, NEW i \in DOMAIN session[q].queue
        PROVE  /\ Awaits(pc[session[q].queue[i].by], session[q].queue[i])
               /\ session[q].link \in {"waiting", "held", "returned"}
    <3>1. session[q].queue # << >>
      BY <2>1, <2>2, QueueTyped
    <3> QED  BY <2>1, <2>2, <3>1 DEF Tidy, Usable
  <2>3. ASSUME NEW r \in Requests, pc[r] \in {"begin", "write", "commit", "rollback"}
        PROVE  \E q \in Runners : \E i \in DOMAIN session[q].queue : session[q].queue[i].by = r
    BY <1>1, <2>3 DEF OverlapInv, Attended, Suspended, Free
  <2> QED  BY <2>1, <2>2, <2>3 DEF EachAwaitsOne, Tidy
<1> QED  BY <1>1, OverlapSound, PTL
=============================================================================
