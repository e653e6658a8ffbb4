----------------------------- MODULE QueryRunner -----------------------------
(***************************************************************************)
(* The library under the unit of work, modelled from how the repository    *)
(* uses it: a TypeORM PostgresQueryRunner with the PostgreSQL connection   *)
(* it takes from the pool.  Statements issued on a connection are queued   *)
(* by the driver and served one at a time, in the order they were issued.  *)
(* A connection is given back to the pool as it is, its transaction and    *)
(* its queue included, and so it is handed to the next that asks.          *)
(*                                                                         *)
(* A runner is a record                                                    *)
(*   link     whether it has asked for a connection, holds one, gave back  *)
(*            one the pool still keeps idle, or gave back one that is gone *)
(*            (taken over by another runner, or closed by the pool)        *)
(*   released the runner's isReleased flag                                 *)
(*   active   isTransactionActive, set when START TRANSACTION is issued    *)
(*   depth    transactionDepth, changed when a statement's answer is seen  *)
(* and, of the connection it holds or gave back,                           *)
(*   levels   the server's transaction: << >> outside one, else the base   *)
(*            level followed by one level per savepoint, each with the     *)
(*            writes made in it                                            *)
(*   aborted  the server refuses statements until a rollback               *)
(*   queue    statements issued and not yet served, each with the runner   *)
(*            it was issued on                                             *)
(***************************************************************************)
EXTENDS Integers, Sequences

UnusedRunner ==
  [link |-> "unused", released |-> FALSE, active |-> FALSE, depth |-> 0,
   levels |-> << >>, aborted |-> FALSE, queue |-> << >>]

RunnerType(Runner, Write, Caller) ==
  [link : {"unused", "waiting", "held", "returned", "gone"},
   released : BOOLEAN, active : BOOLEAN, depth : Int,
   levels : Seq([save : Int, writes : SUBSET Write]), aborted : BOOLEAN,
   queue : Seq([kind : {"begin", "save", "write", "commit", "merge", "rollback", "undo"},
                save : Int, writes : SUBSET Write, on : Runner, by : Caller])]

Statement(kind, save, writes, on, by) ==
  [kind |-> kind, save |-> save, writes |-> writes, on |-> on, by |-> by]

(* startTransaction, commitTransaction and rollbackTransaction pick the    *)
(* statement by the depth they see when they are called.                   *)
StartStatement(s, on, by) ==
  IF s.depth = 0 THEN Statement("begin", 0, {}, on, by)
                 ELSE Statement("save", s.depth, {}, on, by)

CommitStatement(s, on, by) ==
  IF s.depth > 1 THEN Statement("merge", s.depth - 1, {}, on, by)
                 ELSE Statement("commit", 0, {}, on, by)

RollbackStatement(s, on, by) ==
  IF s.depth > 1 THEN Statement("undo", s.depth - 1, {}, on, by)
                 ELSE Statement("rollback", 0, {}, on, by)

Issue(s, st) == [s EXCEPT !.queue = Append(@, st)]

(* isTransactionActive is set before START TRANSACTION is sent.            *)
IssueStart(s, on, by) == [Issue(s, StartStatement(s, on, by)) EXCEPT !.active = TRUE]

(* release(): a runner that holds no connection yet only sets its flag, so *)
(* the connection the pool grants it later is never given back.            *)
Release(s) ==
  [s EXCEPT !.released = TRUE,
            !.link = IF @ = "held" THEN "returned" ELSE @]

(* What the runner does when the answer to its statement arrives.          *)
AfterStart(s)  == [s EXCEPT !.depth = @ + 1]
AfterFinish(s) == [s EXCEPT !.depth = @ - 1, !.active = s.depth > 1]

-----------------------------------------------------------------------------
(* The server.                                                             *)

HasSave(s, k) == \E i \in 2 .. Len(s.levels) : s.levels[i].save = k

(* The level the innermost savepoint named k opened.                       *)
LevelOf(s, k) ==
  CHOOSE i \in 2 .. Len(s.levels) :
    /\ s.levels[i].save = k
    /\ \A j \in (i + 1) .. Len(s.levels) : s.levels[j].save # k

WritesFrom(s, i) == UNION {s.levels[j].writes : j \in i .. Len(s.levels)}

(* Whether the server accepts statement st.                                *)
Accepts(s, st) ==
  CASE st.kind \in {"commit", "rollback"} -> TRUE
    [] st.kind = "undo"  -> HasSave(s, st.save)
    [] st.kind = "merge" -> ~s.aborted /\ HasSave(s, st.save)
    [] st.kind = "save"  -> ~s.aborted /\ s.levels # << >>
    [] OTHER             -> ~s.aborted

(* The runner after the server executed an accepted statement.             *)
Executed(s, st) ==
  CASE st.kind = "begin" ->
         IF s.levels = << >>
         THEN [s EXCEPT !.levels = << [save |-> 0, writes |-> {}] >>]
         ELSE s  \* a warning: there is already a transaction in progress
    [] st.kind = "save" ->
         [s EXCEPT !.levels = Append(@, [save |-> st.save, writes |-> {}])]
    [] st.kind = "write" ->
         IF s.levels = << >> THEN s
         ELSE [s EXCEPT !.levels[Len(s.levels)].writes = @ \cup st.writes]
    [] st.kind = "merge" ->
         LET i == LevelOf(s, st.save)
         IN  [s EXCEPT !.levels =
                Append(SubSeq(@, 1, i - 2),
                       [save |-> @[i - 1].save,
                        writes |-> WritesFrom(s, i - 1)])]
    [] st.kind = "undo" ->
         LET i == LevelOf(s, st.save)
         IN  [s EXCEPT !.aborted = FALSE,
                       !.levels = Append(SubSeq(@, 1, i - 1),
                                         [save |-> st.save, writes |-> {}])]
    [] OTHER -> [s EXCEPT !.levels = << >>, !.aborted = FALSE]

(* A refused statement aborts the transaction it was sent in.              *)
Refused(s) == [s EXCEPT !.aborted = s.levels # << >>]

(* The writes an executed statement makes durable: a commit those of the   *)
(* whole transaction (COMMIT of an aborted one rolls back), a write sent   *)
(* outside a transaction its own.                                          *)
MadeDurable(s, st) ==
  CASE st.kind = "commit" -> IF s.aborted THEN {} ELSE WritesFrom(s, 1)
    [] st.kind = "write"  -> IF s.levels = << >> THEN st.writes ELSE {}
    [] OTHER              -> {}

(* The pool hands the idle connection of p to the waiting runner s: what   *)
(* is left on it comes with it.                                            *)
TakeOver(s, p) ==
  [s EXCEPT !.link = "held", !.levels = p.levels, !.aborted = p.aborted,
            !.queue = p.queue \o @]

(* The runner p whose connection was handed on or closed.                  *)
Parted(p) ==
  [p EXCEPT !.link = "gone", !.levels = << >>, !.aborted = FALSE, !.queue = << >>]

(* The runner once the head of its queue was served.                       *)
Served(s) ==
  LET st == Head(s.queue)
  IN  [IF Accepts(s, st) THEN Executed(s, st) ELSE Refused(s)
         EXCEPT !.queue = Tail(s.queue)]
=============================================================================
