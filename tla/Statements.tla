------------------------------- MODULE Statements -------------------------------
(***************************************************************************)
(* The SQL statements of internal/database and the tests between them, as  *)
(* data: what each selects, what it demands of the rows it finds, and the  *)
(* errors it returns.  Module Requests says what they do.                  *)
(***************************************************************************)
EXTENDS Sequences

CONSTANT None   \* no row

(* rows and of select rows: those that are live and, when of is a row,     *)
(* linked to it.  need says how many must be selected for the code to go   *)
(* on, err is the error it returns otherwise and fault the one it returns  *)
(* when the database does not answer.  status is what a check accepts or a *)
(* write sets; ctx says that the statement runs under the context of the   *)
(* request.                                                                *)
Stmt(do, rows, of, need, err) ==
    [do |-> do, rows |-> rows, of |-> of, need |-> need, err |-> err,
     fault |-> "database", status |-> {}, ctx |-> TRUE]

First(i, err)        == Stmt("read", {i}, None, "all", err)
FirstOf(i, p, err)   == Stmt("read", {i}, p, "all", err)
CountOf(rows, err)   == Stmt("read", rows, None, "some", err)
Find(rows, p)        == Stmt("read", rows, p, "any", "database")
Create(rows, p)      == Stmt("insert", rows, p, "any", "database")
Attach(rows, p)      == Stmt("link", rows, p, "any", "database")
Replace(rows, p)     == Stmt("replace", rows, p, "any", "database")
Save(i, need, err)   == Stmt("save", {i}, None, need, err)
SaveAs(i, to, need, err) == [Save(i, need, err) EXCEPT !.status = {to}]
Delete(rows, need, err) == Stmt("delete", rows, None, need, err)
DeleteOf(rows, p, need, err) == Stmt("delete", rows, p, need, err)
Update(i, p, need, err) == Stmt("update", {i}, p, need, err)
Move(i, to) == [Stmt("update", {i}, None, "any", "database") EXCEPT !.status = {to}]
Valid(err)  == Stmt("valid", {}, None, "any", err)
Require(i, from, err) == [Stmt("check", {i}, None, "any", err) EXCEPT !.status = from]
Belongs(i, p, err)    == Stmt("check", {i}, p, "any", err)
Detached(stmt)        == [stmt EXCEPT !.ctx = FALSE]
===============================================================================
