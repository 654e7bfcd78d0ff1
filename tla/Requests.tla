------------------------------- MODULE Requests -------------------------------
(***************************************************************************)
(* Requests that share the relational store of internal/database.  No      *)
(* operation of that package opens a transaction: each is a sequence of    *)
(* SQL statements, and the statements of two requests interleave.  An      *)
(* operation is therefore a script, a sequence of statements, which        *)
(* modules Database and Api write down function by function (Statements    *)
(* names the statements); this module says what one does to the rows and   *)
(* to the request that runs it.  The ORM (gorm) and PostgreSQL are         *)
(* external: a statement is atomic, a deleted row is seen by no later one. *)
(***************************************************************************)
EXTENDS Naturals, Statements

CONSTANTS
    Clients,    \* the requests the servers handle at the same time
    Ids,        \* primary keys, over all tables
    Ops,        \* for each client, the sequence of the operations it may run
    InitRows,   \* the tables before the first request
    Kinds,      \* the tables
    Statuses,   \* the statuses of jobs and workflows
    MaxFaults   \* bound: lost answers and expired contexts, over all requests

VARIABLES
    row,        \* the tables
    op,         \* the index in Ops of the operation of each request
    mode,       \* "idle", "run", "undo" (compensating), "done" or "undone"
    pc,         \* the statement each request runs next
    seen,       \* the rows each request has read, as it read them
    code,       \* the error or "OK" each request answers with
    expired,    \* the requests whose context (RPC or query timeout) has ended
    faults,
    left,       \* history: requests whose compensation failed
    late        \* history: rows inserted under a parent that was not live

vars == <<row, op, mode, pc, seen, code, expired, faults, left, late>>

---------------------------------------------------------------------------
(* The deletions that look at RowsAffected before they answer.             *)
CountedDeletes ==
    {"DeleteAccount", "DeleteTenantAPIKey", "DeleteWebhook", "DeleteScrapingJob",
     "BatchDeleteScrapingJobs", "DeleteWorkflow", "BatchDeleteScrapingWorkflows",
     "DeleteLead", "BatchDeleteLeads"}
Counted(o, k) ==
    /\ o.script[k].do = "delete" /\ o.script[k].need = "all"
    /\ o.script[k].fault # "ignored"
    /\ o.on \subseteq o.script[k].rows

Rows == [state : {"absent", "live", "deleted"}, kind : Kinds,
         link : Ids \cup {None}, status : Statuses]
ASSUME TableAssumption == InitRows \in [Ids -> Rows] /\ None \notin Ids
ASSUME OpsAssumption ==
    \A c \in Clients : \A n \in DOMAIN Ops[c] : LET o == Ops[c][n] IN
       /\ Len(o.script) \in Nat \ {0} /\ DOMAIN o.script = 1..Len(o.script)
       /\ Len(o.undo) \in Nat /\ DOMAIN o.undo = 1..Len(o.undo)
       /\ o.undo # <<>> => Len(o.undo) > 0
       /\ o.from \in Nat /\ o.on \subseteq Ids
       /\ \A s \in {o.script[k] : k \in DOMAIN o.script} \cup {o.undo[k] : k \in DOMAIN o.undo} :
            /\ s.rows \subseteq Ids /\ s.of \in Ids \cup {None} /\ s.status \subseteq Statuses
            /\ s.err # "OK" /\ s.fault # "OK"
            /\ s.do = "update" => \A st \in s.status : s.status = {st}
       /\ o.name \in CountedDeletes => \E k \in DOMAIN o.script : Counted(o, k)
ASSUME FaultsAssumption == MaxFaults \in Nat

StatementsOf(o) == {o.script[k] : k \in DOMAIN o.script} \cup {o.undo[k] : k \in DOMAIN o.undo}
Created(o) == UNION {s.rows : s \in {t \in StatementsOf(o) : t.do = "insert"}}
(* Go on only if row i is live when the statement runs.                    *)
Demands(s, i) == s.do \notin {"valid", "check"} /\ s.rows = {i} /\ s.need = "all" /\ s.fault # "ignored"

(* A key is new when a row is inserted, an association is appended to a    *)
(* row of the operation's own, and Replace names jobs that exist.          *)
ASSUME KeysAssumption ==
    \A c \in Clients : \A n \in DOMAIN Ops[c] : LET o == Ops[c][n] IN
       /\ \A i \in Created(o) :
            /\ InitRows[i].state = "absent" /\ InitRows[i].link = None
            /\ \A d \in Clients \ {c} : \A m \in DOMAIN Ops[d] : i \notin Created(Ops[d][m])
       /\ \A s \in StatementsOf(o) :
            /\ s.do = "link" => s.rows \subseteq Created(o)
            /\ s.do = "replace" => \A i \in s.rows : InitRows[i].state = "live" /\ InitRows[i].kind = "job"
(* A compensation looks for the one row and deletes it.                    *)
ASSUME UndoAssumption ==
    \A c \in Clients : \A n \in DOMAIN Ops[c] : LET o == Ops[c][n] IN
       o.undo # <<>> =>
         /\ o.on \subseteq Created(o)
         /\ \A k \in DOMAIN o.undo : /\ o.undo[k].do \in {"read", "delete"} /\ o.undo[k].of = None
                                     /\ \E i \in o.on : o.on = {i} /\ Demands(o.undo[k], i)
         /\ \E k \in DOMAIN o.undo : o.undo[k].do = "delete"

(* An operation: its name, the rows it creates or deletes, its script, the *)
(* path of parents the caller names for a row it creates, and the script   *)
(* undo that runs when a statement at from or later fails.                 *)
Operation(name, on, script) ==
    [name |-> name, on |-> on, under |-> <<>>, script |-> script,
     undo |-> <<>>, from |-> 1]
Creation(name, path, script) ==
    [Operation(name, {path[1]}, script) EXCEPT !.under = path]

---------------------------------------------------------------------------
Op(c)     == Ops[c][op[c]]
Script(c) == IF mode[c] = "undo" THEN Op(c).undo ELSE Op(c).script
Now(c)    == Script(c)[pc[c]]
Live(i)   == row[i].state = "live"
HitsDeleted(s) ==       \* a statement without the scope of deleted_at
    {i \in s.rows : row[i].state # "absent" /\ s.of \in {None, row[i].link}}
Hits(s)   == {i \in s.rows : Live(i) /\ s.of \in {None, row[i].link}}
Enough(s) == CASE s.need = "all"  -> Hits(s) = s.rows
               [] s.need = "some" -> Hits(s) # {}
               [] s.need = "none" -> Hits(s) = {}
               [] OTHER           -> TRUE

Marked(r, state) == [r EXCEPT !.state = state]
Linked(r, parent) == [r EXCEPT !.link = parent]
Set(r, status) == [r EXCEPT !.status = status]
Target(s) == CHOOSE t \in s.status : TRUE

Ended(m) == IF m = "undo" THEN "undone" ELSE "done"

(* The next statement; after the last one the request answers.             *)
Advance(c) ==
    /\ IF pc[c] < Len(Script(c))
         THEN /\ pc' = [pc EXCEPT ![c] = @ + 1]
              /\ UNCHANGED <<mode, code>>
         ELSE /\ mode' = [mode EXCEPT ![c] = Ended(@)]
              /\ code' = [code EXCEPT ![c] = IF mode[c] = "undo" THEN @ ELSE "OK"]
              /\ UNCHANGED pc
    /\ UNCHANGED left

FailLater(c, err) ==    \* a failure of the first step after "from" is not undone
    IF mode[c] = "run" /\ Op(c).undo # <<>> /\ pc[c] > Op(c).from
      THEN /\ mode' = [mode EXCEPT ![c] = "undo"]
           /\ pc' = [pc EXCEPT ![c] = 1]
           /\ code' = [code EXCEPT ![c] = err]
           /\ UNCHANGED left
      ELSE /\ mode' = [mode EXCEPT ![c] = Ended(@)]
           /\ code' = [code EXCEPT ![c] = IF mode[c] = "undo" THEN @ ELSE err]
           /\ left' = IF mode[c] = "undo" THEN left \cup {c} ELSE left
           /\ UNCHANGED pc

(* Return with an error, after the operation's compensation if it has one  *)
(* for what is already done.  A failed compensation is only logged.        *)
Fail(c, err) ==
    IF mode[c] = "run" /\ Op(c).undo # <<>> /\ pc[c] >= Op(c).from
      THEN /\ mode' = [mode EXCEPT ![c] = "undo"]
           /\ pc' = [pc EXCEPT ![c] = 1]
           /\ code' = [code EXCEPT ![c] = err]
           /\ UNCHANGED left
      ELSE /\ mode' = [mode EXCEPT ![c] = Ended(@)]
           /\ code' = [code EXCEPT ![c] = IF mode[c] = "undo" THEN @ ELSE err]
           /\ left' = IF mode[c] = "undo" THEN left \cup {c} ELSE left
           /\ UNCHANGED pc

BrokenAsAnswered(c) ==  \* any failure of a lookup counts as its result
    IF Now(c).fault = "ignored" THEN Advance(c) ELSE Fail(c, Now(c).err)
Broken(c) == IF Now(c).fault = "ignored" THEN Advance(c) ELSE Fail(c, Now(c).fault)

(* The statement has reached the database: the code goes on or gives up by *)
(* what it is told, or the answer is lost.                                 *)
Answered(c) ==
    \/ /\ IF Enough(Now(c)) THEN Advance(c) ELSE Fail(c, Now(c).err)
       /\ UNCHANGED faults
    \/ /\ faults < MaxFaults
       /\ faults' = faults + 1
       /\ Broken(c)

At(c, do) == /\ mode[c] \in {"run", "undo"}
             /\ Now(c).do = do

Runs(c, do) == /\ At(c, do)
               /\ Now(c).ctx => c \notin expired
               /\ Answered(c)
               /\ UNCHANGED <<op, expired>>

---------------------------------------------------------------------------
Init ==
    /\ row = InitRows
    /\ op = [c \in Clients |-> 0]
    /\ mode = [c \in Clients |-> "idle"]
    /\ pc = [c \in Clients |-> 1]
    /\ seen = [c \in Clients |-> [i \in {} |-> None]]
    /\ code = [c \in Clients |-> None]
    /\ expired = {}
    /\ faults = 0
    /\ left = {}
    /\ late = {}

Start(c) ==
    /\ mode[c] = "idle"
    /\ \E o \in DOMAIN Ops[c] : op' = [op EXCEPT ![c] = o]
    /\ mode' = [mode EXCEPT ![c] = "run"]
    /\ UNCHANGED <<row, pc, seen, code, expired, faults, left, late>>

(* The request or the input of a database function passes validation or not. *)
Validate(c) ==
    /\ At(c, "valid")
    /\ Advance(c) \/ Fail(c, Now(c).err)
    /\ UNCHANGED <<row, op, seen, expired, faults, late>>

CheckStatusOnly(c) ==   \* the parent of the row that was read is not compared
    /\ At(c, "check")
    /\ IF \A i \in Now(c).rows : Now(c).status # {} => seen[c][i].status \in Now(c).status
         THEN Advance(c) ELSE Fail(c, Now(c).err)
    /\ UNCHANGED <<row, op, seen, expired, faults, late>>

(* A condition on what the request has read before.                        *)
Check(c) ==
    /\ At(c, "check")
    /\ IF \A i \in Now(c).rows : /\ Now(c).status # {} => seen[c][i].status \in Now(c).status
                                 /\ Now(c).of # None => seen[c][i].link = Now(c).of
         THEN Advance(c) ELSE Fail(c, Now(c).err)
    /\ UNCHANGED <<row, op, seen, expired, faults, late>>

Read(c) ==
    /\ Runs(c, "read")
    /\ seen' = [seen EXCEPT ![c] =
                  [i \in DOMAIN @ \cup Hits(Now(c)) |->
                     IF i \in Hits(Now(c)) THEN [link |-> row[i].link, status |-> row[i].status]
                                           ELSE @[i]]]
    /\ UNCHANGED <<row, late>>

Insert(c) ==
    /\ Runs(c, "insert")
    /\ \A i \in Now(c).rows : row[i].state = "absent"
    /\ row' = [i \in Ids |-> IF i \in Now(c).rows
                               THEN Linked(Marked(row[i], "live"), Now(c).of)
                               ELSE row[i]]
    /\ late' = IF Now(c).of # None /\ ~Live(Now(c).of) THEN late \cup Now(c).rows
                                                       ELSE late
    /\ UNCHANGED seen

(* The association of gorm links a row that already exists.                *)
Link(c) ==
    /\ Runs(c, "link")
    /\ row' = [i \in Ids |-> IF i \in Now(c).rows
                               THEN Linked(row[i], Now(c).of) ELSE row[i]]
    /\ UNCHANGED <<seen, late>>

(* Association Replace: the named rows are linked, every other one of the  *)
(* parent's is unlinked, and no other column is written.                   *)
Relink(c) ==
    /\ Runs(c, "replace")
    /\ row' = [i \in Ids |->
                 IF i \in Now(c).rows THEN Linked(row[i], Now(c).of)
                 ELSE IF row[i].kind = "job" /\ row[i].link = Now(c).of
                        THEN Linked(row[i], None) ELSE row[i]]
    /\ UNCHANGED <<seen, late>>

(* Updates with the row as it was read: every column goes back to what it  *)
(* was then, except one the code has set in between.                       *)
WriteBack(c) ==
    /\ Runs(c, "save")
    /\ row' = [i \in Ids |->
                 IF i \in Hits(Now(c)) /\ i \in DOMAIN seen[c]
                   THEN Linked(Set(row[i], IF Now(c).status = {} THEN seen[c][i].status
                                           ELSE Target(Now(c))),
                               IF seen[c][i].link = None THEN row[i].link ELSE seen[c][i].link)
                   ELSE row[i]]
    /\ UNCHANGED <<seen, late>>

(* Updates with the columns of the request.                                *)
Write(c) ==
    /\ Runs(c, "update")
    /\ row' = [i \in Ids |->
                 IF i \in Hits(Now(c)) /\ Now(c).status # {} THEN Set(row[i], Target(Now(c)))
                                                            ELSE row[i]]
    /\ UNCHANGED <<seen, late>>

Erase(c) ==
    /\ Runs(c, "delete")
    /\ row' = [i \in Ids |-> IF i \in Hits(Now(c))
                               THEN Marked(row[i], "deleted") ELSE row[i]]
    /\ UNCHANGED <<seen, late>>

(* The RPC timeout passes, or the caller goes away ...                     *)
Expire(c) ==
    /\ mode[c] \in {"run", "undo"}
    /\ c \notin expired
    /\ faults < MaxFaults
    /\ faults' = faults + 1
    /\ expired' = expired \cup {c}
    /\ UNCHANGED <<row, op, mode, pc, seen, code, left, late>>

(* ... and every later statement of the request fails at once.  One may    *)
(* also fail alone.                                                        *)
Refused(c) ==
    /\ mode[c] \in {"run", "undo"}
    /\ Now(c).do \notin {"valid", "check"}
    /\ \/ c \in expired /\ Now(c).ctx /\ UNCHANGED faults
       \/ c \notin expired /\ faults < MaxFaults /\ faults' = faults + 1
    /\ Broken(c)
    /\ UNCHANGED <<row, op, seen, expired, late>>

AllDone == /\ \A c \in Clients : mode[c] \in {"done", "undone"}
           /\ UNCHANGED vars

Next ==
    \/ \E c \in Clients :
         \/ Start(c) \/ Validate(c) \/ Check(c) \/ Read(c) \/ Insert(c) \/ Link(c)
         \/ Relink(c) \/ WriteBack(c) \/ Write(c) \/ Erase(c) \/ Expire(c) \/ Refused(c)
    \/ AllDone

Spec == Init /\ [][Next]_vars

---------------------------------------------------------------------------
(* The tables keep their shape, and the requests their bookkeeping.        *)
TypeOK ==
    /\ row \in [Ids -> Rows]
    /\ mode \in [Clients -> {"idle", "run", "undo", "done", "undone"}]
    /\ pc \in [Clients -> Nat]
    /\ op = [c \in Clients |-> op[c]] /\ code = [c \in Clients |-> code[c]]
    /\ seen = [c \in Clients |-> [i \in DOMAIN seen[c] |-> seen[c][i]]]
    /\ \A c \in Clients : mode[c] # "idle" => op[c] \in DOMAIN Ops[c]
    /\ \A c \in Clients : mode[c] \in {"run", "undo"} => pc[c] \in 1..Len(Script(c))
    /\ \A c \in Clients : mode[c] = "idle" => pc[c] = 1
    /\ \A c \in Clients : \A i \in DOMAIN seen[c] :
          seen[c][i].link \in Ids \cup {None} /\ seen[c][i].status \in Statuses
    /\ expired \subseteq Clients /\ left \subseteq Clients
    /\ faults \in 0..MaxFaults
    /\ late \subseteq Ids

Acked(c) == mode[c] = "done" /\ code[c] = "OK"

(* A deleted row stays deleted: no stale write-back and no association     *)
(* brings it back (every Updates and Append in internal/database).         *)
DeletedIsGone == [][\A i \in Ids : row[i].state = "deleted" => row'[i].state = "deleted"]_vars

(* Of several requests that delete the same row, at most one is told that  *)
(* it deleted it, for the operations that look at RowsAffected.            *)
DeleteOnce ==
    \A c, d \in Clients :
       /\ c # d
       /\ Acked(c) /\ Op(c).name \in CountedDeletes
       /\ Acked(d) /\ Op(d).name \in CountedDeletes
       => Op(c).on \cap Op(d).on = {}

(* Why: the rows of a counted deletion that has gone through are deleted,  *)
(* and were live until then, so they are in no other one.                  *)
Passed(c) ==
    /\ mode[c] # "idle" /\ Op(c).name \in CountedDeletes
    /\ \E k \in DOMAIN Op(c).script :
          Counted(Op(c), k) /\ ((mode[c] = "run" /\ pc[c] > k) \/ Acked(c))
RequestInv ==
    /\ TypeOK
    /\ \A c \in Clients : Passed(c) => \A i \in Op(c).on : row[i].state = "deleted"
    /\ \A c, d \in Clients : c # d /\ Passed(c) /\ Passed(d) => Op(c).on \cap Op(d).on = {}

(* A creation that looks at RowsAffected of the parent's write-back and is *)
(* acknowledged has not put its row under a parent deleted meanwhile.      *)
ParentCheckers ==
    {"CreateAccount", "CreateAPIKey", "CreateWorkflow", "CreateScrapingJob"}
(* The parent p is read at k, the row is put under it, and at m the write- *)
(* back of the parent has to find it.                                      *)
ChecksParent(o, p, k, m) ==
    /\ k \in DOMAIN o.script /\ m \in DOMAIN o.script
    /\ Demands(o.script[k], p) /\ Demands(o.script[m], p)
    /\ o.on \subseteq Created(o)
    /\ \A l \in DOMAIN o.script :
          o.script[l].do = "insert" /\ o.script[l].rows \cap o.on # {} =>
             k < l /\ l < m /\ o.script[l].of = p
ASSUME ParentAssumption ==
    \A c \in Clients : \A n \in DOMAIN Ops[c] :
       Ops[c][n].name \in ParentCheckers =>
          \E p \in Ids : \E k, m \in DOMAIN Ops[c][n].script : ChecksParent(Ops[c][n], p, k, m)
NoLateChild ==
    \A c \in Clients :
       Acked(c) /\ Op(c).name \in ParentCheckers => Op(c).on \cap late = {}

(* A row whose creation is acknowledged hangs where the caller said, all   *)
(* the way up, unless a batch update has unlinked it since.                *)
CreatedWhereNamed ==
    \A c \in Clients :
       Acked(c) => LET path == Op(c).under IN
          \A k \in 1..(Len(path) - 1) :
             \/ row[path[k]].link = path[k + 1]
             \/ row[path[k]].link = None /\ row[path[k]].kind = "job"

(* For each step of that path: the row is created and put there, or it is  *)
(* an old one, not a job, and found there, by a read or by a check of what *)
(* was read.                                                               *)
Places(s, i) == s.do \in {"insert", "link"} /\ i \in s.rows
PutUnder(o, i, p, m) ==
    /\ i \in Created(o) /\ Places(o.script[m], i)
    /\ o.script[m].of = p /\ o.script[m].fault # "ignored"
    /\ \A s \in StatementsOf(o) : Places(s, i) => s.of \in {None, p}
    /\ \A l \in DOMAIN o.script : l > m => ~Places(o.script[l], i)
Fixed(i) == InitRows[i].state # "absent" /\ InitRows[i].kind # "job"
FoundUnder(o, i, p, m) ==
    /\ Fixed(i) /\ o.script[m].do = "read" /\ Demands(o.script[m], i)
    /\ \/ o.script[m].of = p
       \/ \E l \in DOMAIN o.script :
             l > m /\ o.script[l].do = "check" /\ i \in o.script[l].rows /\ o.script[l].of = p
ASSUME PathAssumption ==
    \A c \in Clients : \A n \in DOMAIN Ops[c] : LET o == Ops[c][n] IN
       /\ Len(o.under) \in Nat /\ \A k \in 1..Len(o.under) : o.under[k] \in Ids
       /\ \A k \in 1..(Len(o.under) - 1) : \E m \in DOMAIN o.script :
             PutUnder(o, o.under[k], o.under[k + 1], m) \/ FoundUnder(o, o.under[k], o.under[k + 1], m)

(* An account whose initial workspace could not be created is gone when    *)
(* the caller is told of the failure, unless the clean-up itself failed,   *)
(* and that only happens when the database does not answer.                *)
FailedLate(c) ==
    \/ mode[c] = "undone"
    \/ mode[c] = "done" /\ code[c] # "OK" /\ Op(c).undo # <<>> /\ pc[c] >= Op(c).from
NoHalfAccount ==
    \A c \in Clients :
       FailedLate(c) => \A i \in Op(c).on : Live(i) => c \in left /\ faults > 0

(* A request answered NotFound names a row that is gone, or not where it   *)
(* said: a lost answer or a timeout is told as something else.  Not so for *)
(* GetScrapingJob, which answers NotFound to every error of its lookups.   *)
NotFoundMeansGone ==
    \A c \in Clients :
       mode[c] = "done" /\ code[c] = "NotFound" /\ Op(c).name # "GetScrapingJob"
       => \E k \in DOMAIN Op(c).script : \E i \in Op(c).script[k].rows :
             InitRows[i].state = "live" /\ i \notin Hits(Op(c).script[k])

(* Such an answer comes from a statement that finds too few of its rows;   *)
(* they exist before the requests, and a job is looked up by its key alone.*)
Missed(s) ==
    /\ s.do \notin {"valid", "check"} /\ s.need \in {"all", "some"} /\ s.rows # {}
    /\ \A i \in s.rows : /\ InitRows[i].state = "live"
                         /\ s.of # None => InitRows[i].kind # "job"
ASSUME AnswersAssumption ==
    \A c \in Clients : \A n \in DOMAIN Ops[c] : LET o == Ops[c][n] IN
       o.name # "GetScrapingJob" =>
          \A s \in StatementsOf(o) : s.fault # "NotFound" /\ (s.err = "NotFound" => Missed(s))
===============================================================================
