---------------------------- MODULE RequestsProofs ----------------------------
(***************************************************************************)
(* What holds of the requests whatever operations they run on whatever     *)
(* tables.  First their bookkeeping, deleted rows and counted deletions:   *)
(* the statement that deletes is atomic and goes on only if every row was  *)
(* live, so of two the second finds none.  Then the invariant of           *)
(* RequestsInv, part by part and statement by statement, and what it says  *)
(* of creations, of their compensation and of answers.                     *)
(***************************************************************************)
EXTENDS RequestsInv, TLAPS

(* A step of one request.                                                  *)
Act(c) ==
    \/ Start(c) \/ Validate(c) \/ Check(c) \/ Read(c) \/ Insert(c) \/ Link(c)
    \/ Relink(c) \/ WriteBack(c) \/ Write(c) \/ Erase(c) \/ Expire(c) \/ Refused(c)

Busy(c) == mode[c] \in {"run", "undo"}

(* The bookkeeping of the requests, without rows, reads and faults.        *)
Control ==
    /\ mode \in [Clients -> {"idle", "run", "undo", "done", "undone"}]
    /\ pc \in [Clients -> Nat] /\ code = [c \in Clients |-> code[c]]
    /\ \A c \in Clients : Busy(c) => pc[c] \in 1..Len(Script(c))
    /\ \A c \in Clients : mode[c] = "idle" => pc[c] = 1
    /\ left \subseteq Clients

(* What one statement does to the request that runs it: it goes on by one  *)
(* statement, it answers OK after its last, or it gives up.                *)
Outcome(c) ==
    /\ \A d \in Clients : d # c => mode'[d] = mode[d] /\ pc'[d] = pc[d] /\ code'[d] = code[d]
    /\ mode'[c] = "run" => mode[c] = "run" /\ pc'[c] = pc[c] + 1
    /\ mode'[c] = "done" /\ code'[c] = "OK" => mode[c] = "run" /\ pc[c] = Len(Op(c).script)
    /\ mode'[c] # "idle"
GaveUp(c) == mode'[c] # "run" /\ (mode'[c] = "done" => code'[c] # "OK")

LEMMA Scripts ==
    ASSUME NEW c \in Clients, NEW n \in DOMAIN Ops[c]
    PROVE  /\ Len(Ops[c][n].script) \in Nat \ {0} /\ DOMAIN Ops[c][n].script = 1..Len(Ops[c][n].script)
           /\ Len(Ops[c][n].undo) \in Nat
           /\ Ops[c][n].undo # <<>> => Len(Ops[c][n].undo) > 0
           /\ DOMAIN Ops[c][n].undo = 1..Len(Ops[c][n].undo)
           /\ \A k \in DOMAIN Ops[c][n].script :
                 Ops[c][n].script[k].rows \subseteq Ids /\ Ops[c][n].script[k].of \in Ids \cup {None} /\ Ops[c][n].script[k].status \subseteq Statuses
                 /\ Ops[c][n].script[k].err # "OK" /\ Ops[c][n].script[k].fault # "OK"
           /\ \A k \in DOMAIN Ops[c][n].undo :
                 Ops[c][n].undo[k].rows \subseteq Ids /\ Ops[c][n].undo[k].of \in Ids \cup {None} /\ Ops[c][n].undo[k].status \subseteq Statuses
                 /\ Ops[c][n].undo[k].err # "OK" /\ Ops[c][n].undo[k].fault # "OK"
BY OpsAssumption

LEMMA NowTyped ==
    ASSUME TypeOK, NEW c \in Clients, Busy(c)
    PROVE  /\ Now(c).rows \subseteq Ids
           /\ Now(c).of \in Ids \cup {None} /\ Now(c).status \subseteq Statuses
           /\ Now(c).err # "OK" /\ Now(c).fault # "OK"
<1>1. op[c] \in DOMAIN Ops[c] /\ pc[c] \in 1..Len(Script(c))
  BY DEF TypeOK, Busy
<1>2. CASE mode[c] = "undo"
  <2>1. pc[c] \in DOMAIN Ops[c][op[c]].undo /\ Now(c) = Ops[c][op[c]].undo[pc[c]]
    BY <1>1, <1>2, Scripts DEF Now, Script, Op
  <2> QED BY <1>1, <2>1, Scripts
<1>3. CASE mode[c] # "undo"
  <2>1. pc[c] \in DOMAIN Ops[c][op[c]].script /\ Now(c) = Ops[c][op[c]].script[pc[c]]
    BY <1>1, <1>3, Scripts DEF Now, Script, Op
  <2> QED BY <1>1, <2>1, Scripts
<1> QED BY <1>2, <1>3

LEMMA AdvanceOutcome ==
    ASSUME Control, op' = op, NEW c \in Clients, Busy(c), Advance(c)
    PROVE  Control' /\ Outcome(c)
<1>1. pc[c] \in 1..Len(Script(c))
  BY DEF Control
<1>2. CASE pc[c] < Len(Script(c))
  <2>1. mode' = mode /\ code' = code /\ left' = left /\ pc' = [pc EXCEPT ![c] = pc[c] + 1]
    BY <1>2 DEF Advance
  <2> QED BY <1>1, <1>2, <2>1 DEF Control, Outcome, Busy, Script, Op
<1>3. CASE ~(pc[c] < Len(Script(c)))
  <2>1. /\ mode' = [mode EXCEPT ![c] = Ended(mode[c])] /\ pc' = pc /\ left' = left
        /\ code' = [code EXCEPT ![c] = IF mode[c] = "undo" THEN code[c] ELSE "OK"]
    BY <1>3 DEF Advance
  <2>2. mode[c] = "run" => pc[c] = Len(Op(c).script)
    BY <1>1, <1>3 DEF Script
  <2> QED BY <1>1, <2>1, <2>2 DEF Control, Outcome, Busy, Script, Op, Ended
<1> QED BY <1>2, <1>3

LEMMA FailOutcome ==
    ASSUME TypeOK, Control, op' = op, NEW c \in Clients, Busy(c), NEW err, err # "OK", Fail(c, err)
    PROVE  Control' /\ Outcome(c) /\ GaveUp(c)
<1>1. op[c] \in DOMAIN Ops[c]
  BY DEF TypeOK, Busy
<1>2. CASE mode[c] = "run" /\ Op(c).undo # <<>> /\ pc[c] >= Op(c).from
  <2>1. /\ mode' = [mode EXCEPT ![c] = "undo"] /\ pc' = [pc EXCEPT ![c] = 1]
        /\ code' = [code EXCEPT ![c] = err] /\ left' = left
    BY <1>2 DEF Fail
  <2>2. 1 \in 1..Len(Op(c).undo)
    BY <1>1, <1>2, Scripts DEF Op
  <2> QED BY <1>2, <2>1, <2>2 DEF Control, Outcome, GaveUp, Busy, Script, Op
<1>3. CASE ~(mode[c] = "run" /\ Op(c).undo # <<>> /\ pc[c] >= Op(c).from)
  <2>1. /\ mode' = [mode EXCEPT ![c] = Ended(mode[c])] /\ pc' = pc
        /\ code' = [code EXCEPT ![c] = IF mode[c] = "undo" THEN code[c] ELSE err]
        /\ left' = IF mode[c] = "undo" THEN left \cup {c} ELSE left
    BY <1>3 DEF Fail
  <2> QED BY <2>1 DEF Control, Outcome, GaveUp, Busy, Script, Op, Ended
<1> QED BY <1>2, <1>3

LEMMA ControlFromType == TypeOK => Control
BY DEF TypeOK, Control, Busy

LEMMA RefusedOutcome ==
    ASSUME TypeOK, op' = op, NEW c \in Clients, Busy(c), Broken(c)
    PROVE  Control' /\ Outcome(c) /\ (Now(c).fault # "ignored" => GaveUp(c))
BY ControlFromType, NowTyped, AdvanceOutcome, FailOutcome DEF Broken

(* A statement that runs is answered, or its answer is lost.               *)
LEMMA RunOutcome ==
    ASSUME TypeOK, NEW c \in Clients, NEW do, Runs(c, do)
    PROVE  /\ Control' /\ Outcome(c) /\ op' = op /\ Busy(c) /\ Now(c).do = do
           /\ expired' = expired /\ faults' \in 0..MaxFaults
           /\ Now(c).fault # "ignored" => GaveUp(c) \/ Enough(Now(c))
<1>1. op' = op /\ Busy(c) /\ Now(c).do = do /\ expired' = expired /\ Answered(c)
  BY DEF Runs, At, Busy
<1>2. Control
  BY ControlFromType
<1>3. CASE /\ IF Enough(Now(c)) THEN Advance(c) ELSE Fail(c, Now(c).err)
           /\ UNCHANGED faults
  BY <1>1, <1>2, <1>3, NowTyped, AdvanceOutcome, FailOutcome DEF TypeOK
<1>4. CASE faults < MaxFaults /\ faults' = faults + 1 /\ Broken(c)
  <2>1. faults' \in 0..MaxFaults
    BY <1>4, FaultsAssumption DEF TypeOK
  <2> QED BY <1>1, <1>4, <2>1, RefusedOutcome
<1> QED BY <1>1, <1>3, <1>4 DEF Answered

(* The type invariant but for the bookkeeping of Control.                  *)
Tables ==
    /\ row \in [Ids -> Rows]
    /\ op = [c \in Clients |-> op[c]]
    /\ seen = [c \in Clients |-> [i \in DOMAIN seen[c] |-> seen[c][i]]]
    /\ \A c \in Clients : mode[c] # "idle" => op[c] \in DOMAIN Ops[c]
    /\ \A c \in Clients : \A i \in DOMAIN seen[c] :
          seen[c][i].link \in Ids \cup {None} /\ seen[c][i].status \in Statuses
    /\ expired \subseteq Clients
    /\ faults \in 0..MaxFaults
    /\ late \subseteq Ids

LEMMA TypeSplits == TypeOK <=> Control /\ Tables
BY DEF TypeOK, Control, Tables, Busy

(* Every action that runs one statement: what it does to the tables is     *)
(* proved action by action, the rest follows from RunOutcome.              *)
LEMMA RunKeepsType ==
    ASSUME TypeOK, NEW c \in Clients, NEW do, Runs(c, do),
           row' \in [Ids -> Rows], late' \subseteq Ids,
           seen' = [d \in Clients |-> [i \in DOMAIN seen'[d] |-> seen'[d][i]]],
           \A d \in Clients : \A i \in DOMAIN seen'[d] :
              seen'[d][i].link \in Ids \cup {None} /\ seen'[d][i].status \in Statuses
    PROVE  TypeOK'
<1>1. /\ Control' /\ Outcome(c) /\ op' = op /\ Busy(c)
      /\ expired' = expired /\ faults' \in 0..MaxFaults
  BY RunOutcome
<1>2. \A d \in Clients : mode'[d] # "idle" => op'[d] \in DOMAIN Ops[d]
  BY <1>1 DEF TypeOK, Outcome, Busy
<1>3. Tables'
  BY <1>1, <1>2 DEF Tables, TypeOK
<1>4. Control' /\ Tables' => TypeOK'
  BY DEF TypeOK, Control, Tables, Busy
<1> QED BY <1>1, <1>3, <1>4

---------------------------------------------------------------------------
(* Action by action                                                        *)

LEMMA SeenKept == TypeOK /\ UNCHANGED seen =>
    /\ seen' = [d \in Clients |-> [i \in DOMAIN seen'[d] |-> seen'[d][i]]]
    /\ \A d \in Clients : \A i \in DOMAIN seen'[d] :
          seen'[d][i].link \in Ids \cup {None} /\ seen'[d][i].status \in Statuses
BY DEF TypeOK

LEMMA SeenFunction == TypeOK =>
    /\ seen = [d \in Clients |-> seen[d]]
    /\ \A d \in Clients : seen[d] = [i \in DOMAIN seen[d] |-> seen[d][i]]
    /\ \A d \in Clients : \A i \in DOMAIN seen[d] :
          seen[d][i].link \in Ids \cup {None} /\ seen[d][i].status \in Statuses
BY DEF TypeOK

LEMMA RowsTyped == TypeOK => row \in [Ids -> Rows] /\ late \subseteq Ids
BY DEF TypeOK

(* What the statements make of a row.                                      *)
LEMMA RowUpdates ==
    /\ \A r \in Rows : \A st \in {"absent", "live", "deleted"} :
          Marked(r, st) \in Rows /\ Marked(r, st).state = st
    /\ \A r \in Rows : \A l \in Ids \cup {None} :
          Linked(r, l) \in Rows /\ Linked(r, l).state = r.state
    /\ \A r \in Rows : \A t \in Statuses :
          Set(r, t) \in Rows /\ Set(r, t).state = r.state
    /\ \A r \in Rows : r.link \in Ids \cup {None} /\ r.status \in Statuses
BY DEF Rows, Marked, Linked, Set

LEMMA TargetTyped ==
    ASSUME NEW s, s.status \subseteq Statuses, s.status # {} PROVE Target(s) \in Statuses
BY DEF Target

LEMMA ReadKeepsType == ASSUME TypeOK, NEW c \in Clients, Read(c) PROVE TypeOK'
<1> DEFINE f == [i \in DOMAIN seen[c] \cup Hits(Now(c)) |->
                   IF i \in Hits(Now(c)) THEN [link |-> row[i].link, status |-> row[i].status]
                                         ELSE seen[c][i]]
<1>1. Runs(c, "read") /\ seen' = [seen EXCEPT ![c] = f] /\ row' = row /\ late' = late
  BY DEF Read
<1>2. Busy(c)
  BY <1>1 DEF Runs, At, Busy
<1>3. Hits(Now(c)) \subseteq Ids
  BY <1>2, NowTyped DEF Hits
<1>4. /\ \A i \in DOMAIN f : f[i].link \in Ids \cup {None} /\ f[i].status \in Statuses
      /\ f = [i \in DOMAIN f |-> f[i]]
  BY <1>3 DEF TypeOK, Rows
<1> HIDE DEF f
<1>5. /\ seen' = [d \in Clients |-> [i \in DOMAIN seen'[d] |-> seen'[d][i]]]
      /\ \A d \in Clients : \A i \in DOMAIN seen'[d] :
            seen'[d][i].link \in Ids \cup {None} /\ seen'[d][i].status \in Statuses
  <2>1. \A d \in Clients : seen'[d] = IF d = c THEN f ELSE seen[d]
    BY <1>1, SeenFunction
  <2>2. seen' = [d \in Clients |-> seen'[d]]
    BY <1>1, SeenFunction
  <2>3. \A d \in Clients : seen'[d] = [i \in DOMAIN seen'[d] |-> seen'[d][i]]
    BY <1>4, <2>1, SeenFunction
  <2>4. \A d \in Clients : \A i \in DOMAIN seen'[d] :
            seen'[d][i].link \in Ids \cup {None} /\ seen'[d][i].status \in Statuses
    BY <1>4, <2>1, SeenFunction
  <2> QED BY <2>2, <2>3, <2>4
<1>6. row' \in [Ids -> Rows] /\ late' \subseteq Ids
  BY <1>1 DEF TypeOK
<1> QED BY <1>1, <1>5, <1>6, RunKeepsType

(* The tables stay typed, and no deleted row comes back.                   *)
RowsKept == /\ row' \in [Ids -> Rows]
            /\ \A i \in Ids : row[i].state = "deleted" => row'[i].state = "deleted"

LEMMA InsertKeeps == ASSUME TypeOK, NEW c \in Clients, Insert(c) PROVE TypeOK' /\ RowsKept
<1>1. /\ Runs(c, "insert") /\ UNCHANGED seen
      /\ \A i \in Now(c).rows : row[i].state = "absent"
      /\ late' = late \/ late' = late \cup Now(c).rows
  BY DEF Insert
<1>2. Now(c).rows \subseteq Ids /\ Now(c).of \in Ids \cup {None}
  BY <1>1, NowTyped DEF Runs, At, Busy
<1>3. RowsKept
  BY <1>1, <1>2, RowsTyped, RowUpdates DEF RowsKept, Insert
<1>4. late' \subseteq Ids
  BY <1>1, <1>2, RowsTyped
<1> QED BY <1>1, <1>3, <1>4, SeenKept, RunKeepsType DEF RowsKept

LEMMA LinkKeeps == ASSUME TypeOK, NEW c \in Clients, Link(c) PROVE TypeOK' /\ RowsKept
<1>1. Runs(c, "link") /\ UNCHANGED <<seen, late>>
  BY DEF Link
<1>2. Now(c).rows \subseteq Ids /\ Now(c).of \in Ids \cup {None}
  BY <1>1, NowTyped DEF Runs, At, Busy
<1>3. RowsKept
  BY <1>2, RowsTyped, RowUpdates DEF RowsKept, Link
<1> QED BY <1>1, <1>3, SeenKept, RowsTyped, RunKeepsType DEF RowsKept

LEMMA RelinkKeeps == ASSUME TypeOK, NEW c \in Clients, Relink(c) PROVE TypeOK' /\ RowsKept
<1>1. Runs(c, "replace") /\ UNCHANGED <<seen, late>>
  BY DEF Relink
<1>2. Now(c).rows \subseteq Ids /\ Now(c).of \in Ids \cup {None}
  BY <1>1, NowTyped DEF Runs, At, Busy
<1>3. RowsKept
  BY <1>2, RowsTyped, RowUpdates DEF RowsKept, Relink
<1> QED BY <1>1, <1>3, SeenKept, RowsTyped, RunKeepsType DEF RowsKept

LEMMA WriteBackKeeps == ASSUME TypeOK, NEW c \in Clients, WriteBack(c) PROVE TypeOK' /\ RowsKept
<1>1. Runs(c, "save") /\ UNCHANGED <<seen, late>>
  BY DEF WriteBack
<1>2. Now(c).status # {} => Target(Now(c)) \in Statuses
  BY <1>1, NowTyped, TargetTyped DEF Runs, At, Busy
<1>3. RowsKept
  <2> DEFINE t(i) == IF Now(c).status = {} THEN seen[c][i].status ELSE Target(Now(c))
             l(i) == IF seen[c][i].link = None THEN row[i].link ELSE seen[c][i].link
  <2>1. row' = [i \in Ids |-> IF i \in Hits(Now(c)) /\ i \in DOMAIN seen[c]
                                THEN Linked(Set(row[i], t(i)), l(i)) ELSE row[i]]
    BY DEF WriteBack
  <2>2. \A i \in Ids : i \in DOMAIN seen[c] => t(i) \in Statuses /\ l(i) \in Ids \cup {None}
    BY <1>2, RowsTyped, RowUpdates, SeenFunction
  <2> HIDE DEF t, l
  <2> QED BY <2>1, <2>2, RowsTyped, RowUpdates DEF RowsKept
<1> QED BY <1>1, <1>3, SeenKept, RowsTyped, RunKeepsType DEF RowsKept

LEMMA WriteKeeps == ASSUME TypeOK, NEW c \in Clients, Write(c) PROVE TypeOK' /\ RowsKept
<1>1. Runs(c, "update") /\ UNCHANGED <<seen, late>>
  BY DEF Write
<1>2. Now(c).status # {} => Target(Now(c)) \in Statuses
  BY <1>1, NowTyped, TargetTyped DEF Runs, At, Busy
<1>3. RowsKept
  BY <1>2, RowsTyped, RowUpdates DEF RowsKept, Write
<1> QED BY <1>1, <1>3, SeenKept, RowsTyped, RunKeepsType DEF RowsKept

LEMMA EraseKeeps == ASSUME TypeOK, NEW c \in Clients, Erase(c) PROVE TypeOK' /\ RowsKept
<1>1. Runs(c, "delete") /\ UNCHANGED <<seen, late>>
  BY DEF Erase
<1>2. RowsKept
  BY RowsTyped, RowUpdates DEF RowsKept, Erase
<1> QED BY <1>1, <1>2, SeenKept, RowsTyped, RunKeepsType DEF RowsKept

LEMMA StartKeeps == ASSUME TypeOK, NEW c \in Clients, Start(c) PROVE TypeOK' /\ RowsKept
<1>1. PICK o \in DOMAIN Ops[c] : op' = [op EXCEPT ![c] = o]
  BY DEF Start
<1>2. /\ mode[c] = "idle" /\ mode' = [mode EXCEPT ![c] = "run"]
      /\ UNCHANGED <<row, pc, seen, code, expired, faults, left, late>>
  BY DEF Start
<1>3. op'[c] = o /\ \A d \in Clients : d # c => op'[d] = op[d]
  BY <1>1 DEF TypeOK
<1>4. pc'[c] \in 1..Len(Ops[c][o].script)
  BY <1>2, Scripts DEF TypeOK
<1>5. \A d \in Clients : mode'[d] # "idle" => op'[d] \in DOMAIN Ops[d]
  BY <1>1, <1>2, <1>3 DEF TypeOK
<1>6. \A d \in Clients : mode'[d] \in {"run", "undo"} => pc'[d] \in 1..Len(Script(d)')
  BY <1>2, <1>3, <1>4 DEF TypeOK, Script, Op
<1>7. op' = [d \in Clients |-> op'[d]] /\ (\A d \in Clients : mode'[d] = "idle" => pc'[d] = 1)
  BY <1>1, <1>2 DEF TypeOK
<1>8. /\ UNCHANGED <<row, seen, code>>
      /\ mode' \in [Clients -> {"idle", "run", "undo", "done", "undone"}] /\ pc' \in [Clients -> Nat]
  BY <1>2 DEF TypeOK
<1> QED BY <1>2, <1>5, <1>6, <1>7, <1>8 DEF TypeOK, RowsKept

LEMMA ExpireKeeps == ASSUME TypeOK, NEW c \in Clients, Expire(c) PROVE TypeOK' /\ RowsKept
<1>1. /\ UNCHANGED <<row, op, mode, pc, seen, code, left, late>>
      /\ faults' \in 0..MaxFaults /\ expired' \subseteq Clients
  BY FaultsAssumption DEF Expire, TypeOK
<1> QED BY <1>1 DEF TypeOK, RowsKept, Script, Op

(* The actions that leave the tables and what was read alone.              *)
LEMMA QuietKeeps ==
    ASSUME TypeOK, NEW c \in Clients, Control', Outcome(c),
           UNCHANGED <<row, op, seen, expired, late>>, faults' \in 0..MaxFaults, Busy(c)
    PROVE  TypeOK' /\ RowsKept
<1>1. \A d \in Clients : mode'[d] # "idle" => op'[d] \in DOMAIN Ops[d]
  BY DEF TypeOK, Outcome, Busy
<1>2. Tables'
  BY <1>1 DEF Tables, TypeOK
<1>3. Control' /\ Tables' => TypeOK'
  BY DEF TypeOK, Control, Tables, Busy
<1> QED BY <1>2, <1>3 DEF RowsKept, TypeOK

LEMMA LocalOutcome ==
    ASSUME TypeOK, NEW c \in Clients, Validate(c) \/ Check(c)
    PROVE  /\ Control' /\ Outcome(c) /\ Busy(c) /\ Now(c).do \in {"valid", "check"}
           /\ UNCHANGED <<row, op, seen, expired, faults, late>>
<1>1. /\ Busy(c) /\ Now(c).do \in {"valid", "check"}
      /\ UNCHANGED <<row, op, seen, expired, faults, late>>
      /\ Advance(c) \/ Fail(c, Now(c).err)
  BY DEF Validate, Check, At, Busy
<1> QED BY <1>1, ControlFromType, NowTyped, AdvanceOutcome, FailOutcome

LEMMA RefusedKeeps ==
    ASSUME TypeOK, NEW c \in Clients, Refused(c)
    PROVE  /\ TypeOK' /\ RowsKept /\ Outcome(c) /\ Busy(c) /\ op' = op
           /\ Now(c).fault # "ignored" => GaveUp(c)
<1>1. Busy(c) /\ Broken(c) /\ UNCHANGED <<row, op, seen, expired, late>>
  BY DEF Refused, Busy
<1>2. faults' \in 0..MaxFaults
  BY FaultsAssumption DEF Refused, TypeOK
<1>3. Control' /\ Outcome(c) /\ (Now(c).fault # "ignored" => GaveUp(c))
  BY <1>1, RefusedOutcome
<1> QED BY <1>1, <1>2, <1>3, QuietKeeps

LEMMA ActKeeps == ASSUME TypeOK, NEW c \in Clients, Act(c) PROVE TypeOK' /\ RowsKept
<1>1. CASE Validate(c) \/ Check(c)
  BY <1>1, LocalOutcome, QuietKeeps DEF TypeOK
<1>2. CASE Read(c)
  BY <1>2, ReadKeepsType DEF Read, RowsKept, TypeOK
<1> QED BY <1>1, <1>2, StartKeeps, InsertKeeps, LinkKeeps, RelinkKeeps, WriteBackKeeps,
           WriteKeeps, EraseKeeps, ExpireKeeps, RefusedKeeps DEF Act

LEMMA Idle == TypeOK /\ UNCHANGED vars => TypeOK' /\ RowsKept
BY DEF TypeOK, vars, RowsKept, Script, Op

LEMMA Step == TypeOK /\ [Next]_vars => TypeOK' /\ RowsKept
<1>1. [Next]_vars => (\E c \in Clients : Act(c)) \/ UNCHANGED vars
  BY DEF Next, Act, AllDone
<1> QED BY <1>1, ActKeeps, Idle

LEMMA InitType == Init => TypeOK
<1> SUFFICES ASSUME Init PROVE TypeOK
  OBVIOUS
<1>1. row \in [Ids -> Rows] /\ faults \in 0..MaxFaults
  BY TableAssumption, FaultsAssumption DEF Init
<1> QED BY <1>1 DEF Init, TypeOK

(* The bookkeeping of every request is well formed, whatever the           *)
(* operations and the tables: a statement that runs is one of its script,  *)
(* and no write puts a row in a shape its table does not have.             *)
THEOREM TypeCorrect == Spec => []TypeOK
<1>1. TypeOK /\ [Next]_vars => TypeOK'
  BY Step
<1> QED BY InitType, <1>1, PTL DEF Spec

(* No statement of any operation brings a deleted row back.                *)
THEOREM DeletedStaysGone == Spec => DeletedIsGone
<1>1. TypeOK /\ [Next]_vars => [\A i \in Ids : row[i].state = "deleted" => row'[i].state = "deleted"]_vars
  BY Step DEF RowsKept
<1> QED BY TypeCorrect, <1>1, PTL DEF Spec, DeletedIsGone

---------------------------------------------------------------------------
(* A counted deletion goes through in one step, the statement itself: all  *)
(* of its rows were live before, and none is after.                        *)

LEMMA Others ==
    ASSUME TypeOK, NEW c \in Clients, Act(c)
    PROVE  \A d \in Clients : d # c =>
              op'[d] = op[d] /\ mode'[d] = mode[d] /\ pc'[d] = pc[d] /\ code'[d] = code[d]
<1>1. CASE Start(c)
  BY <1>1 DEF Start, TypeOK
<1>2. CASE Expire(c)
  BY <1>2 DEF Expire
<1>3. CASE Validate(c) \/ Check(c)
  BY <1>3, LocalOutcome DEF Outcome
<1>4. CASE Refused(c)
  BY <1>4, RefusedKeeps DEF Outcome
<1>5. CASE \E do : Runs(c, do)
  BY <1>5, RunOutcome DEF Outcome
<1> QED BY <1>1, <1>2, <1>3, <1>4, <1>5
        DEF Act, Read, Insert, Link, Relink, WriteBack, Write, Erase

LEMMA EraseAll ==
    ASSUME TypeOK, NEW c \in Clients, Erase(c), mode[c] = "run", Counted(Op(c), pc[c]), ~GaveUp(c)
    PROVE  \A i \in Op(c).on : i \in Ids => row[i].state = "live" /\ row'[i].state = "deleted"
<1>1. /\ Now(c) = Op(c).script[pc[c]]
      /\ Now(c).need = "all" /\ Now(c).fault # "ignored" /\ Op(c).on \subseteq Now(c).rows
  BY DEF Now, Script, Counted
<1>2. Enough(Now(c))
  BY <1>1, RunOutcome DEF Erase
<1>3. Hits(Now(c)) = Now(c).rows
  BY <1>1, <1>2 DEF Enough
<1>4. \A i \in Op(c).on : i \in Hits(Now(c))
  BY <1>1, <1>3
<1>5. \A i \in Ids : i \in Hits(Now(c)) =>
          row[i].state = "live" /\ row'[i] = Marked(row[i], "deleted")
  BY DEF Hits, Live, Erase
<1> QED BY <1>4, <1>5, RowsTyped, RowUpdates

(* Only such a step makes a deletion pass.                                 *)
LEMMA PassedOnly ==
    ASSUME TypeOK, NEW c \in Clients, Act(c), Passed(c)', ~Passed(c)
    PROVE  /\ Erase(c) /\ mode[c] = "run" /\ Counted(Op(c), pc[c]) /\ ~GaveUp(c) /\ op' = op
<1>1. PICK k \in DOMAIN Op(c)'.script :
          /\ Counted(Op(c)', k)
          /\ (mode'[c] = "run" /\ pc'[c] > k) \/ (mode'[c] = "done" /\ code'[c] = "OK")
  BY DEF Passed, Acked
<1>2. ~Start(c)
  <2> SUFFICES ASSUME Start(c) PROVE FALSE
    OBVIOUS
  <2>1. op'[c] \in DOMAIN Ops[c] /\ mode'[c] = "run" /\ pc'[c] = 1
    BY DEF Start, TypeOK
  <2>2. k \in 1..Len(Ops[c][op'[c]].script)
    BY <1>1, <2>1, Scripts DEF Op
  <2> QED BY <1>1, <2>1, <2>2, Scripts
<1>3. ~Expire(c)
  BY DEF Expire, Passed, Acked, Op
<1>4. CASE Outcome(c) /\ Busy(c) /\ op' = op
  <2>1. mode[c] = "run" /\ mode[c] # "idle" /\ Op(c)' = Op(c) /\ ~GaveUp(c)
    BY <1>1, <1>4 DEF Outcome, Op, GaveUp
  <2>2. op[c] \in DOMAIN Ops[c] /\ pc[c] \in 1..Len(Op(c).script)
    BY <2>1 DEF TypeOK, Script
  <2>3. k \in 1..Len(Op(c).script) /\ Len(Op(c).script) \in Nat
    BY <1>1, <2>1, <2>2, Scripts DEF Op
  <2>4. k <= pc[c]
    BY <1>1, <1>4, <2>2, <2>3 DEF Outcome
  <2>5. k = pc[c]
    <3>1. Op(c).name \in CountedDeletes
      BY <2>1 DEF Passed
    <3>2. ~(pc[c] > k)
      BY <1>1, <2>1, <3>1 DEF Passed
    <3> QED BY <2>2, <2>3, <2>4, <3>2
  <2>6. Counted(Op(c), pc[c]) /\ Now(c).do = "delete" /\ Now(c).fault # "ignored"
    BY <1>1, <2>1, <2>5 DEF Counted, Now, Script
  <2>7. ~(Validate(c) \/ Check(c)) /\ ~Refused(c)
    BY <2>1, <2>6, LocalOutcome, RefusedKeeps
  <2>8. \A do : Runs(c, do) => do = "delete"
    BY <2>6 DEF Runs, At
  <2>9. Erase(c)
    BY <1>2, <1>3, <2>7, <2>8 DEF Act, Read, Insert, Link, Relink, WriteBack, Write
  <2> QED BY <1>4, <2>1, <2>6, <2>9
<1>5. (\E do : Runs(c, do)) \/ Validate(c) \/ Check(c) \/ Refused(c)
  BY <1>2, <1>3 DEF Act, Read, Insert, Link, Relink, WriteBack, Write, Erase
<1>6. Outcome(c) /\ Busy(c) /\ op' = op
  BY <1>5, RunOutcome, LocalOutcome, RefusedKeeps
<1> QED BY <1>4, <1>6

LEMMA OnTyped ==
    ASSUME TypeOK, NEW c \in Clients, mode[c] # "idle" PROVE Op(c).on \subseteq Ids
BY OpsAssumption DEF TypeOK, Op

LEMMA ActInv == ASSUME RequestInv, NEW c \in Clients, Act(c) PROVE RequestInv'
<1>1. TypeOK /\ TypeOK' /\ RowsKept
  BY ActKeeps DEF RequestInv
<1>2. \A d \in Clients : d # c => (Passed(d)' <=> Passed(d)) /\ Op(d)' = Op(d)
  BY <1>1, Others DEF Passed, Acked, Op
<1>3. ASSUME Passed(c)', ~Passed(c)
      PROVE  /\ Op(c)' = Op(c) /\ mode[c] # "idle"
             /\ \A i \in Op(c).on : i \in Ids => row[i].state = "live" /\ row'[i].state = "deleted"
  BY <1>1, <1>3, PassedOnly, EraseAll DEF Op
<1>4. ASSUME Passed(c)', Passed(c) PROVE Op(c)' = Op(c)
  <2>1. ~Start(c)
    BY <1>4 DEF Start, Passed
  <2> QED BY <1>1, <2>1, RunOutcome, LocalOutcome, RefusedKeeps
      DEF Act, Op, Expire, Read, Insert, Link, Relink, WriteBack, Write, Erase
<1>5. \A d \in Clients : Passed(d) => mode[d] # "idle" /\ Op(d).on \subseteq Ids
  BY <1>1, OnTyped DEF Passed
<1>6. \A d \in Clients : Passed(d)' => \A i \in Op(d)'.on : row'[i].state = "deleted"
  <2>1. ASSUME NEW d \in Clients, Passed(d) PROVE \A i \in Op(d).on : row'[i].state = "deleted"
    BY <1>1, <1>5, <2>1 DEF RequestInv, RowsKept
  <2> QED BY <1>1, <1>2, <1>3, <1>4, <2>1, OnTyped
<1>7. \A d \in Clients : d # c /\ Passed(c)' /\ Passed(d)' => Op(c)'.on \cap Op(d)'.on = {}
  <2> SUFFICES ASSUME NEW d \in Clients, d # c, Passed(c)', Passed(d)'
               PROVE  Op(c)'.on \cap Op(d)'.on = {}
    OBVIOUS
  <2>1. Passed(d) /\ Op(d)' = Op(d) /\ \A i \in Op(d).on : row[i].state = "deleted"
    BY <1>2 DEF RequestInv
  <2>2. CASE Passed(c)
    BY <1>4, <2>1, <2>2 DEF RequestInv
  <2>3. CASE ~Passed(c)
    BY <1>1, <1>3, <2>1, <2>3, OnTyped
  <2> QED BY <2>2, <2>3
<1>8. \A d, e \in Clients : d # e /\ Passed(d)' /\ Passed(e)' => Op(d)'.on \cap Op(e)'.on = {}
  <2>1. ASSUME NEW d \in Clients, NEW e \in Clients, d # e, Passed(d)', Passed(e)', d # c, e # c
        PROVE  Op(d)'.on \cap Op(e)'.on = {}
    BY <1>2, <2>1 DEF RequestInv
  <2> QED BY <1>7, <2>1
<1> QED BY <1>1, <1>6, <1>8 DEF RequestInv

LEMMA InitInv == Init => RequestInv
BY InitType DEF Init, RequestInv, Passed

(* The deletions of every client pass one after the other: the rows of one *)
(* that has passed are deleted, and no two have a row in common.           *)
THEOREM InvCorrect == Spec => []RequestInv
<1>1. RequestInv /\ [Next]_vars => RequestInv'
  <2>1. [Next]_vars => (\E c \in Clients : Act(c)) \/ UNCHANGED vars
    BY DEF Next, Act, AllDone
  <2>2. ASSUME RequestInv, UNCHANGED vars PROVE RequestInv'
    <3>1. TypeOK'
      BY <2>2, Idle DEF RequestInv
    <3>2. \A c \in Clients : (Passed(c)' <=> Passed(c)) /\ Op(c)' = Op(c)
      BY <2>2 DEF vars, Passed, Acked, Op
    <3>3. row' = row
      BY <2>2 DEF vars
    <3> QED BY <2>2, <3>1, <3>2, <3>3 DEF RequestInv
  <2> QED BY <2>1, <2>2, ActInv
<1> QED BY InitInv, <1>1, PTL DEF Spec

(* An acknowledged deletion of this kind has passed.                       *)
LEMMA AckedPassed ==
    ASSUME TypeOK, NEW c \in Clients, Acked(c), Op(c).name \in CountedDeletes PROVE Passed(c)
<1>1. op[c] \in DOMAIN Ops[c] /\ mode[c] # "idle"
  BY DEF TypeOK, Acked
<1>2. \E k \in DOMAIN Op(c).script : Counted(Op(c), k)
  BY <1>1, OpsAssumption DEF Op
<1> QED BY <1>1, <1>2 DEF Passed

(* Two requests never both answer that they deleted one row.               *)
THEOREM DeletedOnce == Spec => []DeleteOnce
<1>1. RequestInv => DeleteOnce
  BY AckedPassed DEF RequestInv, DeleteOnce
<1> QED BY InvCorrect, <1>1, PTL

---------------------------------------------------------------------------
(* The other four properties rest on the same few facts: which statement   *)
(* takes a request past a point of its script, which one changes the state *)
(* or the parent of a row, and which one a request learns a row from.      *)

LEMMA NowStatement ==
    ASSUME TypeOK, NEW c \in Clients, Busy(c)
    PROVE  /\ op[c] \in DOMAIN Ops[c] /\ Started(c)
           /\ Now(c) \in StatementsOf(Op(c))
           /\ mode[c] = "run"  => pc[c] \in DOMAIN Op(c).script /\ Now(c) = Op(c).script[pc[c]]
           /\ mode[c] = "undo" => pc[c] \in DOMAIN Op(c).undo /\ Now(c) = Op(c).undo[pc[c]]
<1>1. op[c] \in DOMAIN Ops[c] /\ pc[c] \in 1..Len(Script(c)) /\ Started(c)
  BY DEF TypeOK, Busy, Started
<1>2. mode[c] = "run"  => pc[c] \in DOMAIN Op(c).script /\ Now(c) = Op(c).script[pc[c]]
  BY <1>1, Scripts DEF Script, Now, Op
<1>3. mode[c] = "undo" => pc[c] \in DOMAIN Op(c).undo /\ Now(c) = Op(c).undo[pc[c]]
  BY <1>1, Scripts DEF Script, Now, Op
<1> QED BY <1>1, <1>2, <1>3 DEF StatementsOf, Busy

(* The statements of a compensation.                                       *)
LEMMA UndoStatement ==
    ASSUME TypeOK, NEW c \in Clients, mode[c] = "undo"
    PROVE  /\ Op(c).undo # <<>> /\ Op(c).on \subseteq Created(Op(c))
           /\ Now(c).do \in {"read", "delete"} /\ Now(c).of = None
           /\ \E i \in Op(c).on : Op(c).on = {i} /\ Demands(Now(c), i)
<1>1. /\ op[c] \in DOMAIN Ops[c] /\ pc[c] \in DOMAIN Op(c).undo /\ Now(c) = Op(c).undo[pc[c]]
  BY NowStatement DEF Busy
<1>2. Op(c).undo # <<>>
  <2>1. \A s : s = <<>> => DOMAIN s = {}
    OBVIOUS
  <2> QED BY <1>1, <2>1
<1> QED BY <1>1, <1>2, UndoAssumption DEF Op

(* A row is inserted, or linked, only by the request that creates it.      *)
LEMMA Creates ==
    ASSUME TypeOK, NEW c \in Clients, Runs(c, "insert") \/ Runs(c, "link"), NEW i \in Now(c).rows
    PROVE  /\ mode[c] = "run" /\ i \in Created(Op(c)) /\ Places(Now(c), i)
           /\ InitRows[i].state = "absent"
           /\ \A d \in Clients \ {c} : \A m \in DOMAIN Ops[d] : i \notin Created(Ops[d][m])
<1>1. Busy(c) /\ Now(c).do \in {"insert", "link"}
  BY DEF Runs, At, Busy
<1>2. /\ op[c] \in DOMAIN Ops[c] /\ Now(c) \in StatementsOf(Op(c))
  BY <1>1, NowStatement
<1>3. mode[c] = "run"
  BY <1>1, UndoStatement DEF Busy
<1>4. i \in Created(Op(c))
  <2>1. Now(c).do = "link" => Now(c).rows \subseteq Created(Op(c))
    BY <1>2, KeysAssumption DEF Op
  <2>2. Now(c).do = "insert" => Now(c).rows \subseteq Created(Op(c))
    BY <1>2 DEF Created
  <2> QED BY <1>1, <2>1, <2>2
<1> QED BY <1>1, <1>2, <1>3, <1>4, KeysAssumption DEF Op, Places

LEMMA Replaces ==
    ASSUME TypeOK, NEW c \in Clients, Runs(c, "replace"), NEW i \in Now(c).rows
    PROVE  InitRows[i].state = "live" /\ InitRows[i].kind = "job"
<1>1. Busy(c) /\ Now(c).do = "replace"
  BY DEF Runs, At, Busy
<1>2. op[c] \in DOMAIN Ops[c] /\ Now(c) \in StatementsOf(Op(c))
  BY <1>1, NowStatement
<1> QED BY <1>1, <1>2, KeysAssumption DEF Op

(* A step of request c is its start, the end of its context, or one of its *)
(* statements.                                                             *)
LEMMA ActCases ==
    ASSUME TypeOK, NEW c \in Clients, Act(c)
    PROVE  \/ Start(c) \/ Expire(c)
           \/ Busy(c) /\ Outcome(c) /\ op' = op
<1>1. Act(c) => \/ Start(c) \/ Expire(c) \/ Validate(c) \/ Check(c) \/ Refused(c)
                \/ \E do : Runs(c, do)
  BY DEF Act, Read, Insert, Link, Relink, WriteBack, Write, Erase
<1> QED BY <1>1, RunOutcome, LocalOutcome, RefusedKeeps

LEMMA StartedKept ==
    ASSUME TypeOK, NEW c \in Clients, Act(c), NEW d \in Clients, Started(d)
    PROVE  Op(d)' = Op(d) /\ Started(d)' /\ (d = c => ~Start(c))
<1>1. CASE d # c
  BY <1>1, Others DEF Started, Op
<1>2. CASE d = c
  BY <1>2, ActCases DEF Started, Op, Start, Expire, Outcome
<1> QED BY <1>1, <1>2

(* Where a request stands does not change but in its own steps, and it     *)
(* does not go back.                                                       *)
LEMMA PastOthers ==
    ASSUME TypeOK, NEW c \in Clients, Act(c), NEW d \in Clients, d # c, NEW k
    PROVE  Past(d, k)' <=> Past(d, k)
BY Others DEF Past, Acked

LEMMA StartNotPast ==
    ASSUME TypeOK, NEW c \in Clients, Start(c), NEW k \in DOMAIN Op(c)'.script
    PROVE  ~Past(c, k)'
<1>1. op'[c] \in DOMAIN Ops[c] /\ mode'[c] = "run" /\ pc'[c] = 1
  BY DEF Start, TypeOK
<1>2. k \in 1..Len(Ops[c][op'[c]].script)
  BY <1>1, Scripts DEF Op
<1> QED BY <1>1, <1>2, Scripts DEF Past, Acked

(* Only statement k takes a request past statement k, and the code went on.*)
LEMMA PastOnly ==
    ASSUME TypeOK, NEW c \in Clients, Act(c), Started(c), NEW k \in DOMAIN Op(c).script,
           Past(c, k)', ~Past(c, k)
    PROVE  /\ mode[c] = "run" /\ pc[c] = k /\ Busy(c) /\ op' = op /\ ~GaveUp(c)
           /\ Now(c) = Op(c).script[k]
           /\ Now(c).do \in {"valid", "check"} => Validate(c) \/ Check(c)
           /\ Now(c).do \notin {"valid", "check"} /\ Now(c).fault # "ignored"
              => Runs(c, Now(c).do) /\ Enough(Now(c))
<1>1. ~Start(c) /\ ~Expire(c)
  BY StartedKept DEF Expire, Past, Acked
<1>2. Busy(c) /\ Outcome(c) /\ op' = op
  BY <1>1, ActCases
<1>3. mode[c] = "run" /\ ~GaveUp(c)
  BY <1>2 DEF Outcome, Past, Acked, GaveUp
<1>4. pc[c] \in DOMAIN Op(c).script /\ Now(c) = Op(c).script[pc[c]] /\ op[c] \in DOMAIN Ops[c]
  BY <1>2, <1>3, NowStatement
<1>5. k \in 1..Len(Op(c).script) /\ pc[c] \in 1..Len(Op(c).script) /\ Len(Op(c).script) \in Nat
  BY <1>4, Scripts DEF Op
<1>6. pc[c] = k
  BY <1>2, <1>3, <1>5 DEF Past, Outcome, Acked
<1>7. \/ (Validate(c) \/ Check(c)) /\ Now(c).do \in {"valid", "check"}
      \/ Refused(c) /\ Now(c).do \notin {"valid", "check"}
      \/ Runs(c, Now(c).do) /\ Now(c).do \notin {"valid", "check"}
  BY <1>1, LocalOutcome DEF Act, Refused, Read, Insert, Link, Relink, WriteBack, Write, Erase, Runs, At
<1>8. Refused(c) => Now(c).fault = "ignored"
  BY <1>3, RefusedKeeps
<1>9. Runs(c, Now(c).do) /\ Now(c).fault # "ignored" => Enough(Now(c))
  BY <1>3, RunOutcome
<1> QED BY <1>2, <1>3, <1>4, <1>6, <1>7, <1>8, <1>9

(* What a step of request c makes of row i.                                *)
StateStep(c, i) ==
    \/ row'[i].state = row[i].state
    \/ Insert(c) /\ i \in Now(c).rows /\ row[i].state = "absent" /\ row'[i].state = "live"
    \/ Erase(c) /\ i \in Hits(Now(c)) /\ row[i].state = "live" /\ row'[i].state = "deleted"
LinkStep(c, i) ==
    \/ row'[i].link = row[i].link
    \/ (Insert(c) \/ Link(c)) /\ i \in Now(c).rows /\ row'[i].link = Now(c).of
    \/ Relink(c) /\ i \in Now(c).rows
    \/ Relink(c) /\ row[i].kind = "job" /\ row'[i].link = None
    \/ WriteBack(c) /\ i \in DOMAIN seen[c] /\ row'[i].link = seen[c][i].link
RowStep(c, i) == row'[i].kind = row[i].kind /\ StateStep(c, i) /\ LinkStep(c, i)

LEMMA Columns ==
    /\ \A r \in Rows : \A st : Marked(r, st).state = st /\ Marked(r, st).kind = r.kind
                               /\ Marked(r, st).link = r.link
    /\ \A r \in Rows : \A l : Linked(r, l).state = r.state /\ Linked(r, l).kind = r.kind
                              /\ Linked(r, l).link = l
    /\ \A r \in Rows : \A t : Set(r, t).state = r.state /\ Set(r, t).kind = r.kind
                              /\ Set(r, t).link = r.link
    /\ \A r \in Rows : \A st : \A l : Linked(Marked(r, st), l).state = st
                              /\ Linked(Marked(r, st), l).kind = r.kind
                              /\ Linked(Marked(r, st), l).link = l
    /\ \A r \in Rows : \A t : \A l : Linked(Set(r, t), l).state = r.state
                              /\ Linked(Set(r, t), l).kind = r.kind
                              /\ Linked(Set(r, t), l).link = l
BY DEF Rows, Marked, Linked, Set

LEMMA RowSteps ==
    ASSUME TypeOK, NEW c \in Clients, Act(c), NEW i \in Ids
    PROVE  RowStep(c, i)
<1>1. row[i] \in Rows
  BY RowsTyped
<1>2. CASE row' = row
  BY <1>2 DEF RowStep, StateStep, LinkStep
<1>3. CASE Insert(c)
  <2>1. /\ \A j \in Now(c).rows : row[j].state = "absent"
        /\ row'[i] = IF i \in Now(c).rows THEN Linked(Marked(row[i], "live"), Now(c).of) ELSE row[i]
    BY <1>3 DEF Insert
  <2> QED BY <1>1, <1>3, <2>1, Columns DEF RowStep, StateStep, LinkStep
<1>4. CASE Link(c)
  <2>1. row'[i] = IF i \in Now(c).rows THEN Linked(row[i], Now(c).of) ELSE row[i]
    BY <1>4 DEF Link
  <2> QED BY <1>1, <1>4, <2>1, Columns DEF RowStep, StateStep, LinkStep
<1>5. CASE Relink(c)
  <2>1. row'[i] = IF i \in Now(c).rows THEN Linked(row[i], Now(c).of)
                  ELSE IF row[i].kind = "job" /\ row[i].link = Now(c).of
                         THEN Linked(row[i], None) ELSE row[i]
    BY <1>5 DEF Relink
  <2> QED BY <1>1, <1>5, <2>1, Columns DEF RowStep, StateStep, LinkStep
<1>6. CASE WriteBack(c)
  <2> DEFINE t == IF Now(c).status = {} THEN seen[c][i].status ELSE Target(Now(c))
             l == IF seen[c][i].link = None THEN row[i].link ELSE seen[c][i].link
  <2>1. row'[i] = IF i \in Hits(Now(c)) /\ i \in DOMAIN seen[c]
                    THEN Linked(Set(row[i], t), l) ELSE row[i]
    BY <1>6 DEF WriteBack
  <2>2. l = row[i].link \/ l = seen[c][i].link
    OBVIOUS
  <2> HIDE DEF t, l
  <2>3. CASE i \in Hits(Now(c)) /\ i \in DOMAIN seen[c]
    <3>1. row'[i] = Linked(Set(row[i], t), l)
      BY <2>1, <2>3
    <3>2. row'[i].state = row[i].state /\ row'[i].kind = row[i].kind /\ row'[i].link = l
      BY <1>1, <3>1, Columns
    <3> QED BY <1>6, <2>2, <2>3, <3>2 DEF RowStep, StateStep, LinkStep
  <2>4. CASE ~(i \in Hits(Now(c)) /\ i \in DOMAIN seen[c])
    BY <2>1, <2>4 DEF RowStep, StateStep, LinkStep
  <2> QED BY <2>3, <2>4
<1>7. CASE Write(c)
  <2>1. row'[i] = IF i \in Hits(Now(c)) /\ Now(c).status # {} THEN Set(row[i], Target(Now(c))) ELSE row[i]
    BY <1>7 DEF Write
  <2> QED BY <1>1, <2>1, Columns DEF RowStep, StateStep, LinkStep
<1>8. CASE Erase(c)
  <2>1. row'[i] = IF i \in Hits(Now(c)) THEN Marked(row[i], "deleted") ELSE row[i]
    BY <1>8 DEF Erase
  <2>2. i \in Hits(Now(c)) => row[i].state = "live"
    BY DEF Hits, Live
  <2> QED BY <1>1, <1>8, <2>1, <2>2, Columns DEF RowStep, StateStep, LinkStep
<1> QED BY <1>2, <1>3, <1>4, <1>5, <1>6, <1>7, <1>8
        DEF Act, Start, Validate, Check, Read, Expire, Refused

(* A row that a statement puts somewhere is there when it is done.         *)
LEMMA PutThere ==
    ASSUME TypeOK, NEW c \in Clients, Insert(c) \/ Link(c), NEW i \in Now(c).rows, i \in Ids
    PROVE  row'[i].link = Now(c).of
<1>1. row[i] \in Rows
  BY RowsTyped
<1>2. CASE Insert(c)
  <2>1. row'[i] = Linked(Marked(row[i], "live"), Now(c).of)
    BY <1>2 DEF Insert
  <2> QED BY <1>1, <2>1, Columns
<1>3. CASE Link(c)
  <2>1. row'[i] = Linked(row[i], Now(c).of)
    BY <1>3 DEF Link
  <2> QED BY <1>1, <2>1, Columns
<1> QED BY <1>2, <1>3

(* What a step of request c makes of what request d has read.              *)
SeenStep(c, d) ==
    \/ seen'[d] = seen[d]
    \/ /\ d = c /\ Read(c)
       /\ DOMAIN seen'[d] = DOMAIN seen[d] \cup Hits(Now(c))
       /\ \A i \in DOMAIN seen'[d] :
             seen'[d][i].link = IF i \in Hits(Now(c)) THEN row[i].link ELSE seen[d][i].link

LEMMA SeenSteps ==
    ASSUME TypeOK, NEW c \in Clients, Act(c), NEW d \in Clients
    PROVE  SeenStep(c, d)
<1>1. CASE seen' = seen
  BY <1>1 DEF SeenStep
<1>2. CASE Read(c)
  <2> DEFINE f == [i \in DOMAIN seen[c] \cup Hits(Now(c)) |->
                     IF i \in Hits(Now(c)) THEN [link |-> row[i].link, status |-> row[i].status]
                                           ELSE seen[c][i]]
  <2>1. seen' = [seen EXCEPT ![c] = f]
    BY <1>2 DEF Read
  <2>2. /\ DOMAIN f = DOMAIN seen[c] \cup Hits(Now(c))
        /\ \A i \in DOMAIN f :
              f[i].link = IF i \in Hits(Now(c)) THEN row[i].link ELSE seen[c][i].link
    OBVIOUS
  <2> HIDE DEF f
  <2>3. seen'[d] = IF d = c THEN f ELSE seen[d]
    BY <2>1, SeenFunction
  <2> QED BY <1>2, <2>2, <2>3 DEF SeenStep
<1> QED BY <1>1, <1>2
        DEF Act, Start, Validate, Check, Insert, Link, Relink, WriteBack, Write, Erase, Expire, Refused

---------------------------------------------------------------------------
(* The rows: an old one keeps its table and, unless it is a job, its       *)
(* parent; a new one is put only where its creator says.                   *)

LEMMA OldRowsKept ==
    ASSUME TypeOK, KeptRows, NEW c \in Clients, Act(c), NEW i \in Ids
    PROVE  /\ row'[i].kind = InitRows[i].kind
           /\ InitRows[i].state # "absent" => row'[i].state # "absent"
           /\ row[i].state # "absent" => row'[i].state # "absent"
           /\ Fixed(i) => row'[i].link = InitRows[i].link
<1>1. RowStep(c, i)
  BY RowSteps
<1>2. row'[i].kind = InitRows[i].kind /\ (row[i].state # "absent" => row'[i].state # "absent")
  BY <1>1 DEF KeptRows, RowStep, StateStep
<1>3. ASSUME Fixed(i) PROVE row'[i].link = InitRows[i].link
  <2>1. row[i].link = InitRows[i].link /\ InitRows[i].state # "absent" /\ row[i].kind # "job"
    BY <1>3 DEF KeptRows, Fixed
  <2>2. ~((Insert(c) \/ Link(c)) /\ i \in Now(c).rows)
    BY <2>1, Creates DEF Insert, Link
  <2>3. ~(Relink(c) /\ i \in Now(c).rows)
    BY <1>3, Replaces DEF Relink, Fixed
  <2>4. i \in DOMAIN seen[c] => seen[c][i].link = InitRows[i].link
    BY <1>3 DEF KeptRows
  <2> QED BY <1>1, <2>1, <2>2, <2>3, <2>4 DEF RowStep, LinkStep
<1> QED BY <1>2, <1>3 DEF KeptRows

LEMMA KeptRowsStep ==
    ASSUME TypeOK, KeptRows, NEW c \in Clients, Act(c)
    PROVE  KeptRows'
<1>1. ASSUME NEW i \in Ids, Fixed(i), NEW d \in Clients, i \in DOMAIN seen'[d]
      PROVE  seen'[d][i].link = InitRows[i].link
  <2>1. SeenStep(c, d)
    BY SeenSteps
  <2>2. i \in DOMAIN seen[d] => seen[d][i].link = InitRows[i].link
    BY <1>1 DEF KeptRows
  <2>3. row[i].link = InitRows[i].link
    BY <1>1 DEF KeptRows
  <2> QED BY <1>1, <2>1, <2>2, <2>3 DEF SeenStep
<1>2. ASSUME NEW i \in late' PROVE row'[i].state # "absent"
  <2>1. CASE i \in late
    <3>1. i \in Ids /\ row[i].state # "absent"
      BY <2>1, RowsTyped DEF KeptRows
    <3> QED BY <3>1, OldRowsKept
  <2>2. CASE i \notin late
    <3>1. Insert(c)
      BY <1>2, <2>2 DEF Act, Start, Validate, Check, Read, Link, Relink, WriteBack, Write, Erase,
                        Expire, Refused
    <3>2. i \in Now(c).rows /\ Busy(c)
      BY <1>2, <2>2, <3>1 DEF Insert, Runs, At, Busy
    <3>3. i \in Ids /\ row[i] \in Rows
      BY <3>2, NowTyped, RowsTyped
    <3>4. row'[i] = Linked(Marked(row[i], "live"), Now(c).of)
      BY <3>1, <3>2, <3>3 DEF Insert
    <3> QED BY <3>3, <3>4, Columns
  <2> QED BY <2>1, <2>2
<1>3. \A i \in Ids : /\ row'[i].kind = InitRows[i].kind
                     /\ InitRows[i].state # "absent" => row'[i].state # "absent"
                     /\ Fixed(i) => row'[i].link = InitRows[i].link
  BY OldRowsKept
<1> QED BY <1>1, <1>2, <1>3 DEF KeptRows

(* What another request does to a row that is not its own.                 *)
LEMMA NotCreated ==
    ASSUME TypeOK, NEW c \in Clients, Act(c), NEW i \in Ids, InitRows[i].state = "absent",
           ~Start(c) => i \notin Created(Op(c))
    PROVE  /\ row[i].state = "absent" => row'[i].state = "absent"
           /\ \/ row'[i].link = row[i].link
              \/ row[i].kind = "job" /\ row'[i].link = None
              \/ i \in DOMAIN seen[c] /\ row'[i].link = seen[c][i].link
<1>1. RowStep(c, i)
  BY RowSteps
<1>2. ~((Insert(c) \/ Link(c)) /\ i \in Now(c).rows)
  BY Creates DEF Insert, Link, Start, Runs, At
<1>3. ~(Relink(c) /\ i \in Now(c).rows)
  BY Replaces DEF Relink
<1> QED BY <1>1, <1>2, <1>3 DEF RowStep, StateStep, LinkStep

(* A request whose operation creates a row along the path puts it there.   *)
LEMMA PathOf ==
    ASSUME TypeOK, NEW c \in Clients, Started(c)
    PROVE  /\ op[c] \in DOMAIN Ops[c]
           /\ \A k \in 1..(Len(Op(c).under) - 1) :
                 /\ Op(c).under[k] \in Ids /\ Op(c).under[k + 1] \in Ids
                 /\ \E m \in DOMAIN Op(c).script :
                       \/ PutUnder(Op(c), Op(c).under[k], Op(c).under[k + 1], m)
                       \/ FoundUnder(Op(c), Op(c).under[k], Op(c).under[k + 1], m)
<1>1. op[c] \in DOMAIN Ops[c]
  BY DEF TypeOK, Started
<1>2. Len(Op(c).under) \in Nat /\ \A k \in 1..Len(Op(c).under) : Op(c).under[k] \in Ids
  BY <1>1, PathAssumption DEF Op
<1>3. \A k \in 1..(Len(Op(c).under) - 1) : k \in 1..Len(Op(c).under) /\ k + 1 \in 1..Len(Op(c).under)
  BY <1>2
<1>4. \A k \in 1..(Len(Op(c).under) - 1) : \E m \in DOMAIN Op(c).script :
         \/ PutUnder(Op(c), Op(c).under[k], Op(c).under[k + 1], m)
         \/ FoundUnder(Op(c), Op(c).under[k], Op(c).under[k + 1], m)
  BY <1>1, PathAssumption DEF Op
<1> QED BY <1>1, <1>2, <1>3, <1>4

LEMMA CreatedAbsent ==
    ASSUME NEW c \in Clients, NEW n \in DOMAIN Ops[c], NEW i \in Created(Ops[c][n])
    PROVE  /\ i \in Ids /\ InitRows[i].state = "absent" /\ InitRows[i].link = None
           /\ \A d \in Clients \ {c} : \A m \in DOMAIN Ops[d] : i \notin Created(Ops[d][m])
<1>1. \A s \in StatementsOf(Ops[c][n]) : s.rows \subseteq Ids
  BY OpsAssumption DEF StatementsOf
<1> QED BY <1>1, KeysAssumption DEF Created

(* A request's own new row: put where the path says, then left there.      *)
LEMMA LinkedStep ==
    ASSUME TypeOK, NEW c \in Clients, Act(c), NEW d \in Clients, Started(d),
           NEW k \in 1..(Len(Op(d).under) - 1), Op(d).under[k] \in Created(Op(d)),
           LinkedAtMost(Op(d).under[k], Op(d).under[k + 1])
    PROVE  LinkedAtMost(Op(d).under[k], Op(d).under[k + 1])'
<1> DEFINE i == Op(d).under[k]
           p == Op(d).under[k + 1]
<1>1. PICK m \in DOMAIN Op(d).script : PutUnder(Op(d), i, p, m) \/ FoundUnder(Op(d), i, p, m)
  BY PathOf
<1>2. op[d] \in DOMAIN Ops[d] /\ Op(d) = Ops[d][op[d]]
  BY PathOf DEF Op
<1>3. /\ i \in Ids /\ InitRows[i].state = "absent" /\ i \in Created(Op(d))
      /\ \A e \in Clients \ {d} : \A n \in DOMAIN Ops[e] : i \notin Created(Ops[e][n])
  <2>1. i \in Created(Ops[d][op[d]])
    BY <1>2
  <2>2. /\ i \in Ids /\ InitRows[i].state = "absent"
        /\ \A e \in Clients \ {d} : \A n \in DOMAIN Ops[e] : i \notin Created(Ops[e][n])
    BY <1>2, <2>1, CreatedAbsent
  <2> QED BY <2>2
<1>4. \A s \in StatementsOf(Op(d)) : Places(s, i) => s.of \in {None, p}
  BY <1>1, <1>3 DEF FoundUnder, Fixed, PutUnder
<1>5. /\ row[i].link \in {None, p}
      /\ \A e \in Clients : i \in DOMAIN seen[e] => seen[e][i].link \in {None, p}
  BY DEF LinkedAtMost
<1>6. Op(d)' = Op(d)
  BY StartedKept
<1> HIDE DEF i, p
<1>7. row'[i].link \in {None, p}
  <2>1. RowStep(c, i)
    BY <1>3, RowSteps
  <2>2. ASSUME Insert(c) \/ Link(c), i \in Now(c).rows PROVE Now(c).of \in {None, p}
    <3>1. Busy(c) /\ Places(Now(c), i) /\ i \in Created(Op(c))
      BY <2>2, Creates DEF Insert, Link, Runs, At, Busy
    <3>2. op[c] \in DOMAIN Ops[c] /\ Now(c) \in StatementsOf(Op(c))
      BY <3>1, NowStatement
    <3>3. d = c
      BY <1>3, <3>1, <3>2 DEF Op
    <3> QED BY <1>4, <3>1, <3>2, <3>3
  <2>3. ~(Relink(c) /\ i \in Now(c).rows)
    BY <1>3, Replaces DEF Relink
  <2> QED BY <1>5, <2>1, <2>2, <2>3 DEF RowStep, LinkStep
<1>8. ASSUME NEW e \in Clients, i \in DOMAIN seen'[e] PROVE seen'[e][i].link \in {None, p}
  <2>1. SeenStep(c, e)
    BY SeenSteps
  <2> QED BY <1>5, <1>8, <2>1 DEF SeenStep
<1>9. LinkedAtMost(i, p)' 
  BY <1>6, <1>7, <1>8 DEF LinkedAtMost, i, p
<1> QED BY <1>9 DEF i, p

LEMMA UnknownStep ==
    ASSUME TypeOK, NEW c \in Clients, Act(c), NEW d \in Clients, ~Started(d)',
           NEW n \in DOMAIN Ops[d], NEW i \in Created(Ops[d][n]), Unknown(i)
    PROVE  Unknown(i)'
<1>1. d # c
  <2>1. Start(c) => Started(c)'
    BY DEF Start, Started, TypeOK
  <2>2. Expire(c) => Started(c)'
    BY DEF Expire, Started
  <2> QED BY <2>1, <2>2, ActCases DEF Outcome, Started
<1>2. /\ i \in Ids /\ InitRows[i].state = "absent"
      /\ \A m \in DOMAIN Ops[c] : i \notin Created(Ops[c][m])
  BY <1>1, CreatedAbsent
<1>3. ~Start(c) => i \notin Created(Op(c))
  <2>1. ~Start(c) => op[c] \in DOMAIN Ops[c]
    BY ActCases DEF TypeOK, Expire, Busy
  <2> QED BY <1>2, <2>1 DEF Op
<1>4. row'[i].state = "absent" /\ row'[i].link = None
  BY <1>2, <1>3, NotCreated DEF Unknown
<1>5. ASSUME NEW e \in Clients PROVE i \notin DOMAIN seen'[e]
  <2>1. SeenStep(c, e)
    BY SeenSteps
  <2>2. i \notin Hits(Now(c)) /\ i \notin DOMAIN seen[e]
    BY DEF Hits, Live, Unknown
  <2> QED BY <2>1, <2>2 DEF SeenStep
<1> QED BY <1>4, <1>5 DEF Unknown

LEMMA NewRowsStep ==
    ASSUME TypeOK, NewRows, NEW c \in Clients, Act(c)
    PROVE  NewRows'
<1>1. ASSUME NEW d \in Clients, Started(d)', NEW k \in 1..(Len(Op(d)'.under) - 1),
             Op(d)'.under[k] \in Created(Op(d))'
      PROVE  LinkedAtMost(Op(d).under[k], Op(d).under[k + 1])'
  <2>1. CASE Started(d)
    <3>1. Op(d)' = Op(d)
      BY <2>1, StartedKept
    <3>2. LinkedAtMost(Op(d).under[k], Op(d).under[k + 1])
      BY <1>1, <2>1, <3>1 DEF NewRows
    <3> QED BY <1>1, <2>1, <3>1, <3>2, LinkedStep
  <2>2. CASE ~Started(d)
    <3>1. d = c /\ Start(c)
      BY <1>1, <2>2, ActCases, Others DEF Started, Expire, Busy
    <3>2. op'[c] \in DOMAIN Ops[c] /\ row' = row /\ seen' = seen
      BY <3>1 DEF Start, TypeOK
    <3>3. Unknown(Op(d)'.under[k])
      BY <1>1, <2>2, <3>1, <3>2 DEF NewRows, Op
    <3> QED BY <3>2, <3>3 DEF Unknown, LinkedAtMost
  <2> QED BY <2>1, <2>2
<1>2. ASSUME NEW d \in Clients, ~Started(d)', NEW n \in DOMAIN Ops[d], NEW i \in Created(Ops[d][n])
      PROVE  Unknown(i)'
  <2>1. ~Started(d)
    BY <1>2, StartedKept
  <2>2. Unknown(i)
    BY <1>2, <2>1 DEF NewRows
  <2> QED BY <1>2, <2>2, UnknownStep
<1> QED BY <1>1, <1>2 DEF NewRows

---------------------------------------------------------------------------
(* Where a creation stands: a statement that it has passed has put the row *)
(* under its parent, or has found the old row there.                       *)

LEMMA PutStep ==
    ASSUME TypeOK, KeptRows, NewRows, NEW c \in Clients, Act(c), NEW d \in Clients, Started(d),
           NEW k \in 1..(Len(Op(d).under) - 1), NEW m \in DOMAIN Op(d).script,
           NEW i, i = Op(d).under[k], NEW p, p = Op(d).under[k + 1],
           PutUnder(Op(d), i, p, m), PutHolds(d, i, p, m), Past(d, m)'
    PROVE  row'[i].link = p \/ (row'[i].link = None /\ row'[i].kind = "job")
<1>1. op[d] \in DOMAIN Ops[d] /\ i \in Ids /\ i \in Created(Op(d))
  BY PathOf DEF PutUnder
<1>2. /\ InitRows[i].state = "absent"
      /\ \A e \in Clients \ {d} : \A n \in DOMAIN Ops[e] : i \notin Created(Ops[e][n])
  BY <1>1, CreatedAbsent DEF Op
<1>3. \A e \in Clients : i \in DOMAIN seen[e] => seen[e][i].link \in {None, p}
  BY <1>1 DEF NewRows, LinkedAtMost
<1>4. row'[i].kind = row[i].kind
  BY <1>1, RowSteps DEF RowStep
<1>5. CASE Past(d, m)
  <2>1. row[i].link = p \/ (row[i].link = None /\ row[i].kind = "job")
    BY <1>5 DEF PutHolds
  <2>2. RowStep(c, i)
    BY <1>1, RowSteps
  <2>3. ~((Insert(c) \/ Link(c)) /\ i \in Now(c).rows)
    <3> SUFFICES ASSUME Insert(c) \/ Link(c), i \in Now(c).rows PROVE FALSE
      OBVIOUS
    <3>1. Busy(c) /\ mode[c] = "run" /\ Places(Now(c), i) /\ i \in Created(Op(c))
      BY Creates DEF Insert, Link, Runs, At, Busy
    <3>2. op[c] \in DOMAIN Ops[c] /\ pc[c] \in DOMAIN Op(c).script /\ Now(c) = Op(c).script[pc[c]]
      BY <3>1, NowStatement
    <3>3. c = d
      BY <1>2, <3>1, <3>2 DEF Op
    <3>4. pc[c] > m
      BY <1>5, <3>1, <3>3 DEF Past, Acked
    <3> QED BY <3>1, <3>2, <3>3, <3>4 DEF PutUnder
  <2>4. ~(Relink(c) /\ i \in Now(c).rows)
    BY <1>2, Replaces DEF Relink
  <2>5. CASE WriteBack(c) /\ i \in DOMAIN seen[c] /\ row'[i].link = seen[c][i].link
    <3>1. seen[c][i].link = p \/ seen[c][i].link = None
      BY <1>3, <2>5
    <3>2. seen[c][i].link = None => row'[i].link = row[i].link
      <4> SUFFICES ASSUME seen[c][i].link = None PROVE row'[i].link = row[i].link
        OBVIOUS
      <4>1. \/ row'[i] = row[i]
            \/ \E st : row'[i] = Linked(Set(row[i], st), row[i].link)
        BY <1>1, <2>5 DEF WriteBack
      <4> QED BY <1>1, <4>1, Columns, RowsTyped
    <3> QED BY <1>4, <2>1, <2>5, <3>1, <3>2
  <2> QED BY <1>4, <2>1, <2>2, <2>3, <2>4, <2>5 DEF RowStep, LinkStep
<1>6. CASE ~Past(d, m)
  <2>1. d = c
    BY <1>6, PastOthers
  <2>2. /\ Now(c) = Op(c).script[m] /\ Busy(c)
        /\ Now(c).do \notin {"valid", "check"} /\ Now(c).fault # "ignored"
           => Runs(c, Now(c).do)
    BY <1>6, <2>1, PastOnly
  <2>3. Now(c).do \in {"insert", "link"} /\ i \in Now(c).rows /\ Now(c).of = p /\ Now(c).fault # "ignored"
    BY <2>1, <2>2 DEF PutUnder, Places
  <2>4. Runs(c, Now(c).do)
    BY <2>2, <2>3
  <2>5. Insert(c) \/ Link(c)
    <3>1. ~Start(c) /\ ~Expire(c)
      BY <1>6, <2>1, StartedKept DEF Expire, Past, Acked
    <3>2. ~Validate(c) /\ ~Check(c)
      BY <2>3 DEF Validate, Check, At
    <3>3. ~Refused(c)
      BY <1>6, <2>1, <2>3, PastOnly, RefusedKeeps
    <3> QED BY <2>3, <3>1, <3>2, <3>3
            DEF Act, Read, Relink, WriteBack, Write, Erase, Runs, At
  <2> QED BY <1>1, <2>3, <2>5, PutThere
<1> QED BY <1>5, <1>6

LEMMA FoundStep ==
    ASSUME TypeOK, KeptRows, NEW c \in Clients, Act(c), NEW d \in Clients, Started(d),
           NEW i \in Ids, NEW p \in Ids, NEW m \in DOMAIN Op(d).script,
           FoundUnder(Op(d), i, p, m), FoundHolds(d, i, p, m)
    PROVE  FoundHolds(d, i, p, m)'
<1>1. Op(d)' = Op(d) /\ (d = c => ~Start(c))
  BY StartedKept
<1>2. /\ Fixed(i) /\ Op(d).script[m].do = "read" /\ Demands(Op(d).script[m], i)
      /\ row[i].link = InitRows[i].link
      /\ \A e \in Clients : i \in DOMAIN seen[e] => seen[e][i].link = InitRows[i].link
  BY DEF FoundUnder, KeptRows
<1>3. ASSUME Past(d, m)', ~Past(d, m)
      PROVE  Read(c) /\ d = c /\ Hits(Now(c)) = {i} /\ Now(c) = Op(d).script[m]
  <2>1. d = c
    BY <1>3, PastOthers
  <2>2. Now(c) = Op(c).script[m] /\ ~GaveUp(c)
    BY <1>3, <2>1, PastOnly
  <2>3. /\ Now(c).do = "read" /\ Now(c).rows = {i} /\ Now(c).need = "all" /\ Now(c).fault # "ignored"
    BY <1>2, <2>1, <2>2 DEF Demands
  <2>4. Runs(c, "read") /\ Enough(Now(c))
    BY <1>3, <2>1, <2>3, PastOnly
  <2>5. Hits(Now(c)) = {i}
    BY <2>3, <2>4 DEF Enough
  <2>6. ~Refused(c) /\ ~Expire(c)
    BY <1>3, <2>1, <2>2, <2>3, RefusedKeeps DEF Expire, Past, Acked
  <2>7. Read(c)
    BY <1>1, <2>1, <2>3, <2>6
       DEF Act, Validate, Check, Insert, Link, Relink, WriteBack, Write, Erase, Runs, At
  <2> QED BY <2>1, <2>2, <2>5, <2>7
<1>4. Past(d, m)' => i \in DOMAIN seen'[d]
  <2>1. SeenStep(c, d)
    BY SeenSteps
  <2>2. CASE Past(d, m)
    BY <2>1, <2>2 DEF SeenStep, FoundHolds
  <2>3. CASE ~Past(d, m)
    <3>1. Past(d, m)' => Read(c) /\ d = c /\ Hits(Now(c)) = {i}
      BY <1>3, <2>3
    <3>2. Read(c) => i \in DOMAIN seen'[c] \/ i \notin Hits(Now(c))
      BY SeenFunction DEF Read
    <3> QED BY <3>1, <3>2
  <2> QED BY <2>2, <2>3
<1>5. ASSUME NEW l \in DOMAIN Op(d).script, Past(d, l)', ~Past(d, l),
             \/ l = m /\ Op(d).script[l].of = p
             \/ l > m /\ Op(d).script[l].do = "check" /\ i \in Op(d).script[l].rows
                      /\ Op(d).script[l].of = p
      PROVE  InitRows[i].link = p
  <2>1. CASE l = m /\ Op(d).script[l].of = p
    <3>1. Hits(Now(c)) = {i} /\ Now(c).of = p
      BY <1>3, <1>5, <2>1
    <3>2. row[i].link = p
      BY <3>1, TableAssumption DEF Hits
    <3> QED BY <1>2, <3>2
  <2>2. CASE l > m /\ Op(d).script[l].do = "check" /\ i \in Op(d).script[l].rows /\ Op(d).script[l].of = p
    <3>1. d = c
      BY <1>5, PastOthers
    <3>2. /\ mode[c] = "run" /\ pc[c] = l /\ Busy(c) /\ op' = op /\ ~GaveUp(c)
          /\ Now(c) = Op(c).script[l]
      BY <1>5, <3>1, PastOnly
    <3>3. Check(c)
      <4>1. Validate(c) \/ Check(c)
        BY <1>5, <2>2, <3>1, <3>2, PastOnly
      <4> QED BY <2>2, <3>1, <3>2, <4>1 DEF Validate, At
    <3>4. i \in DOMAIN seen[c]
      BY <2>2, <3>1, <3>2 DEF FoundHolds, Past
    <3>5. ~Fail(c, Now(c).err)
      BY <3>2, NowTyped, FailOutcome, ControlFromType
    <3>6. seen[c][i].link = Now(c).of
      BY <2>2, <3>1, <3>2, <3>3, <3>5, TableAssumption DEF Check
    <3> QED BY <1>2, <2>2, <3>1, <3>2, <3>4, <3>6
  <2> QED BY <1>5, <2>1, <2>2
<1>6. ASSUME NEW l \in DOMAIN Op(d).script, Past(d, l)',
             \/ l = m /\ Op(d).script[l].of = p
             \/ l > m /\ Op(d).script[l].do = "check" /\ i \in Op(d).script[l].rows
                      /\ Op(d).script[l].of = p
      PROVE  InitRows[i].link = p
  BY <1>5, <1>6 DEF FoundHolds
<1> QED BY <1>1, <1>4, <1>6 DEF FoundHolds

LEMMA PathStep ==
    ASSUME TypeOK, KeptRows, NewRows, PathInv, NEW c \in Clients, Act(c)
    PROVE  PathInv'
<1> SUFFICES ASSUME NEW d \in Clients, Started(d)' PROVE PathHolds(d)'
  BY DEF PathInv
<1>1. CASE Started(d)
  <2>1. Op(d)' = Op(d) /\ PathHolds(d)
    BY <1>1, StartedKept DEF PathInv
  <2> SUFFICES ASSUME NEW k \in 1..(Len(Op(d).under) - 1), NEW m \in DOMAIN Op(d).script
               PROVE  /\ PutUnder(Op(d), Op(d).under[k], Op(d).under[k + 1], m) =>
                            PutHolds(d, Op(d).under[k], Op(d).under[k + 1], m)'
                      /\ FoundUnder(Op(d), Op(d).under[k], Op(d).under[k + 1], m) =>
                            FoundHolds(d, Op(d).under[k], Op(d).under[k + 1], m)'
    BY <2>1 DEF PathHolds, PutUnder, FoundUnder
  <2>2. /\ PutUnder(Op(d), Op(d).under[k], Op(d).under[k + 1], m) =>
              PutHolds(d, Op(d).under[k], Op(d).under[k + 1], m)
        /\ FoundUnder(Op(d), Op(d).under[k], Op(d).under[k + 1], m) =>
              FoundHolds(d, Op(d).under[k], Op(d).under[k + 1], m)
        /\ Op(d).under[k] \in Ids /\ Op(d).under[k + 1] \in Ids
    BY <1>1, <2>1, PathOf DEF PathHolds
  <2>3. ASSUME PutUnder(Op(d), Op(d).under[k], Op(d).under[k + 1], m)
        PROVE  PutHolds(d, Op(d).under[k], Op(d).under[k + 1], m)'
    BY <1>1, <2>1, <2>2, <2>3, PutStep DEF PutHolds
  <2>4. ASSUME FoundUnder(Op(d), Op(d).under[k], Op(d).under[k + 1], m)
        PROVE  FoundHolds(d, Op(d).under[k], Op(d).under[k + 1], m)'
    BY <1>1, <2>1, <2>2, <2>4, FoundStep DEF FoundHolds
  <2> QED BY <2>3, <2>4
<1>2. CASE ~Started(d)
  <2>1. d = c /\ Start(c)
    BY <1>2, ActCases, Others DEF Started, Expire, Busy
  <2>2. \A k \in DOMAIN Op(c)'.script : ~Past(c, k)'
    BY <2>1, StartNotPast
  <2> QED BY <2>1, <2>2 DEF PathHolds, PutHolds, FoundHolds
<1> QED BY <1>1, <1>2

---------------------------------------------------------------------------
(* A row that goes under a parent which is not live: the request has read  *)
(* the parent before, so the parent has been deleted, and the write-back   *)
(* of the parent will not find it.                                         *)

(* What a step adds to late.                                               *)
LEMMA LateStep ==
    ASSUME TypeOK, NEW c \in Clients, Act(c), NEW i \in late', i \notin late
    PROVE  /\ Insert(c) /\ Busy(c) /\ mode[c] = "run" /\ i \in Now(c).rows /\ i \in Created(Op(c))
           /\ op[c] \in DOMAIN Ops[c] /\ pc[c] \in DOMAIN Op(c).script /\ Now(c) = Op(c).script[pc[c]]
           /\ Now(c).do = "insert" /\ Now(c).of # None /\ ~Live(Now(c).of)
<1>1. Insert(c)
  BY DEF Act, Start, Validate, Check, Read, Link, Relink, WriteBack, Write, Erase, Expire, Refused
<1>2. i \in Now(c).rows /\ Now(c).of # None /\ ~Live(Now(c).of)
  BY <1>1 DEF Insert
<1>3. Runs(c, "insert") /\ Busy(c) /\ Now(c).do = "insert"
  BY <1>1 DEF Insert, Runs, At, Busy
<1> QED BY <1>1, <1>2, <1>3, Creates, NowStatement

(* A statement that demands a row and is passed has found it live.         *)
LEMMA DemandPassed ==
    ASSUME TypeOK, NEW c \in Clients, Act(c), Started(c), NEW k \in DOMAIN Op(c).script,
           Past(c, k)', ~Past(c, k), NEW p \in Ids, Demands(Op(c).script[k], p)
    PROVE  row[p].state = "live"
<1>1. /\ Now(c) = Op(c).script[k]
      /\ Now(c).do \notin {"valid", "check"} /\ Now(c).fault # "ignored" => Enough(Now(c))
  BY PastOnly
<1>2. Enough(Now(c)) /\ Now(c).need = "all" /\ Now(c).rows = {p}
  BY <1>1 DEF Demands
<1>3. p \in Hits(Now(c))
  BY <1>2 DEF Enough
<1> QED BY <1>3 DEF Hits, Live

LEMMA ChildStep ==
    ASSUME TypeOK, KeptRows, NEW c \in Clients, Act(c), NEW d \in Clients, Started(d),
           NEW p \in Ids, NEW k \in DOMAIN Op(d).script, NEW m \in DOMAIN Op(d).script,
           ChecksParent(Op(d), p, k, m), ChildHolds(d, p, k, m)
    PROVE  ChildHolds(d, p, k, m)'
<1>1. Op(d)' = Op(d)
  BY StartedKept
<1>2. /\ Demands(Op(d).script[k], p) /\ Demands(Op(d).script[m], p) /\ Op(d).on \subseteq Created(Op(d))
      /\ \A l \in DOMAIN Op(d).script :
            Op(d).script[l].do = "insert" /\ Op(d).script[l].rows \cap Op(d).on # {} =>
               k < l /\ l < m /\ Op(d).script[l].of = p
  BY DEF ChecksParent
<1>3. op[d] \in DOMAIN Ops[d] /\ Op(d) = Ops[d][op[d]]
  BY DEF TypeOK, Started, Op
<1>4. row[p].state # "absent" => row'[p].state # "absent"
  BY OldRowsKept
<1>5. row[p].state = "deleted" => row'[p].state = "deleted"
  BY ActKeeps DEF RowsKept
<1>6. ASSUME NEW i \in Op(d).on, i \in late', i \notin late
      PROVE  /\ d = c /\ mode[c] = "run" /\ row[p].state = "deleted"
             /\ k < pc[c] /\ pc[c] < m
  <2>1. /\ Insert(c) /\ Busy(c) /\ mode[c] = "run" /\ i \in Now(c).rows /\ i \in Created(Op(c))
        /\ op[c] \in DOMAIN Ops[c] /\ pc[c] \in DOMAIN Op(c).script /\ Now(c) = Op(c).script[pc[c]]
        /\ Now(c).do = "insert" /\ Now(c).of # None /\ ~Live(Now(c).of)
    BY <1>6, LateStep
  <2>2. d = c
    BY <1>2, <1>3, <1>6, <2>1, CreatedAbsent DEF Op
  <2>3. k < pc[c] /\ pc[c] < m /\ Now(c).of = p
    BY <1>2, <1>6, <2>1, <2>2
  <2>4. row[p].state # "absent"
    BY <2>1, <2>2, <2>3 DEF ChildHolds, Past
  <2>5. row[p].state \in {"absent", "live", "deleted"}
    BY RowsTyped DEF Rows
  <2> QED BY <2>1, <2>2, <2>3, <2>4, <2>5 DEF Live
<1>7. Past(d, k)' => row'[p].state # "absent"
  <2>1. CASE Past(d, k)
    BY <1>4, <2>1 DEF ChildHolds
  <2>2. CASE ~Past(d, k)
    BY <1>2, <1>4, <2>2, PastOthers, DemandPassed
  <2> QED BY <2>1, <2>2
<1>8. Op(d).on \cap late' # {} => row'[p].state = "deleted"
  BY <1>5, <1>6 DEF ChildHolds
<1>9. Past(d, m)' => Op(d).on \cap late' = {}
  <2> SUFFICES ASSUME Past(d, m)', NEW i \in Op(d).on, i \in late' PROVE FALSE
    OBVIOUS
  <2>1. CASE Past(d, m)
    <3>1. i \notin late
      BY <2>1 DEF ChildHolds
    <3>2. d = c /\ mode[c] = "run" /\ pc[c] < m
      BY <1>6, <3>1
    <3>3. pc[c] > m
      BY <2>1, <3>2 DEF Past, Acked
    <3>4. pc[c] \in Nat /\ m \in Nat
      BY <1>3, Scripts DEF TypeOK
    <3> QED BY <3>2, <3>3, <3>4
  <2>2. CASE ~Past(d, m)
    <3>1. d = c
      BY <2>2, PastOthers
    <3>2. row[p].state = "live"
      BY <1>2, <2>2, <3>1, DemandPassed
    <3> QED BY <1>6, <3>2 DEF ChildHolds
  <2> QED BY <2>1, <2>2
<1> QED BY <1>1, <1>7, <1>8, <1>9 DEF ChildHolds

LEMMA ChildInvStep ==
    ASSUME TypeOK, KeptRows, NewRows, ChildInv, NEW c \in Clients, Act(c)
    PROVE  ChildInv'
<1> SUFFICES ASSUME NEW d \in Clients, Started(d)', NEW p \in Ids,
                    NEW k \in DOMAIN Op(d)'.script, NEW m \in DOMAIN Op(d)'.script,
                    ChecksParent(Op(d), p, k, m)'
             PROVE  ChildHolds(d, p, k, m)'
  BY DEF ChildInv
<1>1. CASE Started(d)
  <2>1. Op(d)' = Op(d)
    BY <1>1, StartedKept
  <2>2. ChecksParent(Op(d), p, k, m)
    BY <2>1 DEF ChecksParent
  <2> QED BY <1>1, <2>1, <2>2, ChildStep DEF ChildInv
<1>2. CASE ~Started(d)
  <2>1. d = c /\ Start(c)
    BY <1>2, ActCases, Others DEF Started, Expire, Busy
  <2>2. ~Past(c, k)' /\ ~Past(c, m)'
    BY <2>1, StartNotPast
  <2>3. op'[c] \in DOMAIN Ops[c] /\ late' = late /\ Op(c)' = Ops[c][op'[c]]
    BY <2>1 DEF Start, TypeOK, Op
  <2>4. \A i \in Op(c)'.on : i \in Created(Ops[c][op'[c]])
    BY <2>1, <2>3 DEF ChecksParent
  <2>5. \A i \in Op(c)'.on : row[i].state = "absent"
    BY <1>2, <2>1, <2>3, <2>4 DEF NewRows, Unknown
  <2> QED BY <2>1, <2>2, <2>3, <2>5 DEF ChildHolds, KeptRows
<1> QED BY <1>1, <1>2

---------------------------------------------------------------------------
(* The answer NotFound comes from a statement that does not find a row it  *)
(* names; nobody will find it again.                                       *)

(* A row that existed before the requests and is not found stays so.       *)
LEMMA MissedStays ==
    ASSUME TypeOK, KeptRows, NEW c \in Clients, Act(c), NEW s, NEW i \in s.rows, i \in Ids,
           Missed(s), i \notin Hits(s)
    PROVE  i \notin Hits(s)'
<1>1. InitRows[i].state = "live" /\ (s.of # None => InitRows[i].kind # "job")
  BY DEF Missed
<1>2. row[i].state # "absent" /\ row[i].state \in {"absent", "live", "deleted"}
  BY <1>1, RowsTyped DEF KeptRows, Rows
<1>3. CASE row[i].state = "deleted"
  BY <1>3, ActKeeps DEF RowsKept, Hits, Live
<1>4. CASE row[i].state = "live"
  <2>1. s.of # None /\ s.of # row[i].link
    BY <1>4 DEF Hits, Live
  <2>2. row[i].link = InitRows[i].link /\ row'[i].link = InitRows[i].link
    BY <1>1, <2>1, OldRowsKept DEF Fixed, KeptRows
  <2> QED BY <2>1, <2>2 DEF Hits
<1> QED BY <1>2, <1>3, <1>4

LEMMA NotEnough ==
    ASSUME NEW s, Missed(s), ~Enough(s) PROVE \E i \in s.rows : i \notin Hits(s)
<1>1. Hits(s) \subseteq s.rows
  BY DEF Hits
<1> QED BY <1>1 DEF Missed, Enough

LEMMA AnswerStep ==
    ASSUME TypeOK, KeptRows, AnswerInv, NEW c \in Clients, Act(c)
    PROVE  AnswerInv'
<1> SUFFICES ASSUME NEW d \in Clients, Started(d)', mode'[d] = "done", code'[d] = "NotFound",
                    Op(d)'.name # "GetScrapingJob"
             PROVE  \E k \in DOMAIN Op(d)'.script :
                       /\ Op(d)'.script[k].err = "NotFound"
                       /\ \E i \in Op(d)'.script[k].rows : i \notin Hits(Op(d).script[k])'
  BY DEF AnswerInv, AnswerHolds
<1>1. Started(d) /\ Op(d)' = Op(d)
  <2>1. ~Started(d) => d = c /\ Start(c)
    BY ActCases, Others DEF Started, Expire, Busy
  <2>2. Start(c) => mode'[c] = "run"
    BY DEF Start, TypeOK
  <2> QED BY <2>1, <2>2, StartedKept
<1>2. /\ op[d] \in DOMAIN Ops[d]
      /\ \A s \in StatementsOf(Op(d)) : s.fault # "NotFound" /\ (s.err = "NotFound" => Missed(s))
  BY <1>1, AnswersAssumption DEF TypeOK, Started, Op
<1>3. ASSUME NEW k \in DOMAIN Op(d).script, NEW i \in Op(d).script[k].rows,
             Op(d).script[k].err = "NotFound", i \notin Hits(Op(d).script[k])
      PROVE  i \notin Hits(Op(d).script[k])'
  <2>1. Missed(Op(d).script[k]) /\ i \in Ids
    BY <1>2, <1>3, Scripts DEF StatementsOf, Op
  <2>2. i \notin Hits(Op(d).script[k])' <=> ~(/\ Live(i)'
                                               /\ Op(d).script[k].of \in {None, row'[i].link})
    BY <1>1 DEF Hits
  <2>3. \A s : i \in s.rows /\ Missed(s) /\ i \notin Hits(s) => ~(Live(i)' /\ s.of \in {None, row'[i].link})
    BY <2>1, MissedStays DEF Hits
  <2> QED BY <1>3, <2>1, <2>2, <2>3
<1>4. CASE mode[d] = "done" /\ code[d] = "NotFound"
  BY <1>1, <1>3, <1>4 DEF AnswerInv, AnswerHolds
<1>5. CASE ~(mode[d] = "done" /\ code[d] = "NotFound")
  <2>1. d = c /\ Busy(c) /\ ~Start(c) /\ ~Expire(c) /\ op' = op
    BY <1>1, <1>5, Others, ActCases, StartedKept DEF Expire
  <2>2. Now(c) \in StatementsOf(Op(c)) /\ op[c] \in DOMAIN Ops[c]
    BY <2>1, NowStatement
  <2>3. Now(c).fault # "NotFound" /\ (Now(c).err = "NotFound" => Missed(Now(c)))
    BY <1>2, <2>1, <2>2
  <2>4. ~Advance(c)
    BY <1>5, <2>1 DEF Advance, Ended, TypeOK, Busy
  <2>5. \A err : Fail(c, err) => err = "NotFound" /\ mode[c] = "run"
    BY <1>5, <2>1 DEF Fail, Ended, TypeOK, Busy
  <2>6. ~Broken(c)
    BY <2>3, <2>4, <2>5 DEF Broken
  <2>7. ~Validate(c) /\ ~Check(c)
    BY <2>3, <2>4, <2>5 DEF Validate, Check, At, Missed
  <2>8. ~Enough(Now(c)) /\ Fail(c, Now(c).err)
    BY <2>1, <2>4, <2>6, <2>7
       DEF Act, Refused, Read, Insert, Link, Relink, WriteBack, Write, Erase, Runs, Answered
  <2>9. mode[c] = "run" /\ Now(c).err = "NotFound"
    BY <2>5, <2>8
  <2>10. \E i \in Now(c).rows : i \notin Hits(Now(c))
    BY <2>3, <2>8, <2>9, NotEnough
  <2>11. pc[c] \in DOMAIN Op(c).script /\ Now(c) = Op(c).script[pc[c]]
    BY <2>1, <2>9, NowStatement
  <2> QED BY <1>1, <1>3, <2>1, <2>9, <2>10, <2>11
<1> QED BY <1>4, <1>5

---------------------------------------------------------------------------
(* The compensation: it runs after every failure from the statement at     *)
(* from on, and when it does not delete its row, the row is gone or the    *)
(* database has not answered.                                              *)

(* What a statement of request c makes of its bookkeeping.                 *)
LEMMA GoesOn ==
    ASSUME TypeOK, NEW c \in Clients, Act(c), Busy(c), ~Expire(c)
    PROVE  /\ op' = op /\ expired' = expired
           /\ \/ Advance(c)
              \/ \E err : err # "OK" /\ Fail(c, err)
           /\ \/ faults' = faults
              \/ faults' = faults + 1
<1>1. ~Start(c)
  BY DEF Start, Busy
<1>2. CASE Validate(c) \/ Check(c)
  BY <1>2, NowTyped DEF Validate, Check
<1>3. CASE Refused(c)
  BY <1>3, NowTyped DEF Refused, Broken
<1>4. CASE \E do : Runs(c, do)
  BY <1>4, NowTyped DEF Runs, Answered, Broken
<1> QED BY <1>1, <1>2, <1>3, <1>4
        DEF Act, Read, Insert, Link, Relink, WriteBack, Write, Erase

LEMMA FaultsGrow ==
    ASSUME TypeOK, UndoInv, NEW c \in Clients, Act(c)
    PROVE  /\ faults > 0 => faults' > 0
           /\ expired' # {} => faults' > 0
<1>1. faults \in Nat /\ (expired # {} => faults > 0)
  BY FaultsAssumption DEF TypeOK, UndoInv
<1>2. CASE Start(c)
  BY <1>1, <1>2 DEF Start
<1>3. CASE Expire(c)
  BY <1>1, <1>3 DEF Expire
<1>4. CASE Busy(c) /\ ~Expire(c)
  BY <1>1, <1>4, GoesOn
<1> QED BY <1>2, <1>3, <1>4, ActCases

(* A row that is not live, or is to be created by another request, is not  *)
(* brought to life by this one.                                            *)
LEMMA StaysDead ==
    ASSUME TypeOK, NEW c \in Clients, Act(c), NEW i \in Ids, ~Live(i),
           ~(Insert(c) /\ i \in Now(c).rows)
    PROVE  ~Live(i)'
<1>1. StateStep(c, i)
  BY RowSteps DEF RowStep
<1> QED BY <1>1 DEF StateStep, Live

(* A statement of the compensation that fails has met no answer, or has    *)
(* not found the row.                                                      *)
LEMMA UndoFails ==
    ASSUME TypeOK, UndoInv, NEW c \in Clients, Act(c), mode[c] = "undo", c \in left'
    PROVE  faults' > 0 \/ \A i \in Op(c).on : ~Live(i)'
<1>1. PICK i \in Op(c).on : Op(c).on = {i} /\ Demands(Now(c), i)
  BY UndoStatement
<1>2. Now(c).do \in {"read", "delete"} /\ Now(c).of = None /\ Busy(c)
  BY UndoStatement DEF Busy
<1>3. i \in Ids
  BY <1>1, <1>2, NowTyped DEF Demands
<1>4. faults \in Nat /\ (expired # {} => faults > 0)
  BY FaultsAssumption DEF TypeOK, UndoInv
<1>5. c \notin left
  BY DEF UndoInv, UndoHolds, Started
<1>6. ~Advance(c) /\ ~Expire(c)
  BY <1>5 DEF Advance, Expire
<1>7. CASE Refused(c)
  BY <1>4, <1>7 DEF Refused
<1>8. CASE Runs(c, Now(c).do)
  <2>1. CASE faults' = faults + 1
    BY <1>4, <2>1
  <2>2. CASE ~Enough(Now(c))
    <3>1. Hits(Now(c)) # {i} /\ Now(c).rows = {i}
      BY <1>1, <2>2 DEF Enough, Demands
    <3>2. ~Live(i)
      BY <1>2, <3>1 DEF Hits
    <3>3. ~Live(i)'
      BY <1>2, <1>3, <3>2, StaysDead DEF Insert, Runs, At
    <3> QED BY <1>1, <3>3
  <2> QED BY <1>6, <1>8, <2>1, <2>2 DEF Runs, Answered
<1>9. Refused(c) \/ Runs(c, Now(c).do)
  BY <1>2, <1>6 DEF Act, Start, Validate, Check, Read, Insert, Link, Relink, WriteBack, Write, Erase,
                    Runs, At, Busy
<1> QED BY <1>7, <1>8, <1>9

(* One that deletes and goes on has deleted the row.                       *)
LEMMA UndoErases ==
    ASSUME TypeOK, NEW c \in Clients, Act(c), mode[c] = "undo", ~Expire(c),
           Now(c).do = "delete", Advance(c), c \notin left
    PROVE  Erased(c)'
<1>1. PICK i \in Op(c).on : Op(c).on = {i} /\ Demands(Now(c), i)
  BY UndoStatement
<1>2. Busy(c) /\ op' = op
  BY GoesOn DEF Busy
<1>3. i \in Ids /\ row[i] \in Rows
  BY <1>1, <1>2, NowTyped, RowsTyped DEF Demands
<1>4. \A err : ~Fail(c, err)
  <2>1. ASSUME NEW err, Fail(c, err) PROVE c \in left' \/ FALSE
    BY <2>1 DEF Fail
  <2> QED BY <2>1 DEF Advance
<1>5. ~Broken(c)
  BY <1>1, <1>4 DEF Broken, Demands
<1>6. Erase(c)
  BY <1>2, <1>5 DEF Act, Start, Validate, Check, Read, Insert, Link, Relink, WriteBack, Write, Refused,
                    Runs, At, Busy
<1>7. Enough(Now(c))
  BY <1>4, <1>5, <1>6 DEF Erase, Runs, Answered
<1>8. i \in Hits(Now(c))
  BY <1>1, <1>7 DEF Enough, Demands
<1>9. row'[i] = Marked(row[i], "deleted")
  BY <1>3, <1>6, <1>8 DEF Erase
<1>10. row'[i].state = "deleted"
  BY <1>3, <1>9, Columns
<1> QED BY <1>1, <1>2, <1>10 DEF Erased, Op

(* The rows that a compensation removes come back in no way.               *)
LEMMA OnStaysDead ==
    ASSUME TypeOK, NEW c \in Clients, Act(c), NEW d \in Clients, mode[d] \in {"undo", "undone"},
           Op(d).undo # <<>>, NEW i \in Op(d).on
    PROVE  /\ i \in Ids
           /\ ~Live(i) => ~Live(i)'
           /\ row[i].state = "deleted" => row'[i].state = "deleted"
<1>1. op[d] \in DOMAIN Ops[d] /\ i \in Created(Op(d))
  BY UndoAssumption DEF TypeOK, Op
<1>2. /\ i \in Ids
      /\ \A e \in Clients \ {d} : \A m \in DOMAIN Ops[e] : i \notin Created(Ops[e][m])
  BY <1>1, CreatedAbsent DEF Op
<1>3. ~(Insert(c) /\ i \in Now(c).rows)
  <2> SUFFICES ASSUME Insert(c), i \in Now(c).rows PROVE FALSE
    OBVIOUS
  <2>1. Runs(c, "insert") /\ Busy(c)
    BY DEF Insert, Runs, At, Busy
  <2>2. mode[c] = "run" /\ i \in Created(Op(c)) /\ op[c] \in DOMAIN Ops[c]
    BY <2>1, Creates, NowStatement
  <2> QED BY <1>2, <2>2 DEF Op
<1> QED BY <1>2, <1>3, StaysDead, ActKeeps DEF RowsKept

LEMMA UndoOthers ==
    ASSUME TypeOK, UndoInv, NEW c \in Clients, Act(c), NEW d \in Clients, d # c, Started(d)
    PROVE  UndoHolds(d)'
<1>1. /\ Op(d)' = Op(d) /\ mode'[d] = mode[d] /\ pc'[d] = pc[d] /\ code'[d] = code[d]
      /\ UndoHolds(d)
  BY Others, StartedKept DEF UndoInv
<1>2. d \in left' <=> d \in left
  <2>1. Busy(c) /\ ~Expire(c) => left' = left \/ left' = left \cup {c}
    BY GoesOn DEF Advance, Fail
  <2>2. Start(c) \/ Expire(c) => left' = left
    BY DEF Start, Expire
  <2> QED BY <2>1, <2>2, ActCases
<1>3. ASSUME mode[d] \in {"undo", "undone"}
      PROVE  /\ Erased(d) => Erased(d)'
             /\ (\A i \in Op(d).on : ~Live(i)) => \A i \in Op(d).on : ~Live(i)'
  <2>1. Op(d).undo # <<>>
    BY <1>1, <1>3 DEF UndoHolds
  <2>2. \A i \in Op(d).on : /\ ~Live(i) => ~Live(i)'
                            /\ row[i].state = "deleted" => row'[i].state = "deleted"
    BY <1>3, <2>1, OnStaysDead
  <2> QED BY <1>1, <2>2 DEF Erased
<1>4. faults > 0 => faults' > 0
  BY FaultsGrow
<1>5. d \in left' => faults' > 0 \/ \A i \in Op(d)'.on : ~Live(i)'
  BY <1>1, <1>2, <1>3, <1>4 DEF UndoHolds
<1>6. mode'[d] = "undone" /\ d \notin left' => Erased(d)'
  BY <1>1, <1>2, <1>3 DEF UndoHolds
<1>7. \A k \in DOMAIN Op(d)'.undo :
         mode'[d] = "undo" /\ pc'[d] > k /\ Op(d)'.undo[k].do = "delete" => Erased(d)'
  BY <1>1, <1>3 DEF UndoHolds
<1>8. /\ mode'[d] = "done" /\ code'[d] # "OK" => Op(d)'.undo = <<>> \/ pc'[d] < Op(d)'.from
      /\ mode'[d] \in {"undo", "undone"} => Op(d)'.undo # <<>>
      /\ d \in left' => mode'[d] = "undone"
  BY <1>1, <1>2 DEF UndoHolds
<1> QED BY <1>5, <1>6, <1>7, <1>8 DEF UndoHolds

LEMMA UndoOwn ==
    ASSUME TypeOK, UndoInv, NEW c \in Clients, Act(c), Started(c)
    PROVE  UndoHolds(c)'
<1>1. Op(c)' = Op(c) /\ UndoHolds(c) /\ ~Start(c)
  BY StartedKept DEF UndoInv
<1>2. CASE Expire(c)
  <2>1. UNCHANGED <<mode, pc, code, left, row>>
    BY <1>2 DEF Expire
  <2>2. faults > 0 => faults' > 0
    BY FaultsGrow
  <2> QED BY <1>1, <2>1, <2>2 DEF UndoHolds, Erased, Live
<1>3. CASE Busy(c) /\ ~Expire(c)
  <2>1. c \notin left /\ pc[c] \in Nat
    BY <1>1, <1>3 DEF UndoHolds, TypeOK, Busy
  <2>2. mode[c] = "undo" => /\ Op(c).undo # <<>> /\ pc[c] \in DOMAIN Op(c).undo
                            /\ DOMAIN Op(c).undo = 1..Len(Op(c).undo) /\ Len(Op(c).undo) \in Nat
                            /\ Now(c) = Op(c).undo[pc[c]] /\ Script(c) = Op(c).undo
    BY <1>3, UndoStatement, NowStatement, Scripts DEF Op, Script
  <2>3. CASE Advance(c)
    <3>1. left' = left /\ c \notin left'
      BY <2>1, <2>3 DEF Advance
    <3>2. CASE mode[c] = "run"
      <4>1. mode'[c] \in {"run", "done"} /\ (mode'[c] = "done" => code'[c] = "OK")
        BY <2>3, <3>2 DEF Advance, Ended, TypeOK
      <4> QED BY <3>1, <4>1 DEF UndoHolds
    <3>3. CASE mode[c] = "undo"
      <4>1. \A k \in DOMAIN Op(c).undo : k <= pc[c] /\ Op(c).undo[k].do = "delete" => Erased(c)'
        <5>1. ASSUME NEW k \in DOMAIN Op(c).undo, k < pc[c], Op(c).undo[k].do = "delete"
              PROVE  Erased(c)'
          <6>1. Erased(c)
            BY <1>1, <3>3, <5>1 DEF UndoHolds
          <6> QED BY <1>1, <2>2, <3>3, <6>1, OnStaysDead DEF Erased
        <5>2. Op(c).undo[pc[c]].do = "delete" => Erased(c)'
          BY <1>3, <2>1, <2>2, <2>3, <3>3, UndoErases
        <5> QED BY <2>1, <2>2, <3>3, <5>1, <5>2
      <4>2. CASE pc[c] < Len(Script(c))
        <5>1. mode'[c] = "undo" /\ pc'[c] = pc[c] + 1
          BY <2>3, <3>3, <4>2 DEF Advance, TypeOK
        <5> QED BY <1>1, <2>1, <2>2, <3>1, <3>3, <4>1, <5>1 DEF UndoHolds
      <4>3. CASE ~(pc[c] < Len(Script(c)))
        <5>1. mode'[c] = "undone" /\ pc[c] = Len(Op(c).undo)
          BY <2>1, <2>2, <2>3, <3>3, <4>3 DEF Advance, TypeOK, Ended
        <5>2. \E k \in DOMAIN Op(c).undo : Op(c).undo[k].do = "delete"
          BY <1>1, <2>2, <3>3, NowStatement, UndoAssumption DEF Busy, Op
        <5>3. Erased(c)'
          BY <2>2, <3>3, <4>1, <5>1, <5>2
        <5> QED BY <1>1, <2>2, <3>1, <3>3, <5>1, <5>3 DEF UndoHolds
      <4> QED BY <4>2, <4>3
    <3> QED BY <1>3, <3>2, <3>3 DEF Busy
  <2>4. ASSUME NEW err, err # "OK", Fail(c, err) PROVE UndoHolds(c)'
    <3>1. CASE mode[c] = "run" /\ Op(c).undo # <<>> /\ pc[c] >= Op(c).from
      <4>1. mode'[c] = "undo" /\ pc'[c] = 1 /\ left' = left
        BY <2>4, <3>1 DEF Fail, TypeOK
      <4>2. \A k \in DOMAIN Op(c).undo : ~(1 > k)
        BY <1>3, NowStatement, Scripts DEF Op
      <4> QED BY <1>1, <2>1, <3>1, <4>1, <4>2 DEF UndoHolds
    <3>2. CASE mode[c] = "run" /\ ~(Op(c).undo # <<>> /\ pc[c] >= Op(c).from)
      <4>1. mode'[c] = "done" /\ pc' = pc /\ left' = left
        BY <2>4, <3>2 DEF Fail, Ended, TypeOK
      <4>2. Op(c).from \in Nat
        BY <1>3, NowStatement, OpsAssumption DEF Op
      <4> QED BY <1>1, <2>1, <3>2, <4>1, <4>2 DEF UndoHolds
    <3>3. CASE mode[c] = "undo"
      <4>1. mode'[c] = "undone" /\ c \in left'
        BY <2>4, <3>3 DEF Fail, Ended, TypeOK
      <4>2. faults' > 0 \/ \A i \in Op(c).on : ~Live(i)'
        BY <3>3, <4>1, UndoFails
      <4> QED BY <1>1, <2>2, <3>3, <4>1, <4>2 DEF UndoHolds
    <3> QED BY <1>3, <3>1, <3>2, <3>3 DEF Busy
  <2> QED BY <1>3, <2>3, <2>4, GoesOn
<1> QED BY <1>1, <1>2, <1>3, ActCases

LEMMA UndoStep ==
    ASSUME TypeOK, UndoInv, NEW c \in Clients, Act(c)
    PROVE  UndoInv'
<1>1. ASSUME NEW d \in Clients, Started(d)' PROVE UndoHolds(d)'
  <2>1. CASE Started(d)
    BY <2>1, UndoOthers, UndoOwn
  <2>2. CASE ~Started(d)
    <3>1. d = c /\ Start(c)
      BY <1>1, <2>2, ActCases, Others DEF Started, Expire, Busy
    <3>2. mode'[c] = "run" /\ left' = left /\ c \notin left
      BY <2>2, <3>1 DEF Start, TypeOK, UndoInv
    <3> QED BY <3>1, <3>2 DEF UndoHolds
  <2> QED BY <2>1, <2>2
<1>2. ASSUME NEW d \in Clients, ~Started(d)' PROVE d \notin left'
  <2>1. ~Started(d) /\ d \notin left
    BY <1>2, StartedKept DEF UndoInv
  <2>2. Busy(c) => d # c
    BY <2>1 DEF Busy, Started
  <2>3. Busy(c) /\ ~Expire(c) => left' = left \/ left' = left \cup {c}
    BY GoesOn DEF Advance, Fail
  <2>4. Start(c) \/ Expire(c) => left' = left
    BY DEF Start, Expire
  <2> QED BY <2>1, <2>2, <2>3, <2>4, ActCases
<1> QED BY <1>1, <1>2, FaultsGrow DEF UndoInv

---------------------------------------------------------------------------
LEMMA InvariantInit == Init => RequestsInvariant
<1> SUFFICES ASSUME Init PROVE RequestsInvariant
  OBVIOUS
<1>1. \A c \in Clients : ~Started(c) /\ DOMAIN seen[c] = {}
  BY DEF Init, Started
<1>2. row = InitRows /\ left = {} /\ late = {} /\ expired = {}
  BY DEF Init
<1>3. KeptRows
  BY <1>1, <1>2 DEF KeptRows
<1>4. NewRows
  BY <1>1, <1>2, CreatedAbsent DEF NewRows, Unknown
<1> QED BY <1>1, <1>2, <1>3, <1>4, InitType
        DEF RequestsInvariant, PathInv, ChildInv, UndoInv, AnswerInv

LEMMA InvariantStep == RequestsInvariant /\ [Next]_vars => RequestsInvariant'
<1> SUFFICES ASSUME RequestsInvariant, [Next]_vars PROVE RequestsInvariant'
  OBVIOUS
<1> USE DEF RequestsInvariant
<1>1. CASE \E c \in Clients : Act(c)
  BY <1>1, ActKeeps, KeptRowsStep, NewRowsStep, PathStep, ChildInvStep, UndoStep, AnswerStep
<1>2. CASE UNCHANGED vars
  <2>1. TypeOK'
    BY <1>2, Idle
  <2>2. KeptRows'
    BY <1>2 DEF vars, KeptRows
  <2>6. \A c \in Clients : (Started(c)' <=> Started(c)) /\ Op(c)' = Op(c)
    BY <1>2 DEF vars, Started, Op
  <2>7. \A i, p : (Unknown(i)' <=> Unknown(i)) /\ (LinkedAtMost(i, p)' <=> LinkedAtMost(i, p))
    BY <1>2 DEF vars, Unknown, LinkedAtMost
  <2>8. NewRows'
    BY <2>6, <2>7 DEF NewRows
  <2>9. \A c \in Clients : \A k : Past(c, k)' <=> Past(c, k)
    BY <1>2 DEF vars, Past, Acked
  <2>10. row' = row /\ seen' = seen /\ late' = late
    BY <1>2 DEF vars
  <2>3. PathInv'
    <3>1. \A c \in Clients : PathHolds(c)' <=> PathHolds(c)
      BY <2>6, <2>9, <2>10 DEF PathHolds, PutHolds, FoundHolds
    <3> QED BY <2>6, <3>1 DEF PathInv
  <2>11. ChildInv'
    BY <2>6, <2>9, <2>10 DEF ChildInv, ChildHolds
  <2>4. UndoInv'
    BY <1>2 DEF vars, UndoInv, Started, UndoHolds, Op, Erased, Live
  <2>5. AnswerInv'
    BY <1>2 DEF vars, AnswerInv, Started, AnswerHolds, Op, Hits, Live
  <2> QED BY <2>1, <2>2, <2>3, <2>4, <2>5, <2>8, <2>11
<1>3. [Next]_vars => (\E c \in Clients : Act(c)) \/ UNCHANGED vars
  BY DEF Next, Act, AllDone
<1> QED BY <1>1, <1>2, <1>3

(* Old rows keep their parents and new ones are put where their creator    *)
(* says; what a request has passed is still true, and what it has read is  *)
(* true or gone; a compensation runs after every failure it is there for.  *)
THEOREM RowsInvariant == Spec => []RequestsInvariant
BY InvariantInit, InvariantStep, PTL DEF Spec

(* The answer NotFound tells of a row that is not there, whatever the      *)
(* operations: no timeout and no lost answer is reported as NotFound, and  *)
(* no request is told NotFound for a row that somebody may still find.     *)
THEOREM NotFoundIsTrue == Spec => []NotFoundMeansGone
<1>1. RequestsInvariant => NotFoundMeansGone
  <2> SUFFICES ASSUME RequestsInvariant, NEW c \in Clients, mode[c] = "done", code[c] = "NotFound",
                      Op(c).name # "GetScrapingJob"
               PROVE  \E k \in DOMAIN Op(c).script : \E i \in Op(c).script[k].rows :
                         InitRows[i].state = "live" /\ i \notin Hits(Op(c).script[k])
    BY DEF NotFoundMeansGone
  <2>1. Started(c) /\ op[c] \in DOMAIN Ops[c] /\ AnswerHolds(c)
    BY DEF RequestsInvariant, AnswerInv, Started, TypeOK
  <2>2. PICK k \in DOMAIN Op(c).script :
           /\ Op(c).script[k].err = "NotFound"
           /\ \E i \in Op(c).script[k].rows : i \notin Hits(Op(c).script[k])
    BY <2>1 DEF AnswerHolds
  <2>3. Missed(Op(c).script[k])
    BY <2>1, <2>2, AnswersAssumption DEF StatementsOf, Op
  <2> QED BY <2>2, <2>3 DEF Missed
<1> QED BY RowsInvariant, <1>1, PTL

(* A creation that checks its parent and is acknowledged has not put its   *)
(* row under a parent that somebody had deleted before.                    *)
THEOREM NoLateChildren == Spec => []NoLateChild
<1>1. RequestsInvariant => NoLateChild
  <2> SUFFICES ASSUME RequestsInvariant, NEW c \in Clients, Acked(c), Op(c).name \in ParentCheckers
               PROVE  Op(c).on \cap late = {}
    BY DEF NoLateChild
  <2>1. Started(c) /\ op[c] \in DOMAIN Ops[c]
    BY DEF RequestsInvariant, Acked, Started, TypeOK
  <2>2. PICK p \in Ids : \E k, m \in DOMAIN Op(c).script : ChecksParent(Op(c), p, k, m)
    BY <2>1, ParentAssumption DEF Op
  <2>3. PICK k \in DOMAIN Op(c).script, m \in DOMAIN Op(c).script : ChecksParent(Op(c), p, k, m)
    BY <2>2
  <2>4. ChildHolds(c, p, k, m)
    BY <2>1, <2>3 DEF RequestsInvariant, ChildInv
  <2> QED BY <2>4 DEF ChildHolds, Past
<1> QED BY RowsInvariant, <1>1, PTL

(* A row whose creation is acknowledged hangs under the parents the caller *)
(* named, all the way up, whatever other requests write back.              *)
THEOREM CreatedThere == Spec => []CreatedWhereNamed
<1>1. RequestsInvariant => CreatedWhereNamed
  <2> SUFFICES ASSUME RequestsInvariant, NEW c \in Clients, Acked(c),
                      NEW k \in 1..(Len(Op(c).under) - 1)
               PROVE  \/ row[Op(c).under[k]].link = Op(c).under[k + 1]
                      \/ row[Op(c).under[k]].link = None /\ row[Op(c).under[k]].kind = "job"
    BY DEF CreatedWhereNamed
  <2> DEFINE i == Op(c).under[k]
             p == Op(c).under[k + 1]
  <2>1. Started(c) /\ TypeOK /\ KeptRows /\ PathHolds(c)
    BY DEF RequestsInvariant, Acked, Started, PathInv
  <2>2. PICK m \in DOMAIN Op(c).script : PutUnder(Op(c), i, p, m) \/ FoundUnder(Op(c), i, p, m)
    BY <2>1, PathOf
  <2>3. i \in Ids
    BY <2>1, PathOf
  <2>4. CASE PutUnder(Op(c), i, p, m)
    <3>1. PutHolds(c, i, p, m)
      BY <2>1, <2>2, <2>4 DEF PathHolds
    <3> QED BY <3>1 DEF PutHolds, Past
  <2>5. CASE FoundUnder(Op(c), i, p, m)
    <3>1. FoundHolds(c, i, p, m)
      BY <2>1, <2>2, <2>5 DEF PathHolds
    <3>2. InitRows[i].link = p
      BY <2>2, <2>5, <3>1 DEF FoundUnder, FoundHolds, Past
    <3>3. row[i].link = InitRows[i].link
      BY <2>1, <2>3, <2>5 DEF FoundUnder, KeptRows
    <3> QED BY <3>2, <3>3
  <2> QED BY <2>2, <2>4, <2>5
<1> QED BY RowsInvariant, <1>1, PTL

(* When a creation in several steps has failed and its compensation is     *)
(* over, its row is gone, unless the database did not answer.              *)
THEOREM NoHalfCreated == Spec => []NoHalfAccount
<1>1. RequestsInvariant => NoHalfAccount
  <2> SUFFICES ASSUME RequestsInvariant, NEW c \in Clients, FailedLate(c), NEW i \in Op(c).on, Live(i)
               PROVE  c \in left /\ faults > 0
    BY DEF NoHalfAccount
  <2>1. Started(c) /\ op[c] \in DOMAIN Ops[c]
    BY DEF RequestsInvariant, FailedLate, Started, TypeOK
  <2>2. UndoHolds(c) /\ pc[c] \in Nat /\ Op(c).from \in Nat
    BY <2>1, OpsAssumption DEF RequestsInvariant, UndoInv, TypeOK, Op
  <2>3. mode[c] = "undone"
    BY <2>2 DEF FailedLate, UndoHolds
  <2> QED BY <2>2, <2>3 DEF UndoHolds, Erased, Live
<1> QED BY RowsInvariant, <1>1, PTL
===============================================================================
