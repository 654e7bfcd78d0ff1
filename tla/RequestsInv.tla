----------------------------- MODULE RequestsInv ------------------------------
(***************************************************************************)
(* Why the properties of module Requests hold: what its steps keep.  The   *)
(* rows come first, then what a request knows once a statement of its      *)
(* script has gone through.                                                *)
(***************************************************************************)
EXTENDS Requests

(* Statement k of the script has gone through.                             *)
Past(c, k) == (mode[c] = "run" /\ pc[c] > k) \/ Acked(c)
Started(c) == mode[c] # "idle"

(* A row keeps its table and is never absent again; an old one that is not *)
(* a job keeps its parent, so that what was read of it stays right.        *)
KeptRows ==
    /\ \A i \in Ids :
         /\ row[i].kind = InitRows[i].kind
         /\ InitRows[i].state # "absent" => row[i].state # "absent"
         /\ Fixed(i) => /\ row[i].link = InitRows[i].link
                        /\ \A c \in Clients : i \in DOMAIN seen[c] => seen[c][i].link = InitRows[i].link
    /\ \A i \in late : row[i].state # "absent"

(* Nobody knows a row before the request that creates it starts; later it  *)
(* is seen without a parent or with the one it was given.                  *)
Unknown(i) == /\ row[i].state = "absent" /\ row[i].link = None
              /\ \A d \in Clients : i \notin DOMAIN seen[d]
LinkedAtMost(i, p) == /\ row[i].link \in {None, p}
                      /\ \A d \in Clients : i \in DOMAIN seen[d] => seen[d][i].link \in {None, p}
NewRows ==
    \A c \in Clients :
       IF Started(c)
       THEN \A k \in 1..(Len(Op(c).under) - 1) :
               Op(c).under[k] \in Created(Op(c)) => LinkedAtMost(Op(c).under[k], Op(c).under[k + 1])
       ELSE \A n \in DOMAIN Ops[c] : \A i \in Created(Ops[c][n]) : Unknown(i)

(* A creation that has put its row under p, or has found an old row there. *)
PutHolds(c, i, p, m) ==
    Past(c, m) => row[i].link = p \/ (row[i].link = None /\ row[i].kind = "job")
FoundHolds(c, i, p, m) ==
    /\ Past(c, m) => i \in DOMAIN seen[c]
    /\ \A l \in DOMAIN Op(c).script :
          /\ \/ l = m /\ Op(c).script[l].of = p
             \/ l > m /\ Op(c).script[l].do = "check" /\ i \in Op(c).script[l].rows
                      /\ Op(c).script[l].of = p
          /\ Past(c, l)
          => InitRows[i].link = p
PathHolds(c) ==
    \A k \in 1..(Len(Op(c).under) - 1) : \A m \in DOMAIN Op(c).script :
       LET i == Op(c).under[k]
           p == Op(c).under[k + 1]
       IN  /\ PutUnder(Op(c), i, p, m) => PutHolds(c, i, p, m)
           /\ FoundUnder(Op(c), i, p, m) => FoundHolds(c, i, p, m)
PathInv == \A c \in Clients : Started(c) => PathHolds(c)

(* A row goes under a parent that is not live only when the parent has     *)
(* been deleted since it was read; the write-back then does not find it.   *)
ChildHolds(c, p, k, m) ==
    /\ Past(c, k) => row[p].state # "absent"
    /\ Op(c).on \cap late # {} => row[p].state = "deleted"
    /\ Past(c, m) => Op(c).on \cap late = {}
ChildInv ==
    \A c \in Clients : Started(c) =>
       \A p \in Ids : \A k, m \in DOMAIN Op(c).script :
          ChecksParent(Op(c), p, k, m) => ChildHolds(c, p, k, m)

(* The compensation runs from the statement at from on.  It fails when the *)
(* database does not answer, or because the row is gone already.           *)
Erased(c) == \A i \in Op(c).on : row[i].state = "deleted"
UndoHolds(c) ==
    /\ mode[c] = "done" /\ code[c] # "OK" => Op(c).undo = <<>> \/ pc[c] < Op(c).from
    /\ mode[c] \in {"undo", "undone"} => Op(c).undo # <<>>
    /\ \A k \in DOMAIN Op(c).undo :
          mode[c] = "undo" /\ pc[c] > k /\ Op(c).undo[k].do = "delete" => Erased(c)
    /\ mode[c] = "undone" /\ c \notin left => Erased(c)
    /\ c \in left => /\ mode[c] = "undone"
                     /\ faults > 0 \/ \A i \in Op(c).on : ~Live(i)
UndoInv ==
    /\ \A c \in Clients : IF Started(c) THEN UndoHolds(c) ELSE c \notin left
    /\ expired # {} => faults > 0

(* A request that answers NotFound has not found one of the rows it named, *)
(* and nobody will find that row again.                                    *)
AnswerHolds(c) ==
    mode[c] = "done" /\ code[c] = "NotFound" /\ Op(c).name # "GetScrapingJob"
    => \E k \in DOMAIN Op(c).script :
          /\ Op(c).script[k].err = "NotFound"
          /\ \E i \in Op(c).script[k].rows : i \notin Hits(Op(c).script[k])
AnswerInv == \A c \in Clients : Started(c) => AnswerHolds(c)

RequestsInvariant ==
    /\ TypeOK /\ KeptRows /\ NewRows /\ PathInv /\ ChildInv /\ UndoInv /\ AnswerInv
===============================================================================
