------------------------------- MODULE TaskQueue -------------------------------
(***************************************************************************)
(* pkg/redis: the task client (tasks.go), the key-value operations         *)
(* (operations.go) and the aggregator (aggregator.go), used by several     *)
(* callers at once.  Redis is external: a command is atomic; a pipeline is *)
(* no transaction, so commands of others may run between two of its own,   *)
(* and the connection may break before or after any of them.  Time is      *)
(* abstract: a key with a time to live may expire at any moment, and may   *)
(* have less than half a second left, which TTL answers as 0, at any.      *)
(*                                                                         *)
(* All tasks have one queue, type and payload, hence one unique key, and   *)
(* one group; an entry <<c, n>> is the task of the n-th call of caller c.  *)
(***************************************************************************)
EXTENDS Naturals, FiniteSets

CONSTANTS
    Callers,
    MaxCalls,       \* bound: calls of one caller
    None,
    GroupMaxSize,   \* cfg.GroupMaxSize of the aggregator
    MaxFaults       \* bound: broken connections

Entries == Callers \X (1..MaxCalls)
Lists   == {"queue", "group", "scheduled"}
Lives   == {"forever", "ttl"}

(* The six ways to enqueue, as what they set on the task and pass on.      *)
Kind(unique, group, at, ttl) == [unique |-> unique, group |-> group, at |-> at, ttl |-> ttl]
EnqueueTaskV2       == Kind(FALSE, FALSE, FALSE, FALSE)
EnqueueTaskUniqueV2 == Kind(TRUE,  FALSE, FALSE, TRUE)
ScheduleTask        == Kind(FALSE, FALSE, TRUE,  FALSE)
ScheduleTaskUnique  == Kind(TRUE,  FALSE, TRUE,  TRUE)
AddToGroup          == Kind(FALSE, TRUE,  FALSE, FALSE)
AddToGroupUnique    == Kind(TRUE,  TRUE,  FALSE, TRUE)
Kinds == [unique : BOOLEAN, group : BOOLEAN, at : BOOLEAN, ttl : BOOLEAN]
Enqueues == {EnqueueTaskV2, EnqueueTaskUniqueV2, ScheduleTask, ScheduleTaskUnique,
             AddToGroup, AddToGroupUnique}

ASSUME NoneAssumption == None \notin Lives \cup {"zero"}
ASSUME CallersAssumption == /\ IsFiniteSet(Callers)
                            /\ MaxCalls \in Nat /\ MaxFaults \in Nat /\ GroupMaxSize \in Nat \ {0}

VARIABLES
    list,       \* what each list holds: sets of entries, an aggregate is one set
    expiry,     \* the life of each list
    ukey,       \* the unique key: None or its life
    value,      \* the key the key-value calls share: None or its life
    pc,         \* what each caller does next
    kind,       \* the enqueue it is in; task.UniqueKey and task.GroupKey stay set
    ttlRead,    \* what Update read of the life of the key
    calls,      \* calls made so far
    told,       \* the entries acknowledged, with the list each is for
    pending,    \* the aggregator's group
    dropped,    \* entries whose aggregate the aggregator was told has failed
    faults,
    timed,      \* history: lists that were given a time to live
    held,       \* history: entries told unique whose key has not expired since
    before,     \* history: held, when the current call began
    doubled,    \* history: entries told unique although before was not empty
    raced       \* history: what Updates found instead of a time left: "vanished", "rounded"

vars == <<list, expiry, ukey, value, pc, kind, ttlRead, calls, told, pending,
          dropped, faults, timed, held, before, doubled, raced>>

history == <<timed, held, before, doubled, raced>>
Entry(c) == <<c, calls[c]>>
(* The list enqueueTask chooses; a task with a group key goes to its group.*)
Target(k) == IF k.group THEN "group" ELSE IF k.at THEN "scheduled" ELSE "queue"

Go(c, at) == pc' = [pc EXCEPT ![c] = at]

---------------------------------------------------------------------------
Init ==
    /\ list = [l \in Lists |-> {}]
    /\ expiry = [l \in Lists |-> "forever"]
    /\ ukey = None /\ value = None
    /\ pc = [c \in Callers |-> "idle"]
    /\ kind = [c \in Callers |-> EnqueueTaskV2]
    /\ ttlRead = [c \in Callers |-> None]
    /\ calls = [c \in Callers |-> 0]
    /\ told = {} /\ pending = {} /\ dropped = {}
    /\ faults = 0
    /\ timed = {} /\ held = {} /\ doubled = {} /\ raced = {}
    /\ before = [c \in Callers |-> {}]

Call(c) == /\ pc[c] = "idle"
           /\ calls[c] < MaxCalls
           /\ calls' = [calls EXCEPT ![c] = @ + 1]

Again(k, old) == Kind(k.unique \/ old.unique, k.group \/ old.group, k.at, k.ttl)

(* An enqueue begins.  A caller that hands in the same task again hands it *)
(* in with the unique key and the group key that are set on it.            *)
BeginEnqueue(c) ==
    /\ Call(c)
    /\ \E k \in Enqueues, again \in BOOLEAN :
         LET task == IF again THEN Again(k, kind[c]) ELSE k
         IN  /\ kind' = [kind EXCEPT ![c] = task]
             /\ Go(c, IF task.unique THEN "exists" ELSE "push")
    /\ before' = [before EXCEPT ![c] = held]
    /\ UNCHANGED <<list, expiry, ukey, value, ttlRead, told, pending, dropped, faults,
                   timed, held, doubled, raced>>

(* EXISTS on the unique key.                                               *)
CheckUnique(c) ==
    /\ pc[c] = "exists"
    /\ Go(c, IF ukey = None THEN "push" ELSE "idle")
    /\ UNCHANGED <<list, expiry, ukey, value, kind, ttlRead, calls, told, pending, dropped,
                   faults, history>>

Acknowledge(c) ==
    /\ Go(c, "idle")
    /\ told' = told \cup {<<Entry(c), Target(kind[c])>>}
    /\ IF kind[c].unique
         THEN /\ held' = held \cup {Entry(c)}
              /\ doubled' = IF before[c] \cap held # {} THEN doubled \cup {Entry(c)} ELSE doubled
         ELSE UNCHANGED <<held, doubled>>

(* The last command of a pipeline is answered, or executed and its answer  *)
(* is lost with the connection: the call returns an error.                 *)
Answer(c) ==
    \/ Acknowledge(c) /\ UNCHANGED faults
    \/ /\ faults < MaxFaults
       /\ faults' = faults + 1
       /\ Go(c, "idle")
       /\ UNCHANGED <<told, held, doubled>>

(* The pipeline, command by command: RPUSH or ZADD ...                     *)
Push(c) ==
    /\ pc[c] = "push"
    /\ list' = [list EXCEPT ![Target(kind[c])] = @ \cup {{Entry(c)}}]
    /\ IF kind[c].ttl \/ kind[c].unique
         THEN /\ Go(c, IF kind[c].ttl THEN "expire" ELSE "setkey")
              /\ UNCHANGED <<told, held, doubled, faults>>
         ELSE Answer(c)
    /\ UNCHANGED <<expiry, ukey, value, kind, ttlRead, calls, pending, dropped,
                   timed, before, raced>>

(* ... EXPIRE of the whole list, when there is still one ...               *)
SetExpiryQueue(c) ==        \* expires the task's queue wherever the task is
    /\ pc[c] = "expire"
    /\ expiry' = [expiry EXCEPT !["queue"] = "ttl"]
    /\ timed' = timed \cup {Target(kind[c])}
    /\ Go(c, "setkey")
    /\ UNCHANGED <<list, ukey, value, kind, ttlRead, calls, told, pending, dropped, faults,
                   held, before, doubled, raced>>
SetExpiry(c) ==
    /\ pc[c] = "expire"
    /\ IF list[Target(kind[c])] # {}
         THEN expiry' = [expiry EXCEPT ![Target(kind[c])] = "ttl"]
         ELSE UNCHANGED expiry
    /\ timed' = timed \cup {Target(kind[c])}
    /\ Go(c, "setkey")
    /\ UNCHANGED <<list, ukey, value, kind, ttlRead, calls, told, pending, dropped, faults,
                   held, before, doubled, raced>>

(* ... and SET of the unique key, for ever when the TTL is zero.           *)
SetUniqueForgets(c) ==      \* checks the unique key and never sets it
    /\ pc[c] = "setkey"
    /\ Answer(c)
    /\ UNCHANGED <<list, expiry, ukey, value, kind, ttlRead, calls, pending, dropped,
                   timed, before, raced>>
SetUnique(c) ==
    /\ pc[c] = "setkey"
    /\ ukey' = IF kind[c].ttl THEN "ttl" ELSE "forever"
    /\ Answer(c)
    /\ UNCHANGED <<list, expiry, value, kind, ttlRead, calls, pending, dropped,
                   timed, before, raced>>

---------------------------------------------------------------------------
(* The aggregator.  AddTask and checkGroups hold its mutex to the end, the *)
(* enqueue included.  An enqueue that fails may have left the aggregate in *)
(* the queue, its answer lost; the group is forgotten either way.          *)
processGroup(entries) ==
    LET pushed == [list EXCEPT !["queue"] = @ \cup {entries}]
    IN  \/ /\ list' = pushed
           /\ UNCHANGED <<dropped, faults>>
        \/ /\ faults < MaxFaults
           /\ faults' = faults + 1
           /\ dropped' = dropped \cup entries
           /\ list' \in {list, pushed}

AddTaskKeeps(c) ==      \* the group is not deleted when it is full
    /\ Call(c)
    /\ LET entries == pending \cup {<<c, calls[c] + 1>>}
       IN  /\ pending' = entries
           /\ told' = told \cup {<<<<c, calls[c] + 1>>, "queue">>}
           /\ IF Cardinality(entries) >= GroupMaxSize THEN processGroup(entries)
              ELSE UNCHANGED <<list, dropped, faults>>
    /\ UNCHANGED <<expiry, ukey, value, pc, kind, ttlRead, history>>
AddTask(c) ==
    /\ Call(c)
    /\ LET entries == pending \cup {<<c, calls[c] + 1>>}
       IN  /\ told' = told \cup {<<<<c, calls[c] + 1>>, "queue">>}
           /\ IF Cardinality(entries) >= GroupMaxSize
                THEN processGroup(entries) /\ pending' = {}
                ELSE pending' = entries /\ UNCHANGED <<list, dropped, faults>>
    /\ UNCHANGED <<expiry, ukey, value, pc, kind, ttlRead, history>>

(* The ticker finds the group's grace period or maximum delay over.        *)
checkGroups ==
    /\ pending # {}
    /\ processGroup(pending)
    /\ pending' = {}
    /\ UNCHANGED <<expiry, ukey, value, pc, kind, ttlRead, calls, told, history>>

---------------------------------------------------------------------------
(* Key-value operations on one key; every Set and Archive has a TTL.       *)
Set(c) ==
    /\ Call(c)
    /\ value' = "ttl"
    /\ UNCHANGED <<list, expiry, ukey, pc, kind, ttlRead, told, pending, dropped, faults, history>>
SetWithExpiration(c) ==
    /\ Call(c)
    /\ value' = IF value = None THEN "ttl" ELSE value
    /\ UNCHANGED <<list, expiry, ukey, pc, kind, ttlRead, told, pending, dropped, faults, history>>
Delete(c) ==
    /\ Call(c)
    /\ value' = None
    /\ UNCHANGED <<list, expiry, ukey, pc, kind, ttlRead, told, pending, dropped, faults, history>>
UpdateExpiration(c) ==
    /\ Call(c)
    /\ value' = IF value = None THEN None ELSE "ttl"
    /\ UNCHANGED <<list, expiry, ukey, pc, kind, ttlRead, told, pending, dropped, faults, history>>

(* Update: EXISTS, then TTL, then SET with what TTL said: no limit keeps   *)
(* the key's own (KEEPTTL); a key that has vanished in between has a       *)
(* negative TTL, which SET takes as none, and so it does the 0 of a key    *)
(* with less than half a second left.                                      *)
UpdateExists(c) ==
    /\ Call(c)
    /\ Go(c, IF value = None THEN "idle" ELSE "ttl")
    /\ UNCHANGED <<list, expiry, ukey, value, kind, ttlRead, told, pending, dropped, faults, history>>
UpdateTTL(c) ==
    /\ pc[c] = "ttl"
    /\ \E ttl \in IF value = "ttl" THEN {"ttl", "zero"} ELSE {value} :
         /\ ttlRead' = [ttlRead EXCEPT ![c] = ttl]
         /\ raced' = raced \cup (IF ttl = None THEN {"vanished"} ELSE {})
                           \cup (IF ttl = "zero" THEN {"rounded"} ELSE {})
    /\ Go(c, "set")
    /\ UNCHANGED <<list, expiry, ukey, value, kind, calls, told, pending, dropped, faults,
                   timed, held, before, doubled>>
UpdateSetPlain(c) ==        \* does not pass the TTL on
    /\ pc[c] = "set"
    /\ value' = "forever"
    /\ Go(c, "idle")
    /\ UNCHANGED <<list, expiry, ukey, kind, ttlRead, calls, told, pending, dropped, faults, history>>
UpdateSet(c) ==
    /\ pc[c] = "set"
    /\ value' = CASE ttlRead[c] = "ttl"     -> "ttl"
                  [] ttlRead[c] = "forever" -> IF value = None THEN "forever" ELSE value
                  [] OTHER                  -> "forever"
    /\ Go(c, "idle")
    /\ UNCHANGED <<list, expiry, ukey, kind, ttlRead, calls, told, pending, dropped, faults, history>>

---------------------------------------------------------------------------
(* The environment: a list, the unique key or the key expires, and the     *)
(* connection of a call breaks: the call returns an error.                 *)
ListExpires(l) ==
    /\ expiry[l] = "ttl"
    /\ list' = [list EXCEPT ![l] = {}]
    /\ expiry' = [expiry EXCEPT ![l] = "forever"]
    /\ UNCHANGED <<ukey, value, pc, kind, ttlRead, calls, told, pending, dropped, faults, history>>

UniqueExpires ==
    /\ ukey = "ttl"
    /\ ukey' = None
    /\ held' = {}
    /\ UNCHANGED <<list, expiry, value, pc, kind, ttlRead, calls, told, pending, dropped, faults,
                   timed, before, doubled, raced>>

ValueExpires ==
    /\ value = "ttl"
    /\ value' = None
    /\ UNCHANGED <<list, expiry, ukey, pc, kind, ttlRead, calls, told, pending, dropped, faults, history>>

Break(c) ==
    /\ pc[c] # "idle"
    /\ faults < MaxFaults
    /\ faults' = faults + 1
    /\ Go(c, "idle")
    /\ UNCHANGED <<list, expiry, ukey, value, kind, ttlRead, calls, told, pending, dropped, history>>

Idle == /\ \A c \in Callers : pc[c] = "idle" /\ calls[c] = MaxCalls
        /\ UNCHANGED vars

enqueueTask(c) == BeginEnqueue(c) \/ CheckUnique(c) \/ Push(c) \/ SetExpiry(c) \/ SetUnique(c)
Update(c) == UpdateExists(c) \/ UpdateTTL(c) \/ UpdateSet(c)

Next ==
    \/ \E c \in Callers : \/ enqueueTask(c) \/ AddTask(c) \/ Set(c) \/ SetWithExpiration(c)
                          \/ Delete(c) \/ UpdateExpiration(c) \/ Update(c) \/ Break(c)
    \/ \E l \in Lists : ListExpires(l)
    \/ checkGroups \/ UniqueExpires \/ ValueExpires \/ Idle

Spec == Init /\ [][Next]_vars

---------------------------------------------------------------------------
Stored(e)  == \E l \in Lists : \E s \in list[l] : e \in s

TypeOK ==
    /\ list \in [Lists -> SUBSET SUBSET Entries]
    /\ expiry \in [Lists -> Lives]
    /\ ukey \in Lives \cup {None} /\ value \in Lives \cup {None}
    /\ pc \in [Callers -> {"idle", "exists", "push", "expire", "setkey", "ttl", "set"}]
    /\ kind \in [Callers -> Kinds]
    /\ ttlRead \in [Callers -> Lives \cup {None, "zero"}]
    /\ calls \in [Callers -> 0..MaxCalls]
    /\ told \subseteq Entries \X Lists /\ pending \subseteq Entries /\ dropped \subseteq Entries
    /\ faults \in 0..MaxFaults
    /\ timed \subseteq Lists
    /\ held \subseteq Entries /\ before \in [Callers -> SUBSET Entries] /\ doubled \subseteq Entries
    /\ raced \subseteq {"vanished", "rounded"}

(* An acknowledged task is in a list or waits in its group; it is lost     *)
(* only with an aggregate that failed, or once some unique task has put a  *)
(* time to live on the whole list.                                         *)
LostOnlyToTTL ==
    \A t \in told : Stored(t[1]) \/ t[1] \in pending \cup dropped \/ t[2] \in timed

(* The aggregator has each task in one place: its group, or one aggregate  *)
(* in the queue, be it one that it was told has failed; a group that was   *)
(* handed on does not come back, and none outgrows GroupMaxSize.           *)
OnePlace ==
    /\ \A s, t \in list["queue"] : s # t => s \cap t = {}
    /\ pending \cap (dropped \cup UNION list["queue"]) = {}
    /\ Cardinality(pending) < GroupMaxSize

(* Why the last one holds: an entry that is anywhere belongs to a call that *)
(* was made, and not to one that has yet to push it.                       *)
Placed == (UNION list["queue"]) \cup pending \cup dropped
PlacedArePast ==
    \A c \in Callers : \A n \in 1..MaxCalls :
       <<c, n>> \in Placed => n <= calls[c] /\ (n = calls[c] => pc[c] \notin {"exists", "push"})

(* Why LostOnlyToTTL holds: tasks stay in the list they were meant for.    *)
In(e, l) == \E s \in list[l] : e \in s
ToldIsKept ==
    \A t \in told : \/ In(t[1], t[2])
                    \/ t[2] = "queue" /\ t[1] \in pending \cup dropped
                    \/ t[2] \in timed
PushedIsKept ==
    \A c \in Callers : pc[c] \in {"expire", "setkey"} =>
       In(Entry(c), Target(kind[c])) \/ Target(kind[c]) \in timed
ExpiryIsTimed == \A l \in Lists : expiry[l] = "ttl" => l \in timed

(* Two unique enqueues are both acknowledged within one life of the key    *)
(* only if they overlapped: one that begins after the other was            *)
(* acknowledged is refused.                                                *)
NoLateDuplicate == doubled = {}

(* Why: whoever holds the key is known to have finished, and the key is    *)
(* there; who has seen no key began when nobody held it, or the holders    *)
(* have lost it since.                                                     *)
Finished(e) == e[2] <= calls[e[1]] /\ (e[2] = calls[e[1]] => pc[e[1]] = "idle")
HoldersFinished ==
    /\ held # {} => ukey # None
    /\ \A e \in held : Finished(e)
    /\ \A c \in Callers : \A e \in before[c] : Finished(e)
SeenNoKey ==
    \A c \in Callers : pc[c] \in {"push", "expire", "setkey"} /\ kind[c].unique
                          => before[c] \cap held = {}

(* The key, always given a time to live, loses it only to an Update which  *)
(* found the time run out, or so short that it was rounded to 0.           *)
MortalKey == value = "forever" => raced # {}

(* Why: so does the life an Update has read.                               *)
ReadIsMortal == \A c \in Callers : pc[c] = "set" /\ ttlRead[c] # "ttl" => raced # {}

(* Does not hold, for the rounding.  "Update updates an existing value by  *)
(* key while preserving its current TTL" (operations.go:114): a key would  *)
(* lose its time to live only by being written back after it had vanished. *)
TTLPreserved == value = "forever" => "vanished" \in raced

(* A caller that is not idle is in a call.                                 *)
InCall == \A c \in Callers : pc[c] # "idle" => calls[c] >= 1

TaskInv == /\ TypeOK /\ InCall
           /\ PlacedArePast /\ OnePlace
           /\ ToldIsKept /\ PushedIsKept /\ ExpiryIsTimed
           /\ HoldersFinished /\ SeenNoKey /\ NoLateDuplicate
           /\ MortalKey /\ ReadIsMortal

(* Does not hold, for calls that overlap.  "A task is considered unique":  *)
(* at most one would be acknowledged in one life of the key.               *)
UniqueOnce == Cardinality(held) <= 1
===============================================================================
