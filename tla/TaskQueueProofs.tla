---------------------------- MODULE TaskQueueProofs ----------------------------
(***************************************************************************)
(* Theorems about TaskQueue, for every set of callers, every number of     *)
(* calls and every group size.  TaskInv is inductive; each lemma below     *)
(* follows one part of it through the actions that can disturb it.         *)
(***************************************************************************)
EXTENDS TaskQueue, FiniteSetTheorems, TLAPS

LEMMA EnqueueKinds == Enqueues \subseteq Kinds
<1>1. \A u, g, a, t \in BOOLEAN : Kind(u, g, a, t) \in Kinds
  BY Zenon DEF Kind, Kinds
<1> QED
  BY <1>1 DEF Enqueues, EnqueueTaskV2, EnqueueTaskUniqueV2, ScheduleTask, ScheduleTaskUnique,
              AddToGroup, AddToGroupUnique

LEMMA AgainKinds ==
  ASSUME NEW k \in Kinds, NEW old \in Kinds
  PROVE  Again(k, old) \in Kinds
<1>1. \A u, g, a, t \in BOOLEAN : Kind(u, g, a, t) \in Kinds
  BY Zenon DEF Kind, Kinds
<1>2. /\ k.unique \in BOOLEAN /\ k.group \in BOOLEAN /\ k.at \in BOOLEAN /\ k.ttl \in BOOLEAN
      /\ old.unique \in BOOLEAN /\ old.group \in BOOLEAN
  BY Zenon DEF Kinds
<1>3. (k.unique \/ old.unique) \in BOOLEAN /\ (k.group \/ old.group) \in BOOLEAN
  OBVIOUS
<1> QED
  BY Zenon, <1>1, <1>2, <1>3 DEF Again

LEMMA InitHolds == Init => TaskInv
<1> SUFFICES ASSUME Init PROVE TaskInv
  OBVIOUS
<1> USE CallersAssumption, NoneAssumption
<1> USE DEF Init, Lists, Lives
<1>1. TypeOK /\ InCall
  <2>1. EnqueueTaskV2 \in Kinds
    BY EnqueueKinds DEF Enqueues
  <2>2. kind \in [Callers -> Kinds]
    BY <2>1
  <2>3. raced \subseteq {"vanished", "rounded"}
    OBVIOUS
  <2>4. /\ list \in [Lists -> SUBSET SUBSET Entries] /\ expiry \in [Lists -> Lives]
        /\ before \in [Callers -> SUBSET Entries]
    OBVIOUS
  <2> QED
    BY <2>2, <2>3, <2>4 DEF TypeOK, InCall
<1>2. PlacedArePast
  BY DEF PlacedArePast, Placed
<1>3. OnePlace
  <2>1. Cardinality(pending) = 0
    BY FS_EmptySet
  <2> QED
    BY <2>1 DEF OnePlace
<1>4. ToldIsKept /\ PushedIsKept /\ ExpiryIsTimed
  BY DEF ToldIsKept, PushedIsKept, ExpiryIsTimed
<1>5. HoldersFinished /\ SeenNoKey /\ NoLateDuplicate /\ MortalKey /\ ReadIsMortal
  BY DEF HoldersFinished, SeenNoKey, NoLateDuplicate, MortalKey, ReadIsMortal
<1> QED
  BY <1>1, <1>2, <1>3, <1>4, <1>5 DEF TaskInv

(* An entry of a caller that is in a call, or begins one, is an entry.     *)
LEMMA EntryIsEntry ==
  ASSUME TypeOK, InCall, NEW c \in Callers
  PROVE  /\ pc[c] # "idle" => Entry(c) \in Entries
         /\ calls[c] < MaxCalls => <<c, calls[c] + 1>> \in Entries
BY CallersAssumption DEF TypeOK, InCall, Entry, Entries

LEMMA TargetIsList ==
  ASSUME TypeOK, NEW c \in Callers
  PROVE  Target(kind[c]) \in Lists
BY DEF TypeOK, Target, Lists

LEMMA GroupTypes ==
  ASSUME TypeOK, NEW entries \in SUBSET Entries, processGroup(entries)
  PROVE  /\ list' \in [Lists -> SUBSET SUBSET Entries]
         /\ dropped' \subseteq Entries /\ faults' \in 0..MaxFaults
<1>1. [list EXCEPT !["queue"] = @ \cup {entries}] \in [Lists -> SUBSET SUBSET Entries]
  BY DEF TypeOK
<1>2. list' \in {list, [list EXCEPT !["queue"] = @ \cup {entries}]}
  BY DEF processGroup
<1>3. dropped' \subseteq Entries /\ faults' \in 0..MaxFaults
  BY CallersAssumption DEF processGroup, TypeOK
<1> QED
  BY <1>1, <1>2, <1>3 DEF TypeOK

(* Every variable keeps its type.                                          *)
LEMMA TypeStep ==
  ASSUME TypeOK, InCall, [Next]_vars
  PROVE  TypeOK' /\ InCall'
<1> USE CallersAssumption, NoneAssumption, EntryIsEntry, TargetIsList
<1> USE DEF TypeOK, InCall, Lives
<1>1. ASSUME NEW c \in Callers, BeginEnqueue(c)
      PROVE  TypeOK' /\ InCall'
  <2>1. ASSUME NEW k \in Enqueues
        PROVE  k \in Kinds /\ Again(k, kind[c]) \in Kinds
    BY EnqueueKinds, AgainKinds
  <2>2. kind' \in [Callers -> Kinds]
    BY <1>1, <2>1 DEF BeginEnqueue
  <2>3. pc' \in [Callers -> {"idle", "exists", "push", "expire", "setkey", "ttl", "set"}]
    BY <1>1 DEF BeginEnqueue, Go
  <2> QED
    BY <1>1, <2>2, <2>3 DEF BeginEnqueue, Call, Go
<1>2. ASSUME NEW c \in Callers, CheckUnique(c)
      PROVE  TypeOK' /\ InCall'
  BY <1>2 DEF CheckUnique, Go, history
<1>3. ASSUME NEW c \in Callers, Push(c)
      PROVE  TypeOK' /\ InCall'
  <2>e. Entry(c) \in Entries /\ Target(kind[c]) \in Lists
    BY <1>3 DEF Push
  <2>1. list' \in [Lists -> SUBSET SUBSET Entries]
    <3>1. (list[Target(kind[c])] \cup {{Entry(c)}}) \in SUBSET SUBSET Entries
      BY <2>e
    <3> QED
      BY <1>3, <2>e, <3>1 DEF Push
  <2>2. told' \subseteq Entries \X Lists
    BY <1>3, <2>e DEF Push, Answer, Acknowledge
  <2>3. held' \subseteq Entries /\ doubled' \subseteq Entries
    BY <1>3, <2>e DEF Push, Answer, Acknowledge
  <2>4. /\ pc' \in [Callers -> {"idle", "exists", "push", "expire", "setkey", "ttl", "set"}]
        /\ InCall'
    BY <1>3 DEF Push, Answer, Acknowledge, Go
  <2>5. faults' \in 0..MaxFaults
    BY <1>3 DEF Push, Answer
  <2> QED
    BY <1>3, <2>1, <2>2, <2>3, <2>4, <2>5 DEF Push
<1>4. ASSUME NEW c \in Callers, SetExpiry(c)
      PROVE  TypeOK' /\ InCall'
  BY <1>4 DEF SetExpiry, Go
<1>5. ASSUME NEW c \in Callers, SetUnique(c)
      PROVE  TypeOK' /\ InCall'
  <2>e. Entry(c) \in Entries /\ Target(kind[c]) \in Lists
    BY <1>5 DEF SetUnique
  <2>1. told' \subseteq Entries \X Lists
    BY <1>5, <2>e DEF SetUnique, Answer, Acknowledge
  <2>2. held' \subseteq Entries /\ doubled' \subseteq Entries
    BY <1>5, <2>e DEF SetUnique, Answer, Acknowledge
  <2>3. /\ pc' \in [Callers -> {"idle", "exists", "push", "expire", "setkey", "ttl", "set"}]
        /\ InCall'
    BY <1>5 DEF SetUnique, Answer, Acknowledge, Go
  <2>4. faults' \in 0..MaxFaults
    BY <1>5 DEF SetUnique, Answer
  <2> QED
    BY <1>5, <2>1, <2>2, <2>3, <2>4 DEF SetUnique
<1>6. ASSUME NEW c \in Callers, AddTask(c)
      PROVE  TypeOK' /\ InCall'
  <2>1. told' \subseteq Entries \X Lists
    BY <1>6 DEF AddTask, Call, Lists
  <2>2. <<c, calls[c] + 1>> \in Entries
    BY <1>6 DEF AddTask, Call
  <2>3. ASSUME processGroup(pending \cup {<<c, calls[c] + 1>>})
        PROVE  /\ list' \in [Lists -> SUBSET SUBSET Entries]
               /\ dropped' \subseteq Entries /\ faults' \in 0..MaxFaults
    BY <2>2, <2>3, GroupTypes
  <2> QED
    BY <1>6, <2>1, <2>2, <2>3 DEF AddTask, Call, history
<1>7. ASSUME NEW c \in Callers,
             Set(c) \/ SetWithExpiration(c) \/ Delete(c) \/ UpdateExpiration(c)
      PROVE  TypeOK' /\ InCall'
  <2>1. /\ UNCHANGED <<list, expiry, ukey, pc, kind, ttlRead, told, pending, dropped, faults,
                       timed, held, before, doubled, raced>>
        /\ calls[c] < MaxCalls /\ calls' = [calls EXCEPT ![c] = @ + 1]
    BY <1>7 DEF Set, SetWithExpiration, Delete, UpdateExpiration, Call, history
  <2>2. value' \in Lives \cup {None}
    BY <1>7 DEF Set, SetWithExpiration, Delete, UpdateExpiration
  <2>3. calls' \in [Callers -> 0..MaxCalls]
    BY <2>1
  <2>4. InCall'
    BY <2>1
  <2> QED
    BY <2>1, <2>2, <2>3, <2>4
<1>8. ASSUME NEW c \in Callers, Update(c)
      PROVE  TypeOK' /\ InCall'
  <2>1. CASE UpdateExists(c)
    BY <2>1 DEF UpdateExists, Call, Go, history
  <2>2. CASE UpdateTTL(c)
    <3>1. ttlRead' \in [Callers -> Lives \cup {None, "zero"}]
      BY <2>2 DEF UpdateTTL
    <3>2. raced' \subseteq {"vanished", "rounded"}
      BY <2>2 DEF UpdateTTL
    <3> QED
      BY <2>2, <3>1, <3>2 DEF UpdateTTL, Go
  <2>3. CASE UpdateSet(c)
    BY <2>3 DEF UpdateSet, Go, history
  <2> QED
    BY <1>8, <2>1, <2>2, <2>3 DEF Update
<1>9. ASSUME NEW c \in Callers, Break(c)
      PROVE  TypeOK' /\ InCall'
  BY <1>9 DEF Break, Go, history
<1>10. ASSUME NEW l \in Lists, ListExpires(l)
       PROVE  TypeOK' /\ InCall'
  BY <1>10 DEF ListExpires, history
<1>11. CASE checkGroups
  <2>1. /\ list' \in [Lists -> SUBSET SUBSET Entries]
        /\ dropped' \subseteq Entries /\ faults' \in 0..MaxFaults
    BY <1>11, GroupTypes DEF checkGroups
  <2> QED
    BY <1>11, <2>1 DEF checkGroups, history
<1>12. CASE UniqueExpires \/ ValueExpires
  BY <1>12 DEF UniqueExpires, ValueExpires, history
<1>13. CASE UNCHANGED vars
  BY <1>13 DEF vars
<1> QED
  BY <1>1, <1>2, <1>3, <1>4, <1>5, <1>6, <1>7, <1>8, <1>9, <1>10, <1>11, <1>12, <1>13
     DEF Next, enqueueTask, Idle

---------------------------------------------------------------------------
(* The step that leaves every task where it is, and lets callers go on.    *)
LEMMA PlacesStay ==
  ASSUME TypeOK, PlacedArePast, OnePlace, NEW c \in Callers,
         list'["queue"] = list["queue"], UNCHANGED <<pending, dropped>>,
         \/ UNCHANGED <<calls, pc>>
         \/ /\ calls[c] < MaxCalls /\ calls' = [calls EXCEPT ![c] = @ + 1]
            /\ \A d \in Callers : d # c => pc'[d] = pc[d]
         \/ /\ UNCHANGED calls
            /\ pc[c] # "idle" /\ (pc'[c] \in {"exists", "push"} => pc[c] \in {"exists", "push"})
            /\ \A d \in Callers : d # c => pc'[d] = pc[d]
  PROVE  PlacedArePast' /\ OnePlace'
<1>1. OnePlace'
  BY DEF OnePlace
<1>2. Placed' = Placed
  BY DEF Placed
<1>3. PlacedArePast'
  <2> SUFFICES ASSUME NEW d \in Callers, NEW n \in 1..MaxCalls, <<d, n>> \in Placed
               PROVE  n <= calls'[d] /\ (n = calls'[d] => pc'[d] \notin {"exists", "push"})
    BY <1>2 DEF PlacedArePast
  <2>1. n <= calls[d] /\ (n = calls[d] => pc[d] \notin {"exists", "push"})
    BY DEF PlacedArePast
  <2> QED
    BY <2>1, CallersAssumption DEF TypeOK
<1> QED
  BY <1>1, <1>3

(* What happens to the group of the aggregator when entries are handed on. *)
LEMMA GroupStep ==
  ASSUME TypeOK, OnePlace, NEW entries \in SUBSET Entries,
         entries \cap UNION list["queue"] = {},
         processGroup(entries), pending' = {}
  PROVE  OnePlace' /\ Placed' \subseteq Placed \cup entries
<1> USE CallersAssumption
<1>1. Cardinality({}) = 0
  BY FS_EmptySet
<1>2. list'["queue"] \in {list["queue"], list["queue"] \cup {entries}}
  BY DEF processGroup, TypeOK, Lists
<1>3. dropped' \in {dropped, dropped \cup entries}
  BY DEF processGroup
<1>4. OnePlace'
  BY <1>1, <1>2 DEF OnePlace
<1>5. Placed' \subseteq Placed \cup entries
  BY <1>2, <1>3 DEF Placed
<1> QED
  BY <1>4, <1>5

LEMMA EntriesFinite == IsFiniteSet(Entries)
<1>1. IsFiniteSet(1..MaxCalls)
  BY FS_Interval, CallersAssumption
<1>2. IsFiniteSet(Callers)
  BY CallersAssumption
<1> QED
  BY <1>1, <1>2, FS_Product DEF Entries

(* A task is in one place, and in none before it is pushed.                *)
LEMMA PlaceStep ==
  ASSUME TypeOK, InCall, PlacedArePast, OnePlace, [Next]_vars
  PROVE  PlacedArePast' /\ OnePlace'
<1> USE CallersAssumption
<1>1. ASSUME NEW c \in Callers,
             BeginEnqueue(c) \/ CheckUnique(c) \/ SetExpiry(c) \/ SetUnique(c)
      PROVE  PlacedArePast' /\ OnePlace'
  BY <1>1, PlacesStay
     DEF BeginEnqueue, CheckUnique, SetExpiry, SetUnique, Answer, Acknowledge, Call, Go, TypeOK, history
<1>2. ASSUME NEW c \in Callers, Push(c)
      PROVE  PlacedArePast' /\ OnePlace'
  <2>1. Target(kind[c]) \in Lists /\ Entry(c) \in Entries /\ calls[c] \in 1..MaxCalls
    <3>1. pc[c] # "idle" /\ calls[c] \in 0..MaxCalls /\ calls[c] >= 1
      BY <1>2 DEF Push, InCall, TypeOK
    <3>2. calls[c] \in 1..MaxCalls
      BY <3>1
    <3> QED
      BY <3>1, <3>2, EntryIsEntry, TargetIsList
  <2>2. Entry(c) \notin Placed
    BY <1>2, <2>1 DEF Push, PlacedArePast, Entry
  <2>3. \/ list'["queue"] = list["queue"]
        \/ list'["queue"] = list["queue"] \cup {{Entry(c)}}
    BY <1>2, <2>1 DEF Push, TypeOK
  <2>4. /\ UNCHANGED <<calls, pending, dropped>>
        /\ pc'[c] \notin {"exists", "push"} /\ \A d \in Callers : d # c => pc'[d] = pc[d]
    BY <1>2 DEF Push, Answer, Acknowledge, Go, TypeOK
  <2>5. OnePlace'
    <3>1. \A s \in list["queue"] : {Entry(c)} \cap s = {}
      BY <2>2 DEF Placed
    <3>2. {Entry(c)} \cap (pending \cup dropped) = {}
      BY <2>2 DEF Placed
    <3>3. \A s \in list'["queue"] : s \in list["queue"] \/ s = {Entry(c)}
      BY <2>3
    <3>4. \A s, t \in list'["queue"] : s # t => s \cap t = {}
      BY <3>1, <3>3 DEF OnePlace
    <3>5. pending' \cap (dropped' \cup UNION list'["queue"]) = {}
      BY <2>4, <3>2, <3>3 DEF OnePlace
    <3> QED
      BY <2>4, <3>4, <3>5 DEF OnePlace
  <2>6. Placed' \subseteq Placed \cup {Entry(c)}
    BY <2>3, <2>4 DEF Placed
  <2>7. PlacedArePast'
    BY <2>4, <2>6 DEF PlacedArePast, Entry
  <2> QED
    BY <2>5, <2>7
<1>3. ASSUME NEW c \in Callers, AddTask(c)
      PROVE  PlacedArePast' /\ OnePlace'
  <2> DEFINE e == <<c, calls[c] + 1>>
             entries == pending \cup {e}
  <2>1. e \in Entries /\ calls[c] \in Nat
    BY <1>3, EntryIsEntry DEF AddTask, Call, TypeOK
  <2>2. e \notin Placed
    BY <2>1 DEF PlacedArePast, Entries
  <2>3. /\ entries \in SUBSET Entries
        /\ entries \cap UNION list["queue"] = {} /\ entries \cap dropped = {}
    BY <2>1, <2>2 DEF TypeOK, OnePlace, Placed
  <2>4. OnePlace' /\ Placed' \subseteq Placed \cup {e}
    <3>1. CASE processGroup(entries) /\ pending' = {}
      <4>1. OnePlace' /\ Placed' \subseteq Placed \cup entries
        BY <3>1, <2>3, GroupStep
      <4> QED
        BY <4>1 DEF Placed
    <3>2. CASE /\ ~(Cardinality(entries) >= GroupMaxSize)
               /\ pending' = entries /\ UNCHANGED <<list, dropped>>
      <4>1. Cardinality(entries) \in Nat
        BY <2>3, EntriesFinite, FS_Subset, FS_CardinalityType
      <4>2. Cardinality(entries) < GroupMaxSize
        BY <3>2, <4>1
      <4> QED
        BY <2>3, <3>2, <4>2 DEF OnePlace, Placed
    <3> QED
      BY <1>3, <3>1, <3>2 DEF AddTask
  <2>5. PlacedArePast'
    <3> SUFFICES ASSUME NEW d \in Callers, NEW n \in 1..MaxCalls, <<d, n>> \in Placed'
                 PROVE  n <= calls'[d] /\ (n = calls'[d] => pc'[d] \notin {"exists", "push"})
      BY DEF PlacedArePast
    <3>1. <<d, n>> \in Placed => n <= calls[d] /\ (n = calls[d] => pc[d] \notin {"exists", "push"})
      BY DEF PlacedArePast
    <3>2. <<d, n>> \in Placed \/ (d = c /\ n = calls[c] + 1)
      BY <2>4
    <3> QED
      BY <1>3, <2>1, <3>1, <3>2 DEF AddTask, Call, TypeOK
  <2> QED
    BY <2>4, <2>5
<1>4. ASSUME NEW c \in Callers,
             Set(c) \/ SetWithExpiration(c) \/ Delete(c) \/ UpdateExpiration(c)
      PROVE  PlacedArePast' /\ OnePlace'
  BY <1>4, PlacesStay DEF Set, SetWithExpiration, Delete, UpdateExpiration, Call
<1>5. ASSUME NEW c \in Callers, Update(c) \/ Break(c)
      PROVE  PlacedArePast' /\ OnePlace'
  BY <1>5, PlacesStay
     DEF Update, UpdateExists, UpdateTTL, UpdateSet, Break, Call, Go, TypeOK
<1>6. ASSUME NEW l \in Lists, ListExpires(l)
      PROVE  PlacedArePast' /\ OnePlace'
  <2>1. list'["queue"] \subseteq list["queue"]
    BY <1>6 DEF ListExpires, TypeOK, Lists
  <2>2. Placed' \subseteq Placed /\ UNCHANGED <<calls, pc, pending, dropped>>
    BY <1>6, <2>1 DEF ListExpires, Placed
  <2> QED
    BY <2>1, <2>2 DEF PlacedArePast, OnePlace
<1>7. CASE checkGroups
  <2>1. /\ pending \in SUBSET Entries
        /\ pending \cap UNION list["queue"] = {}
    BY DEF TypeOK, OnePlace
  <2>2. OnePlace' /\ Placed' \subseteq Placed \cup pending
    BY <1>7, <2>1, GroupStep DEF checkGroups
  <2>3. Placed' \subseteq Placed /\ UNCHANGED <<calls, pc>>
    BY <1>7, <2>2 DEF checkGroups, Placed
  <2> QED
    BY <2>2, <2>3 DEF PlacedArePast
<1>8. CASE UniqueExpires \/ ValueExpires \/ UNCHANGED vars
  <2>1. UNCHANGED <<list, pending, dropped, calls, pc>>
    BY <1>8 DEF UniqueExpires, ValueExpires, vars
  <2> QED
    BY <2>1 DEF PlacedArePast, Placed, OnePlace
<1> QED
  BY <1>1, <1>2, <1>3, <1>4, <1>5, <1>6, <1>7, <1>8 DEF Next, enqueueTask, Idle

---------------------------------------------------------------------------
(* A task that is in a list, or on its way, stays unless the list has had a *)
(* time to live.                                                            *)
ListInv == ToldIsKept /\ PushedIsKept /\ ExpiryIsTimed

(* A step that empties no list and shortens no history keeps it, if what it *)
(* adds is accounted for.                                                   *)
LEMMA ListsGrow ==
  ASSUME TypeOK, ListInv, \A l \in Lists : list[l] \subseteq list'[l],
         timed \subseteq timed', dropped \subseteq dropped',
         \A e \in pending : e \in pending' \cup dropped' \/ In(e, "queue")',
         \A t \in told' : \/ t \in told \/ In(t[1], t[2])' \/ t[2] \in timed'
                          \/ t[2] = "queue" /\ t[1] \in pending' \cup dropped',
         \A c \in Callers : pc'[c] \in {"expire", "setkey"} =>
            \/ In(Entry(c), Target(kind[c]))'
            \/ /\ pc[c] \in {"expire", "setkey"} /\ calls'[c] = calls[c] /\ kind'[c] = kind[c],
         \A l \in Lists : expiry'[l] = "ttl" => expiry[l] = "ttl" \/ l \in timed'
  PROVE  ListInv'
<1>1. \A e, l : l \in Lists /\ In(e, l) => In(e, l)'
  BY DEF In
<1>2. ToldIsKept'
  <2> SUFFICES ASSUME NEW t \in told'
               PROVE  \/ In(t[1], t[2])'
                      \/ t[2] = "queue" /\ t[1] \in pending' \cup dropped'
                      \/ t[2] \in timed'
    BY DEF ToldIsKept
  <2>1. CASE t \in told
    <3>1. t[2] \in Lists
      BY <2>1 DEF TypeOK
    <3>2. \/ In(t[1], t[2])
          \/ t[2] = "queue" /\ t[1] \in pending \cup dropped
          \/ t[2] \in timed
      BY <2>1 DEF ListInv, ToldIsKept
    <3> QED
      BY <1>1, <3>1, <3>2
  <2> QED
    BY <2>1
<1>3. PushedIsKept'
  <2> SUFFICES ASSUME NEW c \in Callers, pc'[c] \in {"expire", "setkey"}
               PROVE  In(Entry(c), Target(kind[c]))' \/ Target(kind'[c]) \in timed'
    BY DEF PushedIsKept, Target
  <2>1. CASE pc[c] \in {"expire", "setkey"} /\ calls'[c] = calls[c] /\ kind'[c] = kind[c]
    <3>1. In(Entry(c), Target(kind[c])) \/ Target(kind[c]) \in timed
      BY <2>1 DEF ListInv, PushedIsKept
    <3>2. Entry(c)' = Entry(c) /\ Target(kind'[c]) = Target(kind[c])
      BY <2>1 DEF Entry
    <3> QED
      BY <1>1, <3>1, <3>2, TargetIsList
  <2> QED
    BY <2>1
<1>4. ExpiryIsTimed'
  BY DEF ListInv, ExpiryIsTimed
<1> QED
  BY <1>2, <1>3, <1>4 DEF ListInv

(* A group that is handed on is in the queue or counted as dropped.         *)
LEMMA GroupKept ==
  ASSUME TypeOK, NEW entries, processGroup(entries)
  PROVE  /\ \A l \in Lists : list[l] \subseteq list'[l]
         /\ dropped \subseteq dropped'
         /\ \A x \in entries : x \in dropped' \/ In(x, "queue")'
<1>1. list' = [list EXCEPT !["queue"] = @ \cup {entries}] \/ list' = list
  BY DEF processGroup
<1>2. \A l \in Lists : list[l] \subseteq list'[l]
  BY <1>1 DEF TypeOK
<1>3. CASE list' = [list EXCEPT !["queue"] = @ \cup {entries}] /\ UNCHANGED dropped
  <2>1. entries \in list'["queue"]
    BY <1>3 DEF TypeOK, Lists
  <2> QED
    BY <1>2, <1>3, <2>1 DEF In
<1>4. CASE dropped' = dropped \cup entries
  BY <1>2, <1>4
<1> QED
  BY <1>3, <1>4 DEF processGroup

LEMMA ListStep ==
  ASSUME TypeOK, InCall, ListInv, [Next]_vars
  PROVE  ListInv'
<1>1. ASSUME NEW c \in Callers, BeginEnqueue(c)
      PROVE  ListInv'
  <2>1. /\ UNCHANGED <<list, expiry, told, pending, dropped, timed>>
        /\ pc'[c] \in {"exists", "push"}
        /\ \A d \in Callers : d # c => pc'[d] = pc[d] /\ calls'[d] = calls[d] /\ kind'[d] = kind[d]
    BY <1>1 DEF BeginEnqueue, Call, Go, TypeOK
  <2> QED
    BY <2>1, ListsGrow
<1>2. ASSUME NEW c \in Callers, CheckUnique(c)
      PROVE  ListInv'
  <2>1. /\ UNCHANGED <<list, expiry, told, pending, dropped, timed, calls, kind>>
        /\ pc'[c] \in {"idle", "push"} /\ \A d \in Callers : d # c => pc'[d] = pc[d]
    BY <1>2 DEF CheckUnique, Go, TypeOK, history
  <2> QED
    BY <2>1, ListsGrow
<1>3. ASSUME NEW c \in Callers, Push(c)
      PROVE  ListInv'
  <2> DEFINE l == Target(kind[c])
  <2>1. l \in Lists
    BY TargetIsList
  <2>2. /\ list' = [list EXCEPT ![l] = @ \cup {{Entry(c)}}]
        /\ UNCHANGED <<expiry, pending, dropped, timed, calls, kind>>
        /\ \A d \in Callers : d # c => pc'[d] = pc[d]
        /\ told' \subseteq told \cup {<<Entry(c), l>>}
    BY <1>3 DEF Push, Answer, Acknowledge, Go, TypeOK
  <2>3. {Entry(c)} \in list'[l] /\ \A k \in Lists : list[k] \subseteq list'[k]
    BY <2>1, <2>2 DEF TypeOK
  <2>4. In(Entry(c), l)' /\ Entry(c)' = Entry(c)
    BY <2>2, <2>3 DEF In, Entry
  <2>5. \A t \in told' : t \in told \/ In(t[1], t[2])'
    BY <2>2, <2>4
  <2>6. \A d \in Callers : pc'[d] \in {"expire", "setkey"} =>
            \/ In(Entry(d), Target(kind[d]))'
            \/ /\ pc[d] \in {"expire", "setkey"} /\ calls'[d] = calls[d] /\ kind'[d] = kind[d]
    BY <2>2, <2>4
  <2> QED
    BY <2>2, <2>3, <2>5, <2>6, ListsGrow
<1>4. ASSUME NEW c \in Callers, SetExpiry(c)
      PROVE  ListInv'
  <2>1. /\ UNCHANGED <<list, told, pending, dropped, calls, kind>>
        /\ pc[c] = "expire" /\ \A d \in Callers : d # c => pc'[d] = pc[d]
        /\ timed' = timed \cup {Target(kind[c])}
    BY <1>4 DEF SetExpiry, Go, TypeOK
  <2>2. \A l \in Lists : expiry'[l] = "ttl" => expiry[l] = "ttl" \/ l \in timed'
    BY <1>4, <2>1, TargetIsList DEF SetExpiry, TypeOK
  <2> QED
    BY <2>1, <2>2, ListsGrow
<1>5. ASSUME NEW c \in Callers, SetUnique(c)
      PROVE  ListInv'
  <2>1. /\ UNCHANGED <<list, expiry, pending, dropped, timed, calls, kind>>
        /\ pc[c] = "setkey" /\ pc'[c] = "idle" /\ \A d \in Callers : d # c => pc'[d] = pc[d]
        /\ told' \subseteq told \cup {<<Entry(c), Target(kind[c])>>}
    BY <1>5 DEF SetUnique, Answer, Acknowledge, Go, TypeOK
  <2>2. In(Entry(c), Target(kind[c])) \/ Target(kind[c]) \in timed
    BY <2>1 DEF ListInv, PushedIsKept
  <2>3. \A e, l : In(e, l) => In(e, l)'
    BY <2>1 DEF In
  <2>4. \A t \in told' : t \in told \/ In(t[1], t[2])' \/ t[2] \in timed'
    <3> SUFFICES ASSUME NEW t \in told', t \notin told
                 PROVE  In(t[1], t[2])' \/ t[2] \in timed'
      OBVIOUS
    <3>1. t[1] = Entry(c) /\ t[2] = Target(kind[c])
      BY <2>1
    <3>2. In(t[1], t[2]) \/ t[2] \in timed
      BY <2>2, <3>1
    <3> QED
      BY <2>1, <2>3, <3>2
  <2> QED
    BY <2>1, <2>4, ListsGrow
<1>6. ASSUME NEW c \in Callers, AddTask(c)
      PROVE  ListInv'
  <2> DEFINE e == <<c, calls[c] + 1>>
             entries == pending \cup {e}
  <2>1. /\ UNCHANGED <<expiry, timed, pc, kind>> /\ pc[c] = "idle"
        /\ \A d \in Callers : d # c => calls'[d] = calls[d]
        /\ told' = told \cup {<<e, "queue">>}
    BY <1>6 DEF AddTask, Call, TypeOK, history
  <2>2. /\ \A l \in Lists : list[l] \subseteq list'[l]
        /\ dropped \subseteq dropped'
        /\ \A x \in entries : x \in pending' \cup dropped' \/ In(x, "queue")'
    <3>1. CASE processGroup(entries)
      BY <3>1, GroupKept
    <3>2. CASE pending' = entries /\ UNCHANGED <<list, dropped>>
      BY <3>2
    <3> QED
      BY <1>6, <3>1, <3>2 DEF AddTask
  <2>3. \A t \in told' : \/ t \in told \/ In(t[1], t[2])' \/ t[2] \in timed'
                         \/ t[2] = "queue" /\ t[1] \in pending' \cup dropped'
    <3>1. ASSUME NEW t \in told', t \notin told
          PROVE  In(t[1], t[2])' \/ (t[2] = "queue" /\ t[1] \in pending' \cup dropped')
      <4>1. t[1] = e /\ t[2] = "queue" /\ e \in entries
        BY <2>1, <3>1
      <4> QED
        BY <2>2, <4>1 DEF In
    <3> QED
      BY <3>1
  <2> QED
    BY <2>1, <2>2, <2>3, ListsGrow
<1>7. ASSUME NEW c \in Callers,
             Set(c) \/ SetWithExpiration(c) \/ Delete(c) \/ UpdateExpiration(c) \/ Update(c) \/ Break(c)
      PROVE  ListInv'
  <2>1. /\ UNCHANGED <<list, expiry, told, pending, dropped, timed, kind>>
        /\ \A d \in Callers : d # c => pc'[d] = pc[d] /\ calls'[d] = calls[d]
        /\ pc'[c] \notin {"expire", "setkey"}
    <3>1. CASE Set(c) \/ SetWithExpiration(c) \/ Delete(c) \/ UpdateExpiration(c)
      BY <1>7, <3>1
         DEF Set, SetWithExpiration, Delete, UpdateExpiration, Call, TypeOK, history
    <3>2. CASE Update(c)
      BY <3>2 DEF Update, UpdateExists, UpdateTTL, UpdateSet, Call, Go, TypeOK, history
    <3>3. CASE Break(c)
      BY <3>3 DEF Break, Go, TypeOK, history
    <3> QED
      BY <1>7, <3>1, <3>2, <3>3
  <2> QED
    BY <2>1, ListsGrow
<1>8. ASSUME NEW l \in Lists, ListExpires(l)
      PROVE  ListInv'
  <2>1. /\ l \in timed
        /\ UNCHANGED <<told, pending, dropped, timed, pc, calls, kind>>
        /\ \A k \in Lists : k # l => list'[k] = list[k] /\ expiry'[k] = expiry[k]
        /\ expiry'[l] = "forever"
    BY <1>8 DEF ListExpires, ListInv, ExpiryIsTimed, TypeOK, history
  <2>2. \A e, k : k \in Lists /\ In(e, k) => In(e, k)' \/ k \in timed'
    BY <2>1 DEF In
  <2>3. ToldIsKept'
    <3>1. \A t \in told : t[2] \in Lists
      BY DEF TypeOK
    <3> QED
      BY <2>1, <2>2, <3>1 DEF ListInv, ToldIsKept
  <2>4. PushedIsKept'
    <3>1. \A c \in Callers : Entry(c)' = Entry(c) /\ Target(kind[c])' = Target(kind[c])
      BY <2>1 DEF Entry, Target
    <3> QED
      BY <2>1, <2>2, <3>1, TargetIsList DEF ListInv, PushedIsKept
  <2>5. ExpiryIsTimed'
    BY <2>1 DEF ListInv, ExpiryIsTimed
  <2> QED
    BY <2>3, <2>4, <2>5 DEF ListInv
<1>9. CASE checkGroups
  <2>1. UNCHANGED <<expiry, timed, pc, calls, kind, told>>
    BY <1>9 DEF checkGroups, history
  <2>2. /\ \A l \in Lists : list[l] \subseteq list'[l]
        /\ dropped \subseteq dropped'
        /\ \A x \in pending : x \in pending' \cup dropped' \/ In(x, "queue")'
    BY <1>9, GroupKept DEF checkGroups
  <2> QED
    BY <2>1, <2>2, ListsGrow
<1>10. CASE UniqueExpires \/ ValueExpires \/ UNCHANGED vars
  <2>1. UNCHANGED <<list, expiry, told, pending, dropped, timed, pc, calls, kind>>
    BY <1>10 DEF UniqueExpires, ValueExpires, vars, history
  <2> QED
    BY <2>1, ListsGrow
<1> QED
  BY <1>1, <1>2, <1>3, <1>4, <1>5, <1>6, <1>7, <1>8, <1>9, <1>10 DEF Next, enqueueTask, Idle

---------------------------------------------------------------------------
(* Who holds the unique key has finished; who has seen no key began when    *)
(* nobody that still holds it had finished.                                 *)
KeyInv == HoldersFinished /\ SeenNoKey /\ NoLateDuplicate

(* A step that acknowledges nothing and starts no unique enqueue.           *)
LEMMA HoldersStay ==
  ASSUME TypeOK, KeyInv, NEW c \in Callers,
         UNCHANGED <<held, before, doubled>>, ukey = None \/ ukey' # None, kind' = kind,
         \/ UNCHANGED <<calls, pc>>
         \/ /\ pc[c] = "idle" /\ calls' = [calls EXCEPT ![c] = @ + 1]
            /\ pc' = [pc EXCEPT ![c] = pc'[c]] /\ pc'[c] \notin {"push", "expire", "setkey"}
         \/ /\ UNCHANGED calls
            /\ pc[c] # "idle" /\ pc' = [pc EXCEPT ![c] = pc'[c]]
            /\ pc'[c] \in {"push", "expire", "setkey"} /\ kind[c].unique
                  => before[c] \cap held = {}
  PROVE  KeyInv'
<1>1. ASSUME NEW e \in Entries, Finished(e)
      PROVE  Finished(e)'
  <2>1. /\ e[1] \in Callers /\ e[2] \in Nat /\ calls \in [Callers -> Nat]
        /\ e[2] <= calls[e[1]] /\ (e[2] = calls[e[1]] => pc[e[1]] = "idle")
    BY <1>1, CallersAssumption DEF Finished, Entries, TypeOK
  <2>2. e[2] <= calls'[e[1]] /\ (e[2] = calls'[e[1]] => pc'[e[1]] = "idle")
    BY <2>1 DEF TypeOK
  <2> QED
    BY <2>2 DEF Finished
<1>2. HoldersFinished'
  <2>1. \A e \in held : e \in Entries /\ Finished(e)
    BY DEF KeyInv, HoldersFinished, TypeOK
  <2>2. \A d \in Callers : \A e \in before[d] : e \in Entries /\ Finished(e)
    BY DEF KeyInv, HoldersFinished, TypeOK
  <2>3. held' # {} => ukey' # None
    BY DEF KeyInv, HoldersFinished
  <2>4. \A e \in held' : Finished(e)'
    BY <1>1, <2>1
  <2>5. \A d \in Callers : \A e \in before'[d] : Finished(e)'
    BY <1>1, <2>2
  <2> QED
    BY <2>3, <2>4, <2>5 DEF HoldersFinished, Finished
<1>3. SeenNoKey'
  BY DEF KeyInv, SeenNoKey, TypeOK
<1>4. NoLateDuplicate'
  BY DEF KeyInv, NoLateDuplicate
<1> QED
  BY <1>2, <1>3, <1>4 DEF KeyInv

(* How the last command of a pipeline ends.                                 *)
LEMMA AnswerEnds ==
  ASSUME NEW c \in Callers, Answer(c)
  PROVE  /\ pc' = [pc EXCEPT ![c] = "idle"]
         /\ \/ UNCHANGED <<held, doubled>>
            \/ /\ kind[c].unique
               /\ held' = held \cup {Entry(c)}
               /\ doubled' = IF before[c] \cap held # {} THEN doubled \cup {Entry(c)} ELSE doubled
BY DEF Answer, Acknowledge, Go

LEMMA KeyStep ==
  ASSUME TypeOK, InCall, KeyInv, [Next]_vars
  PROVE  KeyInv'
<1> USE NoneAssumption DEF Lives
<1>0. calls \in [Callers -> Nat] /\ held \subseteq Entries /\ before \in [Callers -> SUBSET Entries]
  BY CallersAssumption DEF TypeOK
<1>1. ASSUME NEW c \in Callers, BeginEnqueue(c)
      PROVE  KeyInv'
  <2>1. /\ UNCHANGED <<held, doubled, ukey>> /\ pc[c] = "idle"
        /\ calls' = [calls EXCEPT ![c] = @ + 1] /\ before' = [before EXCEPT ![c] = held]
    BY <1>1 DEF BeginEnqueue, Call
  <2>2. /\ \A d \in Callers : d # c => pc'[d] = pc[d] /\ kind'[d] = kind[d]
        /\ pc'[c] \in {"exists", "push"} /\ (pc'[c] = "push" => ~kind'[c].unique)
    BY <1>1 DEF BeginEnqueue, Go, TypeOK
  <2>3. ASSUME NEW e \in Entries, Finished(e)
        PROVE  Finished(e)'
    <3>1. e[1] \in Callers /\ e[2] \in Nat /\ e[2] <= calls[e[1]]
          /\ (e[2] = calls[e[1]] => pc[e[1]] = "idle")
      BY <2>3 DEF Finished, Entries
    <3>2. e[2] <= calls'[e[1]] /\ (e[2] = calls'[e[1]] => pc'[e[1]] = "idle")
      BY <1>0, <2>1, <2>2, <3>1
    <3> QED
      BY <3>2 DEF Finished
  <2>4. HoldersFinished'
    <3>1. \A e \in held : e \in Entries /\ Finished(e)
      BY DEF KeyInv, HoldersFinished, TypeOK
    <3>2. \A d \in Callers : \A e \in before'[d] : e \in Entries /\ Finished(e)
      BY <1>0, <2>1, <3>1 DEF KeyInv, HoldersFinished
    <3>3. held' # {} => ukey' # None
      BY <2>1 DEF KeyInv, HoldersFinished
    <3>4. \A e \in held' : Finished(e)'
      BY <2>1, <2>3, <3>1
    <3>5. \A d \in Callers : \A e \in before'[d] : Finished(e)'
      BY <2>3, <3>2
    <3> QED
      BY <3>3, <3>4, <3>5 DEF HoldersFinished, Finished
  <2>5. SeenNoKey'
    BY <1>0, <2>1, <2>2 DEF KeyInv, SeenNoKey
  <2> QED
    BY <2>1, <2>4, <2>5 DEF KeyInv, NoLateDuplicate
<1>2. ASSUME NEW c \in Callers, CheckUnique(c)
      PROVE  KeyInv'
  <2>1. /\ UNCHANGED <<held, before, doubled, ukey, kind, calls>>
        /\ pc[c] # "idle" /\ pc' = [pc EXCEPT ![c] = pc'[c]]
        /\ pc'[c] = "push" => ukey = None
    BY <1>2 DEF CheckUnique, Go, TypeOK, history
  <2>2. pc'[c] \in {"push", "expire", "setkey"} /\ kind[c].unique => before[c] \cap held = {}
    BY <1>2, <2>1 DEF KeyInv, HoldersFinished, CheckUnique, Go, TypeOK
  <2> QED
    BY <2>1, <2>2, HoldersStay
<1>3. ASSUME NEW c \in Callers, (Push(c) /\ ~(pc'[c] = "idle" /\ kind[c].unique)) \/ SetExpiry(c)
                                \/ (SetUnique(c) /\ UNCHANGED <<held, doubled>>)
      PROVE  KeyInv'
  <2>1. /\ UNCHANGED <<held, before, doubled, kind, calls>> /\ (ukey = None \/ ukey' # None)
        /\ pc[c] \in {"push", "expire", "setkey"} /\ pc' = [pc EXCEPT ![c] = pc'[c]]
    <3>1. CASE Push(c)
      <4>1. CASE Answer(c)
        <5>1. pc'[c] = "idle" /\ pc' = [pc EXCEPT ![c] = pc'[c]]
          BY <4>1, AnswerEnds DEF TypeOK
        <5>2. UNCHANGED <<held, doubled>>
          BY <1>3, <3>1, <4>1, <5>1, AnswerEnds DEF Push, SetExpiry, SetUnique
        <5> QED
          BY <3>1, <5>1, <5>2 DEF Push
      <4>2. CASE UNCHANGED <<held, doubled>> /\ Go(c, IF kind[c].ttl THEN "expire" ELSE "setkey")
        BY <3>1, <4>2 DEF Push, Go, TypeOK
      <4> QED
        BY <3>1, <4>1, <4>2 DEF Push
    <3>2. CASE SetExpiry(c)
      BY <3>2 DEF SetExpiry, Go, TypeOK
    <3>3. CASE SetUnique(c) /\ UNCHANGED <<held, doubled>>
      <4>1. pc' = [pc EXCEPT ![c] = pc'[c]]
        BY <3>3, AnswerEnds DEF SetUnique, TypeOK
      <4>2. ukey' # None
        BY <3>3 DEF SetUnique
      <4> QED
        BY <3>3, <4>1, <4>2 DEF SetUnique
    <3> QED
      BY <1>3, <3>1, <3>2, <3>3
  <2>2. kind[c].unique => before[c] \cap held = {}
    BY <2>1 DEF KeyInv, SeenNoKey
  <2> QED
    BY <2>1, <2>2, HoldersStay
<1>4. ASSUME NEW c \in Callers, SetUnique(c), ~UNCHANGED <<held, doubled>>
      PROVE  KeyInv'
  <2>1. /\ UNCHANGED <<before, kind, calls>> /\ ukey' # None
        /\ pc[c] = "setkey" /\ pc' = [pc EXCEPT ![c] = "idle"]
        /\ held' = held \cup {Entry(c)}
        /\ doubled' = IF before[c] \cap held # {} THEN doubled \cup {Entry(c)} ELSE doubled
    BY <1>4, AnswerEnds DEF SetUnique
  <2>2. before[c] \cap held = {}
    <3>1. kind[c].unique
      BY <1>4, AnswerEnds DEF SetUnique
    <3> QED
      BY <2>1, <3>1 DEF KeyInv, SeenNoKey
  <2>3. NoLateDuplicate'
    BY <2>1, <2>2 DEF KeyInv, NoLateDuplicate
  <2>4. Entry(c) \in Entries /\ Finished(Entry(c))'
    <3>1. Entry(c) \in Entries
      BY <2>1, EntryIsEntry
    <3>2. Entry(c)' = Entry(c) /\ pc'[c] = "idle" /\ calls'[c] = calls[c] /\ calls[c] \in Nat
      BY <1>0, <2>1 DEF Entry, TypeOK
    <3>3. Entry(c)[1] = c /\ Entry(c)[2] = calls[c]
      BY DEF Entry
    <3> QED
      BY <3>1, <3>2, <3>3 DEF Finished
  <2>5. ASSUME NEW e \in Entries, Finished(e)
        PROVE  Finished(e)'
    BY <2>1, <2>5 DEF Finished, Entries, TypeOK
  <2>6. HoldersFinished'
    <3>1. \A e \in held' : Finished(e)'
      <4>1. \A e \in held : e \in Entries /\ Finished(e)
        BY <1>0 DEF KeyInv, HoldersFinished
      <4> QED
        BY <2>1, <2>4, <2>5, <4>1 DEF Finished, Entry
    <3>2. \A d \in Callers : \A e \in before'[d] : Finished(e)'
      BY <1>0, <2>1, <2>5 DEF KeyInv, HoldersFinished
    <3> QED
      BY <2>1, <3>1, <3>2 DEF HoldersFinished, Finished
  <2>7. \A d \in Callers : Entry(c) \notin before[d]
    <3>1. ~Finished(Entry(c))
      BY <2>1 DEF Finished, Entry
    <3> QED
      BY <3>1 DEF KeyInv, HoldersFinished
  <2>8. SeenNoKey'
    BY <2>1, <2>7 DEF KeyInv, SeenNoKey, TypeOK
  <2> QED
    BY <2>3, <2>6, <2>8 DEF KeyInv
<1>5. ASSUME NEW c \in Callers, Push(c), pc'[c] = "idle", kind[c].unique
      PROVE  FALSE
  BY <1>5 DEF Push, Go, TypeOK
<1>6. ASSUME NEW c \in Callers,
             AddTask(c) \/ Set(c) \/ SetWithExpiration(c) \/ Delete(c) \/ UpdateExpiration(c)
      PROVE  KeyInv'
  <2>1. /\ UNCHANGED <<held, before, doubled, ukey, kind, pc>>
        /\ pc[c] = "idle" /\ calls' = [calls EXCEPT ![c] = @ + 1]
    BY <1>6 DEF AddTask, Set, SetWithExpiration, Delete, UpdateExpiration, Call, history
  <2> QED
    BY <2>1, HoldersStay DEF TypeOK
<1>7. ASSUME NEW c \in Callers, Update(c)
      PROVE  KeyInv'
  <2>1. CASE UpdateExists(c)
    <3>1. /\ UNCHANGED <<held, before, doubled, ukey, kind>>
          /\ pc[c] = "idle" /\ calls' = [calls EXCEPT ![c] = @ + 1]
          /\ pc' = [pc EXCEPT ![c] = pc'[c]] /\ pc'[c] \notin {"push", "expire", "setkey"}
      BY <2>1 DEF UpdateExists, Call, Go, TypeOK, history
    <3> QED
      BY <3>1, HoldersStay
  <2>2. CASE UpdateTTL(c) \/ UpdateSet(c)
    <3>1. /\ UNCHANGED <<held, before, doubled, ukey, kind, calls>>
          /\ pc[c] # "idle" /\ pc' = [pc EXCEPT ![c] = pc'[c]]
          /\ pc'[c] \notin {"push", "expire", "setkey"}
      BY <2>2 DEF UpdateTTL, UpdateSet, Go, TypeOK, history
    <3> QED
      BY <3>1, HoldersStay
  <2> QED
    BY <1>7, <2>1, <2>2 DEF Update
<1>8. ASSUME NEW c \in Callers, Break(c)
      PROVE  KeyInv'
  <2>1. /\ UNCHANGED <<held, before, doubled, ukey, kind, calls>>
        /\ pc[c] # "idle" /\ pc' = [pc EXCEPT ![c] = pc'[c]] /\ pc'[c] = "idle"
    BY <1>8 DEF Break, Go, TypeOK, history
  <2> QED
    BY <2>1, HoldersStay
<1>9. CASE UniqueExpires
  <2>1. UNCHANGED <<before, doubled, kind, calls, pc>> /\ held' = {}
    BY <1>9 DEF UniqueExpires
  <2> QED
    BY <2>1 DEF KeyInv, HoldersFinished, SeenNoKey, NoLateDuplicate, Finished
<1>10. CASE checkGroups \/ ValueExpires \/ (\E l \in Lists : ListExpires(l)) \/ UNCHANGED vars
  <2>1. UNCHANGED <<held, before, doubled, ukey, kind, calls, pc>>
    BY <1>10 DEF checkGroups, ValueExpires, ListExpires, vars, history
  <2> QED
    BY <2>1 DEF KeyInv, HoldersFinished, SeenNoKey, NoLateDuplicate, Finished
<1> QED
  BY <1>1, <1>2, <1>3, <1>4, <1>5, <1>6, <1>7, <1>8, <1>9, <1>10 DEF Next, enqueueTask, Idle

---------------------------------------------------------------------------
(* The key keeps its time to live unless an Update found none left.         *)
ValueInv == MortalKey /\ ReadIsMortal

LEMMA ValueStep ==
  ASSUME TypeOK, ValueInv, [Next]_vars
  PROVE  ValueInv'
<1> USE NoneAssumption DEF Lives
<1>1. ASSUME NEW c \in Callers, UpdateTTL(c)
      PROVE  ValueInv'
  <2>1. PICK ttl \in IF value = "ttl" THEN {"ttl", "zero"} ELSE {value} :
           /\ ttlRead' = [ttlRead EXCEPT ![c] = ttl]
           /\ raced' = raced \cup (IF ttl = None THEN {"vanished"} ELSE {})
                             \cup (IF ttl = "zero" THEN {"rounded"} ELSE {})
    BY <1>1 DEF UpdateTTL
  <2>2. value' = value /\ \A d \in Callers : d # c => pc'[d] = pc[d]
    BY <1>1 DEF UpdateTTL, Go, TypeOK
  <2>3. raced # {} => raced' # {}
    BY <2>1
  <2>4. ttl # "ttl" => raced' # {}
    <3>1. value = "forever" => raced # {}
      BY DEF ValueInv, MortalKey
    <3>2. ttl \in {"ttl", "zero", "forever", None} /\ (ttl = "forever" => value = "forever")
      BY <2>1 DEF TypeOK
    <3> QED
      BY <2>1, <2>3, <3>1, <3>2
  <2>5. MortalKey'
    BY <2>2, <2>3 DEF ValueInv, MortalKey
  <2>6. ReadIsMortal'
    BY <2>1, <2>2, <2>3, <2>4 DEF ValueInv, ReadIsMortal, TypeOK
  <2> QED
    BY <2>5, <2>6 DEF ValueInv
<1>2. ASSUME NEW c \in Callers, UpdateSet(c)
      PROVE  ValueInv'
  <2>1. /\ pc[c] = "set" /\ UNCHANGED <<ttlRead, raced>> /\ pc' = [pc EXCEPT ![c] = "idle"]
    BY <1>2 DEF UpdateSet, Go, history
  <2>2. ttlRead[c] = "ttl" => value' = "ttl"
    BY <1>2 DEF UpdateSet
  <2>3. ttlRead[c] # "ttl" => raced # {}
    BY <2>1 DEF ValueInv, ReadIsMortal
  <2> QED
    BY <2>1, <2>2, <2>3 DEF ValueInv, MortalKey, ReadIsMortal, TypeOK
<1>3. ASSUME UNCHANGED <<ttlRead, raced>>, value' = "forever" => value = "forever",
             NEW c \in Callers, pc'[c] # "set",
             \A d \in Callers : d # c => pc'[d] = pc[d]
      PROVE  ValueInv'
  BY <1>3 DEF ValueInv, MortalKey, ReadIsMortal
<1>4. ASSUME UNCHANGED <<ttlRead, raced, pc>>, value' = "forever" => value = "forever"
      PROVE  ValueInv'
  BY <1>4 DEF ValueInv, MortalKey, ReadIsMortal
<1>5. ASSUME NEW c \in Callers,
             BeginEnqueue(c) \/ CheckUnique(c) \/ Push(c) \/ SetExpiry(c) \/ SetUnique(c)
             \/ UpdateExists(c) \/ Break(c)
      PROVE  ValueInv'
  <2>1. UNCHANGED <<ttlRead, raced, value>>
    BY <1>5 DEF BeginEnqueue, CheckUnique, Push, SetExpiry, SetUnique, UpdateExists, Break, history
  <2>2. pc'[c] # "set" /\ \A d \in Callers : d # c => pc'[d] = pc[d]
    <3>1. CASE Push(c) \/ SetUnique(c)
      BY <3>1 DEF Push, SetUnique, Answer, Acknowledge, Go, TypeOK
    <3>2. CASE BeginEnqueue(c) \/ CheckUnique(c) \/ SetExpiry(c) \/ UpdateExists(c) \/ Break(c)
      BY <3>2 DEF BeginEnqueue, CheckUnique, SetExpiry, UpdateExists, Break, Go, TypeOK
    <3> QED
      BY <1>5, <3>1, <3>2
  <2> QED
    BY <1>3, <2>1, <2>2
<1>6. ASSUME NEW c \in Callers,
             AddTask(c) \/ Set(c) \/ SetWithExpiration(c) \/ Delete(c) \/ UpdateExpiration(c)
      PROVE  ValueInv'
  <2>1. UNCHANGED <<ttlRead, raced, pc>> /\ (value' = "forever" => value = "forever")
    BY <1>6 DEF AddTask, Set, SetWithExpiration, Delete, UpdateExpiration, history
  <2> QED
    BY <1>4, <2>1
<1>7. CASE checkGroups \/ UniqueExpires \/ ValueExpires \/ (\E l \in Lists : ListExpires(l))
           \/ UNCHANGED vars
  <2>1. UNCHANGED <<ttlRead, raced, pc>> /\ (value' = "forever" => value = "forever")
    BY <1>7 DEF checkGroups, UniqueExpires, ValueExpires, ListExpires, vars, history
  <2> QED
    BY <1>4, <2>1
<1> QED
  BY <1>1, <1>2, <1>5, <1>6, <1>7 DEF Next, enqueueTask, Update, Idle

---------------------------------------------------------------------------
(* The four groups together are inductive: what the task client, the        *)
(* key-value operations and the aggregator keep true of Redis.              *)
THEOREM TaskInvariant == Spec => []TaskInv
<1>1. Init => TaskInv
  BY InitHolds
<1>2. TaskInv /\ [Next]_vars => TaskInv'
  <2> SUFFICES ASSUME TaskInv, [Next]_vars PROVE TaskInv'
    OBVIOUS
  <2>1. TypeOK' /\ InCall'
    BY TypeStep DEF TaskInv
  <2>2. PlacedArePast' /\ OnePlace'
    BY PlaceStep DEF TaskInv
  <2>3. ListInv'
    BY ListStep DEF TaskInv, ListInv
  <2>4. KeyInv'
    BY KeyStep DEF TaskInv, KeyInv
  <2>5. ValueInv'
    BY ValueStep DEF TaskInv, ValueInv
  <2> QED
    BY <2>1, <2>2, <2>3, <2>4, <2>5 DEF TaskInv, ListInv, KeyInv, ValueInv
<1> QED
  BY <1>1, <1>2, PTL DEF Spec

(* An acknowledged task is kept unless its aggregate failed or its list was *)
(* given a time to live: enqueueTask and the aggregator drop nothing else.  *)
THEOREM TasksKept == Spec => []LostOnlyToTTL
<1>1. TaskInv => LostOnlyToTTL
  <2> SUFFICES ASSUME TaskInv, NEW t \in told
               PROVE  Stored(t[1]) \/ t[1] \in pending \cup dropped \/ t[2] \in timed
    BY DEF LostOnlyToTTL
  <2>1. \/ In(t[1], t[2])
        \/ t[2] = "queue" /\ t[1] \in pending \cup dropped
        \/ t[2] \in timed
    BY DEF TaskInv, ToldIsKept
  <2>2. t[2] \in Lists
    BY DEF TaskInv, TypeOK
  <2> QED
    BY <2>1, <2>2 DEF In, Stored
<1> QED
  BY <1>1, TaskInvariant, PTL

(* The aggregator has each task in one place, and no group outgrows         *)
(* GroupMaxSize.                                                            *)
THEOREM TaskInOnePlace == Spec => []OnePlace
<1>1. TaskInv => OnePlace
  BY DEF TaskInv
<1> QED
  BY <1>1, TaskInvariant, PTL

(* A unique enqueue that begins after another was acknowledged is refused   *)
(* while the unique key lives, however many callers there are.              *)
THEOREM LateDuplicateRefused == Spec => []NoLateDuplicate
<1>1. TaskInv => NoLateDuplicate
  BY DEF TaskInv
<1> QED
  BY <1>1, TaskInvariant, PTL

(* A key that is always given a time to live loses it only to an Update     *)
(* that found its time run out, or rounded to 0.                            *)
THEOREM KeyStaysMortal == Spec => []MortalKey
<1>1. TaskInv => MortalKey
  BY DEF TaskInv
<1> QED
  BY <1>1, TaskInvariant, PTL
===============================================================================
