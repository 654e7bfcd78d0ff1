---------------------------- MODULE WebhookProofs ----------------------------
(***************************************************************************)
(* Theorems about Webhook, for every set of records and endpoints, every   *)
(* batch size and every number of retries.                                 *)
(***************************************************************************)
EXTENDS Webhook, FiniteSetTheorems, TLAPS

(* Batches are finite. *)
LEMMA RecordsFinite ==
  \A S \in SUBSET Records : IsFiniteSet(S) /\ Cardinality(S) \in Nat
BY WebhookAssumption, FS_Subset, FS_CardinalityType

(* A batch below the limit is within it once a record is added, and an     *)
(* empty batch is below it.                                                *)
LEMMA BatchSizes ==
  /\ Cardinality({}) = 0 /\ 0 < MaxBatchSize
  /\ \A S \in SUBSET Records : \A r \in Records :
       Cardinality(S) < MaxBatchSize => Cardinality(S \cup {r}) <= MaxBatchSize
<1>1. Cardinality({}) = 0 /\ 0 < MaxBatchSize
  BY FS_EmptySet, WebhookAssumption
<1>2. ASSUME NEW S \in SUBSET Records, NEW r \in Records,
             Cardinality(S) < MaxBatchSize
      PROVE  Cardinality(S \cup {r}) <= MaxBatchSize
  <2>1. IsFiniteSet(S) /\ Cardinality(S) \in Nat
    BY RecordsFinite
  <2>2. Cardinality(S \cup {r}) \in {Cardinality(S), Cardinality(S) + 1}
    BY <2>1, FS_AddElement
  <2> QED BY <1>2, <2>1, <2>2, WebhookAssumption
<1> QED BY <1>1, <1>2

-----------------------------------------------------------------------------
(* The step that begins an export, whoever makes it, takes a whole batch   *)
(* of bounded size out of the reach of everybody else.                     *)
LEMMA BeginExportType ==
  ASSUME TypeOK, NEW p \in Holders, NEW records \in SUBSET Records,
         BeginExport(p, records)
  PROVE  /\ batch' \in SUBSET Records
         /\ timer' \in {"running", "expired", "idle"}
         /\ done' \in BOOLEAN
         /\ holder' \in Holders
         /\ outgoing' \in SUBSET Records
         /\ attempt' \in [Endpoints -> 0..MaxRetries]
         /\ answer' \in [Endpoints -> {"idle", "awaited", "accepted", "failed"}]
         /\ got' \in [Endpoints -> SUBSET Records]
         /\ outcome' \in [Records -> {"none", "sent", "failed"}]
         /\ owed' \in SUBSET Records
BY WebhookAssumption DEF TypeOK, BeginExport

LEMMA EndExportType ==
  ASSUME TypeOK, NEW p \in Holders, EndExport(p)
  PROVE  /\ batch' \in SUBSET Records
         /\ timer' \in {"running", "expired", "idle"}
         /\ done' \in BOOLEAN
         /\ holder' \in Holders
         /\ outgoing' \in SUBSET Records
         /\ attempt' \in [Endpoints -> 0..MaxRetries]
         /\ answer' \in [Endpoints -> {"idle", "awaited", "accepted", "failed"}]
         /\ got' \in [Endpoints -> SUBSET Records]
         /\ outcome' \in [Records -> {"none", "sent", "failed"}]
         /\ owed' \in SUBSET Records
BY WebhookAssumption DEF TypeOK, EndExport, ExportError, Holders

(* Every variable keeps its type. *)
LEMMA TypeOKStep == ASSUME TypeOK, [Next]_vars PROVE TypeOK'
<1>1. ASSUME NEW r \in Records, SendCheck(r) \/ SendAppend(r)
      PROVE  TypeOK'
  BY <1>1 DEF TypeOK, SendCheck, SendAppend, exportVars
<1>2. ASSUME NEW r \in Records, SendFull(r)
      PROVE  TypeOK'
  <2>1. r \in Holders /\ batch \cup {r} \in SUBSET Records
    BY DEF Holders, TypeOK
  <2> QED BY <1>2, <2>1, BeginExportType DEF SendFull, TypeOK
<1>3. ASSUME NEW r \in Records, SendReturns(r)
      PROVE  TypeOK'
  <2>1. r \in Holders
    BY DEF Holders
  <2> QED BY <1>3, <2>1, EndExportType DEF SendReturns, TypeOK
<1>4. CASE FlushCall \/ LoopFlush \/ ShutdownFlush
  <2>1. batch \in SUBSET Records /\ {"flusher", "loop", "shutdown"} \subseteq Holders
    BY DEF Holders, TypeOK
  <2> QED
    BY <1>4, <2>1, BeginExportType DEF FlushCall, LoopFlush, ShutdownFlush, TypeOK
<1>5. CASE FlushReturns \/ LoopContinues \/ ShutdownReturns
  <2>1. {"flusher", "loop", "shutdown"} \subseteq Holders
    BY DEF Holders
  <2> QED
    BY <1>5, <2>1, EndExportType
       DEF FlushReturns, LoopContinues, ShutdownReturns, TypeOK
<1>6. CASE TimerExpires \/ LoopTick \/ LoopStop \/ LoopFindsNothing
             \/ ShutdownStopsTimer \/ ShutdownFindsNothing
  BY <1>6 DEF TypeOK, TimerExpires, LoopTick, LoopStop, LoopFindsNothing,
     ShutdownStopsTimer, ShutdownFindsNothing, exportVars
<1>7. CASE ShutdownClose
  BY <1>7 DEF TypeOK, ShutdownClose, exportVars
<1>8. ASSUME NEW e \in Endpoints, Exporter(e)
      PROVE  TypeOK'
  <2>1. Body(e) \in SUBSET Records
    BY DEF Body, TypeOK
  <2> QED
    BY <1>8, <2>1, WebhookAssumption
       DEF TypeOK, Exporter, Accepted, Rejected, GivesUp
<1>9. CASE UNCHANGED vars
  BY <1>9 DEF TypeOK, vars, exportVars
<1> QED
  BY <1>1, <1>2, <1>3, <1>4, <1>5, <1>6, <1>7, <1>8, <1>9
     DEF Next, Send, Loop, Shutdown

-----------------------------------------------------------------------------
(* One lemma per kind of step. *)

(* A step that touches neither the records, nor the lock, nor the control  *)
(* points that go with it. *)
LEMMA QuietStep ==
  ASSUME HookInv, TypeOK',
         batch' = batch, holder' = holder, outgoing' = outgoing,
         outcome' = outcome, owed' = owed,
         \A r \in Records :
           \/ sendPc'[r] = sendPc[r]
           \/ sendPc[r] = "idle" /\ sendPc'[r] \in {"checked", "refused"},
         loopPc' = loopPc \/ (loopPc # "exporting" /\ loopPc' # "exporting"),
         shutPc' = shutPc \/ /\ shutPc \notin {"exporting", "done"}
                             /\ shutPc' \notin {"exporting", "done"}
  PROVE  HookInv'
<1> USE DEF HookInv
<1>1. LockDiscipline'
  BY DEF LockDiscipline
<1>2. EachRecordOnce'
  BY DEF EachRecordOnce, Exported, TypeOK
<1>3. BatchBounded'
  BY DEF BatchBounded
<1>4. OwedTracked'
  BY DEF OwedTracked, Acknowledged, Exported, TypeOK
<1>5. ShutdownFlushes'
  BY DEF ShutdownFlushes, Exported
<1> QED BY <1>1, <1>2, <1>3, <1>4, <1>5

(* Send adds its record to a batch that nobody is exporting. *)
LEMMA AppendStep ==
  ASSUME HookInv, TypeOK', NEW r \in Records, SendAppend(r)
  PROVE  HookInv'
<1> USE DEF HookInv, SendAppend, exportVars, TypeOK
<1>1. LockDiscipline'
  BY WebhookAssumption DEF LockDiscipline
<1>2. EachRecordOnce'
  BY DEF EachRecordOnce, Exported
<1>3. BatchBounded'
  <2>1. Cardinality(batch \cup {r}) \in Nat
    BY RecordsFinite
  <2> QED BY <2>1, WebhookAssumption DEF BatchBounded, BatchFull
<1>4. OwedTracked'
  BY DEF OwedTracked, Acknowledged, Exported
<1>5. ShutdownFlushes'
  BY DEF ShutdownFlushes, Exported
<1> QED BY <1>1, <1>2, <1>3, <1>4, <1>5

(* A Send that fills the batch exports it itself. *)
LEMMA FullStep ==
  ASSUME HookInv, TypeOK', NEW r \in Records, SendFull(r)
  PROVE  HookInv'
<1> USE DEF HookInv, SendFull, BeginExport, TypeOK
<1>1. LockDiscipline'
  BY WebhookAssumption DEF LockDiscipline
<1>2. EachRecordOnce'
  BY DEF EachRecordOnce, Exported, LockDiscipline
<1>3. BatchBounded'
  BY BatchSizes DEF BatchBounded
<1>4. OwedTracked'
  BY DEF OwedTracked, Acknowledged, Exported, LockDiscipline
<1>5. ShutdownFlushes'
  BY DEF ShutdownFlushes, Exported
<1> QED BY <1>1, <1>2, <1>3, <1>4, <1>5

(* Flush, the loop or Shutdown takes the batch. *)
LEMMA FlushStep ==
  ASSUME HookInv, TypeOK', FlushCall \/ LoopFlush \/ ShutdownFlush
  PROVE  HookInv'
<1> USE DEF HookInv, FlushCall, LoopFlush, ShutdownFlush, BeginExport, TypeOK
<1>1. LockDiscipline'
  BY WebhookAssumption DEF LockDiscipline
<1>2. EachRecordOnce'
  BY DEF EachRecordOnce, Exported, LockDiscipline
<1>3. BatchBounded'
  <2>1. Cardinality(batch) \in Nat
    BY RecordsFinite
  <2> QED BY <2>1, BatchSizes, WebhookAssumption DEF BatchBounded
<1>4. OwedTracked'
  BY DEF OwedTracked, Acknowledged, Exported, LockDiscipline, EachRecordOnce
<1>5. ShutdownFlushes'
  BY DEF ShutdownFlushes, Exported
<1> QED BY <1>1, <1>2, <1>3, <1>4, <1>5

(* An export ends: what was on the wire is exported, the lock is free.     *)
LEMMA ReturnStep ==
  ASSUME HookInv, TypeOK',
         \/ \E r \in Records : SendReturns(r)
         \/ FlushReturns \/ LoopContinues \/ ShutdownReturns
  PROVE  HookInv'
<1> USE DEF HookInv, TypeOK
<1>1. /\ outgoing' = {} /\ holder' = "none" /\ holder # "none"
      /\ batch' = batch /\ batch = {} /\ owed' = owed
      /\ \A r \in Records : Exported(r)' <=> Exported(r) \/ r \in outgoing
      /\ \A r \in Records : \/ sendPc'[r] = sendPc[r]
                            \/ sendPc[r] = "exporting" /\ holder = r
                                 /\ sendPc'[r] \in {"ok", "failed"}
  BY WebhookAssumption
     DEF SendReturns, FlushReturns, LoopContinues, ShutdownReturns, EndExport,
         ExportError, Exported, LockDiscipline
<1>2. \A r \in Records : sendPc'[r] # "exporting"
  BY <1>1, WebhookAssumption
     DEF LockDiscipline, SendReturns, FlushReturns, LoopContinues,
         ShutdownReturns, EndExport, ExportError
<1>3. LockDiscipline'
  <2>1. loopPc' # "exporting" /\ shutPc' # "exporting"
    BY WebhookAssumption
       DEF LockDiscipline, SendReturns, FlushReturns, LoopContinues,
           ShutdownReturns, EndExport
  <2> QED BY <1>1, <1>2, <2>1, WebhookAssumption DEF LockDiscipline
<1>4. EachRecordOnce'
  BY <1>1 DEF EachRecordOnce
<1>5. BatchBounded'
  BY <1>1, BatchSizes, WebhookAssumption DEF BatchBounded
<1>6. OwedTracked'
  BY <1>1, <1>3 DEF OwedTracked, Acknowledged, LockDiscipline
<1>7. ShutdownFlushes'
  <2>1. CASE ShutdownReturns
    <3>1. shutPc = "exporting"
      BY <2>1 DEF ShutdownReturns, EndExport, LockDiscipline
    <3> QED BY <1>1, <3>1 DEF ShutdownFlushes, OwedTracked
  <2>2. CASE ~ ShutdownReturns
    <3>1. shutPc' = shutPc
      BY <2>2 DEF SendReturns, FlushReturns, LoopContinues
    <3> QED BY <1>1, <3>1 DEF ShutdownFlushes
  <2> QED BY <2>1, <2>2
<1> QED BY <1>3, <1>4, <1>5, <1>6, <1>7

(* Shutdown notes what is owed, or finds the batch empty and nobody        *)
(* exporting.                                                              *)
LEMMA ShutdownStep ==
  ASSUME HookInv, TypeOK', ShutdownClose \/ ShutdownFindsNothing
  PROVE  HookInv'
<1> USE DEF HookInv, ShutdownClose, ShutdownFindsNothing, exportVars, TypeOK
<1>1. LockDiscipline'
  BY DEF LockDiscipline
<1>2. EachRecordOnce' /\ BatchBounded'
  BY DEF EachRecordOnce, Exported, BatchBounded
<1>3. OwedTracked'
  BY DEF OwedTracked, Acknowledged, Exported
<1>4. ShutdownFlushes'
  BY DEF ShutdownFlushes, OwedTracked, Acknowledged, Exported, EachRecordOnce,
     LockDiscipline
<1> QED BY <1>1, <1>2, <1>3, <1>4

(* The invariant of the client is inductive: one step per kind of action. *)
LEMMA HookInvStep == ASSUME HookInv, [Next]_vars PROVE HookInv'
<1>0. TypeOK'
  BY TypeOKStep DEF HookInv
<1>1. ASSUME NEW r \in Records, SendCheck(r)
      PROVE  HookInv'
  BY <1>0, <1>1, QuietStep DEF SendCheck, exportVars, HookInv, TypeOK
<1>2. CASE TimerExpires \/ LoopTick \/ LoopStop \/ LoopFindsNothing
             \/ ShutdownStopsTimer
  BY <1>0, <1>2, QuietStep
     DEF TimerExpires, LoopTick, LoopStop, LoopFindsNothing,
         ShutdownStopsTimer, exportVars
<1>3. ASSUME NEW e \in Endpoints, Exporter(e)
      PROVE  HookInv'
  BY <1>0, <1>3, QuietStep DEF Exporter, Accepted, Rejected, GivesUp
<1>4. CASE UNCHANGED vars
  <2>1. /\ batch' = batch /\ holder' = holder /\ outgoing' = outgoing
        /\ outcome' = outcome /\ owed' = owed /\ sendPc' = sendPc
        /\ loopPc' = loopPc /\ shutPc' = shutPc
    BY <1>4 DEF vars, exportVars
  <2> QED BY <1>0, <2>1, QuietStep
<1> QED
  BY <1>0, <1>1, <1>2, <1>3, <1>4, AppendStep, FullStep, FlushStep,
     ReturnStep, ShutdownStep
     DEF Next, Send, Loop, Shutdown

(* The invariant of the client: Spec => []HookInv. *)
THEOREM ClientInvariant == Spec => []HookInv
<1>1. Init => HookInv
  <2> SUFFICES ASSUME Init PROVE HookInv
    OBVIOUS
  <2> USE DEF Init
  <2>1. TypeOK
    <3>1. attempt \in [Endpoints -> 0..MaxRetries]
      BY WebhookAssumption
    <3>2. /\ batch \in SUBSET Records /\ outgoing \in SUBSET Records
          /\ owed \in SUBSET Records /\ holder \in Holders
      BY DEF Holders
    <3>3. /\ answer \in [Endpoints -> {"idle", "awaited", "accepted", "failed"}]
          /\ got \in [Endpoints -> SUBSET Records]
          /\ outcome \in [Records -> {"none", "sent", "failed"}]
          /\ sendPc \in [Records -> {"idle", "checked", "exporting", "ok",
                                     "failed", "refused"}]
      OBVIOUS
    <3> QED BY <3>1, <3>2, <3>3 DEF TypeOK
  <2>2. LockDiscipline
    <3>1. \A r \in Records : r # "none"
      BY WebhookAssumption
    <3> QED BY <3>1 DEF LockDiscipline
  <2>3. EachRecordOnce
    BY DEF EachRecordOnce, Exported
  <2>4. BatchBounded
    BY BatchSizes, WebhookAssumption DEF BatchBounded
  <2>5. OwedTracked /\ ShutdownFlushes
    BY DEF OwedTracked, ShutdownFlushes
  <2> QED BY <2>1, <2>2, <2>3, <2>4, <2>5 DEF HookInv
<1> QED BY <1>1, HookInvStep, PTL DEF Spec

(* Every record Send took is in one place: Spec => []EachRecordOnce. *)
THEOREM RecordsAccounted == Spec => []EachRecordOnce
<1>1. HookInv => EachRecordOnce
  BY DEF HookInv
<1> QED BY <1>1, ClientInvariant, PTL

(* No request exceeds MaxBatchSize: Spec => []BatchBounded. *)
THEOREM RequestsBounded == Spec => []BatchBounded
<1>1. HookInv => BatchBounded
  BY DEF HookInv
<1> QED BY <1>1, ClientInvariant, PTL

(* Shutdown exports what was acknowledged before it: Spec =>               *)
(* []ShutdownFlushes.                                                      *)
THEOREM ShutdownPaysItsDebts == Spec => []ShutdownFlushes
<1>1. HookInv => ShutdownFlushes
  BY DEF HookInv
<1> QED BY <1>1, ClientInvariant, PTL

=============================================================================
