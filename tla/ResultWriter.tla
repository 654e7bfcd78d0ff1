----------------------------- MODULE ResultWriter -----------------------------
(* A result writer: postgres/resultwriter.go, one buffer for all results, and *)
(* internal/resultwriter/writer.go, a buffer for each job. The engine sends   *)
(* results into a channel and closes it when it stops; the writer buffers     *)
(* them, saves a full buffer, or everything once a minute has passed since    *)
(* lastSave, and saves what is left at the end of the channel.                *)
(*                                                                            *)
(* The context the writer saves with is the one whose cancellation stops the  *)
(* engine, and a statement on a cancelled context fails. What a lead looks    *)
(* like and the webhook of the lead writer, whose error is only logged, are   *)
(* left out.                                                                  *)
EXTENDS Naturals, FiniteSets

CONSTANTS Results,       \* the results the engine may send
          Bad,           \* those that are not a *gmaps.Entry (fast mode sends lists)
          JobOf,         \* the job of each result
          Writers,       \* the writers there are: "results" keeps one buffer
          MaxBatchSize,
          MaxSaveFaults  \* bound: statements that fail on a live context

ASSUME WriterAssumption ==
    /\ Bad \subseteq Results
    /\ Writers \subseteq {"results", "leads"}
    /\ MaxBatchSize \in Nat \ {0}
    /\ MaxSaveFaults \in Nat

Jobs == {JobOf[r] : r \in Results}

VARIABLES
    ctx,         \* the context of the process: "live" or "cancelled"
    writer,      \* which writer runs
    toCome,      \* results the engine has not sent
    in, closed,  \* the channel
    wpc,         \* where the writer is
    buffers,     \* by job; the buffer of a job that is not used stays empty
    left,        \* the buffers that the flush under way has not visited
    lastSave,    \* "recent", or "old": a minute has passed since
    saves,       \* how often each result has been stored
    faults
engineVars == <<toCome, in, closed>>
writerVars == <<wpc, buffers, left, lastSave, saves, faults>>
resultVars == <<engineVars, writerVars>>

ResultsTypeOK ==
    /\ ctx \in {"live", "cancelled"} /\ writer \in Writers
    /\ toCome \subseteq Results /\ in \subseteq Results /\ closed \in BOOLEAN
    /\ wpc \in {"reading", "flushing", "last", "ended", "failed"}
    /\ buffers \in [Jobs -> SUBSET Results] /\ left \subseteq Jobs
    /\ lastSave \in {"recent", "old"}
    /\ saves \in [Results -> 0..3]
    /\ faults \in 0..MaxSaveFaults

ResultsInit ==
    /\ writer \in Writers
    /\ toCome = Results /\ in = {} /\ closed = FALSE
    /\ wpc = "reading"
    /\ buffers = [j \in Jobs |-> {}] /\ left = {}
    /\ lastSave = "recent"
    /\ saves = [r \in Results |-> 0]
    /\ faults = 0

(* The results the writer has received.                                       *)
Received == Results \ (toCome \cup in)
-----------------------------------------------------------------------------
(* The engine.                                                                *)
SendResult ==
    /\ ~closed
    /\ \E r \in toCome : toCome' = toCome \ {r} /\ in' = in \cup {r}
    /\ UNCHANGED <<closed, writerVars>>

(* It stops when its context ends, on an error of the writer, or because      *)
(* nothing is left to do.                                                     *)
EngineStops ==
    /\ ~closed
    /\ ctx = "cancelled" \/ wpc = "failed" \/ toCome = {}
    /\ closed' = TRUE
    /\ UNCHANGED <<toCome, in, writerVars>>

(* Time.                                                                      *)
MinutePasses ==
    /\ lastSave = "recent" /\ wpc = "reading"
    /\ lastSave' = "old"
    /\ UNCHANGED <<engineVars, wpc, buffers, left, saves, faults>>
-----------------------------------------------------------------------------
(* Run.                                                                       *)
(* The buffer a result goes to: the writer of results has only one.           *)
Key(r) == IF writer = "leads" THEN JobOf[r] ELSE CHOOSE j \in Jobs : TRUE

Filled == {j \in Jobs : buffers[j] # {}}
FilledWith(r) == Filled \cup {Key(r)}
Due(size) == size >= MaxBatchSize \/ lastSave = "old"

Receive ==
    /\ wpc = "reading"
    /\ \E r \in in :
         /\ in' = in \ {r}
         /\ IF r \in Bad
            THEN wpc' = "failed" /\ UNCHANGED <<buffers, left>>
            ELSE /\ buffers' = [buffers EXCEPT ![Key(r)] = @ \cup {r}]
                 /\ IF Due(Cardinality(buffers[Key(r)]) + 1)
                    THEN wpc' = "flushing" /\ left' = FilledWith(r)
                    ELSE UNCHANGED <<wpc, left>>
    /\ UNCHANGED <<toCome, closed, lastSave, saves, faults>>

(* Mutant: the last flush looks at full buffers only.                         *)
FullAtEnd == {j \in Jobs : Cardinality(buffers[j]) >= MaxBatchSize}
(* The buffers that the end of the channel finds filled.                      *)
LeftAtEnd == Filled

EndOfInput ==
    /\ wpc = "reading" /\ closed /\ in = {}
    /\ wpc' = "last" /\ left' = LeftAtEnd
    /\ UNCHANGED <<engineVars, buffers, lastSave, saves, faults>>

Stored(j) == [r \in Results |-> IF r \in buffers[j] THEN saves[r] + 1 ELSE saves[r]]

(* Mutant: the buffer is not reset after it has been saved.                   *)
KeptBuffer(j) == buffers
(* buffers[id] = buffers[id][:0]                                              *)
Emptied(j) == [buffers EXCEPT ![j] = {}]

(* One statement stores one buffer. The last flush leaves the buffer as it is.*)
Save ==
    /\ wpc \in {"flushing", "last"} /\ ctx = "live"
    /\ \E j \in left :
         /\ saves' = Stored(j)
         /\ left' = left \ {j}
         /\ buffers' = IF wpc = "flushing" THEN Emptied(j) ELSE buffers
    /\ UNCHANGED <<engineVars, wpc, lastSave, faults>>

(* The statement fails, or its answer is lost after the commit: Run returns   *)
(* the error and every buffer goes with it.                                   *)
SaveFails ==
    /\ wpc \in {"flushing", "last"}
    /\ \/ ctx = "cancelled" /\ UNCHANGED faults
       \/ ctx = "live" /\ faults < MaxSaveFaults /\ faults' = faults + 1
    /\ \E j \in left : saves' = Stored(j) \/ saves' = saves
    /\ wpc' = "failed"
    /\ UNCHANGED <<engineVars, buffers, left, lastSave>>

(* Only the lead writer sets lastSave again: after its first minute the       *)
(* writer of results saves every result by itself.                            *)
FlushDone ==
    /\ wpc = "flushing" /\ left = {}
    /\ wpc' = "reading"
    /\ lastSave' = IF writer = "leads" THEN "recent" ELSE lastSave
    /\ UNCHANGED <<engineVars, buffers, left, saves, faults>>

LastDone ==
    /\ wpc = "last" /\ left = {}
    /\ wpc' = "ended"
    /\ UNCHANGED <<engineVars, buffers, left, lastSave, saves, faults>>

WriterStep == Receive \/ EndOfInput \/ Save \/ SaveFails \/ FlushDone \/ LastDone
WriterReturned == wpc \in {"ended", "failed"}
-----------------------------------------------------------------------------
(* However flushes by size, by time and at the end follow each other, no      *)
(* result is stored twice.                                                    *)
SavedOnce == \A r \in Results : saves[r] <= 1

(* Why: a result is in one place until it is received, then in the buffer of  *)
(* its key or out of it,                                                      *)
InOnePlace ==
    /\ toCome \cap in = {}
    /\ \A j \in Jobs : \A r \in buffers[j] : r \in Received /\ j = Key(r)
SavedWasReceived == \A r \in Results : saves[r] > 0 => r \in Received
(* a buffer holds saved results only in the last flush, which has then        *)
(* visited it, and once Run has returned,                                     *)
SavedInBuffer ==
    \A j \in Jobs : \A r \in buffers[j] :
        saves[r] > 0 => WriterReturned \/ (wpc = "last" /\ j \notin left)
(* and until an error throws everything away a received result is saved or    *)
(* in a buffer; the last flush has still to visit that buffer.                *)
ReceivedKept ==
    \A r \in Received :
        saves[r] > 0 \/ CASE wpc = "failed" -> TRUE
                           [] wpc = "ended"  -> FALSE
                           [] wpc = "last"   -> r \in buffers[Key(r)] /\ Key(r) \in left
                           [] OTHER          -> r \in buffers[Key(r)]
WriterInv == SavedOnce /\ InOnePlace /\ SavedWasReceived /\ SavedInBuffer /\ ReceivedKept
===============================================================================
