----------------------------- MODULE JobProvider -----------------------------
(***************************************************************************)
(* The job provider of the database runner: any number of worker processes *)
(* share the table gmaps_jobs. In each, one fetchJobs goroutine claims     *)
(* batches of rows and puts them in the channel jobc, and one forwarder    *)
(* for each call of Jobs hands them to the engine. Batches and channels    *)
(* are sets: priorities and the order of a batch are left out.             *)
(***************************************************************************)
EXTENDS Naturals, FiniteSets

CONSTANTS
  Workers,       \* the processes that scrape
  Slots,         \* the engine's goroutines that call Jobs, in each process
  Jobs,          \* the ids of jobs that are ever pushed
  BatchSize,     \* batchSize
  MaxRestarts,   \* how often a process may die and start again
  MaxErrors      \* how many claims may fail

ASSUME ProviderAssumption ==
  /\ IsFiniteSet(Slots)
  /\ IsFiniteSet(Jobs)
  /\ BatchSize \in Nat \ {0}
  /\ MaxRestarts \in Nat
  /\ MaxErrors \in Nat

VARIABLES
  status,     \* the status column; "none" when there is no row
  fetchPc,    \* control point of fetchJobs
  batch,      \* the rows its statement has locked, then those not yet sent
  jobc,       \* the channel between fetchJobs and the forwarders
  err,        \* errc holds an error
  fwdPc,      \* control point of each forwarder
  offered,    \* the job that a forwarder offers to the engine
  ctx,        \* the context of each process
  handed,     \* the jobs that some engine has received
  restarts, errors

fetcher == <<fetchPc, batch>>
bounds  == <<restarts, errors>>
vars    == <<status, fetchPc, batch, jobc, err, fwdPc, offered, ctx, handed,
             restarts, errors>>

FetchPc == {"off", "poll", "claim", "send", "return", "closing", "ended"}

TypeOK ==
  /\ status \in [Jobs -> {"none", "new", "queued"}]
  /\ fetchPc \in [Workers -> FetchPc]
  /\ batch \in [Workers -> SUBSET Jobs]
  /\ jobc \in [Workers -> SUBSET Jobs]
  /\ err \in [Workers -> BOOLEAN]
  /\ fwdPc \in [Workers -> [Slots -> {"off", "select", "offer", "ended"}]]
  /\ offered \in [Workers -> [Slots -> SUBSET Jobs]]
  /\ ctx \in [Workers -> {"live", "done"}]
  /\ handed \in SUBSET Jobs
  /\ restarts \in 0..MaxRestarts
  /\ errors \in 0..MaxErrors

Init ==
  /\ status = [j \in Jobs |-> "none"]
  /\ fetchPc = [w \in Workers |-> "off"]
  /\ batch = [w \in Workers |-> {}]
  /\ jobc = [w \in Workers |-> {}]
  /\ err = [w \in Workers |-> FALSE]
  /\ fwdPc = [w \in Workers |-> [f \in Slots |-> "off"]]
  /\ offered = [w \in Workers |-> [f \in Slots |-> {}]]
  /\ ctx = [w \in Workers |-> "live"]
  /\ handed = {}
  /\ restarts = 0
  /\ errors = 0

-----------------------------------------------------------------------------
(* The table *)

(* Mutant: an upsert makes an old row new again. *)
PushUpsert(j) ==
  /\ status' = [status EXCEPT ![j] = "new"]
  /\ UNCHANGED <<fetcher, jobc, err, fwdPc, offered, ctx, handed, bounds>>

(* INSERT ... ON CONFLICT DO NOTHING, by the producer or by an engine. *)
Push(j) ==
  /\ status' = [status EXCEPT ![j] = IF @ = "none" THEN "new" ELSE @]
  /\ UNCHANGED <<fetcher, jobc, err, fwdPc, offered, ctx, handed, bounds>>

(* SKIP LOCKED leaves out what another statement has selected. *)
Locked == {j \in Jobs : \E w \in Workers : fetchPc[w] = "claim" /\ j \in batch[w]}

(* Mutant: the inner SELECT takes no lock. *)
FreeUnlocked == {j \in Jobs : status[j] = "new"}

Free == {j \in Jobs : status[j] = "new"} \ Locked

(* Mutant: one row less, so that a batch of one never takes anything. *)
LimitedLess(S, all) ==
  /\ Cardinality(S) < BatchSize
  /\ Cardinality(S) + 1 < BatchSize => S = all

(* LIMIT: all of a set, or BatchSize of its members. *)
Limited(S, all) ==
  /\ Cardinality(S) <= BatchSize
  /\ Cardinality(S) < BatchSize => S = all

(* Mutant: a status of the documentation that the table does not know. *)
ClaimedWorking(w) ==
  [j \in Jobs |-> IF j \in batch[w] THEN "working" ELSE status[j]]

(* The status of the rows once w's statement has committed. *)
Claimed(w) == [j \in Jobs |-> IF j \in batch[w] THEN "queued" ELSE status[j]]

-----------------------------------------------------------------------------
(* fetchJobs *)

(* The statement selects and locks its rows. *)
BeginClaim(w) ==
  /\ fetchPc[w] = "poll"
  /\ ctx[w] = "live"
  /\ \E S \in SUBSET Free : Limited(S, Free) /\ batch' = [batch EXCEPT ![w] = S]
  /\ fetchPc' = [fetchPc EXCEPT ![w] = "claim"]
  /\ UNCHANGED <<status, jobc, err, fwdPc, offered, ctx, handed, bounds>>

(* It commits, and all of its rows are read and decoded. *)
EndClaim(w) ==
  /\ fetchPc[w] = "claim"
  /\ status' = Claimed(w)
  /\ fetchPc' = [fetchPc EXCEPT ![w] = "send"]
  /\ UNCHANGED <<batch, jobc, err, fwdPc, offered, ctx, handed, bounds>>

(* The statement fails and changes nothing, or its rows cannot all be read *)
(* and decoded: they stay queued. Cancellation causes either at any time.  *)
ClaimFails(w) ==
  /\ fetchPc[w] = "claim"
  /\ \/ ctx[w] = "done" /\ UNCHANGED errors
     \/ ctx[w] = "live" /\ errors < MaxErrors /\ errors' = errors + 1
  /\ status' \in {status, Claimed(w)}
  /\ batch' = [batch EXCEPT ![w] = {}]
  /\ err' = [err EXCEPT ![w] = TRUE]
  /\ fetchPc' = [fetchPc EXCEPT ![w] = "return"]
  /\ UNCHANGED <<jobc, fwdPc, offered, ctx, handed, restarts>>

(* Mutant: the channel does not hold fetchJobs back. *)
SendJobUnbounded(w, j) ==
  /\ fetchPc[w] = "send"
  /\ j \in batch[w]
  /\ jobc' = [jobc EXCEPT ![w] = @ \cup {j}]
  /\ batch' = [batch EXCEPT ![w] = @ \ {j}]
  /\ UNCHANGED <<status, fetchPc, err, fwdPc, offered, ctx, handed, bounds>>

SendJob(w, j) ==
  /\ fetchPc[w] = "send"
  /\ j \in batch[w]
  /\ Cardinality(jobc[w]) < 2 * BatchSize
  /\ jobc' = [jobc EXCEPT ![w] = @ \cup {j}]
  /\ batch' = [batch EXCEPT ![w] = @ \ {j}]
  /\ UNCHANGED <<status, fetchPc, err, fwdPc, offered, ctx, handed, bounds>>

(* The batch is sent, or was empty and the delay is over. *)
PollAgain(w) ==
  /\ fetchPc[w] = "send"
  /\ batch[w] = {}
  /\ fetchPc' = [fetchPc EXCEPT ![w] = "poll"]
  /\ UNCHANGED <<status, batch, jobc, err, fwdPc, offered, ctx, handed, bounds>>

FetchCancelled(w) ==
  /\ fetchPc[w] \in {"poll", "send"}
  /\ ctx[w] = "done"
  /\ batch' = [batch EXCEPT ![w] = {}]
  /\ fetchPc' = [fetchPc EXCEPT ![w] = "return"]
  /\ UNCHANGED <<status, jobc, err, fwdPc, offered, ctx, handed, bounds>>

(* The deferred calls, last one first: close(errc), then close(jobc). *)
CloseChannel(w) ==
  /\ \/ fetchPc[w] = "return" /\ fetchPc' = [fetchPc EXCEPT ![w] = "closing"]
     \/ fetchPc[w] = "closing" /\ fetchPc' = [fetchPc EXCEPT ![w] = "ended"]
  /\ UNCHANGED <<status, batch, jobc, err, fwdPc, offered, ctx, handed, bounds>>

Fetch(w) ==
  \/ BeginClaim(w) \/ EndClaim(w)
  \/ \E j \in Jobs : SendJob(w, j)
  \/ PollAgain(w) \/ FetchCancelled(w) \/ CloseChannel(w)

-----------------------------------------------------------------------------
(* Jobs and its forwarder *)

(* Only the first call in the life of a process starts fetchJobs. *)
CallJobs(w, f) ==
  /\ fwdPc[w][f] \in {"off", "ended"}
  /\ fwdPc' = [fwdPc EXCEPT ![w][f] = "select"]
  /\ fetchPc' = [fetchPc EXCEPT ![w] = IF @ = "off" THEN "poll" ELSE @]
  /\ UNCHANGED <<status, batch, jobc, err, offered, ctx, handed, bounds>>

(* Mutant: the job is only looked at. *)
TakeKeeps(w, f, j) ==
  /\ fwdPc[w][f] = "select"
  /\ j \in jobc[w]
  /\ offered' = [offered EXCEPT ![w][f] = {j}]
  /\ fwdPc' = [fwdPc EXCEPT ![w][f] = "offer"]
  /\ UNCHANGED <<status, fetcher, jobc, err, ctx, handed, bounds>>

Take(w, f, j) ==
  /\ fwdPc[w][f] = "select"
  /\ j \in jobc[w]
  /\ jobc' = [jobc EXCEPT ![w] = @ \ {j}]
  /\ offered' = [offered EXCEPT ![w][f] = {j}]
  /\ fwdPc' = [fwdPc EXCEPT ![w][f] = "offer"]
  /\ UNCHANGED <<status, fetcher, err, ctx, handed, bounds>>

(* Mutant: the forwarder returns after one job. *)
HandOutOnce(w, f) ==
  /\ fwdPc[w][f] = "offer"
  /\ handed' = handed \cup offered[w][f]
  /\ offered' = [offered EXCEPT ![w][f] = {}]
  /\ fwdPc' = [fwdPc EXCEPT ![w][f] = "ended"]
  /\ UNCHANGED <<status, fetcher, jobc, err, ctx, bounds>>

(* The engine receives the job. *)
HandOut(w, f) ==
  /\ fwdPc[w][f] = "offer"
  /\ handed' = handed \cup offered[w][f]
  /\ offered' = [offered EXCEPT ![w][f] = {}]
  /\ fwdPc' = [fwdPc EXCEPT ![w][f] = "select"]
  /\ UNCHANGED <<status, fetcher, jobc, err, ctx, bounds>>

(* errc holds an error, or is closed and yields nil again and again, even  *)
(* while jobc still holds jobs.                                            *)
TakeError(w, f) ==
  /\ fwdPc[w][f] = "select"
  /\ err[w] \/ fetchPc[w] \in {"closing", "ended"}
  /\ err' = [err EXCEPT ![w] = FALSE]
  /\ fwdPc' = [fwdPc EXCEPT ![w][f] = "ended"]
  /\ UNCHANGED <<status, fetcher, jobc, offered, ctx, handed, bounds>>

(* Mutant: the forwarder drops a job that the engine is slow to receive. *)
StopWhenSlow(w, f) ==
  /\ \/ fwdPc[w][f] = "offer"
     \/ fwdPc[w][f] = "select" /\ ctx[w] = "done"
     \/ fwdPc[w][f] = "select" /\ fetchPc[w] = "ended" /\ jobc[w] = {}
  /\ offered' = [offered EXCEPT ![w][f] = {}]
  /\ fwdPc' = [fwdPc EXCEPT ![w][f] = "ended"]
  /\ UNCHANGED <<status, fetcher, jobc, err, ctx, handed, bounds>>

(* The context is done, or jobc is closed and empty. *)
Stop(w, f) ==
  /\ \/ fwdPc[w][f] \in {"select", "offer"} /\ ctx[w] = "done"
     \/ fwdPc[w][f] = "select" /\ fetchPc[w] = "ended" /\ jobc[w] = {}
  /\ offered' = [offered EXCEPT ![w][f] = {}]
  /\ fwdPc' = [fwdPc EXCEPT ![w][f] = "ended"]
  /\ UNCHANGED <<status, fetcher, jobc, err, ctx, handed, bounds>>

Forward(w, f) ==
  \/ \E j \in Jobs : Take(w, f, j)
  \/ HandOut(w, f) \/ TakeError(w, f) \/ Stop(w, f)

-----------------------------------------------------------------------------
(* The process *)

Cancel(w) ==
  /\ ctx[w] = "live"
  /\ ctx' = [ctx EXCEPT ![w] = "done"]
  /\ UNCHANGED <<status, fetcher, jobc, err, fwdPc, offered, handed, bounds>>

(* The process dies, or ends after a cancellation, and is started again. A *)
(* statement under way is rolled back or commits without it.               *)
Restart(w) ==
  /\ restarts < MaxRestarts
  /\ restarts' = restarts + 1
  /\ status' \in {status, IF fetchPc[w] = "claim" THEN Claimed(w) ELSE status}
  /\ fetchPc' = [fetchPc EXCEPT ![w] = "off"]
  /\ batch' = [batch EXCEPT ![w] = {}]
  /\ jobc' = [jobc EXCEPT ![w] = {}]
  /\ err' = [err EXCEPT ![w] = FALSE]
  /\ fwdPc' = [fwdPc EXCEPT ![w] = [f \in Slots |-> "off"]]
  /\ offered' = [offered EXCEPT ![w] = [f \in Slots |-> {}]]
  /\ ctx' = [ctx EXCEPT ![w] = "live"]
  /\ UNCHANGED <<handed, errors>>

Next ==
  \/ \E j \in Jobs : Push(j)
  \/ \E w \in Workers :
       \/ Fetch(w) \/ ClaimFails(w) \/ Cancel(w) \/ Restart(w)
       \/ \E f \in Slots : CallJobs(w, f) \/ Forward(w, f)

Spec == Init /\ [][Next]_vars

(* The goroutines run and the engine keeps receiving; nobody has to push,  *)
(* to call Jobs or to start a process again.                               *)
Fairness ==
  \A w \in Workers :
    /\ WF_vars(Fetch(w))
    /\ \A f \in Slots : WF_vars(Forward(w, f))

FairSpec == Spec /\ Fairness

-----------------------------------------------------------------------------
(* Properties *)

Offered(w) == {j \in Jobs : \E f \in Slots : j \in offered[w][f]}
Held(w)    == batch[w] \cup jobc[w] \cup Offered(w)
AllHeld    == {j \in Jobs : \E w \in Workers : j \in Held(w)}

(* Claimed, and neither received by an engine nor held by a process. *)
Lost == {j \in Jobs : status[j] = "queued"} \ (handed \cup AllHeld)

Healthy(w) == ctx[w] = "live" /\ fetchPc[w] \in {"poll", "claim", "send"}

(* A job is in one place at a time: free in the table or locked by one     *)
(* statement, in one process's batch, channel or forwarder, or handed to   *)
(* an engine. Many statements and processes claim from one table, and a    *)
(* producer may push the same id again at any time.                        *)
InOnePlace ==
  /\ \A v, w \in Workers : v # w => Held(v) \cap Held(w) = {}
  /\ \A w \in Workers :
       /\ batch[w] \cap jobc[w] = {}
       /\ (batch[w] \cup jobc[w]) \cap Offered(w) = {}
       /\ \A f, g \in Slots : f # g => offered[w][f] \cap offered[w][g] = {}
  /\ \A j \in handed : status[j] = "queued" /\ j \notin AllHeld

(* What a process holds has been claimed, except for the rows that its     *)
(* statement has only locked.                                              *)
HeldIsQueued ==
  \A w \in Workers : \A j \in Held(w) :
    status[j] = IF fetchPc[w] = "claim" /\ j \in batch[w] THEN "new" ELSE "queued"

Tidy ==
  \A w \in Workers :
    /\ fetchPc[w] \notin {"claim", "send"} => batch[w] = {}
    /\ Cardinality(batch[w]) <= BatchSize
    /\ Cardinality(jobc[w]) <= 2 * BatchSize
    /\ \A f \in Slots :
         /\ fwdPc[w][f] # "offer" => offered[w][f] = {}
         /\ \A i, j \in offered[w][f] : i = j

(* The inductive invariant. *)
ProviderInv == TypeOK /\ InOnePlace /\ HeldIsQueued /\ Tidy

(* A process holds three batches and one job for each forwarder at most:   *)
(* that is what its crash can cost, since nobody sets queued rows back.    *)
MaxHeld     == 3 * BatchSize + Cardinality(Slots)
HeldBounded == \A w \in Workers : Cardinality(Held(w)) <= MaxHeld

(* While a process is healthy, the jobs that it has claimed leave it only  *)
(* for the engine, whatever the other processes do or suffer.              *)
HealthyLosesNothing ==
  [][\A w \in Workers : Healthy(w)' => Held(w) \ Held(w)' \subseteq handed']_vars

(* The table with its workers implements JobQueue. *)
Waiting == {j \in Jobs : status[j] = "new"} \cup AllHeld

Queue == INSTANCE JobQueue
           WITH Losses <- {S \in SUBSET Jobs : Cardinality(S) <= MaxHeld},
                waiting <- Waiting, given <- handed, lost <- Lost

(* No job is given twice or given after it was lost, and no step loses     *)
(* more than one process holds.                                            *)
QueueSpec == Queue!Spec

(* A new row is claimed unless no process is at work: an empty answer, a   *)
(* full channel or another process's locks only delay it.                  *)
NewIsClaimed ==
  \A j \in Jobs :
    status[j] = "new" ~> status[j] = "queued" \/ \A w \in Workers : ~ Healthy(w)

(* A claimed job reaches the engine unless its process breaks: fetchJobs   *)
(* and the forwarders do not wait for each other for ever.                 *)
ClaimedIsHanded ==
  \A w \in Workers : \A j \in Jobs :
    j \in Held(w) ~> j \in handed \/ ~ Healthy(w)

(* docs/outline.md says of this queue that it provides automatic job retry *)
(* mechanisms: a job that was lost with its process is claimable again or  *)
(* handed out, provided that some process is at work.                      *)
LostIsRetried ==
  \A j \in Jobs :
    j \in Lost ~> j \notin Lost \/ \A w \in Workers : ~ Healthy(w)

=============================================================================
