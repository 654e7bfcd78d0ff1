-------------------------- MODULE JobProviderProofs --------------------------
(***************************************************************************)
(* Theorems about JobProvider, for any workers, jobs and batch size, and   *)
(* however often processes die and claims fail.                            *)
(***************************************************************************)
EXTENDS JobProvider, FiniteSetTheorems, TLAPS

(* Sets of jobs are finite. *)
LEMMA JobSets ==
  \A S \in SUBSET Jobs : IsFiniteSet(S) /\ Cardinality(S) \in Nat
BY ProviderAssumption, FS_Subset, FS_CardinalityType

(* Adding or removing a job changes the size of a set by one at most. *)
LEMMA JobSetSteps ==
  ASSUME NEW S \in SUBSET Jobs, NEW j \in Jobs
  PROVE  /\ Cardinality(S \cup {j}) <= Cardinality(S) + 1
         /\ Cardinality(S \ {j}) <= Cardinality(S)
<1>1. IsFiniteSet(S) /\ Cardinality(S) \in Nat
  BY JobSets
<1>2. Cardinality(S \cup {j}) \in {Cardinality(S), Cardinality(S) + 1}
  BY <1>1, FS_AddElement
<1>3. Cardinality(S \ {j}) \in {Cardinality(S), Cardinality(S) - 1}
  BY <1>1, FS_RemoveElement
<1> QED BY <1>1, <1>2, <1>3

LEMMA EmptyBatch == Cardinality({}) = 0
BY FS_EmptySet

-----------------------------------------------------------------------------
(* The invariant job by job, which the provers handle better than unions   *)
(* of sets.                                                                *)

Holds(w, j) ==
  j \in batch[w] \/ j \in jobc[w] \/ \E f \in Slots : j \in offered[w][f]

OneHolder == \A j \in Jobs : \A v, w \in Workers :
               Holds(v, j) /\ Holds(w, j) => v = w

OnePart ==
  \A j \in Jobs : \A w \in Workers :
    /\ ~ (j \in batch[w] /\ j \in jobc[w])
    /\ \A f \in Slots : j \in offered[w][f] => j \notin batch[w] /\ j \notin jobc[w]
    /\ \A f, g \in Slots : j \in offered[w][f] /\ j \in offered[w][g] => f = g

HandedGone ==
  \A j \in handed : status[j] = "queued" /\ \A w \in Workers : ~ Holds(w, j)

RowOfHeld ==
  \A j \in Jobs : \A w \in Workers :
    /\ Holds(w, j) /\ ~ (fetchPc[w] = "claim" /\ j \in batch[w])
         => status[j] = "queued"
    /\ fetchPc[w] = "claim" /\ j \in batch[w] => status[j] = "new"

JobByJob == OneHolder /\ OnePart /\ HandedGone /\ RowOfHeld

LEMMA HeldIsHolds ==
  ASSUME TypeOK
  PROVE  /\ \A w \in Workers : Held(w) = {j \in Jobs : Holds(w, j)}
         /\ AllHeld = {j \in Jobs : \E w \in Workers : Holds(w, j)}
<1>1. \A w \in Workers : Held(w) = {j \in Jobs : Holds(w, j)}
  BY DEF TypeOK, Held, Offered, Holds
<1> QED BY <1>1 DEF AllHeld

LEMMA InvJobByJob ==
  ProviderInv <=> TypeOK /\ JobByJob /\ Tidy
<1> SUFFICES ASSUME TypeOK
             PROVE  InOnePlace /\ HeldIsQueued <=> JobByJob
  BY DEF ProviderInv
<1>1. \A w \in Workers : \A j : j \in Held(w) <=> j \in Jobs /\ Holds(w, j)
  BY HeldIsHolds
<1>2. \A j : j \in AllHeld <=> j \in Jobs /\ \E w \in Workers : Holds(w, j)
  BY HeldIsHolds
<1>3. ASSUME InOnePlace, HeldIsQueued PROVE JobByJob
  <2>1. OneHolder
    BY <1>1, <1>3 DEF OneHolder, InOnePlace
  <2>2. OnePart
    BY <1>3 DEF OnePart, InOnePlace, Offered
  <2>3. HandedGone
    BY <1>2, <1>3 DEF HandedGone, InOnePlace, TypeOK
  <2>4. RowOfHeld
    BY <1>1, <1>3 DEF RowOfHeld, HeldIsQueued, Holds
  <2> QED BY <2>1, <2>2, <2>3, <2>4 DEF JobByJob
<1>4. ASSUME JobByJob PROVE InOnePlace /\ HeldIsQueued
  <2>1. \A v, w \in Workers : v # w => Held(v) \cap Held(w) = {}
    BY <1>1, <1>4 DEF JobByJob, OneHolder
  <2>2. \A w \in Workers :
          /\ batch[w] \cap jobc[w] = {}
          /\ (batch[w] \cup jobc[w]) \cap Offered(w) = {}
          /\ \A f, g \in Slots : f # g => offered[w][f] \cap offered[w][g] = {}
    BY <1>4 DEF JobByJob, OnePart, Offered, TypeOK
  <2>3. \A j \in handed : status[j] = "queued" /\ j \notin AllHeld
    BY <1>2, <1>4 DEF JobByJob, HandedGone
  <2>4. HeldIsQueued
    BY <1>1, <1>4 DEF JobByJob, RowOfHeld, HeldIsQueued
  <2> QED BY <2>1, <2>2, <2>3, <2>4 DEF InOnePlace
<1> QED BY <1>3, <1>4

(* A step that takes jobs from processes and gives them none. *)
LEMMA Shrinks ==
  ASSUME JobByJob, TypeOK, TypeOK', handed' = handed,
         \A w \in Workers :
           /\ batch'[w] \subseteq batch[w]
           /\ jobc'[w] \subseteq jobc[w]
           /\ \A f \in Slots : offered'[w][f] \subseteq offered[w][f],
         \A j \in handed : status'[j] = "queued",
         RowOfHeld'
  PROVE  JobByJob'
<1>1. \A w \in Workers : \A j \in Jobs : Holds(w, j)' => Holds(w, j)
  BY DEF Holds
<1>2. OneHolder'
  BY <1>1 DEF JobByJob, OneHolder
<1>3. OnePart'
  BY DEF JobByJob, OnePart
<1>4. HandedGone'
  BY <1>1 DEF JobByJob, HandedGone, TypeOK
<1> QED BY <1>2, <1>3, <1>4 DEF JobByJob

-----------------------------------------------------------------------------
(* The steps of fetchJobs *)

LEMMA BeginClaimStep ==
  ASSUME TypeOK, JobByJob, Tidy, NEW w \in Workers, BeginClaim(w)
  PROVE  TypeOK' /\ JobByJob' /\ Tidy'
<1>1. PICK S \in SUBSET Free : /\ Limited(S, Free)
                               /\ batch' = [batch EXCEPT ![w] = S]
  BY DEF BeginClaim
<1>2. S \in SUBSET Jobs /\ Cardinality(S) <= BatchSize
  BY <1>1 DEF Free, Limited
<1>3. TypeOK'
  BY <1>1, <1>2 DEF BeginClaim, TypeOK, FetchPc, bounds
<1>4. Tidy'
  BY <1>1, <1>2 DEF BeginClaim, Tidy, TypeOK, bounds
<1>5. \A j \in S : /\ status[j] = "new"
                   /\ j \notin handed
                   /\ \A v \in Workers : ~ Holds(v, j)
  <2> SUFFICES ASSUME NEW j \in S
               PROVE  /\ status[j] = "new"
                      /\ j \notin handed
                      /\ \A v \in Workers : ~ Holds(v, j)
    OBVIOUS
  <2>1. /\ status[j] = "new"
        /\ j \in Jobs
        /\ \A v \in Workers : ~ (fetchPc[v] = "claim" /\ j \in batch[v])
    BY DEF Free, Locked
  <2> QED BY <2>1 DEF JobByJob, RowOfHeld, HandedGone
<1>6. /\ batch[w] = {} /\ batch'[w] = S
      /\ \A v \in Workers : v # w => batch'[v] = batch[v] /\ fetchPc'[v] = fetchPc[v]
      /\ fetchPc'[w] = "claim"
      /\ UNCHANGED <<status, jobc, offered, handed>>
  BY <1>1 DEF BeginClaim, TypeOK, Tidy
<1>7. \A v \in Workers : \A j \in Jobs :
        Holds(v, j)' <=> Holds(v, j) \/ (v = w /\ j \in S)
  BY <1>6 DEF Holds
<1>8. OneHolder'
  BY <1>5, <1>7 DEF JobByJob, OneHolder
<1>9. OnePart'
  BY <1>5, <1>6 DEF JobByJob, OnePart, Holds
<1>10. HandedGone'
  BY <1>5, <1>6, <1>7 DEF JobByJob, HandedGone, TypeOK
<1>11. RowOfHeld'
  <2>1. \A j \in Jobs : Holds(w, j) => status[j] = "queued"
    BY <1>6 DEF JobByJob, RowOfHeld
  <2> QED BY <1>5, <1>6, <1>7, <2>1 DEF JobByJob, RowOfHeld
<1> QED BY <1>3, <1>4, <1>8, <1>9, <1>10, <1>11 DEF JobByJob

(* The rows of a statement are nobody else's. *)
LEMMA ClaimedRows ==
  ASSUME TypeOK, JobByJob, NEW w \in Workers, fetchPc[w] = "claim",
         status' = Claimed(w) \/ status' = status
  PROVE  /\ status' \in [Jobs -> {"none", "new", "queued"}]
         /\ \A j \in Jobs : status[j] = "queued" => status'[j] = "queued"
         /\ \A j \in Jobs : status'[j] # status[j] => j \in batch[w]
         /\ \A j \in batch[w] : \A v \in Workers : v # w => ~ Holds(v, j)
BY DEF TypeOK, JobByJob, OneHolder, Holds, Claimed

LEMMA EndClaimStep ==
  ASSUME TypeOK, JobByJob, Tidy, NEW w \in Workers, EndClaim(w)
  PROVE  TypeOK' /\ JobByJob' /\ Tidy'
<1>1. /\ status' \in [Jobs -> {"none", "new", "queued"}]
      /\ \A j \in Jobs : status[j] = "queued" => status'[j] = "queued"
      /\ \A j \in Jobs : status'[j] # status[j] => j \in batch[w]
      /\ \A j \in batch[w] : \A v \in Workers : v # w => ~ Holds(v, j)
  BY ClaimedRows DEF EndClaim
<1>2. TypeOK'
  BY <1>1 DEF EndClaim, TypeOK, FetchPc, bounds
<1>3. Tidy'
  BY DEF EndClaim, Tidy, TypeOK, bounds
<1>4. \A v \in Workers : \A j \in Jobs : Holds(v, j)' <=> Holds(v, j)
  BY DEF EndClaim, Holds
<1>5. \A j \in batch[w] : status'[j] = "queued"
  BY DEF EndClaim, Claimed, TypeOK
<1>6. RowOfHeld'
  <2>1. \A v \in Workers : v # w => fetchPc'[v] = fetchPc[v]
    BY DEF EndClaim, TypeOK
  <2>2. fetchPc'[w] = "send" /\ batch' = batch
    BY DEF EndClaim, TypeOK
  <2>3. \A j \in Jobs : Holds(w, j) => status'[j] = "queued"
    BY <1>1, <1>5 DEF JobByJob, RowOfHeld
  <2>4. \A v \in Workers : \A j \in Jobs :
          v # w /\ Holds(v, j) => status'[j] = status[j]
    BY <1>1
  <2>5. \A v \in Workers : \A j \in Jobs : j \in batch[v] => Holds(v, j)
    BY DEF Holds
  <2> QED BY <1>4, <2>1, <2>2, <2>3, <2>4, <2>5 DEF JobByJob, RowOfHeld
<1>7. JobByJob'
  <2>1. \A j \in handed : status'[j] = "queued"
    BY <1>1 DEF JobByJob, HandedGone, TypeOK
  <2> QED BY <1>2, <1>6, <2>1, Shrinks DEF EndClaim
<1> QED BY <1>2, <1>3, <1>7

LEMMA ClaimFailsStep ==
  ASSUME TypeOK, JobByJob, Tidy, NEW w \in Workers, ClaimFails(w)
  PROVE  TypeOK' /\ JobByJob' /\ Tidy'
<1>1. /\ status' \in [Jobs -> {"none", "new", "queued"}]
      /\ \A j \in Jobs : status[j] = "queued" => status'[j] = "queued"
      /\ \A j \in Jobs : status'[j] # status[j] => j \in batch[w]
      /\ \A j \in batch[w] : \A v \in Workers : v # w => ~ Holds(v, j)
  BY ClaimedRows DEF ClaimFails
<1>2. TypeOK'
  BY <1>1, ProviderAssumption DEF ClaimFails, TypeOK, FetchPc
<1>3. Tidy'
  BY EmptyBatch, ProviderAssumption DEF ClaimFails, Tidy, TypeOK
<1>4. /\ batch'[w] = {} /\ fetchPc'[w] = "return"
      /\ \A v \in Workers : v # w => batch'[v] = batch[v] /\ fetchPc'[v] = fetchPc[v]
      /\ UNCHANGED <<jobc, offered, handed>>
  BY DEF ClaimFails, TypeOK
<1>5. RowOfHeld'
  <2>1. \A v \in Workers : \A j \in Jobs : Holds(v, j)' => Holds(v, j)
    BY <1>4 DEF Holds
  <2>2. \A v \in Workers : \A j \in Jobs :
          v # w /\ Holds(v, j) => status'[j] = status[j]
    BY <1>1
  <2>3. \A j \in Jobs : Holds(w, j)' => status[j] = "queued"
    BY <1>4 DEF JobByJob, OnePart, RowOfHeld, Holds
  <2>4. \A v \in Workers : \A j \in Jobs : j \in batch[v] => Holds(v, j)
    BY DEF Holds
  <2> QED BY <1>1, <1>4, <2>1, <2>2, <2>3, <2>4 DEF JobByJob, RowOfHeld
<1>6. JobByJob'
  <2>1. \A j \in handed : status'[j] = "queued"
    BY <1>1 DEF JobByJob, HandedGone, TypeOK
  <2> QED BY <1>2, <1>4, <1>5, <2>1, Shrinks
<1> QED BY <1>2, <1>3, <1>6

LEMMA SendJobStep ==
  ASSUME TypeOK, JobByJob, Tidy, NEW w \in Workers, NEW j \in Jobs, SendJob(w, j)
  PROVE  TypeOK' /\ JobByJob' /\ Tidy'
<1>1. /\ Cardinality(jobc[w] \cup {j}) <= 2 * BatchSize
      /\ Cardinality(batch[w] \ {j}) <= BatchSize
  <2>1. /\ Cardinality(jobc[w]) \in Nat /\ Cardinality(jobc[w] \cup {j}) \in Nat
        /\ Cardinality(batch[w]) \in Nat /\ Cardinality(batch[w] \ {j}) \in Nat
    BY JobSets DEF TypeOK
  <2>2. /\ Cardinality(jobc[w] \cup {j}) <= Cardinality(jobc[w]) + 1
        /\ Cardinality(batch[w] \ {j}) <= Cardinality(batch[w])
    BY JobSetSteps DEF TypeOK
  <2> QED BY <2>1, <2>2, ProviderAssumption DEF SendJob, Tidy
<1>2. /\ batch'[w] = batch[w] \ {j} /\ jobc'[w] = jobc[w] \cup {j}
      /\ j \in batch[w] /\ fetchPc[w] = "send"
      /\ \A v \in Workers : v # w => batch'[v] = batch[v] /\ jobc'[v] = jobc[v]
      /\ UNCHANGED <<status, fetchPc, fwdPc, offered, handed>>
  BY DEF SendJob, TypeOK
<1>3. TypeOK'
  BY DEF SendJob, TypeOK, bounds
<1>4. Tidy'
  BY <1>1, <1>2 DEF Tidy
<1>5. \A v \in Workers : \A i \in Jobs : Holds(v, i)' <=> Holds(v, i)
  BY <1>2 DEF Holds
<1>6. OneHolder' /\ HandedGone'
  BY <1>2, <1>5 DEF JobByJob, OneHolder, HandedGone, TypeOK
<1>7. OnePart'
  BY <1>2 DEF JobByJob, OnePart
<1>8. RowOfHeld'
  BY <1>2, <1>5 DEF JobByJob, RowOfHeld
<1> QED BY <1>3, <1>4, <1>6, <1>7, <1>8 DEF JobByJob

(* The other steps change no row. *)
LEMMA FetchMovesStep ==
  ASSUME TypeOK, JobByJob, Tidy, NEW w \in Workers,
         PollAgain(w) \/ FetchCancelled(w) \/ CloseChannel(w)
  PROVE  TypeOK' /\ JobByJob' /\ Tidy'
<1>1. TypeOK'
  BY DEF PollAgain, FetchCancelled, CloseChannel, TypeOK, FetchPc, bounds
<1>2. Tidy'
  <2>1. /\ \A v \in Workers :
             /\ batch'[v] = batch[v] \/ batch'[v] = {}
             /\ fetchPc'[v] \notin {"claim", "send"} => batch'[v] = {}
        /\ UNCHANGED <<jobc, fwdPc, offered>>
    <3>1. CASE PollAgain(w)
      BY <3>1 DEF PollAgain, TypeOK, Tidy
    <3>2. CASE FetchCancelled(w)
      BY <3>2 DEF FetchCancelled, TypeOK, Tidy
    <3>3. CASE CloseChannel(w)
      BY <3>3 DEF CloseChannel, TypeOK, Tidy
    <3> QED BY <3>1, <3>2, <3>3
  <2>2. \A v \in Workers : Cardinality(batch'[v]) <= BatchSize
    <3> SUFFICES ASSUME NEW v \in Workers
                 PROVE  Cardinality(batch'[v]) <= BatchSize
      OBVIOUS
    <3>1. CASE batch'[v] = batch[v]
      BY <3>1 DEF Tidy
    <3>2. CASE batch'[v] = {}
      BY <3>2, EmptyBatch, ProviderAssumption
    <3> QED BY <2>1, <3>1, <3>2
  <2>3. UNCHANGED <<jobc, fwdPc, offered>>
    BY <2>1
  <2> QED BY <2>1, <2>2, <2>3 DEF Tidy
<1>3. /\ \A v \in Workers : /\ batch'[v] \subseteq batch[v]
                            /\ v # w => /\ batch'[v] = batch[v]
                                        /\ fetchPc'[v] = fetchPc[v]
      /\ fetchPc[w] # "claim" /\ fetchPc'[w] # "claim"
      /\ UNCHANGED <<status, jobc, offered, handed>>
  BY DEF PollAgain, FetchCancelled, CloseChannel, TypeOK
<1>4. RowOfHeld'
  <2>1. \A v \in Workers : \A j \in Jobs : Holds(v, j)' => Holds(v, j)
    BY <1>3 DEF Holds
  <2> QED BY <1>3, <2>1 DEF JobByJob, RowOfHeld
<1>5. JobByJob'
  BY <1>1, <1>3, <1>4, Shrinks DEF JobByJob, HandedGone
<1> QED BY <1>1, <1>2, <1>5

LEMMA FetchStep ==
  ASSUME ProviderInv, NEW w \in Workers, Fetch(w) \/ ClaimFails(w)
  PROVE  ProviderInv'
<1>1. TypeOK /\ JobByJob /\ Tidy
  BY InvJobByJob
<1>2. TypeOK' /\ JobByJob' /\ Tidy'
  BY <1>1, BeginClaimStep, EndClaimStep, ClaimFailsStep, SendJobStep,
     FetchMovesStep DEF Fetch
<1>3. (ProviderInv <=> TypeOK /\ JobByJob /\ Tidy)'
  BY InvJobByJob, PTL
<1> QED BY <1>2, <1>3

-----------------------------------------------------------------------------
(* The steps of the forwarders *)

LEMMA TakeStep ==
  ASSUME TypeOK, JobByJob, Tidy, NEW w \in Workers, NEW f \in Slots,
         NEW j \in Jobs, Take(w, f, j)
  PROVE  TypeOK' /\ JobByJob' /\ Tidy'
<1>1. Cardinality(jobc[w] \ {j}) <= 2 * BatchSize
  <2>1. Cardinality(jobc[w]) \in Nat /\ Cardinality(jobc[w] \ {j}) \in Nat
    BY JobSets DEF TypeOK
  <2>2. Cardinality(jobc[w] \ {j}) <= Cardinality(jobc[w])
    BY JobSetSteps DEF TypeOK
  <2> QED BY <2>1, <2>2, ProviderAssumption DEF Tidy
<1>2. /\ jobc'[w] = jobc[w] \ {j} /\ j \in jobc[w]
      /\ offered[w][f] = {} /\ offered'[w][f] = {j}
      /\ fwdPc'[w][f] = "offer"
      /\ \A v \in Workers : v # w => jobc'[v] = jobc[v]
      /\ \A v \in Workers : \A g \in Slots :
           v # w \/ g # f => /\ offered'[v][g] = offered[v][g]
                             /\ fwdPc'[v][g] = fwdPc[v][g]
      /\ UNCHANGED <<status, fetchPc, batch, handed>>
  BY DEF Take, TypeOK, Tidy, fetcher
<1>3. TypeOK'
  BY DEF Take, TypeOK, fetcher, bounds
<1>4. Tidy'
  <2>1. \A v \in Workers : Cardinality(jobc'[v]) <= 2 * BatchSize
    BY <1>1, <1>2 DEF Tidy
  <2>2. \A v \in Workers : \A g \in Slots :
          /\ fwdPc'[v][g] # "offer" => offered'[v][g] = {}
          /\ \A h, i \in offered'[v][g] : h = i
    <3> SUFFICES ASSUME NEW v \in Workers, NEW g \in Slots
                 PROVE  /\ fwdPc'[v][g] # "offer" => offered'[v][g] = {}
                        /\ \A h, i \in offered'[v][g] : h = i
      OBVIOUS
    <3>1. CASE v = w /\ g = f
      BY <1>2, <3>1
    <3>2. CASE v # w \/ g # f
      BY <1>2, <3>2 DEF Tidy
    <3> QED BY <3>1, <3>2
  <2> QED BY <1>2, <2>1, <2>2 DEF Tidy
<1>5. \A v \in Workers : \A i \in Jobs : Holds(v, i)' <=> Holds(v, i)
  BY <1>2 DEF Holds
<1>6. OneHolder' /\ HandedGone'
  BY <1>2, <1>5 DEF JobByJob, OneHolder, HandedGone, TypeOK
<1>7. OnePart'
  BY <1>2 DEF JobByJob, OnePart
<1>8. RowOfHeld'
  BY <1>2, <1>5 DEF JobByJob, RowOfHeld
<1> QED BY <1>3, <1>4, <1>6, <1>7, <1>8 DEF JobByJob

LEMMA HandOutStep ==
  ASSUME TypeOK, JobByJob, Tidy, NEW w \in Workers, NEW f \in Slots, HandOut(w, f)
  PROVE  TypeOK' /\ JobByJob' /\ Tidy'
<1>1. /\ offered'[w][f] = {}
      /\ handed' = handed \cup offered[w][f]
      /\ \A v \in Workers : \A g \in Slots :
           v # w \/ g # f => /\ offered'[v][g] = offered[v][g]
                             /\ fwdPc'[v][g] = fwdPc[v][g]
      /\ UNCHANGED <<status, fetchPc, batch, jobc>>
  BY DEF HandOut, TypeOK, fetcher
<1>2. TypeOK'
  BY DEF HandOut, TypeOK, fetcher, bounds
<1>3. Tidy'
  BY <1>1 DEF Tidy
<1>4. \A v \in Workers : \A i \in Jobs : Holds(v, i)' => Holds(v, i)
  BY <1>1 DEF Holds
<1>5. OneHolder' /\ OnePart'
  BY <1>1, <1>4 DEF JobByJob, OneHolder, OnePart
<1>6. \A j \in offered[w][f] : /\ j \in Jobs
                               /\ status[j] = "queued"
                               /\ \A v \in Workers : ~ Holds(v, j)'
  <2> SUFFICES ASSUME NEW j \in offered[w][f]
               PROVE  /\ j \in Jobs
                      /\ status[j] = "queued"
                      /\ \A v \in Workers : ~ Holds(v, j)'
    OBVIOUS
  <2>1. j \in Jobs /\ Holds(w, j)
    BY DEF TypeOK, Holds
  <2>2. \A v \in Workers : Holds(v, j) => v = w
    BY <2>1 DEF JobByJob, OneHolder
  <2>3. /\ j \notin batch[w] /\ j \notin jobc[w]
        /\ \A g \in Slots : g # f => j \notin offered[w][g]
    BY <2>1 DEF JobByJob, OnePart
  <2>4. ~ Holds(w, j)'
    BY <1>1, <2>3 DEF Holds
  <2>5. status[j] = "queued"
    BY <2>1, <2>3 DEF JobByJob, RowOfHeld
  <2> QED BY <1>4, <2>1, <2>2, <2>4, <2>5
<1>7. HandedGone'
  BY <1>1, <1>4, <1>6 DEF JobByJob, HandedGone, TypeOK
<1>8. RowOfHeld'
  BY <1>1, <1>4 DEF JobByJob, RowOfHeld
<1> QED BY <1>2, <1>3, <1>5, <1>7, <1>8 DEF JobByJob

LEMMA ForwarderMovesStep ==
  ASSUME TypeOK, JobByJob, Tidy, NEW w \in Workers, NEW f \in Slots,
         CallJobs(w, f) \/ TakeError(w, f) \/ Stop(w, f)
  PROVE  TypeOK' /\ JobByJob' /\ Tidy'
<1>1. TypeOK'
  <2>1. CASE CallJobs(w, f)
    BY <2>1 DEF CallJobs, TypeOK, FetchPc, bounds
  <2>2. CASE TakeError(w, f)
    BY <2>2 DEF TakeError, TypeOK, fetcher, bounds
  <2>3. CASE Stop(w, f)
    BY <2>3 DEF Stop, TypeOK, fetcher, bounds
  <2> QED BY <2>1, <2>2, <2>3
<1>2. /\ offered'[w][f] = {}
      /\ \A v \in Workers : \A g \in Slots :
           v # w \/ g # f => /\ offered'[v][g] = offered[v][g]
                             /\ fwdPc'[v][g] = fwdPc[v][g]
      /\ \A v \in Workers :
           \/ fetchPc'[v] = fetchPc[v]
           \/ fetchPc[v] = "off" /\ fetchPc'[v] = "poll"
      /\ UNCHANGED <<status, batch, jobc, handed>>
  <2>1. CASE CallJobs(w, f)
    BY <2>1 DEF CallJobs, TypeOK, Tidy
  <2>2. CASE TakeError(w, f)
    BY <2>2 DEF TakeError, TypeOK, Tidy, fetcher
  <2>3. CASE Stop(w, f)
    BY <2>3 DEF Stop, TypeOK, Tidy, fetcher
  <2> QED BY <2>1, <2>2, <2>3
<1>3. Tidy'
  BY <1>2 DEF Tidy
<1>4. RowOfHeld'
  <2>1. \A v \in Workers : \A j \in Jobs : Holds(v, j)' => Holds(v, j)
    BY <1>2 DEF Holds
  <2>2. \A v \in Workers : fetchPc'[v] = "claim" <=> fetchPc[v] = "claim"
    BY <1>2
  <2> QED BY <1>2, <2>1, <2>2 DEF JobByJob, RowOfHeld
<1>5. JobByJob'
  BY <1>1, <1>2, <1>4, Shrinks DEF JobByJob, HandedGone
<1> QED BY <1>1, <1>3, <1>5

LEMMA ForwardStep ==
  ASSUME ProviderInv, NEW w \in Workers, NEW f \in Slots,
         CallJobs(w, f) \/ Forward(w, f)
  PROVE  ProviderInv'
<1>1. TypeOK /\ JobByJob /\ Tidy
  BY InvJobByJob
<1>2. TypeOK' /\ JobByJob' /\ Tidy'
  BY <1>1, TakeStep, HandOutStep, ForwarderMovesStep DEF Forward
<1>3. (ProviderInv <=> TypeOK /\ JobByJob /\ Tidy)'
  BY InvJobByJob, PTL
<1> QED BY <1>2, <1>3

-----------------------------------------------------------------------------
(* The table and the process *)

LEMMA PushStep ==
  ASSUME TypeOK, JobByJob, Tidy, NEW j \in Jobs, Push(j)
  PROVE  TypeOK' /\ JobByJob' /\ Tidy'
<1>1. TypeOK'
  BY DEF Push, TypeOK, fetcher, bounds
<1>2. Tidy'
  BY DEF Push, Tidy, fetcher
<1>3. /\ \A i \in Jobs : status[i] # "none" => status'[i] = status[i]
      /\ UNCHANGED <<fetchPc, batch, jobc, offered, handed>>
  BY DEF Push, TypeOK, fetcher
<1>4. RowOfHeld'
  <2>1. \A v \in Workers : \A i \in Jobs : Holds(v, i)' <=> Holds(v, i)
    BY <1>3 DEF Holds
  <2> QED BY <1>3, <2>1 DEF JobByJob, RowOfHeld
<1>5. JobByJob'
  <2>1. \A i \in handed : status'[i] = "queued"
    BY <1>3 DEF JobByJob, HandedGone, TypeOK
  <2> QED BY <1>1, <1>3, <1>4, <2>1, Shrinks
<1> QED BY <1>1, <1>2, <1>5

LEMMA RestartStep ==
  ASSUME TypeOK, JobByJob, Tidy, NEW w \in Workers, Restart(w)
  PROVE  TypeOK' /\ JobByJob' /\ Tidy'
<1>1. /\ status' \in [Jobs -> {"none", "new", "queued"}]
      /\ \A j \in Jobs : status[j] = "queued" => status'[j] = "queued"
      /\ \A j \in Jobs : status'[j] # status[j] => j \in batch[w]
      /\ \A j \in batch[w] : \A v \in Workers : v # w => ~ Holds(v, j)
  <2>1. status' = status \/ (status' = Claimed(w) /\ fetchPc[w] = "claim")
    BY DEF Restart
  <2>2. CASE fetchPc[w] = "claim"
    BY <2>1, <2>2, ClaimedRows
  <2>3. CASE status' = status
    BY <2>3 DEF TypeOK, JobByJob, OneHolder, Holds
  <2> QED BY <2>1, <2>2, <2>3
<1>2. TypeOK'
  BY <1>1, ProviderAssumption DEF Restart, TypeOK, FetchPc
<1>3. /\ batch'[w] = {} /\ jobc'[w] = {} /\ fetchPc'[w] = "off"
      /\ \A f \in Slots : offered'[w][f] = {} /\ fwdPc'[w][f] = "off"
      /\ \A v \in Workers : v # w => /\ batch'[v] = batch[v]
                                     /\ jobc'[v] = jobc[v]
                                     /\ offered'[v] = offered[v]
                                     /\ fwdPc'[v] = fwdPc[v]
                                     /\ fetchPc'[v] = fetchPc[v]
      /\ UNCHANGED handed
  BY DEF Restart, TypeOK
<1>4. Tidy'
  <2> DEFINE TidyOne(v) ==
        /\ fetchPc'[v] \notin {"claim", "send"} => batch'[v] = {}
        /\ Cardinality(batch'[v]) <= BatchSize
        /\ Cardinality(jobc'[v]) <= 2 * BatchSize
        /\ \A f \in Slots :
             /\ fwdPc'[v][f] # "offer" => offered'[v][f] = {}
             /\ \A i, j \in offered'[v][f] : i = j
  <2>1. TidyOne(w)
    BY <1>3, EmptyBatch, ProviderAssumption
  <2>2. ASSUME NEW v \in Workers, v # w PROVE TidyOne(v)
    BY <1>3, <2>2 DEF Tidy
  <2> QED BY <2>1, <2>2 DEF Tidy
<1>5. RowOfHeld'
  <2>1. \A v \in Workers : \A j \in Jobs : Holds(v, j)' => v # w /\ Holds(v, j)
    BY <1>3 DEF Holds
  <2>2. \A v \in Workers : \A j \in Jobs :
          v # w /\ Holds(v, j) => status'[j] = status[j]
    BY <1>1
  <2>3. \A v \in Workers : \A j \in Jobs : j \in batch[v] => Holds(v, j)
    BY DEF Holds
  <2> QED BY <1>3, <2>1, <2>2, <2>3 DEF JobByJob, RowOfHeld
<1>6. JobByJob'
  <2>1. \A j \in handed : status'[j] = "queued"
    BY <1>1 DEF JobByJob, HandedGone, TypeOK
  <2>2. \A v \in Workers : /\ batch'[v] \subseteq batch[v]
                           /\ jobc'[v] \subseteq jobc[v]
                           /\ \A f \in Slots : offered'[v][f] \subseteq offered[v][f]
    BY <1>3
  <2> QED BY <1>2, <1>3, <1>5, <2>1, <2>2, Shrinks
<1> QED BY <1>2, <1>4, <1>6

LEMMA OtherStep ==
  ASSUME ProviderInv,
         \/ \E j \in Jobs : Push(j)
         \/ \E w \in Workers : Cancel(w) \/ Restart(w)
         \/ UNCHANGED vars
  PROVE  ProviderInv'
<1>1. TypeOK /\ JobByJob /\ Tidy
  BY InvJobByJob
<1>2. (ProviderInv <=> TypeOK /\ JobByJob /\ Tidy)'
  BY InvJobByJob, PTL
<1>3. ASSUME \/ \E w \in Workers : Cancel(w)
             \/ UNCHANGED vars
      PROVE  TypeOK' /\ JobByJob' /\ Tidy'
  <2>1. UNCHANGED <<status, fetchPc, batch, jobc, fwdPc, offered, handed>>
    BY <1>3 DEF Cancel, vars, fetcher
  <2>2. TypeOK'
    BY <1>1, <1>3 DEF Cancel, vars, TypeOK, fetcher, bounds
  <2>3. Tidy'
    BY <1>1, <2>1 DEF Tidy
  <2>4. JobByJob'
    BY <1>1, <2>1 DEF JobByJob, OneHolder, OnePart, HandedGone, RowOfHeld, Holds
  <2> QED BY <2>2, <2>3, <2>4
<1> QED BY <1>1, <1>2, <1>3, PushStep, RestartStep

LEMMA ProviderInvStep == ASSUME ProviderInv, [Next]_vars PROVE ProviderInv'
BY FetchStep, ForwardStep, OtherStep DEF Next

(* The inductive invariant of the table and its workers: who may hold a    *)
(* job, what its row says, and how much a process holds.                   *)
THEOREM ProviderInvariant == Spec => []ProviderInv
<1>1. Init => ProviderInv
  BY EmptyBatch, ProviderAssumption
     DEF Init, ProviderInv, TypeOK, InOnePlace, HeldIsQueued, Tidy, Held,
         Offered, AllHeld, FetchPc
<1>2. ProviderInv /\ [Next]_vars => ProviderInv'
  BY ProviderInvStep
<1> QED BY <1>1, <1>2, PTL DEF Spec

(* Every job is in one place at a time, and one that was handed out is in  *)
(* no other.                                                               *)
THEOREM EachJobInOnePlace == Spec => []InOnePlace
<1>1. ProviderInv => InOnePlace
  BY DEF ProviderInv
<1> QED BY <1>1, ProviderInvariant, PTL

-----------------------------------------------------------------------------
(* How much a process holds *)

(* Each forwarder offers one job at most. *)
LEMMA OfferedBounded ==
  ASSUME TypeOK, Tidy, NEW w \in Workers
  PROVE  Cardinality(Offered(w)) <= Cardinality(Slots)
<1> DEFINE Slot == [j \in Offered(w) |-> CHOOSE f \in Slots : j \in offered[w][f]]
<1>1. \A j \in Offered(w) : Slot[j] \in Slots /\ j \in offered[w][Slot[j]]
  BY DEF Offered
<1>2. Slot \in [Offered(w) -> Slots]
  BY <1>1
<1> HIDE DEF Slot
<1>3. \A f \in Slots : \A i, j \in offered[w][f] : i = j
  BY DEF Tidy
<1>4. \A i, j \in Offered(w) : Slot[i] = Slot[j] => i = j
  BY <1>1, <1>3
<1>5. Slot \in Injection(Offered(w), Slots)
  BY <1>2, <1>4 DEF Injection, IsInjective
<1> QED BY <1>5, ProviderAssumption, FS_Injection

LEMMA HeldSize ==
  ASSUME TypeOK, Tidy, NEW w \in Workers
  PROVE  Cardinality(Held(w)) <= MaxHeld
<1>1. batch[w] \in SUBSET Jobs /\ jobc[w] \in SUBSET Jobs
  BY DEF TypeOK
<1>2. Offered(w) \in SUBSET Jobs
  BY DEF Offered
<1> DEFINE Claims == batch[w] \cup jobc[w]
<1>3. /\ IsFiniteSet(batch[w]) /\ Cardinality(batch[w]) \in Nat
      /\ IsFiniteSet(jobc[w]) /\ Cardinality(jobc[w]) \in Nat
      /\ IsFiniteSet(Offered(w)) /\ Cardinality(Offered(w)) \in Nat
      /\ IsFiniteSet(Claims) /\ Cardinality(Claims) \in Nat
      /\ Cardinality(batch[w] \cap jobc[w]) \in Nat
      /\ Cardinality(Claims \cap Offered(w)) \in Nat
      /\ Cardinality(Held(w)) \in Nat
  <2>1. /\ Claims \in SUBSET Jobs
        /\ batch[w] \cap jobc[w] \in SUBSET Jobs
        /\ Claims \cap Offered(w) \in SUBSET Jobs
        /\ Held(w) \in SUBSET Jobs
    BY <1>1, <1>2 DEF Held
  <2> QED BY <1>1, <1>2, <2>1, JobSets
<1>4. Cardinality(Claims) <= Cardinality(batch[w]) + Cardinality(jobc[w])
  <2>1. Cardinality(Claims) = Cardinality(batch[w]) + Cardinality(jobc[w])
                                - Cardinality(batch[w] \cap jobc[w])
    BY <1>3, FS_Union
  <2> QED BY <1>3, <2>1
<1>5. Cardinality(Held(w)) <= Cardinality(Claims) + Cardinality(Offered(w))
  <2>1. Held(w) = Claims \cup Offered(w)
    BY DEF Held
  <2>2. Cardinality(Claims \cup Offered(w))
          = Cardinality(Claims) + Cardinality(Offered(w))
              - Cardinality(Claims \cap Offered(w))
    BY <1>3, FS_Union
  <2> HIDE DEF Claims
  <2> QED BY <1>3, <2>1, <2>2
<1>6. Cardinality(Slots) \in Nat
  BY ProviderAssumption, FS_CardinalityType
<1>7. /\ Cardinality(batch[w]) <= BatchSize
      /\ Cardinality(jobc[w]) <= 2 * BatchSize
      /\ Cardinality(Offered(w)) <= Cardinality(Slots)
  BY OfferedBounded DEF Tidy
<1> HIDE DEF Claims
<1> QED BY <1>3, <1>4, <1>5, <1>6, <1>7, ProviderAssumption DEF MaxHeld

(* A process never holds more than three batches and one job for each      *)
(* forwarder, which is what its crash can cost.                            *)
THEOREM LossIsBounded == Spec => []HeldBounded
<1>1. ProviderInv => HeldBounded
  BY HeldSize DEF ProviderInv, HeldBounded
<1> QED BY <1>1, ProviderInvariant, PTL

-----------------------------------------------------------------------------
(* What a step does to the jobs of the processes *)

(* A step moves no job but its own worker's. *)
StepOf(w) ==
  /\ \A j \in Jobs : \/ status'[j] = status[j]
                     \/ j \in batch[w] /\ status[j] = "new" /\ status'[j] = "queued"
  /\ \A v \in Workers \ {w} : \A j \in Jobs : Holds(v, j)' <=> Holds(v, j)
  /\ \A j \in Jobs : Holds(w, j)' => Holds(w, j) \/ status[j] = "new"

(* Only a step that breaks the worker takes jobs from it. *)
Keeps(w) ==
  Healthy(w)' => \A j \in Jobs : Holds(w, j) => Holds(w, j)'

LEMMA FetchEffect ==
  ASSUME TypeOK, JobByJob, Tidy, NEW w \in Workers, Fetch(w) \/ ClaimFails(w)
  PROVE  StepOf(w) /\ Keeps(w) /\ handed' = handed
<1>1. CASE BeginClaim(w)
  <2>1. PICK S \in SUBSET Free : batch' = [batch EXCEPT ![w] = S]
    BY <1>1 DEF BeginClaim
  <2>2. /\ batch[w] = {} /\ batch'[w] = S
        /\ \A v \in Workers : v # w => batch'[v] = batch[v]
        /\ UNCHANGED <<status, jobc, offered, handed>>
    BY <1>1, <2>1 DEF BeginClaim, TypeOK, Tidy
  <2> QED BY <2>2 DEF StepOf, Keeps, Holds, Free
<1>2. ASSUME fetchPc[w] = "claim", status' \in {status, Claimed(w)}
      PROVE  \A j \in Jobs :
               \/ status'[j] = status[j]
               \/ j \in batch[w] /\ status[j] = "new" /\ status'[j] = "queued"
  BY <1>2 DEF Claimed, JobByJob, RowOfHeld
<1>3. CASE EndClaim(w)
  BY <1>2, <1>3 DEF EndClaim, StepOf, Keeps, Holds
<1>4. CASE ClaimFails(w)
  <2>1. /\ batch'[w] = {} /\ fetchPc'[w] = "return"
        /\ \A v \in Workers : v # w => batch'[v] = batch[v]
        /\ UNCHANGED <<jobc, offered, handed>>
    BY <1>4 DEF ClaimFails, TypeOK
  <2> QED BY <1>2, <1>4, <2>1 DEF ClaimFails, StepOf, Keeps, Healthy, Holds
<1>5. ASSUME NEW j \in Jobs, SendJob(w, j)
      PROVE  StepOf(w) /\ Keeps(w) /\ handed' = handed
  <2>1. /\ batch'[w] = batch[w] \ {j} /\ jobc'[w] = jobc[w] \cup {j}
        /\ j \in batch[w]
        /\ \A v \in Workers : v # w => batch'[v] = batch[v] /\ jobc'[v] = jobc[v]
        /\ UNCHANGED <<status, offered, handed>>
    BY <1>5 DEF SendJob, TypeOK
  <2> QED BY <2>1 DEF StepOf, Keeps, Holds
<1>6. CASE PollAgain(w) \/ CloseChannel(w)
  BY <1>6 DEF PollAgain, CloseChannel, StepOf, Keeps, Holds
<1>7. CASE FetchCancelled(w)
  <2>1. /\ batch'[w] = {} /\ fetchPc'[w] = "return"
        /\ \A v \in Workers : v # w => batch'[v] = batch[v]
        /\ UNCHANGED <<status, jobc, offered, handed>>
    BY <1>7 DEF FetchCancelled, TypeOK
  <2> QED BY <2>1 DEF StepOf, Keeps, Healthy, Holds
<1> QED BY <1>1, <1>3, <1>4, <1>5, <1>6, <1>7 DEF Fetch

LEMMA ForwarderEffect ==
  ASSUME TypeOK, JobByJob, Tidy, NEW w \in Workers, NEW f \in Slots,
         CallJobs(w, f) \/ TakeError(w, f) \/ Stop(w, f)
           \/ \E j \in Jobs : Take(w, f, j)
  PROVE  StepOf(w) /\ Keeps(w) /\ handed' = handed
<1>1. CASE CallJobs(w, f) \/ TakeError(w, f)
  BY <1>1 DEF CallJobs, TakeError, fetcher, StepOf, Keeps, Holds
<1>2. CASE Stop(w, f)
  <2>1. /\ offered'[w][f] = {}
        /\ \A v \in Workers : \A g \in Slots :
             v # w \/ g # f => offered'[v][g] = offered[v][g]
        /\ UNCHANGED <<status, fetchPc, batch, jobc, ctx, handed>>
    BY <1>2 DEF Stop, TypeOK, fetcher
  <2>2. Healthy(w)' => offered[w][f] = {}
    BY <1>2, <2>1 DEF Stop, Healthy, Tidy
  <2> QED BY <2>1, <2>2 DEF StepOf, Keeps, Holds
<1>3. ASSUME NEW j \in Jobs, Take(w, f, j)
      PROVE  StepOf(w) /\ Keeps(w) /\ handed' = handed
  <2>1. /\ jobc'[w] = jobc[w] \ {j} /\ j \in jobc[w]
        /\ offered[w][f] = {} /\ offered'[w][f] = {j}
        /\ \A v \in Workers : v # w => jobc'[v] = jobc[v]
        /\ \A v \in Workers : \A g \in Slots :
             v # w \/ g # f => offered'[v][g] = offered[v][g]
        /\ UNCHANGED <<status, batch, handed>>
    <3>1. offered[w][f] = {}
      BY <1>3 DEF Take, Tidy
    <3> QED BY <1>3, <3>1 DEF Take, TypeOK, fetcher
  <2> QED BY <2>1 DEF StepOf, Keeps, Holds
<1> QED BY <1>1, <1>2, <1>3

LEMMA ProcessEffect ==
  ASSUME TypeOK, JobByJob, Tidy, NEW w \in Workers, Cancel(w) \/ Restart(w)
  PROVE  StepOf(w) /\ Keeps(w) /\ handed' = handed
<1>1. CASE Cancel(w)
  BY <1>1 DEF Cancel, fetcher, StepOf, Keeps, Holds
<1>2. CASE Restart(w)
  <2>1. \A j \in Jobs :
          \/ status'[j] = status[j]
          \/ j \in batch[w] /\ status[j] = "new" /\ status'[j] = "queued"
    BY <1>2 DEF Restart, Claimed, JobByJob, RowOfHeld
  <2>2. /\ batch'[w] = {} /\ jobc'[w] = {} /\ fetchPc'[w] = "off"
        /\ \A f \in Slots : offered'[w][f] = {}
        /\ \A v \in Workers : v # w => /\ batch'[v] = batch[v]
                                       /\ jobc'[v] = jobc[v]
                                       /\ offered'[v] = offered[v]
        /\ UNCHANGED handed
    BY <1>2 DEF Restart, TypeOK
  <2> QED BY <2>1, <2>2 DEF StepOf, Keeps, Healthy, Holds
<1> QED BY <1>1, <1>2

(* The step that hands a job out. *)
LEMMA HandOutEffect ==
  ASSUME TypeOK, JobByJob, Tidy, NEW w \in Workers, NEW f \in Slots, HandOut(w, f)
  PROVE  /\ handed' = handed \cup offered[w][f]
         /\ status' = status
         /\ \A v \in Workers : \A j \in Jobs :
              Holds(v, j)' <=> Holds(v, j) /\ j \notin offered[w][f]
<1>1. /\ offered'[w][f] = {}
      /\ \A v \in Workers : \A g \in Slots :
           v # w \/ g # f => offered'[v][g] = offered[v][g]
      /\ handed' = handed \cup offered[w][f]
      /\ UNCHANGED <<status, batch, jobc>>
  BY DEF HandOut, TypeOK, fetcher
<1>2. \A j \in offered[w][f] :
        /\ j \in Jobs
        /\ j \notin batch[w] /\ j \notin jobc[w]
        /\ \A g \in Slots : g # f => j \notin offered[w][g]
        /\ \A v \in Workers : v # w => ~ Holds(v, j)
  <2> SUFFICES ASSUME NEW j \in offered[w][f]
               PROVE  /\ j \in Jobs
                      /\ j \notin batch[w] /\ j \notin jobc[w]
                      /\ \A g \in Slots : g # f => j \notin offered[w][g]
                      /\ \A v \in Workers : v # w => ~ Holds(v, j)
    OBVIOUS
  <2>1. j \in Jobs /\ Holds(w, j)
    BY DEF TypeOK, Holds
  <2> QED BY <2>1 DEF JobByJob, OneHolder, OnePart
<1> QED BY <1>1, <1>2 DEF Holds

-----------------------------------------------------------------------------
(* A healthy process loses no job *)

LEMMA HealthyStep ==
  ASSUME ProviderInv, ProviderInv', [Next]_vars, NEW w \in Workers, Healthy(w)'
  PROVE  Held(w) \ Held(w)' \subseteq handed'
<1>1. TypeOK /\ JobByJob /\ Tidy
  BY InvJobByJob
<1>2. Held(w) = {j \in Jobs : Holds(w, j)}
  BY <1>1, HeldIsHolds
<1>3. Held(w)' = {j \in Jobs : Holds(w, j)'}
  BY DEF ProviderInv, TypeOK, Held, Offered, Holds
<1> SUFFICES ASSUME NEW j \in Jobs, Holds(w, j), ~ Holds(w, j)'
             PROVE  j \in handed'
  BY <1>2, <1>3
<1>4. ASSUME NEW v \in Workers, StepOf(v), Keeps(v)
      PROVE  FALSE
  BY <1>4 DEF StepOf, Keeps
<1>5. ASSUME NEW v \in Workers, NEW f \in Slots, HandOut(v, f)
      PROVE  j \in handed'
  BY <1>1, <1>5, HandOutEffect
<1>6. CASE \E i \in Jobs : Push(i)
  BY <1>6 DEF Push, fetcher, Holds
<1>7. CASE UNCHANGED vars
  BY <1>7 DEF vars, Holds
<1>8. ASSUME NEW v \in Workers,
             \/ Fetch(v) \/ ClaimFails(v) \/ Cancel(v) \/ Restart(v)
             \/ \E f \in Slots : CallJobs(v, f) \/ Forward(v, f)
      PROVE  j \in handed'
  BY <1>1, <1>4, <1>5, <1>8, FetchEffect, ForwarderEffect, ProcessEffect
     DEF Forward
<1> QED BY <1>6, <1>7, <1>8 DEF Next

(* The jobs of a healthy process leave it only for the engine. *)
THEOREM HealthyKeepsItsJobs == Spec => HealthyLosesNothing
<1>1. ProviderInv /\ ProviderInv' /\ [Next]_vars =>
        [\A w \in Workers : Healthy(w)' => Held(w) \ Held(w)' \subseteq handed']_vars
  BY HealthyStep
<1> QED BY <1>1, ProviderInvariant, PTL DEF Spec, HealthyLosesNothing

-----------------------------------------------------------------------------
(* The refinement of JobQueue *)

(* The sets of the abstract queue, job by job. *)
SetsByJob ==
  /\ Waiting = {j \in Jobs : status[j] = "new" \/ \E w \in Workers : Holds(w, j)}
  /\ Lost = {j \in Jobs : /\ status[j] = "queued"
                          /\ j \notin handed
                          /\ \A w \in Workers : ~ Holds(w, j)}

LEMMA QueueSets == TypeOK => SetsByJob
BY HeldIsHolds DEF Waiting, Lost, SetsByJob

LEMMA QueueSetsNext == ASSUME TypeOK' PROVE SetsByJob'
<1>1. (TypeOK => SetsByJob)'
  BY QueueSets, PTL
<1> QED BY <1>1

(* A step of one worker that hands nothing out loses some of its jobs, or  *)
(* none.                                                                   *)
LEMMA LoseRefines ==
  ASSUME TypeOK, JobByJob, Tidy, TypeOK', NEW w \in Workers, StepOf(w),
         handed' = handed
  PROVE  Queue!Next
<1> DEFINE S == Waiting \ Waiting'
<1>1. SetsByJob
  BY QueueSets
<1>2. SetsByJob'
  BY QueueSetsNext
<1>3. \A v \in Workers : \A j \in Jobs : Holds(v, j)' =>
        Holds(v, j) \/ status[j] = "new"
  BY DEF StepOf
<1>4. \A v \in Workers : \A j \in Jobs : Holds(v, j) /\ ~ Holds(v, j)' => v = w
  BY DEF StepOf
<1>5. \A j \in Jobs : status'[j] # status[j] =>
        Holds(w, j) /\ status[j] = "new" /\ status'[j] = "queued"
  BY DEF StepOf, Holds
<1>6. \A j \in Jobs : \A v \in Workers : Holds(v, j) => status[j] \in {"new", "queued"}
  BY DEF JobByJob, RowOfHeld
<1>7. Waiting' = Waiting \ S
  BY <1>1, <1>2, <1>3, <1>5 DEF SetsByJob
<1>8. \A j \in S : j \in Jobs /\ Holds(w, j)
  BY <1>1, <1>2, <1>4, <1>5 DEF SetsByJob
<1>9. Lost' = Lost \cup S
  <2>1. \A j \in S : status'[j] = "queued" /\ j \notin handed
    BY <1>2, <1>5, <1>6, <1>8 DEF JobByJob, HandedGone, TypeOK, SetsByJob
  <2>2. S \subseteq Lost'
    BY <1>2, <1>8, <2>1 DEF SetsByJob
  <2>3. Lost \subseteq Lost'
    BY <1>1, <1>2, <1>3, <1>5 DEF SetsByJob
  <2>4. Lost' \subseteq Lost \cup S
    BY <1>1, <1>2, <1>5 DEF SetsByJob
  <2> QED BY <2>2, <2>3, <2>4
<1>10. Cardinality(S) <= MaxHeld
  <2>1. S \in SUBSET Held(w)
    BY <1>8, HeldIsHolds
  <2>2. Held(w) \in SUBSET Jobs /\ S \in SUBSET Jobs
    BY <1>8, <2>1, HeldIsHolds
  <2>3. /\ Cardinality(S) <= Cardinality(Held(w))
        /\ Cardinality(Held(w)) \in Nat /\ Cardinality(S) \in Nat
    BY <2>1, <2>2, JobSets, FS_Subset
  <2>4. MaxHeld \in Nat
    BY ProviderAssumption, FS_CardinalityType DEF MaxHeld
  <2> QED BY <2>3, <2>4, HeldSize
<1>11. S \in SUBSET Jobs
  BY <1>8
<1>12. Queue!Lose(S) /\ S \in SUBSET Waiting
  BY <1>7, <1>9, <1>10, <1>11 DEF Queue!Lose
<1> QED BY <1>12 DEF Queue!Next

LEMMA HandOutRefines ==
  ASSUME TypeOK, JobByJob, Tidy, TypeOK', NEW w \in Workers, NEW f \in Slots,
         HandOut(w, f)
  PROVE  [Queue!Next]_(Queue!vars)
<1>1. SetsByJob
  BY QueueSets
<1>2. SetsByJob'
  BY QueueSetsNext
<1>3. /\ handed' = handed \cup offered[w][f]
      /\ status' = status
      /\ \A v \in Workers : \A j \in Jobs :
           Holds(v, j)' <=> Holds(v, j) /\ j \notin offered[w][f]
  BY HandOutEffect
<1>4. \A j \in offered[w][f] : j \in Jobs /\ Holds(w, j) /\ status[j] = "queued"
  <2>1. \A j \in offered[w][f] : j \in Jobs /\ Holds(w, j) /\ j \notin batch[w]
    BY DEF TypeOK, Holds, JobByJob, OnePart
  <2> QED BY <2>1 DEF JobByJob, RowOfHeld
<1>5. Waiting' = Waiting \ offered[w][f]
  BY <1>1, <1>2, <1>3, <1>4 DEF SetsByJob
<1>6. Lost' = Lost
  BY <1>1, <1>2, <1>3, <1>4 DEF SetsByJob
<1>7. CASE offered[w][f] = {}
  BY <1>3, <1>5, <1>6, <1>7 DEF Queue!vars
<1>8. CASE offered[w][f] # {}
  <2>1. PICK j \in offered[w][f] : offered[w][f] = {j}
    BY <1>8 DEF Tidy
  <2>2. j \in Jobs /\ j \in Waiting
    BY <1>1, <1>4 DEF SetsByJob
  <2>3. Queue!Give(j)
    BY <1>3, <1>5, <1>6, <2>1, <2>2 DEF Queue!Give
  <2> QED BY <2>2, <2>3 DEF Queue!Next
<1> QED BY <1>7, <1>8

LEMMA PushRefines ==
  ASSUME TypeOK, JobByJob, Tidy, TypeOK', NEW j \in Jobs, Push(j)
  PROVE  [Queue!Next]_(Queue!vars)
<1>1. SetsByJob
  BY QueueSets
<1>2. SetsByJob'
  BY QueueSetsNext
<1>3. /\ handed' = handed
      /\ \A v \in Workers : \A i \in Jobs : Holds(v, i)' <=> Holds(v, i)
      /\ \A i \in Jobs : status'[i] = IF i = j /\ status[i] = "none"
                                      THEN "new" ELSE status[i]
  BY DEF Push, fetcher, Holds, TypeOK
<1>4. Lost' = Lost
  BY <1>1, <1>2, <1>3 DEF SetsByJob
<1>5. CASE status[j] = "none"
  <2>1. \A v \in Workers : ~ Holds(v, j)
    BY <1>5 DEF JobByJob, RowOfHeld
  <2>2. j \notin Waiting \cup handed \cup Lost
    BY <1>1, <1>5, <2>1 DEF JobByJob, HandedGone, SetsByJob
  <2>3. Waiting' = Waiting \cup {j}
    BY <1>1, <1>2, <1>3, <1>5 DEF SetsByJob
  <2>4. Queue!Put(j)
    BY <1>3, <1>4, <2>2, <2>3 DEF Queue!Put
  <2> QED BY <2>4 DEF Queue!Next
<1>6. CASE status[j] # "none"
  <2>1. Waiting' = Waiting
    BY <1>1, <1>2, <1>3, <1>6 DEF SetsByJob
  <2> QED BY <1>3, <1>4, <2>1 DEF Queue!vars
<1> QED BY <1>5, <1>6

LEMMA QueueStep ==
  ASSUME ProviderInv, ProviderInv', [Next]_vars
  PROVE  [Queue!Next]_(Queue!vars)
<1>1. TypeOK /\ JobByJob /\ Tidy
  BY InvJobByJob
<1>2. TypeOK'
  BY DEF ProviderInv
<1>3. ASSUME NEW w \in Workers,
             \/ Fetch(w) \/ ClaimFails(w) \/ Cancel(w) \/ Restart(w)
             \/ \E f \in Slots : CallJobs(w, f) \/ Forward(w, f)
      PROVE  [Queue!Next]_(Queue!vars)
  BY <1>1, <1>2, <1>3, FetchEffect, ForwarderEffect, ProcessEffect, LoseRefines,
     HandOutRefines DEF Forward
<1>4. CASE \E j \in Jobs : Push(j)
  BY <1>1, <1>2, <1>4, PushRefines
<1>5. CASE UNCHANGED vars
  BY <1>5 DEF vars, Queue!vars, Waiting, Lost, AllHeld, Held, Offered
<1> QED BY <1>3, <1>4, <1>5 DEF Next

(* The table with its workers implements the abstract queue: at most one   *)
(* engine gets a job, and no step loses more than one process holds.       *)
THEOREM ProviderImplementsQueue == Spec => QueueSpec
<1>1. Init => Queue!Init
  BY DEF Init, Queue!Init, Waiting, Lost, AllHeld, Held, Offered
<1>2. ProviderInv /\ ProviderInv' /\ [Next]_vars => [Queue!Next]_(Queue!vars)
  BY QueueStep
<1> QED
  BY <1>1, <1>2, ProviderInvariant, PTL DEF Spec, QueueSpec, Queue!Spec

=============================================================================
