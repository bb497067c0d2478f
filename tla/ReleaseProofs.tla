--------------------------- MODULE ReleaseProofs ---------------------------
(***************************************************************************)
(* Proofs about ModelRelease, for any scores, numbers of epochs and of     *)
(* runs, requirements and data, and about its composition with the other   *)
(* parts: with data prepared, streams and demos run at the same time, what *)
(* is proved of ModelRelease alone still holds.  Then of the streams, for  *)
(* any sources and any size of batch; of the preparation and the partition *)
(* of the data, for any table, seed and configurations; and of the demos.  *)
(***************************************************************************)
EXTENDS Release, FiniteSetTheorems, WellFoundedInduction, TLAPS

-----------------------------------------------------------------------------
(* Type correctness.  A certification past its writing has a manifest, and *)
(* a federated training past its saving has the checkpoint it saved.       *)

Written ==
  /\ certifier.at \in {"check", "private", "public", "sign", "verify"} => manifest # NoManifest
  /\ training.at = "manifest" =>
       checkpoint \in Weights /\ checkpoint.run = training.run /\ trainer = "federated"

Types == ReleaseTypeOK /\ Written

LEMMA FilesTold ==
  /\ NoFile \notin Weights /\ CutShort \notin Weights
  /\ NoManifest \notin Manifest /\ NoSignature \notin Signature
  /\ NotRunning \notin Training /\ NotRunning \notin Certifier
  /\ \A w \in Weights : w.run \in Nat /\ w.score \in -1..100
  /\ \A m \in Manifest : m.sha \in Weights \union {CutShort} /\ m.run \in Nat /\ m.folds \in Nat
  /\ \A t \in Training : t.at # "idle" /\ t.run \in Nat /\ t.data \in Datasets
                           /\ t.epoch \in Nat /\ t.best \in -1..100 /\ t.stale \in Nat
  /\ \A c \in Certifier : c.at # "idle" /\ c.run \in Nat /\ c.folds \in Nat
<1>1. NoFile \notin Weights /\ CutShort \notin Weights
  BY DEF NoFile, CutShort, Weights
<1>2. NoManifest \notin Manifest
  BY DEF NoManifest, Manifest
<1>3. NoSignature \notin Signature
  BY <1>2 DEF NoSignature, Signature
<1>4. NotRunning \notin Training /\ NotRunning \notin Certifier
  BY DEF NotRunning, Training, Certifier
<1> QED
  BY <1>1, <1>2, <1>3, <1>4 DEF Weights, Manifest, Training, Certifier

LEMMA InitTyped == ReleaseInit => Types
<1> SUFFICES ASSUME ReleaseInit PROVE Types
  OBVIOUS
<1> USE DEF ReleaseInit
<1>1. best \in [1..MaxRuns -> -1..100]
  OBVIOUS
<1>2. runs \in 0..MaxRuns /\ certifications \in 0..MaxCertifications
  BY ReleaseAssumption
<1>3. server \in [at : ServerSteps, model : Weights \union {NoFile}]
  BY DEF ServerSteps
<1>4. Written
  BY DEF Written, NotRunning
<1> QED
  BY <1>1, <1>2, <1>3, <1>4 DEF Types, ReleaseTypeOK

(* What an epoch makes of the training.                                    *)
LEMMA EpochTyped ==
  ASSUME training \in Training, NEW score \in -1..100, NEW stale \in Nat
  PROVE  AfterEpoch(score, stale) \in Training
<1>1. training.epoch + 1 \in Nat
  BY DEF Training
<1>2. training.run \in Nat /\ training.data \in Datasets
  BY DEF Training
<1> QED
  BY <1>1, <1>2 DEF AfterEpoch, Training

LEMMA ScoresTyped == \A score \in Scores : score \in 0..100 /\ score \in -1..100
  BY ReleaseAssumption

LEMMA TrainTyped ==
  ASSUME Types, TrainNext \/ \E data \in Datasets : StartTraining(data)
  PROVE  Types'
<1> USE DEF Types, ReleaseTypeOK
<1>1. ASSUME NEW data \in Datasets, StartTraining(data)
      PROVE  Types'
  <2>1. training' \in Training
    BY <1>1, ReleaseAssumption DEF StartTraining, Training
  <2> QED
    BY <1>1, <2>1, ReleaseAssumption DEF StartTraining, certifyVars, serveVars, Written
<1>2. ASSUME NEW score \in Scores, BetterEpoch(score)
      PROVE  Types'
  <2>1. score \in -1..100
    BY ScoresTyped
  <2>2. training \in Training
    BY <1>2 DEF BetterEpoch, NotRunning
  <2>3. training' \in Training /\ training'.at # "manifest"
    BY <1>2, <2>1, <2>2, EpochTyped DEF BetterEpoch, AfterEpoch
  <2>4. checkpoint' \in Weights
    BY <1>2, <2>1, <2>2 DEF BetterEpoch, SaveCheckpoint, Training, Weights
  <2>5. (IF score > best[training.run] THEN score ELSE best[training.run]) \in -1..100
          \/ training.run \notin 1..MaxRuns
    BY <2>1
  <2>6. best' \in [1..MaxRuns -> -1..100]
    BY <1>2, <2>5 DEF BetterEpoch
  <2> QED
    BY <1>2, <2>3, <2>4, <2>6 DEF BetterEpoch, SaveCheckpoint, Written
<1>3. ASSUME NEW score \in Scores, StaleEpoch(score)
      PROVE  Types'
  <2>1. score \in -1..100
    BY ScoresTyped
  <2>2. training \in Training
    BY <1>3 DEF StaleEpoch, NotRunning
  <2>3. training.best \in -1..100 /\ training.stale + 1 \in Nat
    BY <2>2 DEF Training
  <2>4. training' \in Training /\ training'.at # "manifest"
    BY <1>3, <2>2, <2>3, EpochTyped DEF StaleEpoch, AfterEpoch
  <2>5. (IF score > best[training.run] THEN score ELSE best[training.run]) \in -1..100
          \/ training.run \notin 1..MaxRuns
    BY <2>1
  <2>6. best' \in [1..MaxRuns -> -1..100]
    BY <1>3, <2>5 DEF StaleEpoch
  <2> QED
    BY <1>3, <2>4, <2>6 DEF StaleEpoch, certifyVars, serveVars, Written
<1>4. CASE TestBest
  BY <1>4 DEF TestBest, certifyVars, serveVars, Written, NotRunning
<1>5. CASE SaveFederated
  <2>1. training \in Training /\ trainer = "federated"
    BY <1>5 DEF SaveFederated, NotRunning
  <2>2. training' \in Training /\ training'.run = training.run
    BY <1>5, <2>1 DEF SaveFederated, Training
  <2>3. checkpoint' = [run |-> training.run, epoch |-> 0, score |-> -1, data |-> training.data]
    BY <1>5 DEF SaveFederated, SaveCheckpoint
  <2>4. checkpoint' \in Weights /\ checkpoint'.run = training.run
    BY <2>1, <2>3 DEF Training, Weights
  <2> QED
    BY <1>5, <2>1, <2>2, <2>4 DEF SaveFederated, SaveCheckpoint, Written
<1>6. CASE WriteTrainingManifest
  <2>1. training \in Training /\ checkpoint \in Weights
    BY <1>6 DEF WriteTrainingManifest, Written, NotRunning
  <2>2. manifest' = [sha |-> checkpoint, status |-> "trained-uncertified",
                     run |-> training.run, folds |-> 0]
    BY <1>6 DEF WriteTrainingManifest
  <2>3. training.run \in Nat
    BY <2>1 DEF Training
  <2>4. manifest' \in Manifest
    BY <2>1, <2>2, <2>3 DEF Manifest
  <2> QED
    BY <1>6, <2>4, FilesTold DEF WriteTrainingManifest, serveVars, Written, NotRunning
<1>7. CASE StopTraining
  <2>1. training' = NotRunning /\ checkpoint' \in {checkpoint, CutShort}
          /\ replaced' \in BOOLEAN /\ confused' \in BOOLEAN
    BY <1>7 DEF StopTraining, SaveCheckpoint
  <2> QED
    BY <1>7, <2>1 DEF StopTraining, Written, NotRunning
<1> QED
  BY <1>1, <1>2, <1>3, <1>4, <1>5, <1>6, <1>7 DEF TrainNext

LEMMA CertifyTyped ==
  ASSUME Types, CertifyNext
  PROVE  Types'
<1> USE DEF Types, ReleaseTypeOK, trainVars, serveVars
<1>1. CASE StartCertifying
  <2>1. certifier' \in Certifier /\ certifier'.at = "fold"
    BY <1>1 DEF StartCertifying, Certifier, NoRun
  <2>2. certifications' \in 0..MaxCertifications
    BY <1>1, ReleaseAssumption DEF StartCertifying
  <2> QED
    BY <1>1, <2>1, <2>2 DEF StartCertifying, Written
<1>2. CASE FoldIn
  <2>1. CASE manifest = NoManifest
    <3>1. certifier \in Certifier
      BY <1>2 DEF FoldIn, NotRunning
    <3>2. certifier' = [certifier EXCEPT !.at = "write"]
      BY <1>2, <2>1 DEF FoldIn
    <3>3. certifier' \in Certifier /\ certifier'.at = "write"
      BY <3>1, <3>2 DEF Certifier
    <3> QED
      BY <1>2, <3>3 DEF FoldIn, Written
  <2>2. CASE manifest # NoManifest
    <3>1. manifest.run \in Nat /\ manifest.folds + 1 \in Nat
      BY <2>2 DEF Manifest
    <3>2. certifier' = [at |-> "write", run |-> manifest.run, folds |-> manifest.folds + 1]
      BY <1>2, <2>2 DEF FoldIn
    <3>3. certifier' \in Certifier /\ certifier'.at = "write"
      BY <3>1, <3>2 DEF Certifier
    <3> QED
      BY <1>2, <3>3 DEF FoldIn, Written
  <2> QED
    BY <2>1, <2>2
<1>3. CASE WriteCertified
  <2>1. certifier \in Certifier
    BY <1>3 DEF WriteCertified, NotRunning
  <2>2. checkpoint \in Weights \union {CutShort}
    BY <1>3 DEF WriteCertified
  <2>3. manifest' = [sha |-> checkpoint, status |-> "certified",
                     run |-> certifier.run, folds |-> certifier.folds]
    BY <1>3 DEF WriteCertified
  <2>4. certifier.run \in Nat /\ certifier.folds \in Nat
    BY <2>1 DEF Certifier
  <2>5. manifest' \in Manifest
    BY <2>2, <2>3, <2>4 DEF Manifest
  <2>6. certifier' \in Certifier
    BY <1>3, <2>1 DEF WriteCertified, Certifier
  <2> QED
    BY <1>3, <2>5, <2>6, FilesTold DEF WriteCertified, Written
<1>4. CASE CheckManifest
  <2>1. certifier \in Certifier
    BY <1>4 DEF CheckManifest, NotRunning
  <2>2. certifier' \in Certifier
    BY <1>4, <2>1 DEF CheckManifest, Certifier
  <2> QED
    BY <1>4, <2>2 DEF CheckManifest, Written
<1>5. CASE WriteKey
  <2>1. certifier \in Certifier
    BY <1>5 DEF WriteKey, NotRunning
  <2>2. certifier' \in Certifier /\ keys' \subseteq {"private", "public"}
    BY <1>5, <2>1 DEF WriteKey, Certifier
  <2> QED
    BY <1>5, <2>2 DEF WriteKey, Written
<1>6. CASE Sign
  <2>1. certifier \in Certifier
    BY <1>6 DEF Sign, NotRunning
  <2>2. certifier' \in Certifier
    BY <1>6, <2>1 DEF Sign, Certifier
  <2>3. manifest \in Manifest
    BY <1>6 DEF Sign, Written
  <2>4. signature' \in Signature /\ signed' \subseteq Manifest
    BY <1>6, <2>3 DEF Sign, Signature
  <2> QED
    BY <1>6, <2>2, <2>3, <2>4, FilesTold DEF Sign, Written
<1>7. CASE VerifySignature \/ StopCertifying
  <2>1. /\ certifier' = NotRunning
        /\ UNCHANGED <<trainVars, keys, certifications, signed, confused, serveVars,
                       checkpoint, manifest, signature>>
    BY <1>7 DEF VerifySignature, StopCertifying
  <2>2. Written'
    BY <2>1 DEF Written, NotRunning
  <2> QED
    BY <2>1, <2>2
<1> QED
  BY <1>1, <1>2, <1>3, <1>4, <1>5, <1>6, <1>7 DEF CertifyNext

LEMMA ServeTyped ==
  ASSUME Types, Verify \/ LoadModel \/ StopServing
  PROVE  Types'
<1> USE DEF Types, ReleaseTypeOK, trainVars, certifyVars
<1>1. CASE Verify
  <2>1. server' \in [at : ServerSteps, model : Weights \union {NoFile}]
    BY <1>1 DEF Verify, ServerSteps
  <2> QED
    BY <1>1, <2>1 DEF Verify, Written
<1>2. CASE LoadModel
  <2>1. server' \in [at : ServerSteps, model : Weights \union {NoFile}]
    BY <1>2 DEF LoadModel, ServerSteps
  <2> QED
    BY <1>2, <2>1 DEF LoadModel, Written
<1>3. CASE StopServing
  <2>1. server' \in [at : ServerSteps, model : Weights \union {NoFile}]
    BY <1>3 DEF StopServing, ServerSteps
  <2> QED
    BY <1>3, <2>1 DEF StopServing, Written
<1> QED
  BY <1>1, <1>2, <1>3

LEMMA StepTyped ==
  ASSUME Types, [ReleaseNext]_releaseVars
  PROVE  Types'
<1>1. CASE ReleaseNext
  BY <1>1, TrainTyped, CertifyTyped, ServeTyped DEF ReleaseNext
<1>2. CASE UNCHANGED releaseVars
  BY <1>2 DEF releaseVars, trainVars, certifyVars, serveVars, Types, ReleaseTypeOK, Written
<1> QED
  BY <1>1, <1>2

(* Every file and every process is of its kind, whatever is trained,       *)
(* certified and served in whatever order.                                 *)
THEOREM ReleaseTypeCorrect == ReleaseSpec => []ReleaseTypeOK
<1>1. Types /\ [ReleaseNext]_releaseVars => Types'
  BY StepTyped
<1>2. Types => ReleaseTypeOK
  BY DEF Types
<1> QED
  BY InitTyped, <1>1, <1>2, PTL DEF ReleaseSpec

-----------------------------------------------------------------------------
(* What was tested last is of a run before the one under way; and the best *)
(* score a central training keeps is that of its checkpoint.               *)

RunsNumbered ==
  /\ \A r \in 1..MaxRuns : r > runs => best[r] = -1
  /\ training # NotRunning => runs \in 1..MaxRuns /\ training.run = runs
  /\ tested \in Weights => tested.run \in 1..runs
  /\ tested \in Weights /\ training # NotRunning => tested.run # training.run

BestKept ==
  trainer = "central" /\ training # NotRunning =>
    /\ training.best = best[training.run]
    /\ training.epoch = 0 => training.best = -1 /\ training.at = "epoch"
    /\ training.epoch # 0 =>
         checkpoint \in Weights /\ checkpoint.run = training.run
           /\ checkpoint.score = training.best

Trained == RunsNumbered /\ BestKept /\ BestTested

LEMMA InitTrained == ReleaseInit => Trained
<1> SUFFICES ASSUME ReleaseInit PROVE Trained
  OBVIOUS
<1>1. tested \notin Weights /\ training = NotRunning /\ \A r \in 1..MaxRuns : best[r] = -1
  BY FilesTold DEF ReleaseInit
<1> QED
  BY <1>1 DEF Trained, RunsNumbered, BestKept, BestTested

LEMMA StartKeepsTrained ==
  ASSUME Types, Trained, NEW data \in Datasets, StartTraining(data)
  PROVE  Trained'
<1> USE DEF Types, ReleaseTypeOK
<1>1. /\ runs \in Nat /\ runs < MaxRuns /\ MaxRuns \in Nat /\ runs' = runs + 1
      /\ training' = [at |-> "epoch", run |-> runs + 1, data |-> data,
                      epoch |-> 0, best |-> -1, stale |-> 0]
      /\ UNCHANGED <<trainer, best, tested, checkpoint>>
  BY ReleaseAssumption DEF StartTraining
<1>2. runs + 1 \in 1..MaxRuns /\ best[runs + 1] = -1
  BY <1>1 DEF Trained, RunsNumbered
<1>3. RunsNumbered'
  BY <1>1, <1>2 DEF Trained, RunsNumbered
<1>4. BestKept'
  BY <1>1, <1>2 DEF BestKept
<1> QED
  BY <1>1, <1>3, <1>4 DEF Trained, BestTested

LEMMA BetterKeepsTrained ==
  ASSUME Types, Trained, NEW score \in Scores, BetterEpoch(score)
  PROVE  Trained'
<1> USE DEF Types, ReleaseTypeOK
<1>1. training \in Training /\ score \in 0..100 /\ training.run = runs /\ runs \in 1..MaxRuns
  BY ScoresTyped DEF BetterEpoch, NotRunning, Trained, RunsNumbered
<1>2. training' = AfterEpoch(score, 0) /\ training' \in Training
  BY <1>1, EpochTyped, ScoresTyped DEF BetterEpoch
<1>3. training'.run = training.run /\ training'.best = score
        /\ training'.epoch = training.epoch + 1 /\ training' # NotRunning
  BY <1>2, FilesTold DEF AfterEpoch
<1>4. checkpoint' = [run |-> training.run, epoch |-> training.epoch + 1, score |-> score,
                     data |-> training.data]
  BY DEF BetterEpoch, SaveCheckpoint
<1>5. checkpoint' \in Weights /\ checkpoint'.run = training.run /\ checkpoint'.score = score
  BY <1>1, <1>4 DEF Training, Weights
<1>6. score > best[training.run]
  BY <1>1, FilesTold DEF BetterEpoch, Improves, Trained, BestKept
<1>7. best' = [best EXCEPT ![training.run] = score]
  BY <1>6 DEF BetterEpoch
<1>8. training.epoch + 1 # 0 /\ trainer' = trainer /\ tested' = tested /\ runs' = runs
  BY <1>1 DEF BetterEpoch, Training
<1>9. RunsNumbered'
  BY <1>1, <1>3, <1>7, <1>8, FilesTold DEF Trained, RunsNumbered
<1>10. BestKept'
  BY <1>1, <1>3, <1>5, <1>7, <1>8 DEF BestKept
<1>11. BestTested'
  BY <1>1, <1>7, <1>8, FilesTold DEF Trained, RunsNumbered, BestTested
<1> QED
  BY <1>9, <1>10, <1>11 DEF Trained

LEMMA StaleKeepsTrained ==
  ASSUME Types, Trained, NEW score \in Scores, StaleEpoch(score)
  PROVE  Trained'
<1> USE DEF Types, ReleaseTypeOK
<1>1. training \in Training /\ score \in 0..100 /\ training.run = runs /\ runs \in 1..MaxRuns
        /\ training # NotRunning /\ trainer = "central"
  BY ScoresTyped DEF StaleEpoch, NotRunning, Trained, RunsNumbered
<1>2. training.best = best[training.run] /\ training.best \in -1..100
        /\ training.stale \in Nat /\ training.epoch \in Nat
  BY <1>1, FilesTold DEF Trained, BestKept
<1>3. ~(score > training.best)
  BY DEF StaleEpoch, Improves
<1>4. training.epoch # 0
  BY <1>1, <1>2, <1>3 DEF Trained, BestKept
<1>5. training' = AfterEpoch(training.best, training.stale + 1)
  BY DEF StaleEpoch
<1>6. training' \in Training
  <2>1. training.stale + 1 \in Nat
    BY <1>2
  <2>2. AfterEpoch(training.best, training.stale + 1) \in Training
    BY <1>1, <1>2, <2>1, EpochTyped
  <2> QED
    BY <1>5, <2>2
<1>7. training'.run = training.run /\ training'.best = training.best
        /\ training'.epoch = training.epoch + 1 /\ training' # NotRunning
  BY <1>5, <1>6, FilesTold DEF AfterEpoch
<1>8. best' = [best EXCEPT ![training.run] = best[training.run]]
  BY <1>2, <1>3 DEF StaleEpoch
<1>9. best' = best /\ UNCHANGED <<trainer, runs, tested, checkpoint>>
  BY <1>8 DEF StaleEpoch
<1>10. RunsNumbered'
  BY <1>1, <1>7, <1>9 DEF Trained, RunsNumbered
<1>11. BestKept'
  BY <1>1, <1>2, <1>4, <1>7, <1>9 DEF Trained, BestKept
<1> QED
  BY <1>9, <1>10, <1>11 DEF Trained, BestTested

LEMMA TestKeepsTrained ==
  ASSUME Types, Trained, TestBest
  PROVE  Trained'
<1> USE DEF Types, ReleaseTypeOK
<1>1. training \in Training /\ training # NotRunning /\ training.at = "test"
        /\ trainer = "central" /\ runs \in 1..MaxRuns /\ training.run = runs
  BY DEF TestBest, NotRunning, Trained, RunsNumbered
<1>2. training.best = best[training.run] /\ training.epoch # 0
  BY <1>1 DEF Trained, BestKept
<1>3. checkpoint \in Weights /\ checkpoint.run = runs /\ checkpoint.score = best[runs]
  BY <1>1, <1>2 DEF Trained, BestKept
<1>4. tested' = checkpoint /\ training' = NotRunning /\ UNCHANGED <<trainer, runs, best>>
  BY DEF TestBest
<1> QED
  BY <1>1, <1>3, <1>4 DEF Trained, RunsNumbered, BestKept, BestTested

(* All other steps leave a central training and its checkpoint alone, or   *)
(* end it.                                                                 *)
LEMMA OthersKeepTrained ==
  ASSUME Types, Trained,
         \/ SaveFederated \/ WriteTrainingManifest \/ StopTraining
         \/ CertifyNext \/ Verify \/ LoadModel \/ StopServing
         \/ UNCHANGED releaseVars
  PROVE  Trained'
<1>1. /\ UNCHANGED <<trainer, runs, best, tested>>
      /\ \/ training' = training /\ checkpoint' = checkpoint
         \/ training' = NotRunning
         \/ SaveFederated
  BY DEF WriteTrainingManifest, StopTraining, SaveCheckpoint, SaveFederated,
         CertifyNext, StartCertifying, FoldIn, WriteCertified, CheckManifest, WriteKey, Sign,
         VerifySignature, StopCertifying, Verify, LoadModel, StopServing,
         releaseVars, trainVars
<1>2. CASE training' = training /\ checkpoint' = checkpoint
  BY <1>1, <1>2 DEF Trained, RunsNumbered, BestKept, BestTested
<1>3. CASE training' = NotRunning
  BY <1>1, <1>3 DEF Trained, RunsNumbered, BestKept, BestTested
<1>4. CASE SaveFederated
  <2>1. training \in Training /\ training # NotRunning /\ trainer = "federated"
    BY <1>4 DEF SaveFederated, NotRunning, Types, ReleaseTypeOK
  <2>2. training' = [training EXCEPT !.at = "manifest"]
    BY <1>4 DEF SaveFederated
  <2>3. training'.run = training.run
    BY <2>1, <2>2 DEF Training
  <2> QED
    BY <1>1, <2>1, <2>3 DEF Trained, RunsNumbered, BestKept, BestTested
<1> QED
  BY <1>1, <1>2, <1>3, <1>4

LEMMA StepKeepsTrained ==
  ASSUME Types, Trained, [ReleaseNext]_releaseVars
  PROVE  Trained'
  BY StartKeepsTrained, BetterKeepsTrained, StaleKeepsTrained, TestKeepsTrained,
     OthersKeepTrained DEF ReleaseNext, TrainNext

-----------------------------------------------------------------------------
(* What is signed, and what the server has verified.                       *)

SignedKnown == signature # NoSignature => signature.of \in signed

VouchedAt(where, weights) ==
  server.at = where /\ required.signature /\ required.certified /\ ~replaced =>
    \E m \in signed : m.status = "certified" /\ m.sha = weights

(* The manifest tells of the run that made the weights it has the hash of, *)
(* and so will the one about to be written.                                *)
ManifestTrue ==
  ~confused /\ manifest # NoManifest =>
    manifest.sha \in Weights /\ manifest.run = manifest.sha.run

FoldTrue ==
  ~confused /\ certifier.at = "write" =>
    checkpoint \in Weights /\ certifier.run = checkpoint.run

Vouched ==
  /\ SignedKnown
  /\ VouchedAt("verified", checkpoint) /\ VouchedAt("serving", server.model)
  /\ ManifestTrue /\ FoldTrue /\ ProvenanceKept

LEMMA InitVouched == ReleaseInit => Vouched
<1> SUFFICES ASSUME ReleaseInit PROVE Vouched
  OBVIOUS
<1> USE DEF ReleaseInit
<1>1. SignedKnown
  BY DEF SignedKnown
<1>2. VouchedAt("verified", checkpoint) /\ VouchedAt("serving", server.model)
  BY DEF VouchedAt
<1>3. ManifestTrue /\ FoldTrue /\ ProvenanceKept
  BY DEF ManifestTrue, FoldTrue, ProvenanceKept, NotRunning
<1> QED
  BY <1>1, <1>2, <1>3 DEF Vouched

LEMMA SaveKeepsVouched ==
  ASSUME Types, Vouched, NEW weights, SaveCheckpoint(weights),
         UNCHANGED <<certifier, signed, required, server, manifest, signature>>
  PROVE  Vouched'
<1>1. replaced' = (replaced \/ server.at = "verified")
        /\ confused' = (confused \/ certifier # NotRunning)
  BY DEF SaveCheckpoint
<1>2. SignedKnown'
  BY DEF Vouched, SignedKnown
<1>3. VouchedAt("verified", checkpoint)' /\ VouchedAt("serving", server.model)'
  BY <1>1 DEF Vouched, VouchedAt
<1>4. ManifestTrue'
  BY <1>1 DEF Vouched, ManifestTrue
<1>5. FoldTrue'
  <2>1. SUFFICES ASSUME ~confused' PROVE certifier'.at # "write"
    BY DEF FoldTrue
  <2>2. certifier' = NotRunning
    BY <1>1, <2>1
  <2> QED
    BY <2>2 DEF NotRunning
<1>6. ProvenanceKept'
  BY <1>1 DEF Vouched, ProvenanceKept
<1> QED
  BY <1>2, <1>3, <1>4, <1>5, <1>6 DEF Vouched

LEMMA TrainKeepsVouched ==
  ASSUME Types, Vouched, TrainNext \/ \E data \in Datasets : StartTraining(data)
  PROVE  Vouched'
<1>1. CASE UNCHANGED <<certifyVars, serveVars, checkpoint, manifest, signature>>
  BY <1>1 DEF Vouched, SignedKnown, VouchedAt, ManifestTrue, FoldTrue, ProvenanceKept,
              certifyVars, serveVars
<1>2. CASE /\ \E weights : SaveCheckpoint(weights)
           /\ UNCHANGED <<certifier, signed, required, server, manifest, signature>>
  BY <1>2, SaveKeepsVouched
<1>3. CASE WriteTrainingManifest
  <2>1. checkpoint \in Weights /\ checkpoint.run = training.run
    BY <1>3 DEF WriteTrainingManifest, Types, Written
  <2>2. manifest' = [sha |-> checkpoint, status |-> "trained-uncertified",
                     run |-> training.run, folds |-> 0]
    BY <1>3 DEF WriteTrainingManifest
  <2>3. UNCHANGED <<certifier, signed, required, server, replaced, checkpoint, signature>>
          /\ (confused => confused')
    BY <1>3 DEF WriteTrainingManifest, serveVars
  <2>4. ManifestTrue'
    BY <2>1, <2>2 DEF ManifestTrue
  <2> QED
    BY <2>3, <2>4 DEF Vouched, SignedKnown, VouchedAt, FoldTrue, ProvenanceKept
<1> QED
  <2>1. CASE WriteTrainingManifest
    BY <1>3, <2>1
  <2>2. CASE TestBest \/ \E data \in Datasets : StartTraining(data)
    BY <1>1, <2>2 DEF TestBest, StartTraining
  <2>3. CASE \E score \in Scores : StaleEpoch(score)
    BY <1>1, <2>3 DEF StaleEpoch
  <2>4. CASE \E score \in Scores : BetterEpoch(score)
    BY <1>2, <2>4 DEF BetterEpoch
  <2>5. CASE SaveFederated
    BY <1>2, <2>5 DEF SaveFederated
  <2>6. CASE StopTraining
    <3>1. \/ UNCHANGED <<checkpoint, replaced, confused>>
          \/ SaveCheckpoint(CutShort)
      BY <2>6 DEF StopTraining
    <3>2. UNCHANGED <<keys, certifications, certifier, signed, required, server, manifest,
                      signature>>
      BY <2>6 DEF StopTraining
    <3> QED
      BY <1>1, <1>2, <3>1, <3>2 DEF certifyVars, serveVars
  <2> QED
    BY <2>1, <2>2, <2>3, <2>4, <2>5, <2>6 DEF TrainNext

LEMMA CertifyKeepsVouched ==
  ASSUME Types, Vouched, CertifyNext
  PROVE  Vouched'
<1>1. CASE FoldIn
  <2>1. UNCHANGED <<signed, required, server, replaced, checkpoint, manifest, signature>>
          /\ (confused => confused')
    BY <1>1 DEF FoldIn, serveVars
  <2>2. FoldTrue'
    <3>1. SUFFICES ASSUME ~confused' PROVE FoldTrue'
      BY DEF FoldTrue
    <3>2. ~confused /\ checkpoint \in Weights /\ manifest # NoManifest /\ manifest.sha = checkpoint
      BY <1>1, <3>1 DEF FoldIn
    <3>3. certifier'.run = manifest.run
      BY <1>1, <3>2 DEF FoldIn
    <3> QED
      BY <2>1, <3>2, <3>3 DEF FoldTrue, Vouched, ManifestTrue
  <2> QED
    BY <2>1, <2>2 DEF Vouched, SignedKnown, VouchedAt, ManifestTrue, ProvenanceKept
<1>2. CASE WriteCertified
  <2>1. UNCHANGED <<signed, confused, required, server, replaced, checkpoint, signature>>
          /\ certifier.at = "write"
    BY <1>2 DEF WriteCertified, serveVars
  <2>2. manifest' = [sha |-> checkpoint, status |-> "certified",
                     run |-> certifier.run, folds |-> certifier.folds]
    BY <1>2 DEF WriteCertified
  <2>3. certifier'.at # "write"
    BY <1>2 DEF WriteCertified, Types, ReleaseTypeOK, Certifier, NotRunning
  <2>4. ManifestTrue'
    BY <2>1, <2>2 DEF Vouched, FoldTrue, ManifestTrue
  <2>5. FoldTrue'
    BY <2>3 DEF FoldTrue
  <2> QED
    BY <2>1, <2>4, <2>5 DEF Vouched, SignedKnown, VouchedAt, ProvenanceKept
<1>3. CASE Sign
  <2>1. UNCHANGED <<confused, required, server, replaced, checkpoint, manifest>>
          /\ signature' = [of |-> manifest] /\ signed' = signed \union {manifest}
    BY <1>3 DEF Sign, serveVars
  <2>2. certifier'.at # "write" /\ manifest # NoManifest
    BY <1>3 DEF Sign, Types, ReleaseTypeOK, Certifier, NotRunning, Written
  <2>3. SignedKnown' /\ FoldTrue' /\ ManifestTrue'
    BY <2>1, <2>2 DEF Vouched, SignedKnown, FoldTrue, ManifestTrue
  <2>4. VouchedAt("verified", checkpoint)' /\ VouchedAt("serving", server.model)'
    BY <2>1 DEF Vouched, VouchedAt
  <2>5. ProvenanceKept'
    BY <2>1, <2>2 DEF Vouched, ProvenanceKept, ManifestTrue
  <2> QED
    BY <2>3, <2>4, <2>5 DEF Vouched
<1>4. CASE StartCertifying \/ CheckManifest \/ WriteKey \/ VerifySignature \/ StopCertifying
  <2>1. UNCHANGED <<signed, confused, required, server, replaced, checkpoint, manifest, signature>>
    BY <1>4 DEF StartCertifying, CheckManifest, WriteKey, VerifySignature, StopCertifying, serveVars
  <2>2. certifier'.at # "write"
    BY <1>4 DEF StartCertifying, CheckManifest, WriteKey, VerifySignature, StopCertifying,
                Types, ReleaseTypeOK, Certifier, NotRunning
  <2> QED
    BY <2>1, <2>2 DEF Vouched, SignedKnown, VouchedAt, ManifestTrue, FoldTrue, ProvenanceKept
<1> QED
  BY <1>1, <1>2, <1>3, <1>4 DEF CertifyNext

LEMMA ServeKeepsVouched ==
  ASSUME Types, Vouched, Verify \/ LoadModel \/ StopServing
  PROVE  Vouched'
<1>1. UNCHANGED <<signed, confused, certifier, required, checkpoint, manifest, signature>>
  BY DEF Verify, LoadModel, StopServing, certifyVars
<1>2. SignedKnown' /\ ManifestTrue' /\ FoldTrue' /\ ProvenanceKept'
  BY <1>1 DEF Vouched, SignedKnown, ManifestTrue, FoldTrue, ProvenanceKept
<1>3. VouchedAt("verified", checkpoint)' /\ VouchedAt("serving", server.model)'
  <2>1. CASE Verify
    <3>1. server'.at = "verified"
      BY <2>1 DEF Verify
    <3>2. required.signature /\ required.certified =>
            manifest \in signed /\ manifest.status = "certified" /\ manifest.sha = checkpoint
      BY <2>1 DEF Verify, ReleaseOk, StatusOk, Sha256Ok, SignatureOk, Vouched, SignedKnown
    <3> QED
      BY <1>1, <3>1, <3>2 DEF VouchedAt
  <2>2. CASE LoadModel
    <3>1. server.at = "verified" /\ server' = [at |-> "serving", model |-> checkpoint]
            /\ replaced' = replaced
      BY <2>2 DEF LoadModel
    <3> QED
      BY <1>1, <3>1 DEF Vouched, VouchedAt
  <2>3. CASE StopServing
    BY <1>1, <2>3 DEF StopServing, VouchedAt
  <2> QED
    BY <2>1, <2>2, <2>3
<1> QED
  BY <1>2, <1>3 DEF Vouched

LEMMA StepKeepsVouched ==
  ASSUME Types, Vouched, [ReleaseNext]_releaseVars
  PROVE  Vouched'
<1>1. CASE ReleaseNext
  BY <1>1, TrainKeepsVouched, CertifyKeepsVouched, ServeKeepsVouched DEF ReleaseNext
<1>2. CASE UNCHANGED releaseVars
  BY <1>2 DEF releaseVars, certifyVars, serveVars,
              Vouched, SignedKnown, VouchedAt, ManifestTrue, FoldTrue, ProvenanceKept
<1> QED
  BY <1>1, <1>2

(* For any number of runs, certifications and servers in any order: the    *)
(* weights served are those of a certified manifest that was signed,       *)
(* unless the checkpoint was written between its verification and its      *)
(* loading; a certificate tells of the training that made the weights,     *)
(* unless it was written amid one or after one that left no manifest; and  *)
(* a central training is tested on the best of its epochs.                 *)
THEOREM ReleaseVouched == ReleaseSpec => []ServedIsVouched
<1> DEFINE IInv == Types /\ Trained /\ Vouched
<1>1. ReleaseInit => IInv
  BY InitTyped, InitTrained, InitVouched
<1>2. IInv /\ [ReleaseNext]_releaseVars => IInv'
  BY StepTyped, StepKeepsTrained, StepKeepsVouched
<1>3. IInv => ServedIsVouched
  BY DEF Trained, Vouched, VouchedAt, ServedIsVouched, CertifiedServed
<1> QED
  BY <1>1, <1>2, <1>3, PTL DEF ReleaseSpec

-----------------------------------------------------------------------------
(* The composition.                                                        *)

(* What is on the disk was prepared from a configuration there is.         *)
Prepared ==
  /\ study \in DOMAIN Studies
  /\ DOMAIN disk = Files
  /\ preparing # Resting => preparing.of.config \in Configs
  /\ \A file \in Files : Readable(file) => disk[file].of.config \in Configs

LEMMA InitPrepared == Init => Prepared
<1> SUFFICES ASSUME Init PROVE Prepared
  OBVIOUS
<1>1. \A file \in Files : ~Readable(file)
  BY DEF Init, PrepInit, Readable, Missing
<1> QED
  BY <1>1 DEF Init, PrepInit, Prepared

LEMMA PrepareKeepsPrepared ==
  ASSUME Prepared, Prepare
  PROVE  Prepared'
<1>1. study' = study
  BY DEF Prepare
<1>2. ASSUME NEW config \in Study.configs, Preprocess(config)
      PROVE  Prepared'
  <2>1. config \in Configs
    BY StudiesAssumption DEF Prepared, Study
  <2>2. Preparation(config).config = config
    BY DEF Preparation
  <2>3. disk' = disk /\ (preparing' = Resting \/ preparing'.of = Preparation(config))
    BY <1>2 DEF Preprocess
  <2> QED
    BY <1>1, <2>1, <2>2, <2>3 DEF Prepared, Readable
<1>3. CASE SaveFile
  <2>1. preparing.of.config \in Configs
    BY <1>3 DEF SaveFile, Prepared
  <2>2. preparing' = Resting \/ preparing'.of = preparing.of
    BY <1>3 DEF SaveFile
  <2>3. /\ DOMAIN disk' = DOMAIN disk
        /\ \A file \in Files : disk'[file] = disk[file] \/ disk'[file] = Whole(preparing.of)
    BY <1>3 DEF SaveFile, Prepared
  <2>4. Whole(preparing.of).of = preparing.of
    BY DEF Whole
  <2> QED
    BY <1>1, <2>1, <2>2, <2>3, <2>4 DEF Prepared, Readable
<1>4. CASE StopPreparing
  <2>1. preparing' = Resting
    BY <1>4 DEF StopPreparing
  <2>2. /\ DOMAIN disk' = DOMAIN disk
        /\ \A file \in Files : disk'[file] = disk[file] \/ disk'[file] = Torn
    BY <1>4 DEF StopPreparing, Prepared
  <2>3. Torn.is # "whole"
    BY DEF Torn
  <2> QED
    BY <1>1, <2>1, <2>2, <2>3 DEF Prepared, Readable
<1>5. CASE UNCHANGED <<disk, preparing>>
  BY <1>1, <1>5 DEF Prepared, Readable
<1> QED
  <2>1. ASSUME NEW deal, CreatePartitions(deal)
        PROVE  Prepared'
    BY <1>5, <2>1 DEF CreatePartitions
  <2>2. CASE SavePartition \/ StopPartitioning
    BY <1>5, <2>2 DEF SavePartition, StopPartitioning
  <2> QED
    BY <1>2, <1>3, <1>4, <2>1, <2>2 DEF Prepare

LEMMA StepKeepsPrepared ==
  ASSUME Prepared, [Next]_vars
  PROVE  Prepared'
<1>1. CASE Prepare
  BY <1>1, PrepareKeepsPrepared
<1>2. CASE UNCHANGED <<prepVars, study>>
  BY <1>2 DEF prepVars, Prepared, Readable
<1> QED
  BY <1>1, <1>2 DEF Next, Train, Certify, Serve, Feed, Stream, SelectRows, Select, AccuracyPass,
                    Score, RealPass, DemoOver, vars

-----------------------------------------------------------------------------
LEMMA StepReleases ==
  ASSUME Prepared, [Next]_vars
  PROVE  [ReleaseNext]_releaseVars
<1>1. CASE Train
  <2>1. CASE TrainNext
    BY <2>1 DEF ReleaseNext
  <2>2. CASE Readable("arrays") /\ StartTraining(disk["arrays"].of.config)
    <3>1. disk["arrays"].of.config \in Datasets
      BY <2>2, StudiesAssumption DEF Prepared, Files
    <3> QED
      BY <2>2, <3>1 DEF ReleaseNext
  <2> QED
    BY <1>1, <2>1, <2>2 DEF Train
<1>2. CASE Certify \/ Serve
  BY <1>2 DEF Certify, Serve, ReleaseNext
<1>3. CASE UNCHANGED releaseVars
  BY <1>3
<1> QED
  BY <1>1, <1>2, <1>3 DEF Next, Prepare, Feed, Stream, SelectRows, Select, AccuracyPass,
                          Score, RealPass, DemoOver, vars

(* Every behaviour of the composition is one of the model release: what is *)
(* prepared, streamed and replayed meanwhile never writes its files.       *)
THEOREM CompositionReleases == Spec => ReleaseSpec
<1>1. Init => ReleaseInit
  BY DEF Init
<1>2. Prepared /\ [Next]_vars => Prepared'
  BY StepKeepsPrepared
<1>3. Prepared /\ [Next]_vars => [ReleaseNext]_releaseVars
  BY StepReleases
<1> QED
  BY InitPrepared, <1>1, <1>2, <1>3, PTL DEF Spec, ReleaseSpec

(* With everything else running, the weights served are vouched for, a     *)
(* certificate tells of their training, and a central training is tested   *)
(* on its best epoch.                                                      *)
THEOREM ServedVouchedInComposition == Spec => []ServedIsVouched
  BY CompositionReleases, ReleaseVouched, PTL

-----------------------------------------------------------------------------
(* What is left to write of a preparation; its arrays are written once     *)
(* they are not left, and its held-out rows are written last.              *)
FilesLeft ==
  {<<"index", "arrays", "preprocessor", "encoder", "metadata", "heldout">>,
   <<"arrays", "preprocessor", "encoder", "metadata", "heldout">>,
   <<"preprocessor", "encoder", "metadata", "heldout">>,
   <<"encoder", "metadata", "heldout">>,
   <<"metadata", "heldout">>,
   <<"heldout">>}

ArraysAhead(left) == Head(left) \in {"index", "arrays"}

WrittenInOrder ==
  /\ DOMAIN disk = Files
  /\ preparing # Resting =>
       /\ preparing = [left |-> preparing.left, of |-> preparing.of]
       /\ preparing.left \in FilesLeft
       /\ ~ArraysAhead(preparing.left) => disk["arrays"] = Whole(preparing.of)
  /\ HeldoutOfArrays

LEMMA LeftShrinks ==
  ASSUME NEW left \in FilesLeft
  PROVE  /\ Tail(left) = << >> => Head(left) = "heldout"
         /\ Tail(left) # << >> => Tail(left) \in FilesLeft
         /\ ~ArraysAhead(Tail(left)) => Head(left) # "index" \/ Tail(left) = << >>
         /\ Head(left) \in Files
<1> USE DEF FilesLeft, ArraysAhead, Files
<1>1. CASE left = <<"index", "arrays", "preprocessor", "encoder", "metadata", "heldout">>
  BY <1>1
<1>2. CASE left = <<"arrays", "preprocessor", "encoder", "metadata", "heldout">>
  BY <1>2
<1>3. CASE left = <<"preprocessor", "encoder", "metadata", "heldout">>
  BY <1>3
<1>4. CASE left = <<"encoder", "metadata", "heldout">>
  BY <1>4
<1>5. CASE left = <<"metadata", "heldout">>
  BY <1>5
<1>6. CASE left = <<"heldout">>
  BY <1>6
<1> QED
  BY <1>1, <1>2, <1>3, <1>4, <1>5, <1>6

LEMMA LeftIsSome ==
  ASSUME NEW left \in FilesLeft
  PROVE  left # << >>
  BY DEF FilesLeft

LEMMA SaveInOrder ==
  ASSUME WrittenInOrder, SaveFile
  PROVE  WrittenInOrder'
<1> DEFINE left == preparing.left
           file == Head(left)
<1>1. /\ preparing # Resting /\ left \in FilesLeft
      /\ preparing = [left |-> left, of |-> preparing.of]
      /\ ~ArraysAhead(left) => disk["arrays"] = Whole(preparing.of)
      /\ DOMAIN disk = Files
  BY DEF SaveFile, WrittenInOrder
<1>2. /\ disk' = [disk EXCEPT ![file] = Whole(preparing.of)]
      /\ preparing' = IF Tail(left) = << >> THEN Resting ELSE [preparing EXCEPT !.left = Tail(left)]
  BY DEF SaveFile
<1>3. /\ file \in Files /\ DOMAIN disk' = Files
      /\ \A f \in Files : disk'[f] = IF f = file THEN Whole(preparing.of) ELSE disk[f]
  BY <1>1, <1>2, LeftShrinks
<1>4. CASE Tail(left) = << >>
  <2>1. file = "heldout" /\ ~ArraysAhead(left)
    BY <1>1, <1>4, LeftShrinks DEF ArraysAhead
  <2>2. disk'["heldout"] = disk'["arrays"] /\ preparing' = Resting
    BY <1>1, <1>2, <1>3, <1>4, <2>1 DEF Files
  <2> QED
    BY <1>3, <2>2 DEF WrittenInOrder, HeldoutOfArrays
<1>5. CASE Tail(left) # << >>
  <2>1. preparing' = [left |-> Tail(left), of |-> preparing.of]
    BY <1>1, <1>2, <1>5
  <2>2. preparing' # Resting
    BY <1>5, <2>1 DEF Resting
  <2>3. Tail(left) \in FilesLeft
    BY <1>1, <1>5, LeftShrinks
  <2>4. ASSUME ~ArraysAhead(Tail(left))
        PROVE  disk'["arrays"] = Whole(preparing.of)
    <3>1. CASE file = "arrays"
      BY <1>3, <3>1
    <3>2. CASE file # "arrays"
      <4>1. ~ArraysAhead(left)
        BY <1>1, <1>5, <2>4, <3>2, LeftShrinks DEF ArraysAhead
      <4> QED
        BY <1>1, <1>3, <3>2, <4>1 DEF Files
    <3> QED
      BY <3>1, <3>2
  <2>5. ~Steady'
    BY <2>2 DEF Steady
  <2> QED
    BY <1>3, <2>1, <2>3, <2>4, <2>5 DEF WrittenInOrder, HeldoutOfArrays
<1> QED
  BY <1>4, <1>5

LEMMA PrepareInOrder ==
  ASSUME WrittenInOrder, Prepare
  PROVE  WrittenInOrder'
<1>1. ASSUME NEW config, Preprocess(config)
      PROVE  WrittenInOrder'
  <2>1. disk' = disk /\ preparing = Resting /\ prepCut' = prepCut
    BY <1>1 DEF Preprocess
  <2>2. CASE preparing' = Resting
    BY <2>1, <2>2 DEF WrittenInOrder, HeldoutOfArrays, Steady, Readable
  <2>3. CASE preparing' = [left |-> FilesOf(config), of |-> Preparation(config)]
    <3>1. FilesOf(config) \in FilesLeft /\ ArraysAhead(FilesOf(config))
      BY DEF FilesOf, FilesLeft, ArraysAhead
    <3>2. preparing' # Resting
      BY <2>3, <3>1, LeftIsSome DEF Resting
    <3>3. ~Steady'
      BY <3>2 DEF Steady
    <3> QED
      BY <2>1, <2>3, <3>1, <3>3 DEF WrittenInOrder, HeldoutOfArrays
  <2> QED
    BY <1>1, <2>2, <2>3 DEF Preprocess
<1>2. CASE StopPreparing
  <2>1. preparing' = Resting /\ prepCut' = TRUE
    BY <1>2 DEF StopPreparing
  <2>2. DOMAIN disk' = DOMAIN disk
    BY <1>2 DEF StopPreparing
  <2> QED
    BY <2>1, <2>2 DEF WrittenInOrder, HeldoutOfArrays, Steady
<1>3. CASE UNCHANGED <<disk, preparing, prepCut>>
  BY <1>3 DEF WrittenInOrder, HeldoutOfArrays, Steady, Readable
<1> QED
  <2>1. ASSUME NEW deal, CreatePartitions(deal)
        PROVE  WrittenInOrder'
    BY <1>3, <2>1 DEF CreatePartitions
  <2>2. CASE SavePartition \/ StopPartitioning
    BY <1>3, <2>2 DEF SavePartition, StopPartitioning
  <2> QED
    BY <1>1, SaveInOrder, <1>2, <2>1, <2>2 DEF Prepare

(* Whatever runs beside it, and whatever was prepared before: when no      *)
(* preparation is under way and none stopped half-way, the held-out rows   *)
(* on the disk are those of the arrays on the disk.                        *)
THEOREM HeldoutFollows == Spec => []HeldoutOfArrays
<1>1. Init => WrittenInOrder
  <2> SUFFICES ASSUME Init PROVE WrittenInOrder
    OBVIOUS
  <2>1. ~Readable("arrays") /\ DOMAIN disk = Files /\ preparing = Resting
    BY DEF Init, PrepInit, Readable, Missing, Files
  <2> QED
    BY <2>1 DEF WrittenInOrder, HeldoutOfArrays
<1>2. WrittenInOrder /\ [Next]_vars => WrittenInOrder'
  <2> SUFFICES ASSUME WrittenInOrder, [Next]_vars PROVE WrittenInOrder'
    OBVIOUS
  <2>1. CASE Prepare
    BY <2>1, PrepareInOrder
  <2>2. CASE UNCHANGED prepVars
    BY <2>2 DEF prepVars, WrittenInOrder, HeldoutOfArrays, Steady, Readable
  <2> QED
    BY <2>1, <2>2 DEF Next, Train, Certify, Serve, Feed, Stream, SelectRows, Select,
                      AccuracyPass, Score, RealPass, DemoOver, vars
<1>3. WrittenInOrder => HeldoutOfArrays
  BY DEF WrittenInOrder
<1> QED
  BY <1>1, <1>2, <1>3, PTL DEF Spec

-----------------------------------------------------------------------------
(* The streams.  First two facts about numbers and sequences.              *)

LEMMA LeastOfNumbers ==
  ASSUME NEW T \in SUBSET Nat, T # {}
  PROVE  \E x \in T : \A y \in T : x <= y
<1> DEFINE R == {ss \in Nat \X Nat : ss[1] < ss[2]}
<1>1. IsWellFoundedOn(R, Nat)
  BY NatLessThanWellFounded DEF OpToRel
<1>2. PICK x \in T : \A y \in T : ~(<<y, x>> \in R)
  <2> HIDE DEF R
  <2> QED
    BY <1>1, WFMin
<1>3. \A y \in T : ~(y < x)
  BY <1>2
<1> QED
  BY <1>3

LEMMA AppendedRecord ==
  ASSUME NEW s \in Seq(Records), NEW r \in Records
  PROVE  /\ Append(s, r) \in Seq(Records)
         /\ Len(Append(s, r)) = Len(s) + 1 /\ Len(s) \in Nat
         /\ \A k \in 1..Len(s) : Append(s, r)[k] = s[k]
         /\ Append(s, r)[Len(s) + 1] = r
OBVIOUS

-----------------------------------------------------------------------------
(* The types, and where a stream may be.                                   *)
StreamPlaces == StreamTypeOK /\ StreamPhases

LEMMA CurrentTyped ==
  ASSUME source \in Sources, step \in 1..Len(source.steps)
  PROVE  /\ Current \in Steps /\ Current.records \in Seq(Records)
         /\ Current.wanted \in SUBSET (1..Len(Current.records))
         /\ Len(Current.records) \in Nat
         /\ Current.max \in Nat \union {NoMax} /\ Current.packets \in Nat
         /\ source.steps \in Seq(Steps) /\ source.kind \in Kinds
<1>1. source.steps \in Seq(Steps) /\ source.kind \in Kinds
  BY DEF Sources
<1>2. Current \in Steps
  BY <1>1 DEF Current
<1> QED
  BY <1>1, <1>2 DEF Steps

LEMMA NextAhead ==
  ASSUME source \in Sources, step \in 1..Len(source.steps), pos \in Nat, Yield
  PROVE  /\ pos' \in Current.wanted /\ pos' > pos /\ pos' \in Nat
         /\ \A q \in Current.wanted : q > pos => pos' <= q
<1>1. Current.wanted \in SUBSET (1..Len(Current.records))
  BY CurrentTyped
<1>2. Ahead \in SUBSET Nat /\ Ahead # {}
  BY <1>1 DEF Yield, HasNext, Ahead
<1>3. \E p \in Ahead : \A q \in Ahead : p <= q
  BY <1>2, LeastOfNumbers
<1>4. pos' = CHOOSE p \in Ahead : \A q \in Ahead : p <= q
  BY DEF Yield
<1>5. pos' \in Ahead /\ \A q \in Ahead : pos' <= q
  BY <1>3, <1>4
<1> QED
  BY <1>1, <1>5 DEF Ahead

LEMMA StartPlaces ==
  ASSUME NEW from \in Sources, NEW emitNormal \in BOOLEAN, StartStream(from, emitNormal)
  PROVE  StreamPlaces'
<1>1. from.steps \in Seq(Steps) /\ from.steps # << >>
  BY DEF Sources
<1>2. Len(from.steps) \in Nat /\ 1 \in 1..Len(from.steps)
  BY <1>1
<1>3. << >> \in Seq(Records) /\ Len(<< >>) = 0
  OBVIOUS
<1>4. /\ source' = from /\ step' = 1 /\ pos' = 0 /\ emitted' = 0 /\ hand' = NoRecord
      /\ batch' = << >> /\ phase' = "read" /\ resume' = "read" /\ looked' = 0
      /\ handling' = FALSE /\ all' = emitNormal
      /\ alerts' = << >> /\ suppressed' = 0 /\ judged' = << >> /\ appended' = << >>
  BY DEF StartStream
<1>5. step' \in 1..Len(source'.steps) /\ step' \in 0..Len(source'.steps)
  BY <1>2, <1>4
<1>6. StreamTypeOK'
  <2>1. suppressed' \in 0..Len(judged') /\ looked' \in 0..BatchSize /\ Len(batch') <= BatchSize
    BY <1>3, <1>4, BatchAssumption
  <2>2. source' \in Sources
    BY <1>4
  <2>3. {alerts', judged', appended'} \subseteq Seq(Records) /\ batch' \in Seq(Records)
    BY <1>3, <1>4
  <2>4. phase' = "append" <=> hand' # NoRecord
    BY <1>4
  <2> QED
    BY <1>4, <1>5, <2>1, <2>2, <2>3, <2>4 DEF StreamTypeOK, Phases
<1>7. StreamPhases'
  BY <1>3, <1>4, <1>5, BatchAssumption DEF StreamPhases
<1> QED
  BY <1>6, <1>7 DEF StreamPlaces

LEMMA ReadPlaces ==
  ASSUME StreamPlaces, Yield \/ NextStep \/ SourceEnds \/ TopicSilent
  PROVE  StreamPlaces'
<1>0. source \in Sources /\ step \in 1..Len(source.steps) /\ phase = "read" /\ pos \in Nat
  BY DEF StreamPlaces, StreamTypeOK, StreamPhases, Yield, NextStep, SourceEnds, TopicSilent
<1>1. CASE Yield
  <2>1. pos' \in Current.wanted /\ pos' \in Nat
    BY <1>0, <1>1, NextAhead
  <2>2. hand' \in Records
    BY <1>0, <1>1, <2>1, CurrentTyped DEF Yield
  <2>3. /\ emitted' = emitted + 1 /\ phase' = "append"
        /\ UNCHANGED <<source, step, batch, resume, looked, handling, all>>
        /\ UNCHANGED <<alerts, suppressed, judged, appended>>
    BY <1>1 DEF Yield, flushVars
  <2>4. hand' # NoRecord
    BY <2>2 DEF Records
  <2>5. StreamTypeOK'
    BY <2>1, <2>2, <2>3, <2>4 DEF StreamPlaces, StreamTypeOK, Phases
  <2>6. StreamPhases'
    BY <1>0, <2>3 DEF StreamPlaces, StreamPhases
  <2> QED
    BY <2>5, <2>6 DEF StreamPlaces
<1>2. CASE NextStep
  <2>1. Len(source.steps) \in Nat
    BY <1>0, CurrentTyped
  <2>2. step + 1 \in 1..Len(source.steps)
    BY <1>0, <1>2, <2>1 DEF NextStep
  <2>3. /\ step' = step + 1 /\ pos' = 0 /\ emitted' = 0
        /\ UNCHANGED <<source, hand, batch, phase, resume, looked, handling, all>>
        /\ UNCHANGED <<alerts, suppressed, judged, appended>>
    BY <1>2 DEF NextStep, flushVars
  <2>4. step' \in 1..Len(source'.steps) /\ step' \in 0..Len(source'.steps)
    BY <2>1, <2>2, <2>3
  <2>5. StreamTypeOK'
    BY <2>3, <2>4 DEF StreamPlaces, StreamTypeOK
  <2>6. StreamPhases'
    BY <1>0, <2>3, <2>4 DEF StreamPlaces, StreamPhases
  <2> QED
    BY <2>5, <2>6 DEF StreamPlaces
<1>3. CASE SourceEnds
  BY <1>0, <1>3
     DEF SourceEnds, Flush, sourceVars, flushVars, StreamPlaces, StreamTypeOK, StreamPhases, Phases
<1>4. CASE TopicSilent
  BY <1>0, <1>4
     DEF TopicSilent, sourceVars, flushVars, StreamPlaces, StreamTypeOK, StreamPhases, Phases
<1> QED
  BY <1>1, <1>2, <1>3, <1>4

LEMMA BatchPlaces ==
  ASSUME StreamPlaces, AppendRecord \/ ClearBatch \/ Interrupt \/ Transform \/ TransformRaises
  PROVE  StreamPlaces'
<1>0. source \in Sources /\ step \in 1..Len(source.steps)
  BY DEF StreamPlaces, StreamPhases, AppendRecord, ClearBatch, Interrupt, Transform,
         TransformRaises
<1>1. CASE AppendRecord
  <2>1. hand \in Records /\ batch \in Seq(Records) /\ appended \in Seq(Records)
    BY <1>1 DEF AppendRecord, StreamPlaces, StreamTypeOK
  <2>2. /\ batch' \in Seq(Records) /\ Len(batch') = Len(batch) + 1 /\ Len(batch) \in Nat
        /\ appended' \in Seq(Records)
    BY <1>1, <2>1, AppendedRecord DEF AppendRecord
  <2>3. batch' # << >> /\ Len(batch') <= BatchSize
    BY <1>1, <2>2, BatchAssumption DEF AppendRecord, StreamPlaces, StreamPhases
  <2>4. /\ ~handling /\ resume = "read"
        /\ phase' \in {"read", "transform"} /\ resume' = "read"
        /\ phase' = "read" => Len(batch') < BatchSize
    BY <1>1, <2>2, <2>3, BatchAssumption DEF AppendRecord, Flush, StreamPlaces, StreamPhases
  <2>5. hand' = NoRecord
    BY <1>1 DEF AppendRecord
  <2>6. UNCHANGED <<source, step, pos, emitted, looked, handling, all, alerts, suppressed, judged>>
    BY <1>1 DEF AppendRecord, sourceVars, flushVars
  <2>7. StreamTypeOK'
    BY <2>1, <2>2, <2>3, <2>4, <2>5, <2>6 DEF StreamPlaces, StreamTypeOK, Phases
  <2>8. StreamPhases'
    BY <1>0, <2>3, <2>4, <2>6 DEF StreamPlaces, StreamPhases
  <2> QED
    BY <2>7, <2>8 DEF StreamPlaces
<1>2. CASE ClearBatch
  <2>1. Len(<< >>) = 0 /\ << >> \in Seq(Records)
    OBVIOUS
  <2> QED
    BY <1>0, <1>2, <2>1, BatchAssumption
       DEF ClearBatch, sourceVars, flushVars, StreamPlaces, StreamTypeOK, StreamPhases, Phases
<1>3. CASE Interrupt
  BY <1>0, <1>3
     DEF Interrupt, Flush, sourceVars, flushVars, StreamPlaces, StreamTypeOK, StreamPhases, Phases
<1>4. CASE Transform
  <2>1. Len(batch) \in Nat
    BY DEF StreamPlaces, StreamTypeOK
  <2> QED
    BY <1>0, <1>4, <2>1, BatchAssumption
       DEF Transform, sourceVars, flushVars, StreamPlaces, StreamTypeOK, StreamPhases, Phases
<1>5. CASE TransformRaises
  BY <1>0, <1>5
     DEF TransformRaises, sourceVars, flushVars, StreamPlaces, StreamTypeOK, StreamPhases, Phases
<1> QED
  BY <1>1, <1>2, <1>3, <1>4, <1>5

LEMMA EmitPlaces ==
  ASSUME StreamPlaces, EmitOne
  PROVE  StreamPlaces'
<1>1. /\ phase = "emit" /\ source \in Sources /\ step \in 1..Len(source.steps)
      /\ batch \in Seq(Records) /\ Len(batch) \in Nat /\ Len(batch) <= BatchSize
      /\ looked \in 0..BatchSize /\ looked < Len(batch)
  BY DEF EmitOne, StreamPlaces, StreamTypeOK, StreamPhases
<1> DEFINE record == batch[looked + 1]
<1>2. looked + 1 \in 1..Len(batch) /\ looked + 1 \in 0..BatchSize
  BY <1>1, BatchAssumption
<1>3. record \in Records
  BY <1>1, <1>2
<1>4. /\ judged \in Seq(Records) /\ alerts \in Seq(Records) /\ suppressed \in 0..Len(judged)
      /\ Len(judged) \in Nat
  BY DEF StreamPlaces, StreamTypeOK
<1>5. judged' = Append(judged, record) /\ looked' = looked + 1
  BY DEF EmitOne
<1>6. \/ alerts' = Append(alerts, record) /\ suppressed' = suppressed
      \/ alerts' = alerts /\ suppressed' = suppressed + 1
  BY DEF EmitOne
<1> HIDE DEF record
<1>7. judged' \in Seq(Records) /\ Len(judged') = Len(judged) + 1 /\ alerts' \in Seq(Records)
  BY <1>3, <1>4, <1>5, <1>6, AppendedRecord
<1>8. suppressed' \in 0..Len(judged')
  BY <1>4, <1>6, <1>7
<1>9. /\ UNCHANGED <<source, step, pos, emitted, hand, batch, phase, resume, handling, all>>
      /\ appended' = appended
  BY DEF EmitOne, sourceVars
<1>10. StreamTypeOK'
  BY <1>2, <1>5, <1>7, <1>8, <1>9 DEF StreamPlaces, StreamTypeOK
<1>11. StreamPhases'
  BY <1>1, <1>2, <1>5, <1>9 DEF StreamPlaces, StreamPhases
<1> QED
  BY <1>10, <1>11 DEF StreamPlaces

-----------------------------------------------------------------------------
(* What is due.                                                            *)

LEMMA DuePlaces ==
  ASSUME source \in Sources
  PROVE  \A d : d \in Deliverable <=>
           \E n \in 1..Len(source.steps) : \E p \in Taken(source.steps[n]) : d = <<n, p>>
<1>1. DOMAIN source.steps = 1..Len(source.steps)
  BY DEF Sources
<1> QED
  BY <1>1 DEF Deliverable

LEMMA SourceStepTyped ==
  ASSUME source \in Sources, NEW n \in 1..Len(source.steps)
  PROVE  /\ source.steps[n].wanted \in SUBSET (1..Len(source.steps[n].records))
         /\ Len(source.steps[n].records) \in Nat
         /\ Taken(source.steps[n]) \in SUBSET (1..Len(source.steps[n].records))
         /\ IsFiniteSet(source.steps[n].wanted) /\ IsFiniteSet(Taken(source.steps[n]))
<1>1. source.steps[n] \in Steps
  BY DEF Sources
<1>2. /\ source.steps[n].wanted \in SUBSET (1..Len(source.steps[n].records))
      /\ Len(source.steps[n].records) \in Nat
  BY <1>1 DEF Steps
<1>3. Taken(source.steps[n]) \in SUBSET source.steps[n].wanted
  BY DEF Taken
<1>4. IsFiniteSet(1..Len(source.steps[n].records))
  <2> DEFINE m == Len(source.steps[n].records)
  <2>1. m \in Int
    BY <1>2
  <2> HIDE DEF m
  <2>2. IsFiniteSet(1..m)
    BY <2>1, FS_Interval
  <2> QED
    BY <2>2 DEF m
<1>5. IsFiniteSet(source.steps[n].wanted)
  BY <1>2, <1>4, FS_Subset
<1>6. IsFiniteSet(Taken(source.steps[n]))
  BY <1>3, <1>5, FS_Subset
<1> QED
  BY <1>2, <1>3, <1>5, <1>6

LEMMA DueFinite ==
  ASSUME source \in Sources
  PROVE  IsFiniteSet(Deliverable) /\ Cardinality(Deliverable) \in Nat
<1> DEFINE N == 1..Len(source.steps)
           f == [n \in N |-> {n} \X Taken(source.steps[n])]
           T == {f[n] : n \in N}
<1>1. Len(source.steps) \in Nat /\ DOMAIN source.steps = N
  BY DEF Sources
<1>2. IsFiniteSet(N)
  BY <1>1, FS_Interval
<1>3. IsFiniteSet(T)
  <2>1. f \in Surjection(N, T)
    BY DEF Surjection
  <2> HIDE DEF f, T, N
  <2> QED
    BY <1>2, <2>1, FS_Surjection
<1>4. \A t \in T : IsFiniteSet(t)
  <2> SUFFICES ASSUME NEW n \in N PROVE IsFiniteSet(f[n])
    OBVIOUS
  <2>1. IsFiniteSet({n}) /\ IsFiniteSet(Taken(source.steps[n]))
    BY SourceStepTyped, FS_Singleton
  <2>2. IsFiniteSet({n} \X Taken(source.steps[n]))
    BY <2>1, FS_Product
  <2> QED
    BY <2>2
<1>5. Deliverable = UNION T
  BY <1>1 DEF Deliverable
<1>6. IsFiniteSet(UNION T)
  <2> HIDE DEF T
  <2> QED
    BY <1>3, <1>4, FS_UNION
<1> QED
  BY <1>5, <1>6, FS_CardinalityType

(* Places are pairs of numbers, and the order of them is total.            *)
LEMMA PlaceTyped ==
  ASSUME source \in Sources, NEW d \in Deliverable
  PROVE  /\ d[1] \in 1..Len(source.steps) /\ Len(source.steps) \in Nat
         /\ d[2] \in Taken(source.steps[d[1]]) /\ d[2] \in Nat /\ d[2] >= 1
         /\ d = <<d[1], d[2]>>
<1>1. PICK n \in 1..Len(source.steps) : \E p \in Taken(source.steps[n]) : d = <<n, p>>
  BY DuePlaces
<1>2. PICK p \in Taken(source.steps[n]) : d = <<n, p>>
  BY <1>1
<1>3. d[1] = n /\ d[2] = p
  BY <1>2
<1>4. Taken(source.steps[n]) \in SUBSET (1..Len(source.steps[n].records))
  BY <1>1, SourceStepTyped
<1>5. Len(source.steps) \in Nat
  BY DEF Sources
<1> QED
  BY <1>1, <1>2, <1>3, <1>4, <1>5

(* The record yielded next is due, as the next one.                        *)
LEMMA YieldReaches ==
  ASSUME StreamPlaces, Delivery, Yield
  PROVE  /\ emitted' = Cardinality(UpTo(Current, pos'))
         /\ <<step, pos'>> \in Deliverable
         /\ {d \in Deliverable : NoLater(d, <<step, pos'>>)} = Reached \union {<<step, pos'>>}
         /\ <<step, pos'>> \notin Reached
<1>0. source \in Sources /\ step \in 1..Len(source.steps) /\ pos \in Nat /\ emitted \in Nat
  BY DEF StreamPlaces, StreamTypeOK, StreamPhases, Yield
<1>1. /\ pos' \in Current.wanted /\ pos' > pos /\ pos' \in Nat
      /\ \A q \in Current.wanted : q > pos => pos' <= q
  BY <1>0, NextAhead
<1>2. /\ Current.wanted \in SUBSET (1..Len(Current.records))
      /\ Current.max \in Nat \union {NoMax} /\ Current.packets \in Nat
  BY <1>0, CurrentTyped
<1>3. \A q \in Current.wanted : q \in Nat
  BY <1>2
<1>4. IsFiniteSet(UpTo(Current, pos))
  <2>1. IsFiniteSet(Current.wanted)
    BY <1>0, SourceStepTyped DEF Current
  <2>2. UpTo(Current, pos) \in SUBSET Current.wanted
    BY DEF UpTo
  <2> QED
    BY <2>1, <2>2, FS_Subset
<1>5. UpTo(Current, pos') = UpTo(Current, pos) \union {pos'} /\ pos' \notin UpTo(Current, pos)
  <2>1. \A q \in Current.wanted : q <= pos' <=> q <= pos \/ q = pos'
    BY <1>0, <1>1, <1>3
  <2>2. ~(pos' <= pos)
    BY <1>0, <1>1
  <2> QED
    BY <1>1, <2>1, <2>2 DEF UpTo
<1>6. emitted = Cardinality(UpTo(Current, pos))
  BY DEF Delivery, Yield
<1>7. Cardinality(UpTo(Current, pos')) = emitted + 1
  BY <1>4, <1>5, <1>6, FS_AddElement
<1>8. emitted' = emitted + 1
  BY DEF Yield
<1>9. emitted + 1 <= Asked(Current)
  <2>1. emitted < Current.packets /\ (Current.max = NoMax \/ emitted = 0 \/ emitted < Current.max)
    BY DEF Yield, HasNext, MayYield
  <2> QED
    BY <1>0, <1>2, <2>1 DEF Asked, Least, NoMax
<1>10. pos' \in Taken(Current)
  BY <1>1, <1>7, <1>9 DEF Taken
<1>11. <<step, pos'>> \in Deliverable
  BY <1>0, <1>10, DuePlaces DEF Current
<1>12. ASSUME NEW d \in Deliverable
       PROVE  NoLater(d, <<step, pos'>>) <=> NoLater(d, <<step, pos>>) \/ d = <<step, pos'>>
  <2>1. /\ d[1] \in Nat /\ d[2] \in Nat /\ d = <<d[1], d[2]>>
        /\ d[2] \in Taken(source.steps[d[1]])
    BY <1>0, PlaceTyped
  <2>2. d[1] = step => d[2] \in Current.wanted
    BY <2>1 DEF Taken, Current
  <2>3. step \in Nat
    BY <1>0
  <2>4. CASE d[1] = step
    <3>1. d[2] <= pos' <=> d[2] <= pos \/ d[2] = pos'
      BY <1>0, <1>1, <1>3, <2>2, <2>4
    <3> QED
      BY <2>1, <2>3, <2>4, <3>1 DEF NoLater
  <2>5. CASE d[1] # step
    BY <2>1, <2>3, <2>5 DEF NoLater
  <2> QED
    BY <2>4, <2>5
<1>13. <<step, pos'>> \notin Reached
  BY <1>0, <1>1 DEF Reached, NoLater
<1>14. {d \in Deliverable : NoLater(d, <<step, pos'>>)} = Reached \union {<<step, pos'>>}
  BY <1>11, <1>12 DEF Reached
<1> QED
  BY <1>7, <1>8, <1>11, <1>13, <1>14

(* At the end of a step no record of it is left that is due.               *)
LEMMA StepIsOver ==
  ASSUME StreamPlaces, Delivery, phase = "read", ~HasNext
  PROVE  \A d \in Deliverable : d[1] = step => d[2] <= pos
<1>0. source \in Sources /\ step \in 1..Len(source.steps) /\ pos \in Nat /\ emitted \in Nat
  BY DEF StreamPlaces, StreamTypeOK, StreamPhases
<1> SUFFICES ASSUME NEW d \in Deliverable, d[1] = step, ~(d[2] <= pos)
             PROVE  FALSE
  OBVIOUS
<1>1. d[2] \in Taken(Current) /\ d[2] \in Nat
  BY <1>0, PlaceTyped DEF Current
<1>2. d[2] \in Current.wanted /\ Cardinality(UpTo(Current, d[2])) <= Asked(Current)
  BY <1>1 DEF Taken
<1>3. d[2] > pos
  BY <1>0, <1>1
<1>4. Ahead # {}
  BY <1>2, <1>3 DEF Ahead
<1>5. /\ Current.wanted \in SUBSET (1..Len(Current.records)) /\ Len(Current.records) \in Nat
      /\ Current.max \in Nat \union {NoMax} /\ Current.packets \in Nat
  BY <1>0, CurrentTyped
<1>6. emitted = Cardinality(UpTo(Current, pos))
  BY DEF Delivery
<1>7. emitted + 1 <= Cardinality(UpTo(Current, d[2]))
  <2> DEFINE A == UpTo(Current, pos)
             B == UpTo(Current, d[2])
  <2>1. IsFiniteSet(Current.wanted)
    BY <1>0, SourceStepTyped DEF Current
  <2>2. A \in SUBSET Current.wanted /\ B \in SUBSET Current.wanted
    BY DEF UpTo
  <2>3. A \union {d[2]} \in SUBSET B
    <3>1. \A q \in Current.wanted : q \in Nat
      BY <1>5
    <3>2. \A q \in Current.wanted : q <= pos => q <= d[2]
      BY <1>0, <1>1, <1>3, <3>1
    <3>3. d[2] <= d[2]
      BY <1>1
    <3> QED
      BY <1>2, <3>2, <3>3 DEF UpTo
  <2>4. d[2] \notin A
    BY <1>0, <1>1 DEF UpTo
  <2> HIDE DEF A, B
  <2>5. IsFiniteSet(A) /\ IsFiniteSet(B)
    BY <2>1, <2>2, FS_Subset
  <2>6. Cardinality(A \union {d[2]}) = Cardinality(A) + 1
    BY <2>4, <2>5, FS_AddElement
  <2>7. Cardinality(A \union {d[2]}) <= Cardinality(B)
    BY <2>3, <2>5, FS_Subset
  <2> QED
    BY <1>6, <2>6, <2>7 DEF A, B
<1>8. Cardinality(UpTo(Current, d[2])) \in Nat
  <2>1. IsFiniteSet(Current.wanted) /\ UpTo(Current, d[2]) \in SUBSET Current.wanted
    BY <1>0, SourceStepTyped DEF Current, UpTo
  <2> QED
    BY <2>1, FS_Subset, FS_CardinalityType
<1>9. emitted + 1 <= Asked(Current)
  <2>1. Asked(Current) \in Nat
    BY <1>5 DEF Asked, Least, NoMax
  <2> QED
    BY <1>0, <1>2, <1>7, <1>8, <2>1
<1>10. ~MayYield \/ ~(emitted < Current.packets)
  BY <1>4 DEF HasNext
<1> QED
  BY <1>0, <1>5, <1>9, <1>10 DEF MayYield, Asked, Least, NoMax

LEMMA TurnTyped ==
  ASSUME source \in Sources, NEW d \in Deliverable
  PROVE  Turn(d) \in Nat /\ Turn(d) >= 1
<1> DEFINE V == {c \in Deliverable : NoLater(c, d)}
<1>1. V \in SUBSET Deliverable /\ IsFiniteSet(Deliverable)
  BY DueFinite
<1>2. d \in V
  BY PlaceTyped DEF NoLater
<1> HIDE DEF V
<1>3. IsFiniteSet(V) /\ Cardinality(V) \in Nat
  BY <1>1, FS_Subset, FS_CardinalityType
<1>4. Cardinality(V) # 0
  BY <1>2, <1>3, FS_EmptySet
<1> QED
  BY <1>3, <1>4 DEF Turn, V

(* Two places that are due: the later one has more due up to it.           *)
LEMMA TurnsGrow ==
  ASSUME source \in Sources, NEW e \in Deliverable
  PROVE  LET upTo == {d \in Deliverable : NoLater(d, e)}
         IN  /\ \A d \in upTo : d # e => Turn(d) < Cardinality(upTo)
             /\ \A d \in Deliverable \ upTo : Turn(d) > Cardinality(upTo)
             /\ Turn(e) = Cardinality(upTo)
<1> DEFINE U == {d \in Deliverable : NoLater(d, e)}
<1>0. IsFiniteSet(Deliverable)
  BY DueFinite
<1>1. \A d \in Deliverable : d[1] \in Nat /\ d[2] \in Nat /\ d = <<d[1], d[2]>>
  BY PlaceTyped
<1>2. IsFiniteSet(U) /\ Cardinality(U) \in Nat
  BY <1>0, FS_Subset, FS_CardinalityType
<1>3. Turn(e) = Cardinality(U)
  BY DEF Turn
<1>4. ASSUME NEW d \in U, d # e
      PROVE  Turn(d) < Cardinality(U)
  <2> DEFINE V == {c \in Deliverable : NoLater(c, d)}
  <2>1. V \in SUBSET U
    BY <1>1, <1>4 DEF NoLater
  <2>2. e \in U /\ e \notin V
    BY <1>1, <1>4 DEF NoLater
  <2> HIDE DEF U, V
  <2>3. IsFiniteSet(V) /\ Cardinality(V) <= Cardinality(U) /\ Cardinality(V) # Cardinality(U)
    BY <1>2, <2>1, <2>2, FS_Subset
  <2>4. Cardinality(V) \in Nat
    BY <2>3, FS_CardinalityType
  <2> QED
    BY <1>2, <2>3, <2>4 DEF Turn, V
<1>5. ASSUME NEW d \in Deliverable \ U
      PROVE  Turn(d) > Cardinality(U)
  <2> DEFINE V == {c \in Deliverable : NoLater(c, d)}
  <2>1. U \in SUBSET V
    BY <1>1, <1>5 DEF NoLater
  <2>2. d \in V /\ d \notin U
    BY <1>1, <1>5 DEF NoLater
  <2>3. IsFiniteSet(V) /\ Cardinality(V) \in Nat
    BY <1>0, FS_Subset, FS_CardinalityType
  <2> HIDE DEF U, V
  <2>4. Cardinality(U) <= Cardinality(V) /\ Cardinality(V) # Cardinality(U)
    BY <2>1, <2>2, <2>3, FS_Subset
  <2> QED
    BY <1>2, <2>3, <2>4 DEF Turn, V
<1> HIDE DEF U
<1> QED
  BY <1>3, <1>4, <1>5 DEF U

(* One more of the first ones.                                             *)
LEMMA OneMore ==
  ASSUME source \in Sources, NEW s \in Seq(Records), NEW r \in Records, FirstOnes(s),
         NEW e \in Deliverable, r = RecordAt(e),
         Len(s) + 1 = Cardinality({d \in Deliverable : NoLater(d, e)})
  PROVE  FirstOnes(Append(s, r))
<1> DEFINE U == {d \in Deliverable : NoLater(d, e)}
           t == Append(s, r)
<1>1. /\ Len(t) = Len(s) + 1 /\ Len(s) \in Nat
      /\ \A k \in 1..Len(s) : t[k] = s[k]
      /\ t[Len(s) + 1] = r
  BY AppendedRecord
<1>2. /\ \A d \in U : d # e => Turn(d) < Cardinality(U)
      /\ \A d \in Deliverable \ U : Turn(d) > Cardinality(U)
      /\ Turn(e) = Cardinality(U)
  BY TurnsGrow
<1>3. IsFiniteSet(Deliverable) /\ Cardinality(Deliverable) \in Nat
  BY DueFinite
<1>4. Cardinality(U) <= Cardinality(Deliverable)
  BY <1>3, FS_Subset
<1> HIDE DEF U, t
<1>5. Cardinality(U) = Len(s) + 1
  BY DEF U
<1>6. ASSUME NEW d \in Deliverable, Turn(d) <= Len(t)
      PROVE  t[Turn(d)] = RecordAt(d)
  <2>1. d \in U
    <3>1. Turn(d) \in Nat
      BY TurnTyped
    <3> QED
      BY <1>1, <1>2, <1>5, <1>6, <3>1
  <2>2. CASE d = e
    BY <1>1, <1>2, <1>5, <2>2
  <2>3. CASE d # e
    <3>1. Turn(d) < Len(s) + 1
      BY <1>2, <1>5, <2>1, <2>3
    <3>2. Turn(d) \in Nat /\ Turn(d) >= 1
      BY TurnTyped
    <3>3. Turn(d) \in 1..Len(s) /\ Turn(d) <= Len(s)
      BY <1>1, <3>1, <3>2
    <3> QED
      BY <1>1, <3>3 DEF FirstOnes
  <2> QED
    BY <2>2, <2>3
<1>7. Len(t) <= Cardinality(Deliverable)
  BY <1>1, <1>4, <1>5
<1> QED
  BY <1>6, <1>7 DEF FirstOnes, t

-----------------------------------------------------------------------------
StreamFresh ==
  /\ source \in Sources /\ step = 1 /\ pos = 0 /\ emitted = 0
  /\ phase = "read" /\ resume = "read" /\ handling = FALSE /\ appended = << >>

LEMMA FreshDelivery == StreamFresh => Delivery
<1> SUFFICES ASSUME StreamFresh PROVE Delivery
  OBVIOUS
<1>1. /\ source \in Sources /\ step = 1 /\ pos = 0 /\ emitted = 0 /\ phase = "read"
      /\ resume = "read" /\ handling = FALSE /\ appended = << >>
  BY DEF StreamFresh
<1>2. step \in 1..Len(source.steps)
  BY <1>1 DEF Sources
<1>3. UpTo(Current, pos) = {}
  <2>1. Current.wanted \in SUBSET (1..Len(Current.records))
    BY <1>1, <1>2, CurrentTyped
  <2>2. \A q \in Current.wanted : ~(q <= pos)
    BY <1>1, <2>1
  <2> QED
    BY <2>2 DEF UpTo
<1>4. Reached = {}
  <2>1. \A d \in Deliverable : d[1] >= 1 /\ d[1] \in Nat /\ d[2] >= 1 /\ d[2] \in Nat
    BY <1>1, PlaceTyped
  <2> QED
    BY <1>1, <2>1 DEF Reached, NoLater
<1>5. Len(appended) = 0 /\ Cardinality({}) = 0
  BY <1>1, FS_EmptySet
<1>6. FirstOnes(appended)
  <2>1. Cardinality(Deliverable) \in Nat
    BY <1>1, DueFinite
  <2>2. \A d \in Deliverable : Turn(d) >= 1 /\ Turn(d) \in Nat
    BY <1>1, TurnTyped
  <2> QED
    BY <1>5, <2>1, <2>2 DEF FirstOnes
<1>7. emitted = Cardinality(UpTo(Current, pos)) /\ Cardinality(Reached) = 0
  BY <1>1, <1>3, <1>4, <1>5
<1>8. phase # "append" /\ resume # "done" /\ Len(appended) + 0 = Cardinality(Reached)
  BY <1>1, <1>5, <1>7
<1> QED
  BY <1>6, <1>7, <1>8 DEF Delivery

LEMMA StartDelivery ==
  ASSUME NEW from \in Sources, NEW emitNormal \in BOOLEAN, StartStream(from, emitNormal)
  PROVE  Delivery'
<1>1. StreamFresh'
  BY DEF StartStream, StreamFresh
<1>2. StreamFresh' => Delivery'
  BY FreshDelivery, PTL
<1> QED
  BY <1>1, <1>2

LEMMA YieldDelivery ==
  ASSUME StreamPlaces, Delivery, Yield
  PROVE  Delivery'
<1>1. /\ emitted' = Cardinality(UpTo(Current, pos'))
      /\ <<step, pos'>> \in Deliverable
      /\ {d \in Deliverable : NoLater(d, <<step, pos'>>)} = Reached \union {<<step, pos'>>}
      /\ <<step, pos'>> \notin Reached
  BY YieldReaches
<1>2. /\ phase = "read" /\ phase' = "append" /\ hand' = Current.records[pos']
      /\ UNCHANGED <<source, step, resume, handling, appended>>
  BY DEF Yield
<1>3. source \in Sources /\ ~handling /\ resume = "read" /\ appended \in Seq(Records)
  BY <1>2 DEF StreamPlaces, StreamTypeOK, StreamPhases
<1>4. Deliverable' = Deliverable /\ Current' = Current
  BY <1>2 DEF Deliverable, Current
<1>5. Reached' = Reached \union {<<step, pos'>>}
  BY <1>1, <1>2, <1>4 DEF Reached
<1>6. Cardinality(Reached') = Cardinality(Reached) + 1
  <2>1. IsFiniteSet(Reached)
    BY <1>3, DueFinite, FS_Subset DEF Reached
  <2> QED
    BY <1>1, <1>5, <2>1, FS_AddElement
<1>7. Len(appended) = Cardinality(Reached) /\ FirstOnes(appended) /\ Len(appended) \in Nat
  BY <1>2, <1>3 DEF Delivery
<1>8. FirstOnes(appended)'
  BY <1>2, <1>4, <1>7 DEF FirstOnes, Turn, RecordAt
<1>9. emitted' = Cardinality(UpTo(Current, pos)')
  BY <1>1, <1>4
<1>10. (<<step, pos>> \in Deliverable /\ hand = RecordAt(<<step, pos>>))'
  BY <1>1, <1>2, <1>4 DEF RecordAt, Current
<1>11. Len(appended') + 1 = Cardinality(Reached')
  BY <1>2, <1>6, <1>7
<1> QED
  BY <1>2, <1>3, <1>8, <1>9, <1>10, <1>11 DEF Delivery

LEMMA NextStepDelivery ==
  ASSUME StreamPlaces, Delivery, NextStep
  PROVE  Delivery'
<1>1. /\ phase = "read" /\ ~HasNext /\ step < Len(source.steps)
      /\ step' = step + 1 /\ pos' = 0 /\ emitted' = 0
      /\ UNCHANGED <<source, phase, resume, handling, appended>>
  BY DEF NextStep
<1>2. /\ source \in Sources /\ ~handling /\ resume = "read"
      /\ step \in 1..Len(source.steps) /\ pos \in Nat
  BY <1>1 DEF StreamPlaces, StreamTypeOK, StreamPhases
<1>3. Deliverable' = Deliverable
  BY <1>1 DEF Deliverable
<1>4. step + 1 \in 1..Len(source.steps)
  <2>1. Len(source.steps) \in Nat
    BY <1>2, CurrentTyped
  <2> QED
    BY <1>1, <1>2, <2>1
<1>5. UpTo(Current, pos)' = {}
  <2>1. source.steps[step + 1].wanted \in SUBSET (1..Len(source.steps[step + 1].records))
    BY <1>2, <1>4, SourceStepTyped
  <2>2. \A q \in source.steps[step + 1].wanted : ~(q <= 0)
    BY <2>1
  <2> QED
    BY <1>1, <2>2 DEF UpTo, Current
<1>6. Reached' = Reached
  <2>1. \A d \in Deliverable : d[1] = step => d[2] <= pos
    BY <1>1, StepIsOver
  <2>2. \A d \in Deliverable : d[1] \in Nat /\ d[2] \in Nat /\ d[2] >= 1
    BY <1>2, PlaceTyped
  <2>3. ASSUME NEW d \in Deliverable
        PROVE  NoLater(d, <<step, pos>>) <=> NoLater(d, <<step + 1, 0>>)
    BY <1>2, <2>1, <2>2 DEF NoLater
  <2> QED
    BY <1>1, <1>3, <2>3 DEF Reached
<1>7. FirstOnes(appended)'
  BY <1>1, <1>3 DEF Delivery, FirstOnes, Turn, RecordAt
<1>8. emitted' = Cardinality(UpTo(Current, pos)')
  BY <1>1, <1>5, FS_EmptySet
<1> QED
  BY <1>1, <1>2, <1>6, <1>7, <1>8 DEF Delivery

LEMMA EndDelivery ==
  ASSUME StreamPlaces, Delivery, SourceEnds
  PROVE  Delivery'
<1>1. /\ phase = "read" /\ step = Len(source.steps)
      /\ source.kind \in {"memory", "scenario"} => ~HasNext
      /\ resume' = "done" /\ phase' \in {"done", "transform"}
      /\ UNCHANGED <<source, step, pos, emitted, handling, appended>>
  BY DEF SourceEnds, Flush, sourceVars
<1>2. /\ source \in Sources /\ ~handling /\ resume = "read"
      /\ step \in 1..Len(source.steps) /\ pos \in Nat
  BY <1>1 DEF StreamPlaces, StreamTypeOK, StreamPhases
<1>3. /\ Deliverable' = Deliverable /\ Reached' = Reached
      /\ UpTo(Current, pos)' = UpTo(Current, pos)
  BY <1>1 DEF Deliverable, Reached, UpTo, Current
<1>4. FirstOnes(appended)'
  BY <1>1, <1>3 DEF Delivery, FirstOnes, Turn, RecordAt
<1>5. ASSUME source.kind \in {"memory", "scenario"}
      PROVE  Reached = Deliverable
  <2>1. \A d \in Deliverable : d[1] = step => d[2] <= pos
    BY <1>1, <1>5, StepIsOver
  <2>2. \A d \in Deliverable : d[1] \in 1..Len(source.steps) /\ Len(source.steps) \in Nat
    BY <1>2, PlaceTyped
  <2>3. \A d \in Deliverable : d[1] < step \/ d[1] = step
    BY <1>1, <2>2
  <2> QED
    BY <2>1, <2>3 DEF Reached, NoLater
<1> QED
  BY <1>1, <1>2, <1>3, <1>4, <1>5 DEF Delivery

LEMMA AppendDelivery ==
  ASSUME StreamPlaces, Delivery, AppendRecord
  PROVE  Delivery'
<1>1. /\ phase = "append" /\ appended' = Append(appended, hand)
      /\ phase' \in {"read", "transform"} /\ resume' \in {resume, "read"}
      /\ UNCHANGED <<source, step, pos, emitted, handling>>
  BY DEF AppendRecord, Flush, sourceVars
<1>2. /\ source \in Sources /\ ~handling /\ resume = "read"
      /\ hand \in Records /\ appended \in Seq(Records)
  BY <1>1 DEF StreamPlaces, StreamTypeOK, StreamPhases
<1>3. /\ Deliverable' = Deliverable /\ Reached' = Reached
      /\ UpTo(Current, pos)' = UpTo(Current, pos)
  BY <1>1 DEF Deliverable, Reached, UpTo, Current
<1>4. /\ FirstOnes(appended) /\ Len(appended) + 1 = Cardinality(Reached)
      /\ <<step, pos>> \in Deliverable /\ hand = RecordAt(<<step, pos>>)
      /\ emitted = Cardinality(UpTo(Current, pos))
  BY <1>1, <1>2 DEF Delivery
<1>5. FirstOnes(Append(appended, hand))
  BY <1>2, <1>4, OneMore DEF Reached
<1>6. FirstOnes(appended)'
  BY <1>1, <1>3, <1>5 DEF FirstOnes, Turn, RecordAt
<1>7. Len(appended') = Len(appended) + 1 /\ Len(appended') + 0 = Len(appended')
  BY <1>1, <1>2, AppendedRecord
<1> QED
  BY <1>1, <1>2, <1>3, <1>4, <1>6, <1>7 DEF Delivery

LEMMA OtherDelivery ==
  ASSUME StreamPlaces, Delivery,
         TopicSilent \/ Transform \/ TransformRaises \/ EmitOne \/ ClearBatch \/ Interrupt
  PROVE  Delivery'
<1>1. /\ UNCHANGED <<source, step, pos, emitted, appended>>
      /\ phase # "idle" /\ phase' # "append"
      /\ \/ handling' = TRUE
         \/ phase # "append" /\ UNCHANGED <<resume, handling>>
  <2>1. CASE Interrupt
    <3>1. handling \in BOOLEAN
      BY DEF StreamPlaces, StreamTypeOK
    <3> QED
      BY <2>1, <3>1 DEF Interrupt, Flush, sourceVars
  <2>2. CASE ClearBatch
    <3>1. resume \in {"read", "done"}
      BY DEF StreamPlaces, StreamTypeOK
    <3> QED
      BY <2>2, <3>1 DEF ClearBatch, sourceVars
  <2>3. CASE TopicSilent \/ Transform \/ TransformRaises \/ EmitOne
    BY <2>3 DEF TopicSilent, Transform, TransformRaises, EmitOne, sourceVars
  <2> QED
    BY <2>1, <2>2, <2>3
<1>2. /\ Deliverable' = Deliverable /\ Reached' = Reached
      /\ UpTo(Current, pos)' = UpTo(Current, pos)
  BY <1>1 DEF Deliverable, Reached, UpTo, Current
<1>3. FirstOnes(appended)'
  BY <1>1, <1>2 DEF Delivery, FirstOnes, Turn, RecordAt
<1> QED
  BY <1>1, <1>2, <1>3 DEF Delivery

-----------------------------------------------------------------------------
(* What is judged.                                                         *)

LEMMA StartJudging ==
  ASSUME NEW from \in Sources, NEW emitNormal \in BOOLEAN, StartStream(from, emitNormal)
  PROVE  Judging' /\ AlertsCounted'
<1>1. /\ phase' = "read" /\ handling' = FALSE /\ batch' = << >> /\ appended' = << >>
      /\ judged' = << >> /\ alerts' = << >> /\ suppressed' = 0
  BY DEF StartStream
<1>2. Len(<< >>) = 0
  OBVIOUS
<1>3. JudgedAgain(Len(batch), SoFar, 0)'
  BY <1>1, <1>2 DEF JudgedAgain, SoFar
<1>4. Judging'
  BY <1>1, <1>2, <1>3 DEF Judging
<1>5. AlertsCounted'
  <2>1. Due(Len(judged))' = {}
    BY <1>1, <1>2 DEF Due
  <2> QED
    BY <1>1, <1>2, <2>1, FS_EmptySet DEF AlertsCounted, AlertsForDue
<1> QED
  BY <1>4, <1>5

(* Steps that neither judge nor fill or empty the batch.                   *)
LEMMA IdleJudging ==
  ASSUME StreamPlaces, Judging, UNCHANGED <<batch, appended, judged, handling>>,
         phase \in {"read", "transform"}, phase' \in {"read", "append", "transform", "emit", "done", "dead"},
         looked' = looked \/ looked' = 0,
         phase' = "emit" => looked' = 0,
         phase' = "done" => batch = << >> /\ ~handling
  PROVE  Judging'
<1>1. SoFar = 0 /\ SoFar' = 0
  BY DEF SoFar
<1>2. JudgedAgain(Len(batch), 0, 0)' <=> JudgedAgain(Len(batch), 0, 0)
  BY DEF JudgedAgain
<1>3. CASE ~handling
  <2>1. JudgedAgain(Len(batch), 0, 0)
    BY <1>1, <1>3 DEF Judging
  <2>2. phase' = "done" => JudgedAgain(0, 0, 0)'
    BY <1>2, <2>1 DEF JudgedAgain
  <2> QED
    BY <1>1, <1>2, <1>3, <2>1, <2>2 DEF Judging
<1>4. CASE handling
  <2>1. phase = "transform" /\ phase' # "done"
    BY <1>4 DEF StreamPlaces, StreamPhases
  <2>2. PICK again \in 0..Len(batch) : JudgedAgain(Len(batch), again, 0)
    BY <1>1, <1>4, <2>1 DEF Judging
  <2>3. JudgedAgain(Len(batch), again, 0)'
    BY <2>2 DEF JudgedAgain
  <2> QED
    BY <1>1, <1>4, <2>1, <2>2, <2>3 DEF Judging
<1> QED
  BY <1>3, <1>4

LEMMA AppendJudging ==
  ASSUME StreamPlaces, Judging, AppendRecord
  PROVE  Judging'
<1>1. /\ phase = "append" /\ batch' = Append(batch, hand) /\ appended' = Append(appended, hand)
      /\ phase' \in {"read", "transform"} /\ UNCHANGED <<judged, handling>>
  BY DEF AppendRecord, Flush, flushVars
<1>2. /\ hand \in Records /\ batch \in Seq(Records) /\ appended \in Seq(Records) /\ ~handling
  BY <1>1 DEF StreamPlaces, StreamTypeOK, StreamPhases
<1> DEFINE b == Len(batch)
           m == Len(appended)
<1>3. /\ Len(batch') = b + 1 /\ b \in Nat
      /\ \A k \in 1..b : batch'[k] = batch[k]
      /\ batch'[b + 1] = hand
  BY <1>1, <1>2, AppendedRecord
<1>4. /\ Len(appended') = m + 1 /\ m \in Nat
      /\ \A k \in 1..m : appended'[k] = appended[k]
      /\ appended'[m + 1] = hand
  BY <1>1, <1>2, AppendedRecord
<1>5. /\ b <= m /\ \A k \in 1..b : batch[k] = appended[m - b + k]
      /\ JudgedAgain(b, 0, 0)
  BY <1>1, <1>2 DEF Judging, SoFar
<1>6. SoFar' = 0
  BY <1>1 DEF SoFar
<1> HIDE DEF b, m
<1>7. \A k \in 1..b + 1 : batch'[k] = appended'[m + 1 - (b + 1) + k]
  <2> SUFFICES ASSUME NEW k \in 1..b + 1
               PROVE  batch'[k] = appended'[m + 1 - (b + 1) + k]
    OBVIOUS
  <2>1. CASE k \in 1..b
    <3>1. m - b + k \in 1..m /\ m + 1 - (b + 1) + k = m - b + k
      BY <1>3, <1>4, <1>5, <2>1
    <3> QED
      BY <1>3, <1>4, <1>5, <2>1, <3>1
  <2>2. CASE k = b + 1
    <3>1. m + 1 - (b + 1) + k = m + 1
      BY <1>3, <1>4, <2>2
    <3> QED
      BY <1>3, <1>4, <2>2, <3>1
  <2> QED
    BY <1>3, <2>1, <2>2
<1>8. JudgedAgain(Len(batch), 0, 0)'
  <2>1. Len(judged) = m - b /\ \A k \in 1..m - b : judged[k] = appended[k]
    BY <1>3, <1>4, <1>5 DEF JudgedAgain, b, m
  <2>2. m + 1 - (b + 1) + 0 = m - b /\ \A k \in 1..m - b : k \in 1..m
    BY <1>3, <1>4, <1>5
  <2>3. Len(judged') = m + 1 - (b + 1) + 0 + 0
    BY <1>1, <1>3, <1>4, <1>5, <2>1
  <2>4. \A k \in 1..m - b : judged'[k] = appended'[k]
    BY <1>1, <1>4, <2>1, <2>2
  <2> QED
    BY <1>3, <1>4, <2>2, <2>3, <2>4 DEF JudgedAgain
<1>9. /\ Len(batch') <= Len(appended')
      /\ \A k \in 1..Len(batch') : batch'[k] = appended'[Len(appended') - Len(batch') + k]
  BY <1>3, <1>4, <1>5, <1>7
<1>10. JudgedAgain(Len(batch), SoFar, 0)'
  BY <1>6, <1>8
<1> QED
  BY <1>1, <1>2, <1>9, <1>10 DEF Judging

LEMMA EmitJudging ==
  ASSUME StreamPlaces, Judging, EmitOne
  PROVE  Judging'
<1> DEFINE b == Len(batch)
           m == Len(appended)
           record == batch[looked + 1]
<1>1. /\ phase = "emit" /\ looked < b /\ judged' = Append(judged, record) /\ looked' = looked + 1
      /\ UNCHANGED <<batch, appended, phase, handling>>
  BY DEF EmitOne
<1>2. /\ batch \in Seq(Records) /\ appended \in Seq(Records) /\ judged \in Seq(Records)
      /\ looked \in Nat /\ b \in Nat /\ m \in Nat /\ handling \in BOOLEAN
  BY BatchAssumption DEF StreamPlaces, StreamTypeOK
<1>3. looked + 1 \in 1..b /\ record \in Records
  BY <1>1, <1>2
<1>4. b <= m /\ record = appended[m - b + (looked + 1)]
  BY <1>3 DEF Judging
<1>5. /\ Len(judged') = Len(judged) + 1 /\ Len(judged) \in Nat
      /\ \A k \in 1..Len(judged) : judged'[k] = judged[k]
      /\ judged'[Len(judged) + 1] = record
  <2> HIDE DEF record
  <2> QED
    BY <1>1, <1>2, <1>3, AppendedRecord
<1>6. SoFar = looked /\ SoFar' = looked + 1
  BY <1>1 DEF SoFar
<1>7. CASE ~handling
  <2>1. Len(judged) = m - b + looked + 0 /\ \A k \in 1..m - b + looked : judged[k] = appended[k]
    BY <1>1, <1>6, <1>7 DEF Judging, JudgedAgain
  <2> HIDE DEF b, m, record
  <2>2. /\ Len(judged') = m - b + (looked + 1) + 0
        /\ m - b + (looked + 1) = Len(judged) + 1
    BY <1>2, <1>4, <1>5, <2>1
  <2>3. \A k \in 1..m - b + (looked + 1) : judged'[k] = appended[k]
    <3> SUFFICES ASSUME NEW k \in 1..m - b + (looked + 1)
                 PROVE  judged'[k] = appended[k]
      OBVIOUS
    <3>1. k \in 1..Len(judged) \/ k = Len(judged) + 1
      BY <1>2, <1>5, <2>2
    <3>2. 1..m - b + looked = 1..Len(judged)
      BY <1>2, <2>1
    <3> QED
      BY <1>4, <1>5, <2>1, <2>2, <3>1, <3>2
  <2>4. \A k \in 1..0 : FALSE
    OBVIOUS
  <2>5. JudgedAgain(Len(batch), SoFar, 0)'
    BY <1>1, <1>6, <2>2, <2>3, <2>4 DEF JudgedAgain, b, m
  <2> QED
    BY <1>1, <1>7, <2>5 DEF Judging
<1>8. CASE handling
  <2>1. PICK again \in 0..b : JudgedAgain(b, again, looked)
    BY <1>1, <1>6, <1>8 DEF Judging
  <2> DEFINE before == m - b + again
  <2>2. /\ Len(judged) = before + looked
        /\ \A k \in 1..before : judged[k] = appended[k]
        /\ \A k \in 1..looked : judged[before + k] = appended[m - b + k]
    BY <2>1 DEF JudgedAgain
  <2>3. before \in Nat
    BY <1>2, <1>4, <2>1
  <2> HIDE DEF b, m, record, before
  <2>4. Len(judged') = before + (looked + 1)
    BY <1>2, <1>5, <2>2, <2>3
  <2>5. \A k \in 1..before : judged'[k] = appended[k]
    <3>1. \A k \in 1..before : k \in 1..Len(judged)
      BY <1>2, <2>2, <2>3
    <3> QED
      BY <1>5, <2>2, <3>1
  <2>6. \A k \in 1..looked + 1 : judged'[before + k] = appended[m - b + k]
    <3> SUFFICES ASSUME NEW k \in 1..looked + 1
                 PROVE  judged'[before + k] = appended[m - b + k]
      OBVIOUS
    <3>1. CASE k \in 1..looked
      <4>1. before + k \in 1..Len(judged)
        BY <1>2, <2>2, <2>3, <3>1
      <4> QED
        BY <1>5, <2>2, <3>1, <4>1
    <3>2. CASE k = looked + 1
      <4>1. before + k = Len(judged) + 1
        BY <1>2, <2>2, <2>3, <3>2
      <4> QED
        BY <1>4, <1>5, <3>2, <4>1
    <3> QED
      BY <1>2, <3>1, <3>2
  <2>7. /\ Len(judged') = (Len(appended') - Len(batch') + again) + SoFar'
        /\ \A k \in 1..Len(appended') - Len(batch') + again : judged'[k] = appended'[k]
        /\ \A k \in 1..SoFar' : judged'[(Len(appended') - Len(batch') + again) + k]
                                  = appended'[Len(appended') - Len(batch') + k]
    BY <1>1, <1>6, <2>4, <2>5, <2>6 DEF b, m, before
  <2>8. JudgedAgain(Len(batch), again, SoFar)'
    BY <2>7 DEF JudgedAgain
  <2>9. again \in 0..Len(batch)'
    BY <1>1, <2>1 DEF b
  <2> QED
    BY <1>1, <1>8, <2>8, <2>9 DEF Judging
<1> QED
  BY <1>7, <1>8

LEMMA ClearJudging ==
  ASSUME StreamPlaces, Judging, ClearBatch
  PROVE  Judging'
<1>1. /\ phase = "emit" /\ looked = Len(batch) /\ batch' = << >> /\ phase' = resume
      /\ UNCHANGED <<appended, judged, handling>>
  BY DEF ClearBatch, flushVars
<1>2. /\ resume \in {"read", "done"} /\ (handling => resume = "done")
      /\ Len(batch) \in Nat /\ Len(batch) <= BatchSize /\ BatchSize \in Nat
      /\ Len(appended) \in Nat /\ handling \in BOOLEAN
  BY BatchAssumption DEF StreamPlaces, StreamTypeOK, StreamPhases
<1>3. SoFar = Len(batch) /\ SoFar' = 0 /\ Len(batch') = 0 /\ Len(batch) <= Len(appended)
  BY <1>1, <1>2 DEF SoFar, Judging
<1>4. CASE ~handling
  <2>1. JudgedAgain(Len(batch), Len(batch), 0)
    BY <1>1, <1>3, <1>4 DEF Judging
  <2>2. JudgedAgain(0, 0, 0)
    BY <1>2, <2>1 DEF JudgedAgain
  <2>3. JudgedAgain(0, 0, 0)'
    BY <1>1, <2>2 DEF JudgedAgain
  <2> QED
    BY <1>1, <1>2, <1>3, <1>4, <2>3 DEF Judging
<1>5. CASE handling
  <2>1. PICK again \in 0..Len(batch) : JudgedAgain(Len(batch), again, Len(batch))
    BY <1>1, <1>3, <1>5 DEF Judging
  <2> DEFINE n == Len(batch)
  <2>2. n \in 0..BatchSize /\ n <= Len(appended)
    BY <1>2, <1>3
  <2>3. /\ Len(judged') = (Len(appended') - n + again) + n
        /\ \A k \in 1..Len(appended') - n + again : judged'[k] = appended'[k]
        /\ \A k \in 1..n : judged'[(Len(appended') - n + again) + k] = appended'[Len(appended') - n + k]
    BY <1>1, <2>1 DEF JudgedAgain
  <2> HIDE DEF n
  <2>4. again \in 0..n
    BY <2>1 DEF n
  <2>5. \E l \in 0..BatchSize : l <= Len(appended') /\ \E x \in 0..l : JudgedAgain(l, x, l)'
    <3>1. PICK l : l = n
      OBVIOUS
    <3>2. JudgedAgain(l, again, l)'
      BY <2>3, <3>1 DEF JudgedAgain
    <3> QED
      BY <1>1, <2>2, <2>4, <3>1, <3>2
  <2> QED
    BY <1>1, <1>2, <1>3, <1>5, <2>5 DEF Judging
<1> QED
  BY <1>4, <1>5

LEMMA InterruptJudging ==
  ASSUME StreamPlaces, Judging, Interrupt
  PROVE  Judging'
<1>1. /\ phase \in {"read", "append", "transform", "emit"}
      /\ UNCHANGED <<batch, appended, judged, looked>>
      /\ handling \in BOOLEAN /\ looked \in Nat /\ (phase = "emit" => looked <= Len(batch))
      /\ Len(batch) \in Nat /\ Len(appended) \in Nat /\ BatchSize \in Nat
  BY BatchAssumption DEF Interrupt, flushVars, StreamPlaces, StreamTypeOK, StreamPhases
<1>2. CASE handling
  <2>1. phase' = "dead"
    BY <1>2 DEF Interrupt
  <2> QED
    BY <1>1, <2>1 DEF Judging
<1>3. CASE ~handling
  <2>1. /\ handling' = TRUE /\ phase' = IF batch = << >> THEN "done" ELSE "transform"
    BY <1>3 DEF Interrupt, Flush
  <2>2. SoFar \in 0..Len(batch) /\ SoFar' = 0
    BY <1>1, <2>1 DEF SoFar
  <2>3. JudgedAgain(Len(batch), SoFar, 0)
    BY <1>1, <1>3 DEF Judging
  <2>4. PICK again : again = SoFar
    OBVIOUS
  <2>5. JudgedAgain(Len(batch), again, 0)' /\ again \in 0..Len(batch)
    BY <1>1, <2>2, <2>3, <2>4 DEF JudgedAgain
  <2>6. batch = << >> => JudgedAgain(0, 0, 0)'
    BY <2>2, <2>4, <2>5, <1>1 DEF JudgedAgain
  <2> QED
    BY <1>1, <2>1, <2>2, <2>5, <2>6 DEF Judging
<1> QED
  BY <1>1, <1>2, <1>3

-----------------------------------------------------------------------------
(* Of the records judged, those an alert is due for.                       *)
LEMMA DueNumbers ==
  ASSUME NEW n \in Nat
  PROVE  IsFiniteSet(Due(n)) /\ Cardinality(Due(n)) \in Nat
<1>1. Due(n) \in SUBSET (1..n)
  BY DEF Due
<1>2. IsFiniteSet(1..n)
  BY FS_Interval
<1> QED
  BY <1>1, <1>2, FS_Subset, FS_CardinalityType

LEMMA EmitCounted ==
  ASSUME StreamPlaces, AlertsCounted, EmitOne
  PROVE  AlertsCounted'
<1> DEFINE record == batch[looked + 1]
<1>1. /\ judged' = Append(judged, record) /\ all' = all
      /\ IF all \/ record \in Alarming
         THEN alerts' = Append(alerts, record) /\ suppressed' = suppressed
         ELSE suppressed' = suppressed + 1 /\ alerts' = alerts
  BY DEF EmitOne
<1>2. /\ judged \in Seq(Records) /\ alerts \in Seq(Records) /\ Len(judged) \in Nat
      /\ record \in Records /\ suppressed \in Nat
  <2>1. /\ judged \in Seq(Records) /\ alerts \in Seq(Records) /\ batch \in Seq(Records)
        /\ looked \in Nat /\ suppressed \in 0..Len(judged)
    BY BatchAssumption DEF StreamPlaces, StreamTypeOK
  <2>2. looked + 1 \in 1..Len(batch)
    BY <2>1 DEF EmitOne
  <2> QED
    BY <2>1, <2>2
<1> HIDE DEF record
<1>0. PICK n \in Nat : n = Len(judged)
  BY <1>2
<1>3. /\ Len(judged') = n + 1
      /\ \A k \in 1..n : judged'[k] = judged[k]
      /\ judged'[n + 1] = record
  BY <1>0, <1>1, <1>2, AppendedRecord
<1>4. /\ Len(alerts) = Cardinality(Due(n)) /\ Len(alerts) \in Nat
      /\ \A k \in Due(n) : alerts[Cardinality(Due(k))] = judged[k]
      /\ suppressed = n - Len(alerts)
  BY <1>0, <1>2 DEF AlertsCounted, AlertsForDue
<1>5. ASSUME NEW k \in 0..n
      PROVE  Due(k)' = Due(k)
  <2>1. \A j \in 1..k : j \in 1..n
    BY <1>0
  <2>2. \A j \in 1..k : judged'[j] = judged[j]
    BY <1>3, <2>1
  <2>3. {j \in 1..k : all \/ judged'[j] \in Alarming} = {j \in 1..k : all \/ judged[j] \in Alarming}
    BY <2>2
  <2> QED
    BY <1>1, <2>3 DEF Due
<1>6. /\ n \in 0..n /\ n + 1 \notin Due(n)
      /\ \A k \in Due(n) : k \in 1..n /\ k \in 0..n
  BY <1>0 DEF Due
<1>7. \A k : k \in Due(n + 1)' <=> k \in Due(n) \/ (k = n + 1 /\ (all \/ record \in Alarming))
  <2>1. \A k : k \in 1..n + 1 <=> k \in 1..n \/ k = n + 1
    BY <1>0
  <2>2. \A k : k \in Due(n + 1)' <=> k \in 1..n + 1 /\ (all \/ judged'[k] \in Alarming)
    BY <1>1 DEF Due
  <2>3. n + 1 \notin 1..n
    BY <1>0
  <2>4. \A k : k \in Due(n) <=> k \in 1..n /\ (all \/ judged[k] \in Alarming)
    BY DEF Due
  <2> QED
    BY <1>3, <2>1, <2>2, <2>3, <2>4
<1>8. /\ IsFiniteSet(Due(n)) /\ Cardinality(Due(n)) \in Nat
      /\ \A k \in Due(n) : Cardinality(Due(k)) \in 1..Len(alerts)
  <2>1. IsFiniteSet(Due(n)) /\ Cardinality(Due(n)) \in Nat
    BY DueNumbers
  <2>2. ASSUME NEW k \in Due(n)
        PROVE  Cardinality(Due(k)) \in 1..Len(alerts)
    <3>1. k \in 1..n
      BY <1>6
    <3>2. Due(k) \in SUBSET Due(n) /\ k \in Due(k)
      BY <1>0, <3>1, <2>2 DEF Due
    <3>3. /\ IsFiniteSet(Due(k)) /\ Cardinality(Due(k)) \in Nat
          /\ Cardinality(Due(k)) <= Cardinality(Due(n))
      BY <2>1, <3>2, FS_Subset, FS_CardinalityType
    <3>4. Cardinality(Due(k)) # 0
      BY <3>2, <3>3, FS_EmptySet
    <3> QED
      BY <1>4, <3>3, <3>4
  <2> QED
    BY <2>1, <2>2
<1>9. CASE all \/ record \in Alarming
  <2>1. alerts' = Append(alerts, record) /\ suppressed' = suppressed
    BY <1>1, <1>9
  <2>2. /\ Len(alerts') = Len(alerts) + 1
        /\ \A k \in 1..Len(alerts) : alerts'[k] = alerts[k]
        /\ alerts'[Len(alerts) + 1] = record
    BY <1>2, <2>1, AppendedRecord
  <2>3. Due(n + 1)' = Due(n) \union {n + 1}
    BY <1>7, <1>9
  <2>4. Cardinality(Due(n + 1)') = Len(alerts) + 1
    BY <1>4, <1>6, <1>8, <2>3, FS_AddElement
  <2>5. ASSUME NEW k \in Due(n + 1)'
        PROVE  alerts'[Cardinality(Due(k)')] = judged'[k]
    <3>1. CASE k \in Due(n)
      <4>1. Due(k)' = Due(k) /\ k \in 1..n
        BY <1>5, <1>6, <3>1
      <4> QED
        BY <1>3, <1>4, <1>8, <2>2, <3>1, <4>1
    <3>2. CASE k = n + 1
      BY <1>3, <2>2, <2>4, <3>2
    <3> QED
      BY <2>3, <2>5, <3>1, <3>2
  <2>6. AlertsForDue'
    BY <1>3, <2>2, <2>4, <2>5 DEF AlertsForDue
  <2>7. suppressed' = Len(judged') - Len(alerts')
    BY <1>0, <1>3, <1>4, <2>1, <2>2
  <2> QED
    BY <2>6, <2>7 DEF AlertsCounted
<1>10. CASE ~(all \/ record \in Alarming)
  <2>1. alerts' = alerts /\ suppressed' = suppressed + 1
    BY <1>1, <1>10
  <2>2. Due(n + 1)' = Due(n)
    BY <1>7, <1>10
  <2>3. ASSUME NEW k \in Due(n + 1)'
        PROVE  alerts'[Cardinality(Due(k)')] = judged'[k]
    <3>1. k \in Due(n)
      BY <2>2, <2>3
    <3>2. Due(k)' = Due(k) /\ k \in 1..n
      BY <1>5, <1>6, <3>1
    <3> QED
      BY <1>3, <1>4, <2>1, <3>1, <3>2
  <2>4. AlertsForDue'
    BY <1>3, <1>4, <2>1, <2>2, <2>3 DEF AlertsForDue
  <2>5. suppressed' = Len(judged') - Len(alerts')
    BY <1>0, <1>3, <1>4, <2>1
  <2> QED
    BY <2>4, <2>5 DEF AlertsCounted
<1> QED
  BY <1>9, <1>10

LEMMA SameCounted ==
  ASSUME AlertsCounted, UNCHANGED <<alerts, suppressed, judged, all>>
  PROVE  AlertsCounted'
BY DEF AlertsCounted, AlertsForDue, Due

-----------------------------------------------------------------------------
LEMMA StepsOfStream ==
  ASSUME StreamInv, StreamNext
  PROVE  StreamInv'
<1>1. StreamPlaces /\ Delivery /\ Judging /\ AlertsCounted
  BY DEF StreamInv, StreamPlaces
<1>2. StreamPlaces'
  BY <1>1, ReadPlaces, BatchPlaces, EmitPlaces DEF StreamNext
<1>3. Delivery'
  BY <1>1, YieldDelivery, NextStepDelivery, EndDelivery, AppendDelivery, OtherDelivery
     DEF StreamNext
<1>4. Judging'
  <2>1. CASE Yield \/ NextStep \/ TopicSilent \/ TransformRaises
    <3>1. /\ UNCHANGED <<batch, appended, judged, handling, looked>>
          /\ phase \in {"read", "transform"} /\ phase' \in {"read", "append", "dead"}
      BY <2>1 DEF Yield, NextStep, TopicSilent, TransformRaises, flushVars
    <3> QED
      BY <1>1, <3>1, IdleJudging
  <2>2. CASE SourceEnds
    <3>1. /\ UNCHANGED <<batch, appended, judged, handling, looked>>
          /\ phase = "read" /\ phase' \in {"done", "transform"}
          /\ phase' = "done" => batch = << >>
      BY <2>2 DEF SourceEnds, Flush, flushVars
    <3>2. ~handling
      BY <1>1, <3>1 DEF StreamPlaces, StreamPhases
    <3> QED
      BY <1>1, <3>1, <3>2, IdleJudging
  <2>3. CASE Transform
    <3>1. /\ UNCHANGED <<batch, appended, judged, handling>>
          /\ phase = "transform" /\ phase' = "emit" /\ looked' = 0
      BY <2>3 DEF Transform, flushVars
    <3> QED
      BY <1>1, <3>1, IdleJudging
  <2> QED
    BY <1>1, <2>1, <2>2, <2>3, AppendJudging, EmitJudging, ClearJudging, InterruptJudging
       DEF StreamNext
<1>5. AlertsCounted'
  <2>1. CASE EmitOne
    BY <1>1, <2>1, EmitCounted
  <2>2. CASE ~EmitOne
    <3>1. UNCHANGED <<alerts, suppressed, judged, all>>
      BY <2>2 DEF StreamNext, Yield, NextStep, SourceEnds, TopicSilent, AppendRecord, Transform,
                  TransformRaises, ClearBatch, Interrupt, flushVars
    <3> QED
      BY <1>1, <3>1, SameCounted
  <2> QED
    BY <2>1, <2>2
<1> QED
  BY <1>2, <1>3, <1>4, <1>5 DEF StreamInv, StreamPlaces

LEMMA StartsOfStream ==
  ASSUME NEW from \in Sources, NEW emitNormal \in BOOLEAN, StartStream(from, emitNormal)
  PROVE  StreamInv'
BY StartPlaces, StartDelivery, StartJudging DEF StreamInv, StreamPlaces

LEMMA InitStream == StreamInit => StreamInv
<1> SUFFICES ASSUME StreamInit PROVE StreamInv
  OBVIOUS
<1>1. /\ source = NoSource /\ step = 0 /\ pos = 0 /\ emitted = 0 /\ hand = NoRecord
      /\ batch = << >> /\ phase = "idle" /\ resume = "read" /\ looked = 0
      /\ handling = FALSE /\ all = FALSE
      /\ alerts = << >> /\ suppressed = 0 /\ judged = << >> /\ appended = << >>
  BY DEF StreamInit
<1>2. source.steps = << >> /\ Len(<< >>) = 0 /\ << >> \in Seq(Records) /\ DOMAIN << >> = {}
  BY <1>1 DEF NoSource
<1>3. StreamTypeOK
  <2>1. step \in 0..Len(source.steps) /\ suppressed \in 0..Len(judged) /\ looked \in 0..BatchSize
        /\ Len(batch) <= BatchSize
    BY <1>1, <1>2, BatchAssumption
  <2>2. {alerts, judged, appended} \subseteq Seq(Records) /\ batch \in Seq(Records)
    BY <1>1, <1>2
  <2> QED
    BY <1>1, <2>1, <2>2 DEF StreamTypeOK, Phases
<1>4. StreamPhases
  BY <1>1 DEF StreamPhases
<1>5. Delivery
  <2>1. Deliverable = {}
    <3>1. DOMAIN source.steps = {}
      BY <1>2
    <3> QED
      BY <3>1 DEF Deliverable
  <2>2. FirstOnes(appended)
    BY <1>1, <1>2, <2>1, FS_EmptySet DEF FirstOnes
  <2> QED
    BY <1>1, <2>2 DEF Delivery
<1>6. Judging
  BY <1>1, <1>2 DEF Judging
<1>7. AlertsCounted
  <2>1. Due(Len(judged)) = {}
    BY <1>1, <1>2 DEF Due
  <2> QED
    BY <1>1, <1>2, <2>1, FS_EmptySet DEF AlertsCounted, AlertsForDue
<1> QED
  BY <1>3, <1>4, <1>5, <1>6, <1>7 DEF StreamInv

LEMMA StillStream ==
  ASSUME StreamInv, UNCHANGED streamVars
  PROVE  StreamInv'
<1>1. UNCHANGED <<source, step, pos, emitted, hand, batch, phase, resume, looked, handling, all,
                  alerts, suppressed, judged, appended>>
  BY DEF streamVars, sourceVars, flushVars
<1>2. Delivery'
  BY <1>1 DEF StreamInv, Delivery, Reached, FirstOnes, Turn, RecordAt, Deliverable, Current
<1>3. Judging'
  BY <1>1 DEF StreamInv, Judging, JudgedAgain, SoFar
<1>4. AlertsCounted'
  BY <1>1, SameCounted DEF StreamInv
<1>5. StreamTypeOK' /\ StreamPhases'
  BY <1>1 DEF StreamInv, StreamTypeOK, StreamPhases
<1> QED
  BY <1>2, <1>3, <1>4, <1>5 DEF StreamInv

-----------------------------------------------------------------------------
(* The streams of the composition.                                         *)

TableOf == table \in Tables /\ study \in DOMAIN Studies

LEMMA InitTable == Init => TableOf
BY DEF Init, PrepInit, TableOf

LEMMA StepKeepsTable ==
  ASSUME TableOf, [Next]_vars
  PROVE  TableOf'
<1>1. CASE Prepare
  <2>1. study' = study
    BY <1>1 DEF Prepare
  <2>2. ASSUME NEW config, Preprocess(config)
        PROVE  table' = table
    BY <2>2 DEF Preprocess
  <2>3. ASSUME NEW deal, CreatePartitions(deal)
        PROVE  table' = table
    BY <2>3 DEF CreatePartitions
  <2>4. ASSUME SaveFile \/ StopPreparing \/ SavePartition \/ StopPartitioning
        PROVE  table' = table
    BY <2>4 DEF SaveFile, StopPreparing, SavePartition, StopPartitioning
  <2>5. table' = table
    BY <1>1, <2>2, <2>3, <2>4 DEF Prepare
  <2> QED
    BY <2>1, <2>5 DEF TableOf
<1>2. CASE UNCHANGED <<prepVars, study>>
  BY <1>2 DEF prepVars, TableOf
<1> QED
  BY <1>1, <1>2 DEF Next, Train, Certify, Serve, Feed, Stream, SelectRows, Select, AccuracyPass,
                    Score, RealPass, DemoOver, vars

(* What a demo replays is a source of one step.                            *)
LEMMA ReplayIsSource ==
  ASSUME table \in Tables, NEW rows
  PROVE  Replayed(rows) \in Sources
<1> DEFINE wanted  == Range(rows) \intersect DOMAIN table
           records == [k \in DOMAIN table |-> k]
           only    == [records |-> records, wanted |-> wanted, max |-> NoMax,
                       packets |-> Len(table), closed |-> TRUE]
<1>1. Len(table) \in Nat /\ DOMAIN table = 1..Len(table)
  BY InputsAssumption
<1>2. records \in Seq(Records) /\ DOMAIN records = DOMAIN table
  <2>1. PICK n \in Nat : n = Len(table)
    BY <1>1
  <2>2. [k \in 1..n |-> k] \in Seq(1..n) /\ 1..n \subseteq Records
    BY DEF Records, NoRecord
  <2> QED
    BY <1>1, <2>1, <2>2
<1>3. wanted \in SUBSET Nat /\ wanted \subseteq DOMAIN records
  BY <1>1, <1>2
<1>4. only \in Steps
  <2> HIDE DEF wanted, records
  <2> QED
    BY <1>1, <1>2, <1>3 DEF Steps
<1>5. <<only>> \in Seq(Steps) /\ <<only>> # << >>
  <2> HIDE DEF only
  <2> QED
    BY <1>4
<1>6. [kind |-> "memory", steps |-> <<only>>] \in Sources
  <2> HIDE DEF only
  <2> QED
    BY <1>5 DEF Sources, Kinds
<1> QED
  BY <1>6 DEF Replayed

LEMMA StepStreams ==
  ASSUME StreamInv, TableOf, [Next]_vars
  PROVE  StreamInv'
<1>1. CASE Stream
  BY <1>1, StepsOfStream DEF Stream
<1>2. CASE Feed
  <2>1. Study.feeds \subseteq Sources
    BY StudiesAssumption DEF TableOf, Study
  <2> QED
    BY <1>2, <2>1, StartsOfStream DEF Feed
<1>3. CASE AccuracyPass
  <2>1. Replayed(demo.rows) \in Sources
    BY ReplayIsSource DEF TableOf
  <2> QED
    BY <1>3, <2>1, StartsOfStream DEF AccuracyPass
<1>4. CASE RealPass
  <2>1. Replayed(demo.rows) \in Sources
    BY ReplayIsSource DEF TableOf
  <2> QED
    BY <1>4, <2>1, StartsOfStream DEF RealPass
<1>5. CASE UNCHANGED streamVars
  BY <1>5, StillStream
<1> QED
  BY <1>1, <1>2, <1>3, <1>4, <1>5 DEF Next, Prepare, Train, Certify, Serve, SelectRows, Select,
                                      Score, DemoOver, vars

(* The composition prepares and partitions only as preprocess() and        *)
(* create_partitions.py do: no training, server or demo touches the files  *)
(* of the data.                                                            *)
THEOREM CompositionPrepares == Spec => PrepInit /\ [][PrepNext]_prepVars
<1>1. ASSUME TableOf, [Next]_vars
      PROVE  [PrepNext]_prepVars
  <2>1. CASE Prepare
    <3>1. ASSUME NEW config \in Study.configs, Preprocess(config)
          PROVE  PrepNext
      <4>1. config \in Configs
        BY <1>1, StudiesAssumption DEF TableOf, Study
      <4> QED
        BY <3>1, <4>1 DEF PrepNext
    <3> QED
      BY <2>1, <3>1 DEF Prepare, PrepNext
  <2>2. CASE UNCHANGED prepVars
    BY <2>2
  <2> QED
    BY <1>1, <2>1, <2>2 DEF Next, Train, Certify, Serve, Feed, Stream, SelectRows, AccuracyPass,
                            Score, RealPass, DemoOver, vars
<1>2. TableOf /\ [Next]_vars => TableOf' /\ [PrepNext]_prepVars
  BY <1>1, StepKeepsTable
<1>3. Init => PrepInit
  BY DEF Init
<1> QED
  BY InitTable, <1>2, <1>3, PTL DEF Spec

(* In the composition a stream is started only on a source, a demo's       *)
(* replay being one, and from there goes on as run() does.                 *)
StreamStep ==
  StreamNext \/ \E from \in Sources, emitNormal \in BOOLEAN : StartStream(from, emitNormal)

THEOREM CompositionStreams == Spec => StreamInit /\ [][StreamStep]_streamVars
<1>1. ASSUME TableOf, [Next]_vars
      PROVE  [StreamStep]_streamVars
  <2>1. CASE Feed
    <3>1. Study.feeds \subseteq Sources
      BY <1>1, StudiesAssumption DEF TableOf, Study
    <3> QED
      BY <2>1, <3>1 DEF Feed, StreamStep
  <2>2. CASE AccuracyPass \/ RealPass
    <3>1. Replayed(demo.rows) \in Sources
      BY <1>1, ReplayIsSource DEF TableOf
    <3> QED
      BY <2>2, <3>1 DEF AccuracyPass, RealPass, StreamStep
  <2>3. CASE Stream
    BY <2>3 DEF Stream, StreamStep
  <2>4. CASE UNCHANGED streamVars
    BY <2>4
  <2> QED
    BY <1>1, <2>1, <2>2, <2>3, <2>4 DEF Next, Prepare, Train, Certify, Serve, SelectRows, Score,
                                        DemoOver, vars
<1>2. TableOf /\ [Next]_vars => TableOf' /\ [StreamStep]_streamVars
  BY <1>1, StepKeepsTable
<1>3. Init => StreamInit
  BY DEF Init
<1> QED
  BY InitTable, <1>2, <1>3, PTL DEF Spec

-----------------------------------------------------------------------------
LEMMA JudgedOnce ==
  ASSUME StreamInv, phase = "done", ~handling
  PROVE  /\ judged = appended
         /\ source.kind \in {"memory", "scenario"} => Len(judged) = Cardinality(Deliverable)
<1>1. judged \in Seq(Records) /\ appended \in Seq(Records)
  BY DEF StreamInv, StreamTypeOK
<1>2. JudgedAgain(0, 0, 0)
  BY DEF StreamInv, Judging
<1>3. Len(judged) = Len(appended) /\ \A k \in 1..Len(appended) : judged[k] = appended[k]
  BY <1>1, <1>2 DEF JudgedAgain
<1>4. judged = appended
  BY <1>1, <1>3
<1>5. ASSUME source.kind \in {"memory", "scenario"}
      PROVE  Len(judged) = Cardinality(Deliverable)
  <2>1. resume = "done" /\ Reached = Deliverable
    BY <1>5 DEF StreamInv, StreamPhases, Delivery
  <2>2. Len(appended) + 0 = Cardinality(Reached)
    BY DEF StreamInv, Delivery
  <2> QED
    BY <1>1, <1>3, <2>1, <2>2
<1> QED
  BY <1>4, <1>5

(* The last n records were judged up to the again-th, then all n of them.  *)
LEMMA JudgedOnEnd ==
  ASSUME StreamInv, NEW n \in 0..BatchSize, n <= Len(appended), NEW again \in 0..n,
         JudgedAgain(n, again, n)
  PROVE  LET twice == Len(judged) - Len(appended)
         IN  /\ twice \in 0..BatchSize
             /\ \E j \in twice..Len(appended) :
                  judged = SubSeq(appended, 1, j)
                             \o SubSeq(appended, j - twice + 1, Len(appended))
<1>1. judged \in Seq(Records) /\ appended \in Seq(Records) /\ Len(judged) \in Nat
  BY DEF StreamInv, StreamTypeOK
<1>2. BatchSize \in Nat /\ n \in Nat /\ again \in Nat
  BY BatchAssumption
<1>3. PICK l \in Nat : l = Len(appended)
  BY <1>1
<1> DEFINE j == l - n + again
<1>4. j \in again..l /\ j \in 0..l /\ j - again + 1 \in 1..(l + 1)
  BY <1>2, <1>3
<1>5. /\ Len(judged) = j + n
      /\ \A k \in 1..j : judged[k] = appended[k]
      /\ \A k \in 1..n : judged[j + k] = appended[l - n + k]
  BY <1>3 DEF JudgedAgain
<1>6. Len(judged) - Len(appended) = again
  BY <1>1, <1>2, <1>3, <1>5
<1> DEFINE first == SubSeq(appended, 1, j)
           rest  == SubSeq(appended, j - again + 1, l)
<1>7. /\ first \in Seq(Records) /\ Len(first) = j
      /\ \A k \in 1..j : first[k] = appended[k]
  BY <1>1, <1>3, <1>4
<1>8. /\ rest \in Seq(Records) /\ Len(rest) = n
      /\ \A k \in 1..n : rest[k] = appended[l - n + k]
  BY <1>1, <1>2, <1>3, <1>4
<1>9. judged = first \o rest
  <2> HIDE DEF first, rest, j
  <2>1. j \in Nat
    BY <1>4 DEF j
  <2>2. /\ first \o rest \in Seq(Records) /\ Len(first \o rest) = j + n
        /\ \A k \in 1..(j + n) :
             (first \o rest)[k] = IF k <= j THEN first[k] ELSE rest[k - j]
    BY <1>2, <1>7, <1>8, <2>1
  <2>3. ASSUME NEW k \in 1..(j + n)
        PROVE  judged[k] = (first \o rest)[k]
    <3>1. CASE k <= j
      <4>1. k \in 1..j
        BY <1>2, <2>1, <3>1
      <4>2. (first \o rest)[k] = first[k]
        BY <2>2, <3>1
      <4> QED
        BY <1>5, <1>7, <4>1, <4>2
    <3>2. CASE ~(k <= j)
      <4>1. k - j \in 1..n /\ j + (k - j) = k
        BY <1>2, <2>1, <3>2
      <4>2. judged[j + (k - j)] = appended[l - n + (k - j)]
        BY <1>5, <4>1
      <4>3. rest[k - j] = appended[l - n + (k - j)]
        BY <1>8, <4>1
      <4>4. (first \o rest)[k] = rest[k - j]
        BY <2>1, <2>2, <3>2
      <4>5. j + (k - j) = k
        BY <4>1
      <4> QED
        BY <4>2, <4>3, <4>4, <4>5
    <3> QED
      BY <3>1, <3>2
  <2> QED
    BY <1>1, <1>5, <2>2, <2>3
<1>10. \E i \in again..l : judged = SubSeq(appended, 1, i) \o SubSeq(appended, i - again + 1, l)
  <2>1. j \in again..l
    BY <1>4
  <2>2. judged = SubSeq(appended, 1, j) \o SubSeq(appended, j - again + 1, l)
    BY <1>9
  <2> HIDE DEF j
  <2> QED
    BY <2>1, <2>2
<1>11. again \in 0..BatchSize
  BY <1>2
<1> QED
  BY <1>3, <1>6, <1>10, <1>11

(* Whatever is prepared, trained, served and replayed beside it: a stream  *)
(* has judged what its batches held, and its batches are the first of what *)
(* is due.                                                                 *)
THEOREM StreamInvariantHolds == Spec => []StreamInv
<1> DEFINE Inv == StreamInv /\ TableOf
<1>1. Init => Inv
  BY InitStream, InitTable DEF Init
<1>2. Inv /\ [Next]_vars => Inv'
  BY StepStreams, StepKeepsTable
<1> QED
  BY <1>1, <1>2, PTL DEF Spec

(* Of any source, for any size of batch: the records of a run that was not *)
(* interrupted are judged once each, in order, and of a file or a scenario *)
(* all of them; an interrupted run has judged all its batches held, at     *)
(* most its last batch twice; every record judged makes an alert, in that  *)
(* order, or is counted.                                                   *)
THEOREM RecordsJudgedOnce == Spec => []RecordsOnceInOrder
<1>1. StreamInv => RecordsOnceInOrder
  <2> SUFFICES ASSUME StreamInv PROVE RecordsOnceInOrder
    OBVIOUS
  <2>1. FirstOnes(appended) /\ AlertsForDue /\ suppressed = Len(judged) - Len(alerts)
    BY DEF StreamInv, Delivery, AlertsCounted
  <2>2. ASSUME phase = "done", handling
        PROVE  \E n \in 0..BatchSize : n <= Len(appended)
                 /\ \E again \in 0..n : JudgedAgain(n, again, n)
    BY <2>2 DEF StreamInv, Judging
  <2>3. ASSUME phase = "done", handling
        PROVE  LET again == Len(judged) - Len(appended)
               IN  /\ again \in 0..BatchSize
                   /\ \E j \in again..Len(appended) :
                        judged = SubSeq(appended, 1, j)
                                   \o SubSeq(appended, j - again + 1, Len(appended))
    <3>1. PICK n \in 0..BatchSize : n <= Len(appended)
                 /\ \E again \in 0..n : JudgedAgain(n, again, n)
      BY <2>2, <2>3
    <3>2. PICK again \in 0..n : JudgedAgain(n, again, n)
      BY <3>1
    <3> QED
      BY <3>1, <3>2, JudgedOnEnd
  <2> QED
    BY <2>1, <2>3, JudgedOnce DEF RecordsOnceInOrder
<1> QED
  BY <1>1, StreamInvariantHolds, PTL

-----------------------------------------------------------------------------
(* The preparation.  First: a finite set is put in any strict total order. *)
Orders(set, before) ==
  \A i, j \in set :
    /\ <<i, j>> \in before => <<j, i>> \notin before
    /\ i # j => <<i, j>> \in before \/ <<j, i>> \in before
    /\ \A k \in set : <<i, j>> \in before /\ <<j, k>> \in before => <<i, k>> \in before

(* A sequence that holds every member of a set once, in an order.          *)
Lists(s, set, before) ==
  /\ s \in Seq(set) /\ Len(s) = Cardinality(set)
  /\ \A i \in set : \E k \in 1..Len(s) : s[k] = i
  /\ \A k, l \in 1..Len(s) : k < l => <<s[k], s[l]>> \in before

LEMMA ArrangedLists ==
  ASSUME NEW S, IsFiniteSet(S), NEW R, Orders(S, R)
  PROVE  Lists(Arranged(S, R), S, R)
<1> DEFINE below(i) == {j \in S : <<j, i>> \in R}
           n       == Cardinality(S)
           rank    == [i \in S |-> Cardinality(below(i)) + 1]
<1>1. n \in Nat
  BY FS_CardinalityType
<1>2. ASSUME NEW i \in S
      PROVE  /\ IsFiniteSet(below(i)) /\ Cardinality(below(i)) \in Nat
             /\ rank[i] = Cardinality(below(i)) + 1
             /\ rank[i] \in 1..n
  <2>1. i \notin below(i)
    BY DEF Orders
  <2>2. below(i) \in SUBSET S /\ below(i) # S
    BY <2>1
  <2>3. /\ IsFiniteSet(below(i)) /\ Cardinality(below(i)) <= n
        /\ (n = Cardinality(below(i)) => S = below(i))
    BY <2>2, FS_Subset
  <2>4. Cardinality(below(i)) \in Nat
    BY <2>3, FS_CardinalityType
  <2>5. rank[i] = Cardinality(below(i)) + 1
    OBVIOUS
  <2> QED
    <3>1. Cardinality(below(i)) # n
      BY <2>2, <2>3
    <3> HIDE DEF below, n, rank
    <3> QED
      BY <1>1, <2>3, <2>4, <2>5, <3>1
<1>3. ASSUME NEW i \in S, NEW j \in S, <<i, j>> \in R
      PROVE  rank[i] < rank[j]
  <2>1. below(i) \in SUBSET below(j) /\ i \in below(j) /\ i \notin below(i)
    BY <1>3 DEF Orders
  <2>2. /\ Cardinality(below(i)) <= Cardinality(below(j))
        /\ (Cardinality(below(j)) = Cardinality(below(i)) => below(j) = below(i))
    BY <1>2, <2>1, FS_Subset
  <2>3. Cardinality(below(i)) # Cardinality(below(j))
    BY <2>1, <2>2
  <2>4. /\ rank[i] = Cardinality(below(i)) + 1 /\ rank[j] = Cardinality(below(j)) + 1
        /\ Cardinality(below(i)) \in Nat /\ Cardinality(below(j)) \in Nat
    BY <1>2
  <2> HIDE DEF below, n, rank
  <2> QED
    BY <2>2, <2>3, <2>4
<1>4. \A i, j \in S : rank[i] = rank[j] => i = j
  <2> SUFFICES ASSUME NEW i \in S, NEW j \in S, rank[i] = rank[j], i # j
               PROVE  FALSE
    OBVIOUS
  <2>1. <<i, j>> \in R \/ <<j, i>> \in R
    BY DEF Orders
  <2>2. rank[i] \in 1..n /\ rank[j] \in 1..n /\ (rank[i] < rank[j] \/ rank[j] < rank[i])
    BY <1>2, <1>3, <2>1
  <2> HIDE DEF rank, n
  <2> QED
    BY <2>2
<1>5. rank \in Injection(S, 1..n)
  <2>1. rank \in [S -> 1..n]
    BY <1>2
  <2> QED
    BY <1>4, <2>1 DEF Injection, IsInjective
<1>6. IsFiniteSet(1..n) /\ Cardinality(1..n) = n
  <2> HIDE DEF n
  <2> QED
    BY <1>1, FS_Interval
<1>7. rank \in Surjection(S, 1..n)
  <2> HIDE DEF rank
  <2> QED
    BY <1>5, <1>6, FS_Injection
<1>8. ASSUME NEW k \in 1..n
      PROVE  \E i \in S : Cardinality(below(i)) = k - 1
  <2>1. PICK i \in S : rank[i] = k
    BY <1>7 DEF Surjection
  <2>2. rank[i] = Cardinality(below(i)) + 1 /\ Cardinality(below(i)) \in Nat
    BY <1>2
  <2> HIDE DEF below, rank, n
  <2> QED
    BY <1>1, <2>1, <2>2
<1> DEFINE member(k) == CHOOSE i \in S : Cardinality(below(i)) = k - 1
           f == [k \in 1..n |-> member(k)]
<1>9. ASSUME NEW k \in 1..n
      PROVE  f[k] \in S /\ rank[f[k]] = k
  <2>1. f[k] = member(k)
    OBVIOUS
  <2>2. member(k) \in S /\ Cardinality(below(member(k))) = k - 1
    BY <1>8
  <2>3. f[k] \in S /\ Cardinality(below(f[k])) = k - 1
    BY <2>1, <2>2
  <2>4. rank[f[k]] = Cardinality(below(f[k])) + 1
    BY <2>3, <1>2
  <2> HIDE DEF f, rank, below, n
  <2> QED
    BY <1>1, <2>3, <2>4
<1>10. f \in Seq(S) /\ Len(f) = n
  <2>1. f \in [1..n -> S]
    BY <1>9
  <2> HIDE DEF f, n
  <2> QED
    BY <1>1, <2>1
<1>11. SubSeq(f, 1, n) = f
  <2> HIDE DEF f, n
  <2> QED
    BY <1>1, <1>10
<1>12. Arranged(S, R) = f
  BY <1>11 DEF Arranged
<1>13. \A i \in S : \E k \in 1..n : f[k] = i
  <2> SUFFICES ASSUME NEW i \in S PROVE \E k \in 1..n : f[k] = i
    OBVIOUS
  <2>1. rank[i] \in 1..n
    BY <1>2
  <2>2. f[rank[i]] \in S /\ rank[f[rank[i]]] = rank[i]
    BY <1>9, <2>1
  <2> HIDE DEF f, rank, n
  <2> QED
    BY <1>4, <2>1, <2>2
<1>14. \A k, l \in 1..n : k < l => <<f[k], f[l]>> \in R
  <2> SUFFICES ASSUME NEW k \in 1..n, NEW l \in 1..n, k < l, <<f[k], f[l]>> \notin R
               PROVE  FALSE
    OBVIOUS
  <2>1. f[k] \in S /\ f[l] \in S /\ rank[f[k]] = k /\ rank[f[l]] = l
    BY <1>9
  <2>2. f[k] # f[l]
    <3> HIDE DEF f, rank, n
    <3> QED
      BY <1>1, <2>1
  <2>3. <<f[l], f[k]>> \in R
    <3> HIDE DEF f, rank, n
    <3> QED
      BY <2>1, <2>2 DEF Orders
  <2>4. rank[f[l]] < rank[f[k]]
    <3> HIDE DEF f, rank, n
    <3> QED
      BY <1>3, <2>1, <2>3
  <2> HIDE DEF f, rank, n
  <2> QED
    BY <1>1, <2>1, <2>4
<1> HIDE DEF f, rank, below, n
<1>15. Len(f) = Cardinality(S)
  BY <1>10 DEF n
<1> QED
  BY <1>10, <1>12, <1>13, <1>14, <1>15 DEF Lists

-----------------------------------------------------------------------------
(* A sequence of numbers that grows, and holds what a set does.            *)
Grows(s, set) ==
  /\ s \in Seq(set) /\ Len(s) = Cardinality(set)
  /\ \A i \in set : \E k \in 1..Len(s) : s[k] = i
  /\ \A k, l \in 1..Len(s) : k < l => s[k] < s[l]

LEMMA InOrderGrows ==
  ASSUME NEW S, IsFiniteSet(S), \A i \in S : i \in Nat
  PROVE  Grows(InOrder(S), S)
<1> DEFINE R == {p \in S \X S : p[1] < p[2]}
<1>1. \A i, j \in S : <<i, j>> \in R <=> i < j
  OBVIOUS
<1>2. Orders(S, R)
  <2> HIDE DEF R
  <2>1. ASSUME NEW i \in S, NEW j \in S
        PROVE  /\ <<i, j>> \in R => <<j, i>> \notin R
               /\ i # j => <<i, j>> \in R \/ <<j, i>> \in R
               /\ \A k \in S : <<i, j>> \in R /\ <<j, k>> \in R => <<i, k>> \in R
    <3>1. i \in Nat /\ j \in Nat
      OBVIOUS
    <3>2. (<<i, j>> \in R <=> i < j) /\ (<<j, i>> \in R <=> j < i)
      BY <1>1
    <3>3. ASSUME NEW k \in S PROVE <<i, j>> \in R /\ <<j, k>> \in R => <<i, k>> \in R
      <4>1. k \in Nat /\ (<<j, k>> \in R <=> j < k) /\ (<<i, k>> \in R <=> i < k)
        BY <1>1
      <4> QED
        BY <3>1, <3>2, <4>1
    <3> QED
      BY <3>1, <3>2, <3>3
  <2> QED
    BY <2>1 DEF Orders
<1>3. Lists(Arranged(S, R), S, R)
  <2> HIDE DEF R
  <2> QED
    BY <1>2, ArrangedLists
<1>4. InOrder(S) = Arranged(S, R)
  BY DEF InOrder
<1>5. PICK s : s = Arranged(S, R)
  OBVIOUS
<1> HIDE DEF R
<1>6. Lists(s, S, R) /\ s = InOrder(S)
  BY <1>3, <1>4, <1>5
<1>7. /\ s \in Seq(S) /\ Len(s) = Cardinality(S)
      /\ \A i \in S : \E k \in 1..Len(s) : s[k] = i
      /\ \A k, l \in 1..Len(s) : k < l => <<s[k], s[l]>> \in R
  BY <1>6 DEF Lists
<1>8. ASSUME NEW k \in 1..Len(s), NEW l \in 1..Len(s), k < l
      PROVE  s[k] < s[l]
  <2>1. s[k] \in S /\ s[l] \in S
    BY <1>7
  <2>2. <<s[k], s[l]>> \in R
    BY <1>7, <1>8
  <2> QED
    BY <1>1, <2>1, <2>2
<1> QED
  BY <1>6, <1>7, <1>8 DEF Grows

(* A sequence that holds every member of a set once.                       *)
Holds(s, set) ==
  /\ s \in Seq(set)
  /\ \A i \in set : \E k \in 1..Len(s) : s[k] = i
  /\ \A k, l \in 1..Len(s) : k # l => s[k] # s[l]

LEMMA ListsHold ==
  ASSUME NEW S, NEW R, NEW s, Orders(S, R), Lists(s, S, R)
  PROVE  Holds(s, S)
<1>1. /\ s \in Seq(S)
      /\ \A i \in S : \E k \in 1..Len(s) : s[k] = i
      /\ \A k, l \in 1..Len(s) : k < l => <<s[k], s[l]>> \in R
  BY DEF Lists
<1>2. ASSUME NEW k \in 1..Len(s), NEW l \in 1..Len(s), k < l
      PROVE  s[k] # s[l]
  <2>1. s[k] \in S /\ s[l] \in S
    BY <1>1
  <2>2. <<s[k], s[l]>> \in R
    BY <1>1, <1>2
  <2> QED
    BY <2>1, <2>2 DEF Orders
<1>3. \A k, l \in 1..Len(s) : k # l => k < l \/ l < k
  BY <1>1
<1> QED
  BY <1>1, <1>2, <1>3 DEF Holds

(* The table and the seed, which never change.                             *)
Drawn == table \in Tables /\ seeded \in Seeds

LEMMA TableTyped ==
  ASSUME Drawn
  PROVE  /\ table \in Seq(Row) /\ Len(table) \in Nat /\ DOMAIN table = 1..Len(table)
         /\ IsFiniteSet(DOMAIN table) /\ Cardinality(DOMAIN table) = Len(table)
         /\ \A k \in DOMAIN table :
              /\ table[k] \in Row /\ k \in Nat
              /\ table[k].src \in Int /\ table[k].dst \in Int /\ table[k].others \in Int
              /\ table[k].at \in Nat \union {-1}
         /\ \A k \in DOMAIN table : k \in DOMAIN seeded
         /\ \A k \in DOMAIN seeded : seeded[k] \in Nat
         /\ \A k, l \in DOMAIN seeded : k # l => seeded[k] # seeded[l]
<1>1. table \in Seq(Row) /\ Len(table) \in Nat /\ DOMAIN table = 1..Len(table)
  BY InputsAssumption DEF Drawn
<1>2. IsFiniteSet(DOMAIN table) /\ Cardinality(DOMAIN table) = Len(table)
  BY <1>1, FS_Interval
<1>3. \A k \in DOMAIN table : table[k] \in Row /\ k \in Nat
  BY <1>1
<1>4. \A r \in Row : /\ r.src \in Int /\ r.dst \in Int /\ r.others \in Int
                    /\ r.at \in Nat \union {-1}
  BY DEF Row, NoTime, NoColumn
<1>5. seeded \in Seq(Nat) /\ IsInjective(seeded) /\ Len(table) <= Len(seeded)
  BY InputsAssumption DEF Drawn
<1>6. DOMAIN seeded = 1..Len(seeded) /\ Len(seeded) \in Nat
  BY <1>5
<1>7. \A k \in DOMAIN seeded : seeded[k] \in Nat
  BY <1>5
<1>8. \A k, l \in DOMAIN seeded : k # l => seeded[k] # seeded[l]
  BY <1>5 DEF IsInjective
<1>9. \A k \in DOMAIN table : k \in DOMAIN seeded
  BY <1>1, <1>5, <1>6
<1> QED
  BY <1>1, <1>2, <1>3, <1>4, <1>7, <1>8, <1>9

LEMMA AsDrawnHolds ==
  ASSUME Drawn, NEW S, IsFiniteSet(S), \A i \in S : i \in DOMAIN table
  PROVE  Holds(AsDrawn(S), S)
<1> DEFINE R == {p \in S \X S : seeded[p[1]] < seeded[p[2]]}
<1>1. \A i, j \in S : <<i, j>> \in R <=> seeded[i] < seeded[j]
  OBVIOUS
<1>2. \A i, j \in S : seeded[i] \in Nat /\ (i # j => seeded[i] # seeded[j])
  BY TableTyped
<1>3. Orders(S, R)
  <2> HIDE DEF R
  <2>1. ASSUME NEW i \in S, NEW j \in S
        PROVE  /\ <<i, j>> \in R => <<j, i>> \notin R
               /\ i # j => <<i, j>> \in R \/ <<j, i>> \in R
               /\ \A k \in S : <<i, j>> \in R /\ <<j, k>> \in R => <<i, k>> \in R
    <3>1. seeded[i] \in Nat /\ seeded[j] \in Nat /\ (i # j => seeded[i] # seeded[j])
      BY <1>2
    <3>2. (<<i, j>> \in R <=> seeded[i] < seeded[j]) /\ (<<j, i>> \in R <=> seeded[j] < seeded[i])
      BY <1>1
    <3>3. ASSUME NEW k \in S PROVE <<i, j>> \in R /\ <<j, k>> \in R => <<i, k>> \in R
      <4>1. /\ seeded[k] \in Nat /\ (<<j, k>> \in R <=> seeded[j] < seeded[k])
            /\ (<<i, k>> \in R <=> seeded[i] < seeded[k])
        BY <1>1, <1>2
      <4> QED
        BY <3>1, <3>2, <4>1
    <3> QED
      BY <3>1, <3>2, <3>3
  <2> QED
    BY <2>1 DEF Orders
<1>4. AsDrawn(S) = Arranged(S, R)
  BY DEF AsDrawn
<1> HIDE DEF R
<1> QED
  BY <1>3, <1>4, ArrangedLists, ListsHold

-----------------------------------------------------------------------------
(* The order the rows are put in before they are cut into sessions.        *)
LEMMA TimedTyped ==
  ASSUME Drawn
  PROVE  /\ IsFiniteSet(Timed) /\ Cardinality(Timed) \in Nat /\ Cardinality(Timed) <= Len(table)
         /\ \A i \in Timed :
              /\ i \in DOMAIN table /\ i \in Nat /\ table[i].at \in Nat
              /\ FlowKey(table[i])[1] \in Int /\ FlowKey(table[i])[2] \in Int
              /\ FlowKey(table[i])[3] \in Int
<1>1. Timed \in SUBSET DOMAIN table
  BY DEF Timed
<1>2. IsFiniteSet(Timed) /\ Cardinality(Timed) <= Len(table) /\ Cardinality(Timed) \in Nat
  BY <1>1, TableTyped, FS_Subset, FS_CardinalityType
<1>3. ASSUME NEW i \in Timed
      PROVE  /\ i \in DOMAIN table /\ i \in Nat /\ table[i].at \in Nat
             /\ FlowKey(table[i])[1] \in Int /\ FlowKey(table[i])[2] \in Int
             /\ FlowKey(table[i])[3] \in Int
  <2>1. i \in DOMAIN table /\ table[i].at # -1
    BY DEF Timed, NoTime
  <2>2. /\ i \in Nat /\ table[i].at \in Nat
        /\ table[i].src \in Int /\ table[i].dst \in Int /\ table[i].others \in Int
    BY <2>1, TableTyped
  <2> QED
    BY <2>1, <2>2 DEF FlowKey
<1> QED
  BY <1>2, <1>3

(* The order, spelled out.                                                 *)
LEMMA SortsByKeys ==
  ASSUME Drawn, NEW i \in Timed, NEW j \in Timed
  PROVE  LET a == FlowKey(table[i])
             b == FlowKey(table[j])
         IN  SortsBefore(i, j) <=>
               \/ a[1] < b[1]
               \/ a[1] = b[1] /\ a[2] < b[2]
               \/ a[1] = b[1] /\ a[2] = b[2] /\ a[3] < b[3]
               \/ a[1] = b[1] /\ a[2] = b[2] /\ a[3] = b[3] /\ table[i].at < table[j].at
               \/ a[1] = b[1] /\ a[2] = b[2] /\ a[3] = b[3] /\ table[i].at = table[j].at /\ i < j
<1> DEFINE a == FlowKey(table[i])
           b == FlowKey(table[j])
<1>2. a = b <=> a[1] = b[1] /\ a[2] = b[2] /\ a[3] = b[3]
  BY DEF FlowKey
<1>3. SortsBefore(i, j) <=>
        \/ PairBefore(a, b)
        \/ a[1] = b[1] /\ a[2] = b[2] /\ a[3] < b[3]
        \/ a = b /\ PairBefore(<<table[i].at, i>>, <<table[j].at, j>>)
  BY DEF SortsBefore
<1>4. PairBefore(a, b) <=> a[1] < b[1] \/ (a[1] = b[1] /\ a[2] < b[2])
  BY DEF PairBefore
<1>5. PairBefore(<<table[i].at, i>>, <<table[j].at, j>>)
        <=> table[i].at < table[j].at \/ (table[i].at = table[j].at /\ i < j)
  BY DEF PairBefore
<1> HIDE DEF a, b
<1>6. SortsBefore(i, j) <=>
        \/ a[1] < b[1]
        \/ a[1] = b[1] /\ a[2] < b[2]
        \/ a[1] = b[1] /\ a[2] = b[2] /\ a[3] < b[3]
        \/ a[1] = b[1] /\ a[2] = b[2] /\ a[3] = b[3] /\ table[i].at < table[j].at
        \/ a[1] = b[1] /\ a[2] = b[2] /\ a[3] = b[3] /\ table[i].at = table[j].at /\ i < j
  BY <1>2, <1>3, <1>4, <1>5
<1> QED
  BY <1>6 DEF a, b

LEMMA SortsOrders ==
  ASSUME Drawn
  PROVE  Orders(Timed, {p \in Timed \X Timed : SortsBefore(p[1], p[2])})
<1> DEFINE R == {p \in Timed \X Timed : SortsBefore(p[1], p[2])}
           x(i) == FlowKey(table[i])[1]
           y(i) == FlowKey(table[i])[2]
           z(i) == FlowKey(table[i])[3]
           t(i) == table[i].at
<1>1. \A i, j \in Timed : <<i, j>> \in R <=> SortsBefore(i, j)
  OBVIOUS
<1>2. \A i, j \in Timed :
        SortsBefore(i, j) <=>
          \/ x(i) < x(j)
          \/ x(i) = x(j) /\ y(i) < y(j)
          \/ x(i) = x(j) /\ y(i) = y(j) /\ z(i) < z(j)
          \/ x(i) = x(j) /\ y(i) = y(j) /\ z(i) = z(j) /\ t(i) < t(j)
          \/ x(i) = x(j) /\ y(i) = y(j) /\ z(i) = z(j) /\ t(i) = t(j) /\ i < j
  BY SortsByKeys
<1>3. \A i \in Timed : x(i) \in Int /\ y(i) \in Int /\ z(i) \in Int /\ t(i) \in Nat /\ i \in Nat
  BY TimedTyped
<1> HIDE DEF R, x, y, z, t
<1>4. ASSUME NEW i \in Timed, NEW j \in Timed
      PROVE  /\ <<i, j>> \in R => <<j, i>> \notin R
             /\ i # j => <<i, j>> \in R \/ <<j, i>> \in R
             /\ \A k \in Timed : <<i, j>> \in R /\ <<j, k>> \in R => <<i, k>> \in R
  <2>1. /\ x(i) \in Int /\ y(i) \in Int /\ z(i) \in Int /\ t(i) \in Nat /\ i \in Nat
        /\ x(j) \in Int /\ y(j) \in Int /\ z(j) \in Int /\ t(j) \in Nat /\ j \in Nat
    BY <1>3
  <2>2. SortsBefore(i, j) => ~SortsBefore(j, i)
    BY <1>2, <2>1
  <2>3. i # j => SortsBefore(i, j) \/ SortsBefore(j, i)
    BY <1>2, <2>1
  <2>4. ASSUME NEW k \in Timed PROVE SortsBefore(i, j) /\ SortsBefore(j, k) => SortsBefore(i, k)
    <3>1. x(k) \in Int /\ y(k) \in Int /\ z(k) \in Int /\ t(k) \in Nat /\ k \in Nat
      BY <1>3
    <3> QED
      BY <1>2, <2>1, <3>1
  <2>5. (<<i, j>> \in R <=> SortsBefore(i, j)) /\ (<<j, i>> \in R <=> SortsBefore(j, i))
    BY <1>1
  <2>6. \A k \in Timed :
          (<<j, k>> \in R <=> SortsBefore(j, k)) /\ (<<i, k>> \in R <=> SortsBefore(i, k))
    BY <1>1
  <2> QED
    BY <2>2, <2>3, <2>4, <2>5, <2>6
<1> USE DEF R
<1>5. Orders(Timed, R)
  <2> HIDE DEF R
  <2> QED
    BY <1>4 DEF Orders
<1> QED
  BY <1>5

LEMMA OrderedSorts ==
  ASSUME Drawn
  PROVE  /\ Ordered \in Seq(Timed) /\ Len(Ordered) \in Nat /\ Len(Ordered) <= Len(table)
         /\ \A k, l \in 1..Len(Ordered) : k < l => SortsBefore(Ordered[k], Ordered[l])
<1> DEFINE R == {p \in Timed \X Timed : SortsBefore(p[1], p[2])}
<1>1. Orders(Timed, R) /\ IsFiniteSet(Timed) /\ Cardinality(Timed) <= Len(table)
  BY SortsOrders, TimedTyped
<1>2. Ordered = Arranged(Timed, R)
  BY DEF Ordered
<1>3. \A i, j \in Timed : <<i, j>> \in R <=> SortsBefore(i, j)
  OBVIOUS
<1> HIDE DEF R
<1>4. Lists(Ordered, Timed, R)
  BY <1>1, <1>2, ArrangedLists
<1>5. PICK o : o = Ordered
  OBVIOUS
<1>6. /\ o \in Seq(Timed) /\ Len(o) = Cardinality(Timed)
      /\ \A k, l \in 1..Len(o) : k < l => <<o[k], o[l]>> \in R
  BY <1>4, <1>5 DEF Lists
<1>7. ASSUME NEW k \in 1..Len(o), NEW l \in 1..Len(o), k < l
      PROVE  SortsBefore(o[k], o[l])
  <2>1. o[k] \in Timed /\ o[l] \in Timed
    BY <1>6
  <2>2. <<o[k], o[l]>> \in R
    BY <1>6, <1>7
  <2> QED
    BY <1>3, <2>1, <2>2
<1> QED
  BY <1>1, <1>5, <1>6, <1>7

-----------------------------------------------------------------------------
(* The sessions.                                                           *)
LEMMA OneFlow ==
  ASSUME NEW r \in Row, NEW s \in Row, SameFlow(r, s)
  PROVE  /\ FlowKey(r)[1] = FlowKey(s)[1] /\ FlowKey(r)[2] = FlowKey(s)[2]
         /\ FlowKey(r)[3] = FlowKey(s)[3]
<1>1. r.src \in Int /\ r.dst \in Int /\ s.src \in Int /\ s.dst \in Int
  BY DEF Row, NoColumn
<1>2. /\ r.others = s.others
      /\ \/ r.src = s.src /\ r.dst = s.dst
         \/ /\ r.src = s.dst /\ r.dst = s.src
            /\ r.src # NoColumn /\ r.dst # NoColumn
  BY DEF SameFlow
<1> QED
  BY <1>1, <1>2 DEF FlowKey

(* With the start of a session after the one and not after the other, two  *)
(* rows are not together.                                                  *)
LEMMA StartParts ==
  ASSUME Drawn, NEW gap \in Nat, NEW p \in Starts(Ordered, gap),
         NEW a \in 1..Len(Ordered), NEW b \in 1..Len(Ordered), a < p, p <= b
  PROVE  /\ Ordered[a] # Ordered[b]
         /\ ~Together(Ordered[a], Ordered[b], gap) /\ ~Together(Ordered[b], Ordered[a], gap)
<1>1. PICK o : o = Ordered
  OBVIOUS
<1> DEFINE x(k) == FlowKey(table[o[k]])[1]
           y(k) == FlowKey(table[o[k]])[2]
           z(k) == FlowKey(table[o[k]])[3]
           t(k) == table[o[k]].at
<1>2. /\ o \in Seq(Timed) /\ Len(o) \in Nat
      /\ \A k, l \in 1..Len(o) : k < l => SortsBefore(o[k], o[l])
  BY <1>1, OrderedSorts
<1>3. /\ a \in 1..Len(o) /\ b \in 1..Len(o) /\ a < p /\ p <= b
      /\ p \in DOMAIN o
      /\ \/ p = 1
         \/ FlowKey(table[o[p - 1]]) # FlowKey(table[o[p]])
         \/ table[o[p]].at - table[o[p - 1]].at > gap
  BY <1>1 DEF Starts
<1>4. DOMAIN o = 1..Len(o)
  BY <1>2
<1>5. p \in 1..Len(o) /\ p - 1 \in 1..Len(o)
  BY <1>2, <1>3, <1>4
<1>6. \A k \in 1..Len(o) : o[k] \in Timed
  BY <1>2
<1>7. \A k \in 1..Len(o) : /\ x(k) \in Int /\ y(k) \in Int /\ z(k) \in Int
                           /\ t(k) \in Nat /\ o[k] \in Nat
                           /\ o[k] \in DOMAIN table
  BY <1>6, TimedTyped
<1>8. ASSUME NEW k \in 1..Len(o), NEW l \in 1..Len(o), k < l
      PROVE  \/ x(k) < x(l)
             \/ x(k) = x(l) /\ y(k) < y(l)
             \/ x(k) = x(l) /\ y(k) = y(l) /\ z(k) < z(l)
             \/ x(k) = x(l) /\ y(k) = y(l) /\ z(k) = z(l) /\ t(k) < t(l)
             \/ x(k) = x(l) /\ y(k) = y(l) /\ z(k) = z(l) /\ t(k) = t(l) /\ o[k] < o[l]
  <2>1. o[k] \in Timed /\ o[l] \in Timed /\ SortsBefore(o[k], o[l])
    BY <1>2, <1>6, <1>8
  <2> QED
    BY <2>1, SortsByKeys
<1>9. \/ x(p - 1) # x(p) \/ y(p - 1) # y(p) \/ z(p - 1) # z(p)
      \/ t(p) - t(p - 1) > gap
  <2>1. p # 1
    BY <1>3, <1>2
  <2>2. FlowKey(table[o[p - 1]]) # FlowKey(table[o[p]]) =>
          x(p - 1) # x(p) \/ y(p - 1) # y(p) \/ z(p - 1) # z(p)
    BY DEF FlowKey
  <2> QED
    BY <1>3, <2>1, <2>2
<1> HIDE DEF x, y, z, t
<1> DEFINE upTo(k, l) == \/ x(k) < x(l)
                         \/ x(k) = x(l) /\ y(k) < y(l)
                         \/ x(k) = x(l) /\ y(k) = y(l) /\ z(k) < z(l)
                         \/ x(k) = x(l) /\ y(k) = y(l) /\ z(k) = z(l) /\ t(k) <= t(l)
<1>17. ASSUME NEW k \in 1..Len(o), NEW l \in 1..Len(o), k <= l
       PROVE  upTo(k, l)
  <2>1. t(k) \in Nat /\ t(l) \in Nat
    BY <1>7
  <2>2. CASE k = l
    BY <2>1, <2>2
  <2>3. CASE k # l
    <3>1. k < l
      BY <1>2, <1>17, <2>3
    <3>2. \/ x(k) < x(l)
          \/ x(k) = x(l) /\ y(k) < y(l)
          \/ x(k) = x(l) /\ y(k) = y(l) /\ z(k) < z(l)
          \/ x(k) = x(l) /\ y(k) = y(l) /\ z(k) = z(l) /\ t(k) < t(l)
          \/ x(k) = x(l) /\ y(k) = y(l) /\ z(k) = z(l) /\ t(k) = t(l) /\ o[k] < o[l]
      BY <1>8, <3>1
    <3> QED
      BY <2>1, <3>2
  <2> QED
    BY <2>2, <2>3
<1>10. p - 1 < p /\ a <= p - 1 /\ a < b
  BY <1>2, <1>3, <1>5
<1>11. o[a] # o[b]
  <2>1. \/ x(a) < x(b)
        \/ x(a) = x(b) /\ y(a) < y(b)
        \/ x(a) = x(b) /\ y(a) = y(b) /\ z(a) < z(b)
        \/ x(a) = x(b) /\ y(a) = y(b) /\ z(a) = z(b) /\ t(a) < t(b)
        \/ x(a) = x(b) /\ y(a) = y(b) /\ z(a) = z(b) /\ t(a) = t(b) /\ o[a] < o[b]
    BY <1>3, <1>8, <1>10
  <2>2. o[a] = o[b] => x(a) = x(b) /\ y(a) = y(b) /\ z(a) = z(b) /\ t(a) = t(b)
    BY DEF x, y, z, t
  <2> QED
    BY <2>1, <2>2, <1>3, <1>7
<1>12. ~(x(a) = x(b) /\ y(a) = y(b) /\ z(a) = z(b) /\ t(b) - t(a) <= gap)
  <2> SUFFICES ASSUME x(a) = x(b), y(a) = y(b), z(a) = z(b), t(b) - t(a) <= gap PROVE FALSE
    OBVIOUS
  <2>1. /\ x(a) \in Int /\ y(a) \in Int /\ z(a) \in Int /\ t(a) \in Nat
        /\ x(b) \in Int /\ y(b) \in Int /\ z(b) \in Int /\ t(b) \in Nat
        /\ x(p) \in Int /\ y(p) \in Int /\ z(p) \in Int /\ t(p) \in Nat
        /\ x(p - 1) \in Int /\ y(p - 1) \in Int /\ z(p - 1) \in Int /\ t(p - 1) \in Nat
    BY <1>3, <1>5, <1>7
  <2>2. upTo(a, p - 1) /\ upTo(p, b) /\ upTo(p - 1, p)
    <3>1. p - 1 <= p
      BY <1>10, <1>5, <1>2
    <3> QED
      BY <1>3, <1>5, <1>10, <1>17, <3>1
  <2>5. x(p - 1) = x(p) /\ y(p - 1) = y(p) /\ z(p - 1) = z(p)
    BY <2>1, <2>2
  <2>6. t(a) <= t(p - 1) /\ t(p) <= t(b) /\ t(p) - t(p - 1) > gap
    BY <1>9, <2>1, <2>2, <2>5
  <2>7. \A k, l, m, n, g \in Nat :
          k <= l /\ m <= n /\ m - l > g => ~(n - k <= g)
    OBVIOUS
  <2> HIDE DEF t
  <2> QED
    BY <2>1, <2>6, <2>7
<1>13. o[a] \in DOMAIN table /\ o[b] \in DOMAIN table /\ t(a) \in Nat /\ t(b) \in Nat
  BY <1>3, <1>7
<1>14. ASSUME SameFlow(table[o[a]], table[o[b]])
       PROVE  x(a) = x(b) /\ y(a) = y(b) /\ z(a) = z(b)
  BY <1>13, <1>14, OneFlow, TableTyped DEF x, y, z
<1>15. ~Together(o[a], o[b], gap)
  <2> SUFFICES ASSUME Together(o[a], o[b], gap) PROVE FALSE
    OBVIOUS
  <2>1. SameFlow(table[o[a]], table[o[b]]) /\ t(a) - t(b) \in -gap..gap
    BY DEF Together, t
  <2>2. t(b) - t(a) <= gap
    BY <1>13, <2>1
  <2> QED
    BY <1>12, <1>14, <2>1, <2>2
<1>16. ~Together(o[b], o[a], gap)
  <2> SUFFICES ASSUME Together(o[b], o[a], gap) PROVE FALSE
    OBVIOUS
  <2>1. SameFlow(table[o[b]], table[o[a]]) /\ t(b) - t(a) \in -gap..gap
    BY DEF Together, t
  <2>2. t(b) - t(a) <= gap
    BY <1>13, <2>1
  <2>3. SameFlow(table[o[a]], table[o[b]])
    BY <2>1 DEF SameFlow
  <2> QED
    BY <1>12, <1>14, <2>2, <2>3
<1> QED
  BY <1>1, <1>11, <1>15, <1>16

LEMMA Stretch ==
  ASSUME NEW S, NEW s \in Seq(S), NEW m \in Int, NEW n \in Int, m <= n => 1 <= m /\ n <= Len(s)
  PROVE  LET r == SubSeq(s, m, n)
         IN  /\ r \in Seq(S) /\ Len(r) = (IF m <= n THEN n - m + 1 ELSE 0)
             /\ \A k \in 1..Len(r) : r[k] = s[m + k - 1]
<1>1. CASE m <= n
  BY <1>1
<1>2. CASE ~(m <= n)
  BY <1>2
<1> QED
  BY <1>1, <1>2

(* Sessions that are apart: none is empty, and of two different ones no    *)
(* rows are the same or together.                                          *)
Cut(sessions, gap) ==
  /\ IsFiniteSet(DOMAIN sessions)
  /\ \A n \in DOMAIN sessions :
       /\ n \in DOMAIN table
       /\ sessions[n] \in Seq(DOMAIN table) /\ Len(sessions[n]) >= 1
  /\ \A m, n \in DOMAIN sessions : m # n =>
       \A k \in 1..Len(sessions[m]), l \in 1..Len(sessions[n]) :
         sessions[m][k] # sessions[n][l] /\ ~Together(sessions[m][k], sessions[n][l], gap)

LEMMA SessionsCut ==
  ASSUME Drawn, NEW gap \in Nat
  PROVE  Cut(Sessions(gap), gap)
<1>1. PICK o : o = Ordered
  OBVIOUS
<1>2. PICK T : T = Starts(o, gap)
  OBVIOUS
<1>3. PICK f : f = InOrder(T)
  OBVIOUS
<1>20. PICK N : N = Len(o)
  OBVIOUS
<1>21. PICK z : z = Len(f)
  OBVIOUS
<1>4. /\ o \in Seq(Timed) /\ N \in Nat /\ N <= Len(table) /\ DOMAIN o = 1..N
  BY <1>1, <1>20, OrderedSorts
<1>5. \A p \in T : p \in 1..N /\ p \in Nat
  BY <1>2, <1>4 DEF Starts
<1>6. IsFiniteSet(T) /\ Cardinality(T) <= N
  <2>1. IsFiniteSet(1..N) /\ Cardinality(1..N) = N
    BY <1>4, FS_Interval
  <2>2. T \in SUBSET (1..N)
    BY <1>5
  <2> QED
    BY <2>1, <2>2, FS_Subset
<1>7. Grows(f, T)
  BY <1>3, <1>5, <1>6, InOrderGrows
<1>8. /\ f \in Seq(T) /\ z \in Nat /\ z <= N /\ DOMAIN f = 1..z
      /\ \A k, l \in 1..z : k < l => f[k] < f[l]
      /\ \A k \in 1..z : f[k] \in T /\ f[k] \in 1..N /\ f[k] \in Nat
  BY <1>5, <1>6, <1>7, <1>21 DEF Grows
<1> DEFINE last(n) == IF n = Len(f) THEN Len(o) ELSE f[n + 1] - 1
           S == [n \in DOMAIN f |-> SubSeq(o, f[n], last(n))]
<1>9. Sessions(gap) = S
  BY <1>1, <1>2, <1>3 DEF Sessions
<1>10. DOMAIN S = 1..z
  BY <1>8
<1>11. ASSUME NEW n \in 1..z
       PROVE  /\ last(n) \in Nat /\ f[n] <= last(n) /\ last(n) <= N
              /\ S[n] \in Seq(Timed) /\ Len(S[n]) = last(n) - f[n] + 1
              /\ \A k \in 1..Len(S[n]) : S[n][k] = o[f[n] + k - 1]
  <2>1. last(n) \in Nat /\ f[n] <= last(n) /\ last(n) <= N
    <3>1. CASE n = z
      BY <1>4, <1>8, <1>20, <1>21, <3>1
    <3>2. CASE n # z
      <4>1. n + 1 \in 1..z /\ n < n + 1
        BY <1>8, <3>2
      <4>2. f[n] < f[n + 1] /\ f[n + 1] \in 1..N /\ f[n] \in Nat
        BY <1>8, <4>1
      <4> QED
        BY <1>4, <1>21, <3>2, <4>2
    <3> QED
      BY <3>1, <3>2
  <2>2. S[n] = SubSeq(o, f[n], last(n))
    BY <1>8
  <2> HIDE DEF S, last
  <2>3. PICK l : l = last(n)
    OBVIOUS
  <2>4. PICK m : m = f[n]
    OBVIOUS
  <2>5. m \in Nat /\ l \in Nat /\ 1 <= m /\ m <= l /\ l <= N /\ S[n] = SubSeq(o, m, l)
    BY <1>8, <2>1, <2>2, <2>3, <2>4
  <2>6. S[n] \in Seq(Timed) /\ Len(S[n]) = l - m + 1 /\ \A k \in 1..Len(S[n]) : S[n][k] = o[m + k - 1]
    BY <1>4, <1>20, <2>5, Stretch
  <2> QED
    BY <2>1, <2>3, <2>4, <2>6
<1>12. ASSUME NEW m \in 1..z, NEW n \in 1..z, m < n,
              NEW k \in 1..Len(S[m]), NEW l \in 1..Len(S[n])
       PROVE  /\ S[m][k] # S[n][l] /\ ~Together(S[m][k], S[n][l], gap)
              /\ ~Together(S[n][l], S[m][k], gap)
  <2>1. last(m) < f[n]
    <3>1. m # z /\ m + 1 \in 1..z
      BY <1>8, <1>12
    <3>2. f[m + 1] <= f[n]
      <4>1. CASE m + 1 = n
        BY <1>8, <4>1
      <4>2. CASE m + 1 # n
        <5>1. m + 1 < n
          BY <1>8, <1>12, <4>2
        <5>2. f[m + 1] < f[n] /\ f[m + 1] \in Nat /\ f[n] \in Nat
          BY <1>8, <3>1, <5>1
        <5> QED
          BY <5>2
      <4> QED
        BY <4>1, <4>2
    <3>3. f[m + 1] \in Nat /\ f[n] \in Nat
      BY <1>8, <3>1
    <3>4. last(m) = f[m + 1] - 1
      BY <1>21, <3>1
    <3> HIDE DEF last
    <3> QED
      BY <3>2, <3>3, <3>4
  <2> HIDE DEF S, last
  <2>2. /\ last(m) \in Nat /\ f[m] <= last(m) /\ last(m) <= N
        /\ Len(S[m]) = last(m) - f[m] + 1 /\ S[m][k] = o[f[m] + k - 1] /\ f[m] \in 1..N
    BY <1>8, <1>11
  <2>3. /\ last(n) \in Nat /\ f[n] <= last(n) /\ last(n) <= N
        /\ Len(S[n]) = last(n) - f[n] + 1 /\ S[n][l] = o[f[n] + l - 1] /\ f[n] \in 1..N
        /\ f[n] \in T
    BY <1>8, <1>11
  <2>4. PICK a, b : a = f[m] + k - 1 /\ b = f[n] + l - 1
    OBVIOUS
  <2>5. a \in 1..N /\ b \in 1..N /\ a < f[n] /\ f[n] <= b
    <3>1. k \in Nat /\ 1 <= k /\ k <= last(m) - f[m] + 1
      BY <2>2
    <3>2. l \in Nat /\ 1 <= l /\ l <= last(n) - f[n] + 1
      BY <2>3
    <3>3. PICK p, q, r, u : p = f[m] /\ q = last(m) /\ r = f[n] /\ u = last(n)
      OBVIOUS
    <3>4. /\ p \in Nat /\ q \in Nat /\ r \in Nat /\ u \in Nat /\ 1 <= p /\ 1 <= r
          /\ p <= q /\ q <= N /\ r <= u /\ u <= N /\ q < r
          /\ k <= q - p + 1 /\ l <= u - r + 1 /\ a = p + k - 1 /\ b = r + l - 1
      <4>1. p \in 1..N /\ r \in 1..N /\ q \in Nat /\ u \in Nat /\ q < r /\ a = p + k - 1 /\ b = r + l - 1
        BY <2>1, <2>2, <2>3, <2>4, <3>3
      <4>2. p <= q /\ q <= N /\ r <= u /\ u <= N /\ k <= q - p + 1 /\ l <= u - r + 1
        BY <2>2, <2>3, <3>1, <3>2, <3>3
      <4> QED
        BY <1>4, <4>1, <4>2
    <3>5. a \in 1..N /\ b \in 1..N /\ a < r /\ r <= b
      BY <1>4, <3>1, <3>2, <3>4
    <3> QED
      BY <3>3, <3>5
  <2>6. S[m][k] = o[a] /\ S[n][l] = o[b]
    BY <2>2, <2>3, <2>4
  <2>7. o[a] # o[b] /\ ~Together(o[a], o[b], gap) /\ ~Together(o[b], o[a], gap)
    BY <1>1, <1>2, <1>20, <2>3, <2>5, StartParts
  <2> QED
    BY <2>6, <2>7
<1>13. \A n \in 1..z : n \in DOMAIN table /\ S[n] \in Seq(DOMAIN table) /\ Len(S[n]) >= 1
  <2> SUFFICES ASSUME NEW n \in 1..z
               PROVE  n \in DOMAIN table /\ S[n] \in Seq(DOMAIN table) /\ Len(S[n]) >= 1
    OBVIOUS
  <2>1. n \in DOMAIN table
    <3>1. Len(table) \in Nat /\ DOMAIN table = 1..Len(table)
      BY TableTyped
    <3> QED
      BY <1>4, <1>8, <3>1
  <2>2. \A i \in Timed : i \in DOMAIN table
    BY TimedTyped
  <2> HIDE DEF S, last
  <2>3. S[n] \in Seq(Timed) /\ Len(S[n]) = last(n) - f[n] + 1 /\ last(n) \in Nat /\ f[n] <= last(n)
    BY <1>11
  <2>4. Len(S[n]) >= 1
    BY <1>8, <2>3
  <2>5. Seq(Timed) \subseteq Seq(DOMAIN table)
    BY <2>2
  <2> QED
    BY <2>1, <2>3, <2>4, <2>5
<1> HIDE DEF S
<1>14. IsFiniteSet(DOMAIN S)
  BY <1>8, <1>10, FS_Interval
<1>15. ASSUME NEW m \in DOMAIN S, NEW n \in DOMAIN S, m # n,
              NEW k \in 1..Len(S[m]), NEW l \in 1..Len(S[n])
       PROVE  S[m][k] # S[n][l] /\ ~Together(S[m][k], S[n][l], gap)
  <2>1. m \in 1..z /\ n \in 1..z /\ (m < n \/ n < m)
    BY <1>8, <1>10, <1>15
  <2> QED
    BY <1>12, <2>1
<1>16. Cut(S, gap)
  BY <1>10, <1>13, <1>14, <1>15 DEF Cut
<1> QED
  BY <1>9, <1>16

-----------------------------------------------------------------------------
(* The windows of sessions.                                                *)
LEMMA ConfigTyped ==
  ASSUME NEW config \in Configs
  PROVE  /\ config.strategy \in {"row_random", "session_temporal", "windows"}
         /\ config.length \in Nat /\ config.length >= 1
         /\ config.stride \in Nat /\ config.stride >= 1
         /\ config.gap \in Nat /\ config.test \in 0..99 /\ config.val \in 0..100
         /\ config.strategy # "windows" => config.length = 1
<1>1. config \in Config
  BY InputsAssumption
<1> QED
  BY <1>1, InputsAssumption DEF Config

(* A window is of rows of one session.                                     *)
Within(window, session, config) ==
  /\ window \in Seq(DOMAIN table) /\ Len(window) = config.length
  /\ \A k \in 1..Len(window) : \E l \in 1..Len(session) : window[k] = session[l]

LEMMA OffsetsTyped ==
  ASSUME NEW session \in Seq(DOMAIN table), NEW config \in Configs
  PROVE  /\ IsFiniteSet(Offsets(session, config))
         /\ \A d \in Offsets(session, config) :
              d \in Nat /\ Within(WindowAt(session, d, config), session, config)
<1>1. PICK n, l : n = Len(session) /\ l = config.length
  OBVIOUS
<1>2. n \in Nat /\ l \in Nat /\ l >= 1
  BY <1>1, ConfigTyped
<1>3. Offsets(session, config) \in SUBSET (0..n - l)
  BY <1>1 DEF Offsets
<1>4. IsFiniteSet(0..n - l)
  BY <1>2, FS_Interval
<1>5. ASSUME NEW d \in Offsets(session, config)
      PROVE  d \in Nat /\ Within(WindowAt(session, d, config), session, config)
  <2>1. d \in Nat /\ d + l <= n
    BY <1>2, <1>3
  <2>2. PICK w : w = SubSeq(session, d + 1, d + l)
    OBVIOUS
  <2>3. w \in Seq(DOMAIN table) /\ Len(w) = l /\ \A k \in 1..Len(w) : w[k] = session[d + k]
    <3>1. PICK m, r : m = d + 1 /\ r = d + l
      OBVIOUS
    <3>2. m \in Int /\ r \in Int /\ m <= r /\ 1 <= m /\ r <= Len(session)
      BY <1>1, <1>2, <2>1, <3>1
    <3>3. w \in Seq(DOMAIN table) /\ Len(w) = r - m + 1 /\ \A k \in 1..Len(w) : w[k] = session[m + k - 1]
      BY <2>2, <3>1, <3>2, Stretch
    <3>4. r - m + 1 = l /\ \A k \in Nat : m + k - 1 = d + k
      BY <1>2, <2>1, <3>1
    <3> QED
      BY <3>3, <3>4
  <2>4. \A k \in 1..Len(w) : d + k \in 1..Len(session)
    BY <1>1, <1>2, <2>1, <2>3
  <2>5. Within(w, session, config)
    BY <1>1, <2>3, <2>4 DEF Within
  <2> QED
    BY <1>1, <2>1, <2>2, <2>5 DEF WindowAt
<1> QED
  BY <1>3, <1>4, <1>5, FS_Subset

LEMMA PairsOrder ==
  ASSUME NEW S, \A p \in S : p[1] \in Nat /\ p[2] \in Nat /\ p = <<p[1], p[2]>>
  PROVE  Orders(S, {p \in S \X S : PairBefore(p[1], p[2])})
<1> DEFINE R == {p \in S \X S : PairBefore(p[1], p[2])}
<1>1. \A i, j \in S : <<i, j>> \in R <=> PairBefore(i, j)
  OBVIOUS
<1> HIDE DEF R
<1>2. ASSUME NEW i \in S, NEW j \in S
      PROVE  /\ <<i, j>> \in R => <<j, i>> \notin R
             /\ i # j => <<i, j>> \in R \/ <<j, i>> \in R
             /\ \A k \in S : <<i, j>> \in R /\ <<j, k>> \in R => <<i, k>> \in R
  <2>1. i[1] \in Nat /\ i[2] \in Nat /\ j[1] \in Nat /\ j[2] \in Nat
    OBVIOUS
  <2>2. i[1] = j[1] /\ i[2] = j[2] => i = j
    OBVIOUS
  <2>3. PairBefore(i, j) => ~PairBefore(j, i)
    BY <2>1 DEF PairBefore
  <2>4. i # j => PairBefore(i, j) \/ PairBefore(j, i)
    BY <2>1, <2>2 DEF PairBefore
  <2>5. ASSUME NEW k \in S PROVE PairBefore(i, j) /\ PairBefore(j, k) => PairBefore(i, k)
    <3>1. k[1] \in Nat /\ k[2] \in Nat
      OBVIOUS
    <3> QED
      BY <2>1, <3>1 DEF PairBefore
  <2>6. (<<i, j>> \in R <=> PairBefore(i, j)) /\ (<<j, i>> \in R <=> PairBefore(j, i))
    BY <1>1
  <2>7. \A k \in S : (<<j, k>> \in R <=> PairBefore(j, k)) /\ (<<i, k>> \in R <=> PairBefore(i, k))
    BY <1>1
  <2> QED
    BY <2>3, <2>4, <2>5, <2>6, <2>7
<1>3. Orders(S, R)
  BY <1>2 DEF Orders
<1> QED
  BY <1>3 DEF R

(* Sessions named by their numbers, at any finite number of places.        *)
Picked(chosen, sessions) ==
  /\ IsFiniteSet(DOMAIN chosen)
  /\ \A c \in DOMAIN chosen : c \in Nat /\ chosen[c] \in DOMAIN sessions

LEMMA WindowsWithin ==
  ASSUME NEW gap, NEW sessions, Cut(sessions, gap), NEW chosen, Picked(chosen, sessions),
         NEW config \in Configs
  PROVE  LET windows == WindowsIn(chosen, sessions, config)
         IN  /\ windows \in Seq(Seq(DOMAIN table))
             /\ \A k \in 1..Len(windows) :
                  \E c \in DOMAIN chosen : Within(windows[k], sessions[chosen[c]], config)
<1> DEFINE P(c) == {c} \X Offsets(sessions[chosen[c]], config)
           g == [c \in DOMAIN chosen |-> P(c)]
           T == {g[c] : c \in DOMAIN chosen}
           places == UNION {P(c) : c \in DOMAIN chosen}
           R == {p \in places \X places : PairBefore(p[1], p[2])}
<1>1. ASSUME NEW c \in DOMAIN chosen
      PROVE  /\ c \in Nat /\ sessions[chosen[c]] \in Seq(DOMAIN table)
             /\ IsFiniteSet(Offsets(sessions[chosen[c]], config))
             /\ \A d \in Offsets(sessions[chosen[c]], config) :
                  /\ d \in Nat
                  /\ Within(WindowAt(sessions[chosen[c]], d, config), sessions[chosen[c]], config)
  <2>1. c \in Nat /\ sessions[chosen[c]] \in Seq(DOMAIN table)
    BY DEF Picked, Cut
  <2> QED
    BY <2>1, OffsetsTyped
<1>2. \A c \in DOMAIN chosen : IsFiniteSet(P(c)) /\ g[c] = P(c)
  <2> SUFFICES ASSUME NEW c \in DOMAIN chosen PROVE IsFiniteSet(P(c))
    OBVIOUS
  <2>1. IsFiniteSet({c}) /\ IsFiniteSet(Offsets(sessions[chosen[c]], config))
    BY <1>1, FS_Singleton
  <2> QED
    BY <2>1, FS_Product
<1>3. IsFiniteSet(T)
  <2> HIDE DEF P
  <2>1. g \in Surjection(DOMAIN chosen, T)
    BY DEF Surjection
  <2> HIDE DEF g, T
  <2> QED
    BY <2>1, FS_Surjection DEF Picked
<1>4. IsFiniteSet(places)
  <2>1. places = UNION T
    <3> HIDE DEF P
    <3> QED
      OBVIOUS
  <2>2. \A U \in T : IsFiniteSet(U)
    BY <1>2
  <2> HIDE DEF T, places
  <2> QED
    BY <1>3, <2>1, <2>2, FS_UNION
<1>5. \A p \in places : \E c \in DOMAIN chosen : \E d \in Offsets(sessions[chosen[c]], config) :
        p = <<c, d>>
  OBVIOUS
<1>6. ASSUME NEW p \in places
      PROVE  /\ p[1] \in Nat /\ p[2] \in Nat /\ p = <<p[1], p[2]>> /\ p[1] \in DOMAIN chosen
             /\ Within(WindowAt(sessions[chosen[p[1]]], p[2], config), sessions[chosen[p[1]]], config)
  <2>1. PICK c \in DOMAIN chosen : \E d \in Offsets(sessions[chosen[c]], config) : p = <<c, d>>
    BY <1>5
  <2>2. PICK d \in Offsets(sessions[chosen[c]], config) : p = <<c, d>>
    BY <2>1
  <2>3. p[1] = c /\ p[2] = d
    BY <2>2
  <2>4. Within(WindowAt(sessions[chosen[c]], d, config), sessions[chosen[c]], config)
    BY <1>1
  <2> HIDE DEF places
  <2> QED
    BY <1>1, <2>2, <2>3, <2>4
<1> HIDE DEF places
<1>7. Orders(places, R)
  BY <1>6, PairsOrder
<1> DEFINE inTurn == Arranged(places, R)
           windows == [k \in DOMAIN inTurn |->
                         WindowAt(sessions[chosen[inTurn[k][1]]], inTurn[k][2], config)]
<1>8. WindowsIn(chosen, sessions, config) = windows
  BY DEF WindowsIn, places
<1>9. Lists(inTurn, places, R)
  <2> HIDE DEF R
  <2> QED
    BY <1>4, <1>7, ArrangedLists
<1> HIDE DEF R, inTurn
<1>10. inTurn \in Seq(places) /\ Len(inTurn) \in Nat /\ DOMAIN inTurn = 1..Len(inTurn)
  BY <1>9 DEF Lists
<1>11. ASSUME NEW k \in 1..Len(inTurn)
       PROVE  /\ windows[k] \in Seq(DOMAIN table)
              /\ \E c \in DOMAIN chosen : Within(windows[k], sessions[chosen[c]], config)
  <2>1. PICK p \in places : p = inTurn[k]
    BY <1>10
  <2>2. windows[k] = WindowAt(sessions[chosen[p[1]]], p[2], config)
    BY <1>10, <2>1
  <2> HIDE DEF windows
  <2>3. p[1] \in DOMAIN chosen /\ Within(windows[k], sessions[chosen[p[1]]], config)
    BY <1>6, <2>2
  <2> QED
    BY <2>3 DEF Within
<1>12. PICK n \in Nat : n = Len(inTurn)
  BY <1>10
<1>13. windows \in Seq(Seq(DOMAIN table)) /\ Len(windows) = n
  <2>1. DOMAIN windows = 1..n
    BY <1>10, <1>12
  <2>2. windows = [k \in 1..n |-> windows[k]]
    BY <1>10, <1>12
  <2>3. \A k \in 1..n : windows[k] \in Seq(DOMAIN table)
    BY <1>11, <1>12
  <2> HIDE DEF windows
  <2> QED
    BY <2>1, <2>2, <2>3
<1> HIDE DEF windows
<1> QED
  BY <1>8, <1>11, <1>12, <1>13

-----------------------------------------------------------------------------
(* The split by sessions.                                                  *)

(* Sessions in an order: each once and, told to, the earliest first.       *)
Dealt(order, sessions, config) ==
  /\ order \in Seq(DOMAIN sessions)
  /\ \A k, l \in 1..Len(order) : k # l => order[k] # order[l]
  /\ config.chronological =>
       \A k, l \in 1..Len(order) : k < l =>
         table[sessions[order[k]][1]].at <= table[sessions[order[l]][1]].at

LEMMA FirstRow ==
  ASSUME Drawn, NEW gap, NEW sessions, Cut(sessions, gap), NEW n \in DOMAIN sessions
  PROVE  /\ n \in Nat /\ sessions[n][1] \in DOMAIN table
         /\ table[sessions[n][1]].at \in Int
<1>1. n \in DOMAIN table /\ sessions[n] \in Seq(DOMAIN table) /\ Len(sessions[n]) >= 1
  BY DEF Cut
<1>2. sessions[n][1] \in DOMAIN table
  BY <1>1
<1> QED
  BY <1>1, <1>2, TableTyped

LEMMA DealtOnce ==
  ASSUME Drawn, NEW gap, NEW sessions, Cut(sessions, gap), NEW config \in Configs
  PROVE  Dealt(DealtOut(sessions, config), sessions, config)
<1> DEFINE used == {n \in DOMAIN sessions : Offsets(sessions[n], config) # {}}
           t(n) == table[sessions[n][1]].at
           began(n) == <<t(n), n>>
           R == {p \in used \X used : PairBefore(began(p[1]), began(p[2]))}
<1>1. used \in SUBSET DOMAIN sessions /\ \A n \in used : n \in DOMAIN sessions
  OBVIOUS
<1>2. IsFiniteSet(used) /\ \A n \in used : n \in DOMAIN table
  <2> HIDE DEF used
  <2> QED
    BY <1>1, FS_Subset DEF Cut
<1>3. \A n \in used : t(n) \in Int /\ n \in Nat
  <2> HIDE DEF used
  <2> QED
    BY <1>1, FirstRow
<1>4. \A i, j \in used : <<i, j>> \in R <=> t(i) < t(j) \/ (t(i) = t(j) /\ i < j)
  BY DEF PairBefore
<1>5. DealtOut(sessions, config) = IF config.chronological THEN Arranged(used, R) ELSE AsDrawn(used)
  BY DEF DealtOut
<1> HIDE DEF used, t, R
<1>6. Orders(used, R)
  <2>1. ASSUME NEW i \in used, NEW j \in used
        PROVE  /\ <<i, j>> \in R => <<j, i>> \notin R
               /\ i # j => <<i, j>> \in R \/ <<j, i>> \in R
               /\ \A k \in used : <<i, j>> \in R /\ <<j, k>> \in R => <<i, k>> \in R
    <3>1. i \in Nat /\ j \in Nat /\ t(i) \in Int /\ t(j) \in Int
      BY <1>3
    <3>2. /\ <<i, j>> \in R <=> t(i) < t(j) \/ (t(i) = t(j) /\ i < j)
          /\ <<j, i>> \in R <=> t(j) < t(i) \/ (t(i) = t(j) /\ j < i)
      BY <1>4
    <3>3. ASSUME NEW k \in used PROVE <<i, j>> \in R /\ <<j, k>> \in R => <<i, k>> \in R
      <4>1. k \in Nat /\ t(k) \in Int
        BY <1>3
      <4>2. /\ <<j, k>> \in R <=> t(j) < t(k) \/ (t(j) = t(k) /\ j < k)
            /\ <<i, k>> \in R <=> t(i) < t(k) \/ (t(i) = t(k) /\ i < k)
        BY <1>4
      <4> QED
        BY <3>1, <3>2, <4>1, <4>2
    <3> QED
      BY <3>1, <3>2, <3>3
  <2> QED
    BY <2>1 DEF Orders
<1>7. CASE config.chronological
  <2>1. PICK o : o = Arranged(used, R)
    OBVIOUS
  <2>2. Lists(o, used, R) /\ Holds(o, used)
    BY <1>2, <1>6, <2>1, ArrangedLists, ListsHold
  <2>3. o \in Seq(used) /\ \A k, l \in 1..Len(o) : k # l => o[k] # o[l]
    BY <2>2 DEF Holds
  <2>4. ASSUME NEW k \in 1..Len(o), NEW l \in 1..Len(o), k < l
        PROVE  t(o[k]) <= t(o[l])
    <3>1. o[k] \in used /\ o[l] \in used
      BY <2>3
    <3>2. <<o[k], o[l]>> \in R
      BY <2>2, <2>4 DEF Lists
    <3> QED
      BY <1>3, <1>4, <3>1, <3>2
  <2>5. o \in Seq(DOMAIN sessions)
    BY <1>1, <2>3
  <2> QED
    BY <1>5, <1>7, <2>1, <2>3, <2>4, <2>5 DEF Dealt, t
<1>8. CASE ~config.chronological
  <2>1. PICK o : o = AsDrawn(used)
    OBVIOUS
  <2>2. Holds(o, used)
    BY <1>2, <2>1, AsDrawnHolds
  <2>3. o \in Seq(used) /\ \A k, l \in 1..Len(o) : k # l => o[k] # o[l]
    BY <2>2 DEF Holds
  <2>4. o \in Seq(DOMAIN sessions)
    BY <1>1, <2>3
  <2> QED
    BY <1>5, <1>8, <2>1, <2>3, <2>4 DEF Dealt
<1> QED
  BY <1>7, <1>8

(* The windows of the sessions at the places from m to n.                  *)
LEMMA PartWithin ==
  ASSUME NEW gap, NEW sessions, Cut(sessions, gap), NEW config \in Configs,
         NEW order \in Seq(DOMAIN sessions), NEW m \in Int, NEW n \in Int,
         m <= n => 1 <= m /\ n <= Len(order)
  PROVE  LET windows == WindowsIn(SubSeq(order, m, n), sessions, config)
         IN  /\ windows \in Seq(Seq(DOMAIN table))
             /\ \A k \in 1..Len(windows) :
                  \E c \in m..n : Within(windows[k], sessions[order[c]], config)
<1>1. PICK chosen : chosen = SubSeq(order, m, n)
  OBVIOUS
<1>2. /\ chosen \in Seq(DOMAIN sessions)
      /\ \A k \in 1..Len(chosen) : chosen[k] = order[m + k - 1]
      /\ Len(chosen) = IF m <= n THEN n - m + 1 ELSE 0
  BY <1>1, Stretch
<1>3. DOMAIN chosen = 1..Len(chosen) /\ Len(chosen) \in Nat
  BY <1>2
<1>4. Picked(chosen, sessions)
  <2>1. IsFiniteSet(DOMAIN chosen)
    BY <1>3, FS_Interval
  <2>2. \A c \in DOMAIN chosen : c \in Nat /\ chosen[c] \in DOMAIN sessions
    BY <1>2, <1>3
  <2> QED
    BY <2>1, <2>2 DEF Picked
<1>5. PICK w : w = WindowsIn(chosen, sessions, config)
  OBVIOUS
<1>6. /\ w \in Seq(Seq(DOMAIN table))
      /\ \A k \in 1..Len(w) : \E c \in DOMAIN chosen : Within(w[k], sessions[chosen[c]], config)
  BY <1>4, <1>5, WindowsWithin
<1>7. ASSUME NEW k \in 1..Len(w)
      PROVE  \E c \in m..n : Within(w[k], sessions[order[c]], config)
  <2>1. PICK c \in DOMAIN chosen : Within(w[k], sessions[chosen[c]], config)
    BY <1>6
  <2>2. c \in 1..Len(chosen) /\ chosen[c] = order[m + c - 1]
    BY <1>2, <1>3
  <2>3. m + c - 1 \in m..n
    BY <1>2, <2>2
  <2> QED
    BY <2>1, <2>2, <2>3
<1> QED
  BY <1>1, <1>5, <1>6, <1>7

LEMMA NoPart ==
  ASSUME NEW gap, NEW sessions, Cut(sessions, gap), NEW config \in Configs,
         NEW order \in Seq(DOMAIN sessions), NEW m \in Int, NEW n \in Int,
         WindowsIn(SubSeq(order, m, n), sessions, config) # << >>
  PROVE  m <= n
<1> SUFFICES ASSUME ~(m <= n) PROVE FALSE
  OBVIOUS
<1>1. PICK w : w = WindowsIn(SubSeq(order, m, n), sessions, config)
  OBVIOUS
<1>2. w \in Seq(Seq(DOMAIN table)) /\ \A k \in 1..Len(w) : \E c \in m..n : TRUE
  BY <1>1, PartWithin
<1>3. m..n = {}
  OBVIOUS
<1>4. Len(w) = 0
  BY <1>2, <1>3
<1> QED
  BY <1>1, <1>2, <1>4

(* When the session a window is of began.                                  *)
LEMMA BeganThen ==
  ASSUME Drawn, NEW gap, NEW sessions, Cut(sessions, gap), NEW config \in Configs,
         NEW n \in DOMAIN sessions, NEW window, Within(window, sessions[n], config)
  PROVE  Began(window, sessions) = table[sessions[n][1]].at
<1>1. Len(window) = config.length /\ 1 \in 1..Len(window)
  BY ConfigTyped DEF Within
<1>2. PICK l \in 1..Len(sessions[n]) : window[1] = sessions[n][l]
  BY <1>1 DEF Within
<1>3. \A m \in DOMAIN sessions : DOMAIN sessions[m] = 1..Len(sessions[m])
  BY DEF Cut
<1>4. window[1] \in Range(sessions[n])
  BY <1>2, <1>3 DEF Range
<1>5. ASSUME NEW m \in DOMAIN sessions, window[1] \in Range(sessions[m])
      PROVE  m = n
  <2>1. PICK k \in 1..Len(sessions[m]) : window[1] = sessions[m][k]
    BY <1>3, <1>5 DEF Range
  <2> QED
    BY <1>2, <2>1 DEF Cut
<1>6. (CHOOSE m \in DOMAIN sessions : window[1] \in Range(sessions[m])) = n
  BY <1>4, <1>5
<1> QED
  BY <1>6 DEF Began

LEMMA RowsAre ==
  ASSUME NEW w \in Seq(Seq(DOMAIN table)), NEW i \in RowsOf(w)
  PROVE  i \in DOMAIN table /\ \E k \in 1..Len(w) : \E l \in 1..Len(w[k]) : i = w[k][l]
<1>1. PICK k \in DOMAIN w : i \in Range(w[k])
  BY DEF RowsOf
<1>2. k \in 1..Len(w) /\ w[k] \in Seq(DOMAIN table)
  BY <1>1
<1>3. PICK l \in DOMAIN w[k] : i = w[k][l]
  BY <1>1 DEF Range
<1> QED
  BY <1>2, <1>3

(* Two parts of the sessions.                                              *)
LEMMA PartsApart ==
  ASSUME Drawn, NEW gap, NEW sessions, Cut(sessions, gap), NEW config \in Configs,
         NEW order, Dealt(order, sessions, config),
         NEW m \in Int, NEW n \in Int, NEW p \in Int, NEW q \in Int,
         1 <= m, m <= n, n < p, p <= q, q <= Len(order)
  PROVE  LET a == WindowsIn(SubSeq(order, m, n), sessions, config)
             b == WindowsIn(SubSeq(order, p, q), sessions, config)
         IN  /\ \A i \in RowsOf(a), j \in RowsOf(b) :
                  i # j /\ ~Together(i, j, gap) /\ ~Together(j, i, gap)
             /\ config.chronological =>
                  \A k \in DOMAIN a, l \in DOMAIN b : Began(a[k], sessions) <= Began(b[l], sessions)
<1>1. PICK a, b : /\ a = WindowsIn(SubSeq(order, m, n), sessions, config)
                  /\ b = WindowsIn(SubSeq(order, p, q), sessions, config)
  OBVIOUS
<1>2. PICK z : z = Len(order)
  OBVIOUS
<1>3. /\ order \in Seq(DOMAIN sessions)
      /\ \A k, l \in 1..z : k # l => order[k] # order[l]
      /\ z \in Nat /\ \A k \in 1..z : order[k] \in DOMAIN sessions
  BY <1>2 DEF Dealt
<1>9. n <= Len(order) /\ 1 <= p
  BY <1>2, <1>3
<1>4. /\ a \in Seq(Seq(DOMAIN table))
      /\ \A k \in 1..Len(a) : \E c \in m..n : Within(a[k], sessions[order[c]], config)
  BY <1>1, <1>3, <1>9, PartWithin
<1>5. /\ b \in Seq(Seq(DOMAIN table))
      /\ \A k \in 1..Len(b) : \E c \in p..q : Within(b[k], sessions[order[c]], config)
  BY <1>1, <1>3, <1>9, PartWithin
<1>6. ASSUME NEW c \in m..n, NEW d \in p..q
      PROVE  /\ c \in 1..z /\ d \in 1..z /\ c < d
             /\ order[c] \in DOMAIN sessions /\ order[d] \in DOMAIN sessions /\ order[c] # order[d]
  <2>1. c \in 1..z /\ d \in 1..z /\ c < d
    BY <1>2, <1>3
  <2> QED
    BY <1>3, <2>1
<1>7. ASSUME NEW i \in RowsOf(a), NEW j \in RowsOf(b)
      PROVE  i # j /\ ~Together(i, j, gap) /\ ~Together(j, i, gap)
  <2>1. PICK k \in 1..Len(a) : \E l \in 1..Len(a[k]) : i = a[k][l]
    BY <1>4, RowsAre
  <2>2. PICK c \in m..n : Within(a[k], sessions[order[c]], config)
    BY <1>4
  <2>3. PICK x \in 1..Len(sessions[order[c]]) : i = sessions[order[c]][x]
    BY <2>1, <2>2 DEF Within
  <2>4. PICK g \in 1..Len(b) : \E l \in 1..Len(b[g]) : j = b[g][l]
    BY <1>5, RowsAre
  <2>5. PICK d \in p..q : Within(b[g], sessions[order[d]], config)
    BY <1>5
  <2>6. PICK y \in 1..Len(sessions[order[d]]) : j = sessions[order[d]][y]
    BY <2>4, <2>5 DEF Within
  <2>7. order[c] \in DOMAIN sessions /\ order[d] \in DOMAIN sessions /\ order[c] # order[d]
    BY <1>6
  <2>8. i # j /\ ~Together(i, j, gap)
    BY <2>3, <2>6, <2>7 DEF Cut
  <2>9. ~Together(j, i, gap)
    BY <2>3, <2>6, <2>7 DEF Cut
  <2> QED
    BY <2>8, <2>9
<1>8. ASSUME config.chronological, NEW k \in DOMAIN a, NEW l \in DOMAIN b
      PROVE  Began(a[k], sessions) <= Began(b[l], sessions)
  <2>1. k \in 1..Len(a) /\ l \in 1..Len(b)
    BY <1>4, <1>5
  <2>2. PICK c \in m..n : Within(a[k], sessions[order[c]], config)
    BY <1>4, <2>1
  <2>3. PICK d \in p..q : Within(b[l], sessions[order[d]], config)
    BY <1>5, <2>1
  <2>4. /\ Began(a[k], sessions) = table[sessions[order[c]][1]].at
        /\ Began(b[l], sessions) = table[sessions[order[d]][1]].at
    BY <1>6, <2>2, <2>3, BeganThen
  <2>5. table[sessions[order[c]][1]].at <= table[sessions[order[d]][1]].at
    BY <1>2, <1>6, <1>8 DEF Dealt
  <2> QED
    BY <2>4, <2>5
<1> QED
  BY <1>1, <1>7, <1>8

-----------------------------------------------------------------------------
(* The splits.                                                             *)

(* Every part has windows, of rows of the table, as long as configured.    *)
PartOf(part, config) ==
  /\ part \in Seq(Seq(DOMAIN table)) /\ part # << >>
  /\ \A k \in 1..Len(part) : Len(part[k]) = config.length

Complete(split) == << >> \notin {split.train, split.val, split.test}

PartsOf(split, config) ==
  PartOf(split.train, config) /\ PartOf(split.val, config) /\ PartOf(split.test, config)

LEMMA CountsAreNumbers ==
  ASSUME NEW n \in Nat, NEW config \in Configs
  PROVE  TestCount(n, config) \in Int /\ ValCount(n, config) \in Int
<1>1. config.test \in Nat /\ config.val \in Nat
  BY ConfigTyped
<1>2. \A x \in Nat : Rounded(x) \in Int
  BY DEF Rounded
<1>3. n * config.test \in Nat /\ n * config.val \in Nat
  BY <1>1
<1>4. TestCount(n, config) \in Int
  BY <1>2, <1>3 DEF TestCount, AtLeast
<1>5. PICK t \in Int : t = TestCount(n, config)
  BY <1>4
<1>6. ValCount(n, config) \in Int
  BY <1>2, <1>3, <1>5 DEF ValCount, AtLeast
<1> QED
  BY <1>4, <1>6

LEMMA SessionPart ==
  ASSUME NEW gap, NEW sessions, Cut(sessions, gap), NEW config \in Configs,
         NEW order \in Seq(DOMAIN sessions), NEW m \in Int, NEW n \in Int,
         m <= n => 1 <= m /\ n <= Len(order),
         WindowsIn(SubSeq(order, m, n), sessions, config) # << >>
  PROVE  PartOf(WindowsIn(SubSeq(order, m, n), sessions, config), config)
<1>1. PICK w : w = WindowsIn(SubSeq(order, m, n), sessions, config)
  OBVIOUS
<1>2. w \in Seq(Seq(DOMAIN table))
      /\ \A k \in 1..Len(w) : \E c \in m..n : Within(w[k], sessions[order[c]], config)
  BY <1>1, PartWithin
<1> QED
  BY <1>1, <1>2 DEF PartOf, Within

LEMMA SessionSplit ==
  ASSUME Drawn, NEW config \in Configs, config.strategy # "row_random",
         Complete(SplitBySession(config))
  PROVE  /\ KeptApart([config |-> config, split |-> SplitBySession(config)])
         /\ PartsOf(SplitBySession(config), config)
<1>1. PICK gap : gap = config.gap
  OBVIOUS
<1>2. PICK sessions : sessions = Sessions(gap)
  OBVIOUS
<1>3. PICK order : order = DealtOut(sessions, config)
  OBVIOUS
<1>4. PICK z : z = Len(order)
  OBVIOUS
<1>5. gap \in Nat /\ Cut(sessions, gap) /\ Dealt(order, sessions, config)
  BY <1>1, <1>2, <1>3, ConfigTyped, SessionsCut, DealtOnce
<1>6. order \in Seq(DOMAIN sessions) /\ z \in Nat
  BY <1>4, <1>5 DEF Dealt
<1>7. PICK t, v : t = TestCount(z, config) /\ v = ValCount(z, config)
  OBVIOUS
<1>8. t \in Int /\ v \in Int
  BY <1>6, <1>7, CountsAreNumbers
<1> DEFINE u == z - t - v
           Part(m, n) == WindowsIn(SubSeq(order, m, n), sessions, config)
           S == SplitBySession(config)
<1>9. S = IF order = << >> THEN [train |-> << >>, val |-> << >>, test |-> << >>]
          ELSE IF config.chronological
          THEN [train |-> Part(1, u), val |-> Part(u + 1, u + v), test |-> Part(u + v + 1, z)]
          ELSE [train |-> Part(t + v + 1, z), val |-> Part(t + 1, t + v), test |-> Part(1, t)]
  BY <1>1, <1>2, <1>3, <1>4, <1>7 DEF SplitBySession
<1>10. S.train # << >> /\ S.val # << >> /\ S.test # << >>
  BY DEF Complete
<1>11. u \in Int
  BY <1>6, <1>8
<1> DEFINE p == [config |-> config, split |-> S]
<1>12. p.split = S /\ p.config = config
  OBVIOUS
<1> HIDE DEF S, Part, u
<1>13. order # << >>
  BY <1>9, <1>10
<1>14. ASSUME NEW m \in Int, NEW n \in Int, Part(m, n) # << >>
       PROVE  m <= n
  BY <1>5, <1>6, <1>14, NoPart DEF Part
<1>15. ASSUME NEW m \in Int, NEW n \in Int, 1 <= m, n <= z, Part(m, n) # << >>
       PROVE  PartOf(Part(m, n), config)
  BY <1>4, <1>5, <1>6, <1>15, SessionPart DEF Part
<1>16. ASSUME NEW m \in Int, NEW n \in Int, NEW k \in Int, NEW l \in Int,
              1 <= m, m <= n, n < k, k <= l, l <= z
       PROVE  /\ \A i \in RowsOf(Part(m, n)), j \in RowsOf(Part(k, l)) :
                   i # j /\ ~Together(i, j, gap) /\ ~Together(j, i, gap)
              /\ config.chronological =>
                   \A x \in DOMAIN Part(m, n), y \in DOMAIN Part(k, l) :
                     Began(Part(m, n)[x], sessions) <= Began(Part(k, l)[y], sessions)
  BY <1>4, <1>5, <1>16, PartsApart DEF Part
<1>17. ASSUME /\ \A i \in RowsOf(S.train), j \in RowsOf(S.val) : i # j /\ ~Together(i, j, gap)
              /\ \A i \in RowsOf(S.train), j \in RowsOf(S.test) : i # j /\ ~Together(i, j, gap)
              /\ \A i \in RowsOf(S.val), j \in RowsOf(S.test) : i # j /\ ~Together(i, j, gap)
              /\ config.chronological =>
                   \A k \in DOMAIN S.train, n \in DOMAIN S.test :
                     Began(S.train[k], sessions) <= Began(S.test[n], sessions)
       PROVE  KeptApart(p)
  BY <1>1, <1>2, <1>12, <1>17 DEF KeptApart
<1>18. CASE config.chronological
  <2>1. /\ S.train = Part(1, u) /\ S.val = Part(u + 1, u + v) /\ S.test = Part(u + v + 1, z)
    BY <1>9, <1>13, <1>18
  <2>2. 1 <= u /\ u + 1 <= u + v /\ u + v + 1 <= z /\ u + 1 \in Int /\ u + v \in Int /\ u + v + 1 \in Int
    BY <1>6, <1>8, <1>10, <1>11, <1>14, <2>1
  <2>3. u <= z /\ u + v <= z /\ u < u + 1 /\ u + v < u + v + 1 /\ u < u + v + 1
        /\ 1 <= u + 1 /\ 1 <= u + v + 1
    BY <1>6, <1>8, <1>11, <2>2
  <2>4. PartsOf(S, config)
    BY <1>6, <1>10, <1>11, <1>15, <2>1, <2>2, <2>3 DEF PartsOf
  <2>5. \A i \in RowsOf(S.train), j \in RowsOf(S.val) : i # j /\ ~Together(i, j, gap)
    <3>1. PICK m \in Int, n \in Int : m = u + 1 /\ n = u + v
      BY <2>2
    <3>2. 1 <= u /\ u < m /\ m <= n /\ n <= z
      BY <2>2, <2>3, <3>1
    <3> QED
      BY <1>11, <1>16, <2>1, <3>1, <3>2
  <2>6. /\ \A i \in RowsOf(S.train), j \in RowsOf(S.test) : i # j /\ ~Together(i, j, gap)
        /\ \A k \in DOMAIN S.train, n \in DOMAIN S.test :
             Began(S.train[k], sessions) <= Began(S.test[n], sessions)
    BY <1>6, <1>11, <1>16, <1>18, <2>1, <2>2, <2>3
  <2>7. \A i \in RowsOf(S.val), j \in RowsOf(S.test) : i # j /\ ~Together(i, j, gap)
    BY <1>6, <1>11, <1>16, <2>1, <2>2, <2>3
  <2> QED
    BY <1>17, <2>4, <2>5, <2>6, <2>7 DEF S
<1>19. CASE ~config.chronological
  <2>1. /\ S.train = Part(t + v + 1, z) /\ S.val = Part(t + 1, t + v) /\ S.test = Part(1, t)
    BY <1>9, <1>13, <1>19
  <2>2. 1 <= t /\ t + 1 <= t + v /\ t + v + 1 <= z /\ t + 1 \in Int /\ t + v \in Int /\ t + v + 1 \in Int
    BY <1>6, <1>8, <1>10, <1>14, <2>1
  <2>3. t <= z /\ t + v <= z /\ t < t + 1 /\ t + v < t + v + 1 /\ t < t + v + 1
        /\ 1 <= t + 1 /\ 1 <= t + v + 1
    BY <1>6, <1>8, <2>2
  <2>4. PartsOf(S, config)
    BY <1>6, <1>8, <1>10, <1>15, <2>1, <2>2, <2>3 DEF PartsOf
  <2>5. \A j \in RowsOf(S.val), i \in RowsOf(S.train) : i # j /\ ~Together(i, j, gap)
    <3>1. PICK m \in Int, n \in Int, k \in Int : m = t + 1 /\ n = t + v /\ k = t + v + 1
      BY <2>2
    <3>2. 1 <= m /\ m <= n /\ n < k /\ k <= z /\ z \in Int
      BY <1>6, <2>2, <2>3, <3>1
    <3> QED
      BY <1>16, <2>1, <3>1, <3>2
  <2>6. \A j \in RowsOf(S.test), i \in RowsOf(S.train) : i # j /\ ~Together(i, j, gap)
    BY <1>6, <1>8, <1>16, <2>1, <2>2, <2>3
  <2>7. \A j \in RowsOf(S.test), i \in RowsOf(S.val) : i # j /\ ~Together(i, j, gap)
    BY <1>6, <1>8, <1>16, <2>1, <2>2, <2>3
  <2> QED
    BY <1>17, <1>19, <2>4, <2>5, <2>6, <2>7 DEF S
<1> QED
  BY <1>18, <1>19

-----------------------------------------------------------------------------
(* The split by rows.                                                      *)
Singles(s) == [k \in DOMAIN s |-> <<s[k]>>]

LEMMA SinglesPart ==
  ASSUME Drawn, NEW s \in Seq(DOMAIN table), NEW m \in Int, NEW n \in Int,
         m <= n => 1 <= m /\ n <= Len(s)
  PROVE  LET w == SubSeq(Singles(s), m, n)
         IN  /\ w \in Seq(Seq(DOMAIN table))
             /\ \A k \in 1..Len(w) :
                  m + k - 1 \in 1..Len(s) /\ m + k - 1 \in m..n /\ w[k] = <<s[m + k - 1]>>
<1>1. PICK l \in Nat : l = Len(s)
  OBVIOUS
<1>2. PICK r : r = Singles(s)
  OBVIOUS
<1>3. r \in Seq(Seq(DOMAIN table)) /\ Len(r) = l /\ \A k \in 1..l : r[k] = <<s[k]>>
  <2>1. r = [k \in 1..l |-> <<s[k]>>]
    BY <1>1, <1>2 DEF Singles
  <2>2. \A k \in 1..l : <<s[k]>> \in Seq(DOMAIN table)
    BY <1>1
  <2> QED
    BY <2>1, <2>2
<1>4. PICK w : w = SubSeq(r, m, n)
  OBVIOUS
<1>5. /\ w \in Seq(Seq(DOMAIN table)) /\ Len(w) = (IF m <= n THEN n - m + 1 ELSE 0)
      /\ \A k \in 1..Len(w) : w[k] = r[m + k - 1]
  BY <1>1, <1>3, <1>4, Stretch
<1>6. ASSUME NEW k \in 1..Len(w)
      PROVE  m + k - 1 \in 1..Len(s) /\ m + k - 1 \in m..n /\ w[k] = <<s[m + k - 1]>>
  <2>1. m + k - 1 \in 1..l /\ m + k - 1 \in m..n
    BY <1>1, <1>5
  <2> QED
    BY <1>1, <1>3, <1>5, <2>1
<1> QED
  BY <1>2, <1>4, <1>5, <1>6

(* The test part of a split by rows, whatever the rest is.                 *)
LEMMA RowTest ==
  ASSUME Drawn, NEW config \in Configs
  PROVE  LET test == SplitByRow(config).test
         IN  /\ test \in Seq(Seq(DOMAIN table))
             /\ \A k \in 1..Len(test) : Len(test[k]) = 1
<1>1. PICK s : s = AsDrawn(DOMAIN table)
  OBVIOUS
<1>2. s \in Seq(DOMAIN table)
  <2>1. Holds(s, DOMAIN table)
    BY <1>1, TableTyped, AsDrawnHolds
  <2> QED
    BY <2>1 DEF Holds
<1>3. PICK n \in Nat : n = Len(s)
  BY <1>2
<1>4. DOMAIN Singles(s) = 1..n /\ Len(Singles(s)) = n
  BY <1>2, <1>3 DEF Singles
<1> DEFINE t == (n * config.test + 100 - 1) \div 100
<1>5. SplitByRow(config).test = SubSeq(Singles(s), 1, t)
  BY <1>1, <1>4 DEF SplitByRow, Singles
<1>6. t \in Int /\ t <= n
  <2>1. config.test \in Nat /\ config.test <= 99
    BY ConfigTyped
  <2>2. PICK x \in Nat : x = n * config.test
    BY <2>1
  <2>3. x <= n * 99
    BY <2>1, <2>2
  <2>4. (x + 100 - 1) \div 100 \in Int /\ (x + 100 - 1) \div 100 <= n
    BY <2>3
  <2> QED
    BY <2>2, <2>4
<1> HIDE DEF t
<1>7. PICK w, m : m = 1 /\ w = SubSeq(Singles(s), m, t)
  OBVIOUS
<1>8. w \in Seq(Seq(DOMAIN table)) /\ \A k \in 1..Len(w) : w[k] = <<s[m + k - 1]>>
  <2>1. m \in Int /\ 1 <= m /\ t <= Len(s)
    BY <1>3, <1>7, <1>6
  <2> QED
    BY <1>2, <1>6, <1>7, <2>1, SinglesPart
<1>9. w = SplitByRow(config).test
  BY <1>5, <1>7
<1>10. ASSUME NEW k \in 1..Len(w)
       PROVE  Len(w[k]) = 1
  <2>1. PICK x : w[k] = <<x>>
    BY <1>8
  <2>2. Len(<<x>>) = 1
    OBVIOUS
  <2> QED
    BY <2>1, <2>2
<1> QED
  BY <1>8, <1>9, <1>10

LEMMA RowSplit ==
  ASSUME Drawn, NEW config \in Configs, config.strategy = "row_random",
         Complete(SplitByRow(config))
  PROVE  /\ KeptApart([config |-> config, split |-> SplitByRow(config)])
         /\ PartsOf(SplitByRow(config), config)
<1>1. PICK s : s = AsDrawn(DOMAIN table)
  OBVIOUS
<1>2. s \in Seq(DOMAIN table) /\ \A k, l \in 1..Len(s) : k # l => s[k] # s[l]
  <2>1. Holds(s, DOMAIN table)
    BY <1>1, TableTyped, AsDrawnHolds
  <2> QED
    BY <2>1 DEF Holds
<1>3. PICK n \in Nat : n = Len(s)
  BY <1>2
<1>4. DOMAIN Singles(s) = 1..n /\ Len(Singles(s)) = n
  BY <1>2, <1>3 DEF Singles
<1>5. config.test \in Nat /\ config.test <= 99 /\ config.val \in Nat /\ config.length = 1
  BY ConfigTyped
<1> DEFINE up(x, y) == (x + y - 1) \div y
           t == up(n * config.test, 100)
           v == up((n - t) * config.val, 100 - config.test)
           Part(a, b) == SubSeq(Singles(s), a, b)
           S == SplitByRow(config)
           p == [config |-> config, split |-> S]
<1>6. S = [train |-> Part(t + v + 1, n), val |-> Part(t + 1, t + v), test |-> Part(1, t)]
  <2> DEFINE rows == Singles(AsDrawn(DOMAIN table))
             z == Len(rows)
             x == up(z * config.test, 100)
             y == up((z - x) * config.val, 100 - config.test)
  <2>1. S = [train |-> SubSeq(rows, x + y + 1, z), val |-> SubSeq(rows, x + 1, x + y),
             test |-> SubSeq(rows, 1, x)]
    BY DEF SplitByRow, Singles
  <2>2. rows = Singles(s) /\ z = n
    BY <1>1, <1>4
  <2> HIDE DEF rows, z, S
  <2>3. x = t /\ y = v
    BY <2>2
  <2> HIDE DEF x, y, t, v
  <2> QED
    BY <2>1, <2>2, <2>3
<1>7. t \in Int /\ v \in Int
  <2>1. \A x \in Int : \A y \in Nat : y >= 1 => up(x, y) \in Int
    OBVIOUS
  <2>2. n * config.test \in Int
    BY <1>5
  <2>3. t \in Int
    BY <2>1, <2>2
  <2> HIDE DEF t
  <2>4. (n - t) * config.val \in Int /\ 100 - config.test \in Nat /\ 100 - config.test >= 1
    BY <1>5, <2>3
  <2> HIDE DEF up
  <2>5. up((n - t) * config.val, 100 - config.test) \in Int
    BY <2>1, <2>4
  <2> QED
    BY <2>3, <2>5
<1>8. p.split = S /\ p.config = config
  OBVIOUS
<1>9. S.train # << >> /\ S.val # << >> /\ S.test # << >>
  BY DEF Complete
<1> HIDE DEF t, v, S, Part
<1>10. ASSUME NEW a \in Int, NEW b \in Int, Part(a, b) # << >>
       PROVE  a <= b
  <2> SUFFICES ASSUME ~(a <= b) PROVE FALSE
    OBVIOUS
  <2>1. Singles(s) \in Seq(Seq(DOMAIN table))
    <3>1. Singles(s) = [k \in 1..n |-> <<s[k]>>]
      BY <1>2, <1>3 DEF Singles
    <3>2. \A k \in 1..n : <<s[k]>> \in Seq(DOMAIN table)
      BY <1>2, <1>3
    <3> QED
      BY <3>1, <3>2
  <2>2. PICK w : w = SubSeq(Singles(s), a, b)
    OBVIOUS
  <2>3. w \in Seq(Seq(DOMAIN table)) /\ Len(w) = 0
    BY <2>1, <2>2, Stretch
  <2> QED
    BY <1>10, <2>2, <2>3 DEF Part
<1>11. ASSUME NEW a \in Int, NEW b \in Int, 1 <= a, b <= n
       PROVE  /\ Part(a, b) \in Seq(Seq(DOMAIN table))
              /\ \A k \in 1..Len(Part(a, b)) : \E c \in a..b : c \in 1..n /\ Part(a, b)[k] = <<s[c]>>
  <2>1. PICK w : w = SubSeq(Singles(s), a, b)
    OBVIOUS
  <2>2. /\ w \in Seq(Seq(DOMAIN table))
        /\ \A k \in 1..Len(w) :
             a + k - 1 \in 1..Len(s) /\ a + k - 1 \in a..b /\ w[k] = <<s[a + k - 1]>>
    BY <1>2, <1>3, <1>11, <2>1, SinglesPart
  <2> QED
    BY <1>3, <2>1, <2>2 DEF Part
<1>12. ASSUME NEW a \in Int, NEW b \in Int, 1 <= a, b <= n, Part(a, b) # << >>
       PROVE  PartOf(Part(a, b), config)
  <2>1. PICK w : w = Part(a, b)
    OBVIOUS
  <2>2. /\ w \in Seq(Seq(DOMAIN table))
        /\ \A k \in 1..Len(w) : \E c \in a..b : c \in 1..n /\ w[k] = <<s[c]>>
    BY <1>11, <1>12, <2>1
  <2>3. ASSUME NEW k \in 1..Len(w) PROVE Len(w[k]) = 1
    <3>1. PICK x : w[k] = <<x>>
      BY <2>2
    <3>2. Len(<<x>>) = 1
      OBVIOUS
    <3> QED
      BY <3>1, <3>2
  <2> QED
    BY <1>5, <1>12, <2>1, <2>2, <2>3 DEF PartOf
<1>13. ASSUME NEW a \in Int, NEW b \in Int, 1 <= a, b <= n, NEW i \in RowsOf(Part(a, b))
       PROVE  \E c \in a..b : c \in 1..n /\ i = s[c]
  <2>1. PICK w : w = Part(a, b)
    OBVIOUS
  <2>2. /\ w \in Seq(Seq(DOMAIN table))
        /\ \A k \in 1..Len(w) : \E c \in a..b : c \in 1..n /\ w[k] = <<s[c]>>
    BY <1>11, <1>13, <2>1
  <2>3. PICK k \in 1..Len(w) : \E l \in 1..Len(w[k]) : i = w[k][l]
    BY <1>13, <2>1, <2>2, RowsAre
  <2>4. PICK c \in a..b : c \in 1..n /\ w[k] = <<s[c]>>
    BY <2>2
  <2>5. PICK l \in 1..Len(<<s[c]>>) : i = <<s[c]>>[l]
    BY <2>3, <2>4
  <2>6. Len(<<s[c]>>) = 1 /\ <<s[c]>>[1] = s[c]
    OBVIOUS
  <2>7. l = 1
    BY <2>6
  <2> QED
    BY <2>4, <2>5, <2>6, <2>7
<1>14. ASSUME NEW a \in Int, NEW b \in Int, NEW c \in Int, NEW d \in Int,
              1 <= a, a <= b, b < c, c <= d, d <= n
       PROVE  \A i \in RowsOf(Part(a, b)), j \in RowsOf(Part(c, d)) : i # j
  <2> SUFFICES ASSUME NEW i \in RowsOf(Part(a, b)), NEW j \in RowsOf(Part(c, d)) PROVE i # j
    OBVIOUS
  <2>1. b <= n /\ 1 <= c
    BY <1>14
  <2>2. PICK x \in a..b : x \in 1..n /\ i = s[x]
    BY <1>13, <1>14, <2>1
  <2>3. PICK y \in c..d : y \in 1..n /\ j = s[y]
    BY <1>13, <1>14, <2>1
  <2>4. x # y
    BY <1>14, <2>2, <2>3
  <2> QED
    BY <1>2, <1>3, <2>2, <2>3, <2>4
<1>15. S.train = Part(t + v + 1, n) /\ S.val = Part(t + 1, t + v) /\ S.test = Part(1, t)
  BY <1>6
<1>16. PICK a \in Int, b \in Int, c \in Int : a = t + 1 /\ b = t + v /\ c = t + v + 1
  BY <1>7
<1>17. S.train = Part(c, n) /\ S.val = Part(a, b) /\ S.test = Part(1, t)
  BY <1>15, <1>16
<1>18. /\ 1 <= t /\ t < a /\ a <= b /\ b < c /\ c <= n /\ t <= n /\ b <= n /\ 1 <= a /\ 1 <= c /\ t < c
  <2>1. 1 <= t /\ a <= b /\ c <= n
    BY <1>7, <1>9, <1>10, <1>17
  <2> QED
    BY <1>7, <1>16, <2>1
<1>19. PartsOf(S, config)
  BY <1>7, <1>9, <1>12, <1>17, <1>18 DEF PartsOf
<1>20. /\ \A i \in RowsOf(S.train), j \in RowsOf(S.val) : i # j
       /\ \A i \in RowsOf(S.train), j \in RowsOf(S.test) : i # j
       /\ \A i \in RowsOf(S.val), j \in RowsOf(S.test) : i # j
  <2>1. \A j \in RowsOf(S.val), i \in RowsOf(S.train) : j # i
    BY <1>14, <1>17, <1>18
  <2>2. \A j \in RowsOf(S.test), i \in RowsOf(S.train) : j # i
    BY <1>7, <1>14, <1>17, <1>18
  <2>3. \A j \in RowsOf(S.test), i \in RowsOf(S.val) : j # i
    BY <1>7, <1>14, <1>17, <1>18
  <2> QED
    BY <2>1, <2>2, <2>3
<1>21. KeptApart(p)
  <2> HIDE DEF p
  <2> QED
    BY <1>8, <1>20 DEF KeptApart
<1> QED
  BY <1>19, <1>21 DEF S

(* Whatever the table, the columns it is grouped by, the seed and the      *)
(* configuration, by rows or by sessions, with windows of any length and   *)
(* stride, shuffled or not: no part empty, the parts of a split are kept   *)
(* apart, as KeptApart says it of flows.                                   *)
THEOREM PreparationApart ==
  ASSUME Drawn, NEW config \in Configs, Complete(Split(config))
  PROVE  KeptApart(Preparation(config)) /\ PartsOf(Split(config), config)
<1>1. CASE config.strategy = "row_random"
  <2>1. Split(config) = SplitByRow(config)
    BY <1>1 DEF Split
  <2> QED
    BY <1>1, <2>1, RowSplit DEF Preparation
<1>2. CASE config.strategy # "row_random"
  <2>1. Split(config) = SplitBySession(config)
    BY <1>2 DEF Split
  <2> QED
    BY <1>2, <2>1, SessionSplit DEF Preparation
<1> QED
  BY <1>1, <1>2

-----------------------------------------------------------------------------
(* With the table and the seed what a configuration prepares is fixed.     *)
LEMMA SplitFixed ==
  ASSUME UNCHANGED <<table, seeded>>
  PROVE  \A c \in Configs : Split(c)' = Split(c) /\ Preparation(c)' = Preparation(c)
<1> SUFFICES ASSUME NEW CONSTANT c \in Configs
             PROVE  Split(c)' = Split(c) /\ Preparation(c)' = Preparation(c)
  OBVIOUS
<1>1. Timed' = Timed
  BY DEF Timed
<1>2. Ordered' = Ordered
  BY <1>1 DEF Ordered, SortsBefore
<1>3. ASSUME NEW CONSTANT g PROVE Sessions(g)' = Sessions(g)
  <2>1. ASSUME NEW CONSTANT o PROVE Starts(o, g)' = Starts(o, g)
    BY DEF Starts
  <2>2. PICK o : o = Ordered
    OBVIOUS
  <2>3. Starts(Ordered, g)' = Starts(Ordered, g)
    BY <1>2 DEF Starts
  <2> QED
    BY <1>2, <2>3 DEF Sessions
<1>4. ASSUME NEW CONSTANT s PROVE AsDrawn(s)' = AsDrawn(s)
  BY DEF AsDrawn
<1>5. ASSUME NEW CONSTANT s PROVE DealtOut(s, c)' = DealtOut(s, c)
  BY DEF DealtOut, AsDrawn
<1>6. SplitBySession(c)' = SplitBySession(c)
  <2>1. Sessions(c.gap)' = Sessions(c.gap)
    BY <1>3
  <2>2. DealtOut(Sessions(c.gap), c)' = DealtOut(Sessions(c.gap), c)
    BY <2>1 DEF DealtOut, AsDrawn
  <2> QED
    BY <2>1, <2>2 DEF SplitBySession
<1>7. SplitByRow(c)' = SplitByRow(c)
  BY DEF SplitByRow, AsDrawn
<1>8. Split(c)' = Split(c)
  BY <1>6, <1>7 DEF Split
<1> QED
  BY <1>8 DEF Preparation

(* What is on the disk is whole: from a configuration, with no empty part. *)
Sound(p) == \E c \in Configs : p = Preparation(c) /\ Complete(Split(c))

WholeSound(file) == \E c \in Configs : file = Whole(Preparation(c)) /\ Complete(Split(c))

LEMMA SoundFixed ==
  ASSUME UNCHANGED <<table, seeded>>, NEW CONSTANT p
  PROVE  (Sound(p)' <=> Sound(p)) /\ (WholeSound(p)' <=> WholeSound(p))
<1>1. \A c \in Configs : Split(c)' = Split(c) /\ Preparation(c)' = Preparation(c)
  BY SplitFixed
<1> QED
  BY <1>1 DEF Sound, WholeSound

LEMMA SoundWhole ==
  ASSUME NEW file
  PROVE  WholeSound(file) <=> \E p : Sound(p) /\ file = Whole(p)
BY DEF Sound, WholeSound

LEMMA SoundKept ==
  ASSUME Drawn, NEW p, Sound(p)
  PROVE  KeptApart(p) /\ PartsOf(p.split, p.config) /\ p.config \in Configs
<1>1. PICK c \in Configs : p = Preparation(c) /\ Complete(Split(c))
  BY DEF Sound
<1>2. p.config = c /\ p.split = Split(c)
  BY <1>1 DEF Preparation
<1> QED
  BY <1>1, <1>2, PreparationApart

LEMMA WholeKept ==
  ASSUME Drawn, NEW file, WholeSound(file)
  PROVE  /\ file.is = "whole" /\ file # Missing /\ file # Torn
         /\ PartsOf(file.of.split, file.of.config) /\ file.of.config \in Configs
         /\ KeptApart(file.of)
<1>1. PICK p : Sound(p) /\ file = Whole(p)
  BY SoundWhole
<1>2. file.of = p /\ file.is = "whole"
  BY <1>1 DEF Whole
<1> QED
  BY <1>1, <1>2, SoundKept DEF Missing, Torn

(* The held-out rows.                                                      *)
LEMMA HeldoutRows ==
  ASSUME Drawn, NEW config, NEW test \in Seq(Seq(DOMAIN table)),
         \A k \in 1..Len(test) : Len(test[k]) >= 1
  PROVE  LET idx == HeldoutOf(config, test)
         IN  /\ idx \in Seq(DOMAIN table)
             /\ \A i \in Range(idx) : i \in RowsOf(test)
             /\ config.strategy # "windows" =>
                  Len(idx) = Len(test) /\ \A k \in 1..Len(test) : idx[k] = test[k][1]
<1>1. PICK n \in Nat : n = Len(test)
  OBVIOUS
<1>2. DOMAIN test = 1..n
  BY <1>1
<1>3. ASSUME NEW k \in 1..n
      PROVE  /\ test[k][1] \in DOMAIN table /\ test[k][1] \in RowsOf(test)
             /\ Last(test[k]) \in DOMAIN table /\ Last(test[k]) \in RowsOf(test)
  <2>1. PICK w \in Seq(DOMAIN table) : w = test[k] /\ Len(w) >= 1
    BY <1>1
  <2>2. 1 \in 1..Len(w) /\ Len(w) \in 1..Len(w) /\ DOMAIN w = 1..Len(w)
    BY <2>1
  <2>3. w[1] \in DOMAIN table /\ w[Len(w)] \in DOMAIN table
    BY <2>2
  <2>4. w[1] \in Range(w) /\ w[Len(w)] \in Range(w)
    BY <2>2 DEF Range
  <2>5. \A i \in Range(test[k]) : i \in RowsOf(test)
    BY <1>2 DEF RowsOf
  <2> QED
    BY <2>1, <2>3, <2>4, <2>5 DEF Last
<1>4. PICK idx : idx = HeldoutOf(config, test)
  OBVIOUS
<1>5. CASE config.strategy # "windows"
  <2>1. idx = [k \in 1..n |-> test[k][1]]
    BY <1>2, <1>4, <1>5 DEF HeldoutOf
  <2>4. idx \in [1..n -> DOMAIN table]
    BY <1>3, <2>1
  <2>2. idx \in Seq(DOMAIN table) /\ Len(idx) = n /\ \A k \in 1..n : idx[k] = test[k][1]
    <3>1. idx \in Seq(DOMAIN table) /\ Len(idx) = n
      BY <2>4
    <3>2. \A k \in 1..n : idx[k] = test[k][1]
      BY <2>1
    <3> QED
      BY <3>1, <3>2
  <2>3. \A i \in Range(idx) : i \in RowsOf(test)
    BY <1>3, <2>1 DEF Range
  <2> QED
    BY <1>1, <1>4, <2>2, <2>3
<1>6. CASE config.strategy = "windows"
  <2> DEFINE f == [k \in 1..n |-> Last(test[k])]
             T == {f[k] : k \in 1..n}
  <2>1. T = {Last(test[k]) : k \in DOMAIN test}
    BY <1>2
  <2>2. f \in Surjection(1..n, T)
    BY DEF Surjection
  <2>3. IsFiniteSet(1..n)
    BY FS_Interval
  <2>4. \A i \in T : i \in DOMAIN table /\ i \in RowsOf(test)
    BY <1>3
  <2>5. idx = InOrder(T)
    BY <1>4, <1>6, <2>1 DEF HeldoutOf
  <2> HIDE DEF T, f
  <2>6. IsFiniteSet(T)
    BY <2>2, <2>3, FS_Surjection
  <2>7. \A i \in T : i \in Nat
    BY <2>4, TableTyped
  <2>8. idx \in Seq(T)
    BY <2>5, <2>6, <2>7, InOrderGrows DEF Grows
  <2>9. idx \in Seq(DOMAIN table)
    BY <2>4, <2>8
  <2>10. \A i \in Range(idx) : i \in T
    BY <2>8 DEF Range
  <2> QED
    BY <1>4, <1>6, <2>4, <2>9, <2>10
<1> QED
  BY <1>5, <1>6

-----------------------------------------------------------------------------
(* The inductive invariant of the preparation: what is on the disk and     *)
(* what is under way was prepared whole, and a file is torn only after a   *)
(* preparation was cut short.                                              *)
Preparing ==
  /\ Drawn
  /\ \A file \in Files : disk[file] \in {Missing, Torn} \/ WholeSound(disk[file])
  /\ disk["arrays"] = Torn => prepCut
  /\ preparing # Resting => Sound(preparing.of)
  /\ started \in [preparations : 0..MaxPreparations, partitions : 0..MaxPartitions]
  /\ prepCut \in BOOLEAN /\ partCut \in BOOLEAN

(* Clients are dealt examples of arrays that are whole.                    *)
DealOf(deal, file) == deal \in [DOMAIN file.of.split.train -> Clients]

Dealings(c, deal) == InOrder(ShareOf(deal, c))

(* The inductive invariant of the partition: a client that is not left to  *)
(* write has its examples, and so has every client of a partition that was *)
(* not cut short.                                                          *)
Partitioning ==
  /\ DOMAIN partitions = Clients /\ \A c \in Clients : partitions[c] \in Seq(Nat)
  /\ partitioning # Resting =>
       /\ partitioning = [left |-> partitioning.left, deal |-> partitioning.deal,
                          of |-> partitioning.of]
       /\ partitioning.left \in Seq(Clients) /\ partitioning.left # << >>
       /\ WholeSound(partitioning.of) /\ DealOf(partitioning.deal, partitioning.of)
       /\ \A c \in Clients : \/ \E k \in 1..Len(partitioning.left) : partitioning.left[k] = c
                             \/ partitions[c] = Dealings(c, partitioning.deal)
  /\ ~partCut =>
       /\ WholeSound(disk["arrays"])
       /\ \E deal : DealOf(deal, disk["arrays"])
                      /\ \A c \in Clients : partitions[c] = Dealings(c, deal)

LEMMA InitPreparing == Init => Preparing /\ Partitioning
<1> SUFFICES ASSUME Init PROVE Preparing /\ Partitioning
  OBVIOUS
<1>1. /\ table \in Tables /\ seeded \in Seeds
      /\ disk = [file \in Files |-> Missing]
      /\ preparing = Resting /\ partitioning = Resting
      /\ partitions = [c \in Clients |-> << >>]
      /\ started = [preparations |-> 0, partitions |-> 0]
      /\ prepCut = FALSE /\ partCut = TRUE
  BY DEF Init, PrepInit
<1>2. 0 \in 0..MaxPreparations /\ 0 \in 0..MaxPartitions
  BY InputsAssumption
<1>3. Preparing
  <2>1. disk["arrays"] # Torn
    BY <1>1 DEF Files, Missing, Torn
  <2> QED
    BY <1>1, <1>2, <2>1 DEF Preparing, Drawn
<1>4. Partitioning
  BY <1>1 DEF Partitioning
<1> QED
  BY <1>3, <1>4

LEMMA StartKeepsPreparing ==
  ASSUME Preparing, NEW config \in Configs, Preprocess(config)
  PROVE  Preparing'
<1>1. /\ UNCHANGED <<table, seeded, disk, prepCut, partCut>>
      /\ started.preparations < MaxPreparations
      /\ started' = [started EXCEPT !.preparations = @ + 1]
  BY DEF Preprocess
<1>2. preparing' # Resting => Sound(preparing'.of)
  <2> SUFFICES ASSUME preparing' # Resting PROVE Sound(preparing'.of)
    OBVIOUS
  <2>1. /\ << >> \notin {Preparation(config).split.train, Preparation(config).split.val,
                         Preparation(config).split.test}
        /\ preparing' = [left |-> FilesOf(config), of |-> Preparation(config)]
    BY DEF Preprocess
  <2>2. Preparation(config).split = Split(config)
    BY DEF Preparation
  <2> QED
    BY <2>1, <2>2 DEF Sound, Complete
<1>3. started' \in [preparations : 0..MaxPreparations, partitions : 0..MaxPartitions]
  <2>1. started \in [preparations : 0..MaxPreparations, partitions : 0..MaxPartitions]
    BY DEF Preparing
  <2>2. started.preparations + 1 \in 0..MaxPreparations
    BY <1>1, <2>1, InputsAssumption
  <2> QED
    BY <1>1, <2>1, <2>2
<1>4. PICK of, d : of = preparing'.of /\ d = disk
  OBVIOUS
<1>5. (preparing' # Resting => Sound(of)') /\ \A file \in Files : WholeSound(d[file])' <=> WholeSound(d[file])
  BY <1>1, <1>2, <1>4, SoundFixed
<1> QED
  BY <1>1, <1>3, <1>4, <1>5 DEF Preparing, Drawn

LEMMA SaveKeepsPreparing ==
  ASSUME Preparing, WrittenInOrder, SaveFile
  PROVE  Preparing'
<1> DEFINE left == preparing.left
           file == Head(left)
<1>1. /\ preparing # Resting /\ left \in FilesLeft
      /\ preparing = [left |-> left, of |-> preparing.of] /\ DOMAIN disk = Files
  BY DEF SaveFile, WrittenInOrder
<1>2. /\ disk' = [disk EXCEPT ![file] = Whole(preparing.of)]
      /\ preparing' = IF Tail(left) = << >> THEN Resting ELSE [preparing EXCEPT !.left = Tail(left)]
      /\ partCut' = (partCut \/ (file = "arrays" /\ disk["arrays"] # Whole(preparing.of)))
      /\ UNCHANGED <<table, seeded, started, prepCut>>
  BY DEF SaveFile
<1>3. \A f \in Files : disk'[f] = IF f = file THEN Whole(preparing.of) ELSE disk[f]
  BY <1>1, <1>2, LeftShrinks
<1>4. Sound(preparing.of) /\ WholeSound(Whole(preparing.of)) /\ Whole(preparing.of) # Torn
  BY <1>1, SoundWhole DEF Preparing, Whole, Torn
<1>5. preparing' = Resting \/ preparing'.of = preparing.of
  BY <1>1, <1>2
<1>6. PICK of, d : of = preparing'.of /\ d = disk'
  OBVIOUS
<1>7. preparing' # Resting => Sound(of)'
  BY <1>2, <1>4, <1>5, <1>6, SoundFixed
<1>8. \A f \in Files : d[f] \in {Missing, Torn} \/ WholeSound(d[f])'
  <2>1. \A f \in Files : d[f] \in {Missing, Torn} \/ WholeSound(d[f])
    BY <1>3, <1>4, <1>6 DEF Preparing
  <2> QED
    BY <1>2, <2>1, SoundFixed
<1>9. d["arrays"] = Torn => prepCut
  BY <1>3, <1>4, <1>6 DEF Preparing, Files
<1> QED
  BY <1>2, <1>6, <1>7, <1>8, <1>9 DEF Preparing, Drawn

LEMMA StopKeepsPreparing ==
  ASSUME Preparing, WrittenInOrder, StopPreparing
  PROVE  Preparing'
<1>1. /\ preparing # Resting /\ preparing' = Resting /\ prepCut' = TRUE
      /\ disk' = disk \/ disk' = [disk EXCEPT ![Head(preparing.left)] = Torn]
      /\ partCut' = (partCut \/ disk'["arrays"] # disk["arrays"])
      /\ UNCHANGED <<table, seeded, started>>
  BY DEF StopPreparing
<1>2. PICK d : d = disk'
  OBVIOUS
<1>3. \A f \in Files : d[f] = Torn \/ d[f] = disk[f]
  BY <1>1, <1>2 DEF WrittenInOrder
<1>4. \A f \in Files : d[f] \in {Missing, Torn} \/ WholeSound(d[f])'
  <2>1. \A f \in Files : d[f] \in {Missing, Torn} \/ WholeSound(d[f])
    BY <1>3 DEF Preparing
  <2> QED
    BY <1>1, <2>1, SoundFixed
<1> QED
  BY <1>1, <1>2, <1>4 DEF Preparing, Drawn

LEMMA OthersKeepPreparing ==
  ASSUME Preparing, UNCHANGED <<table, seeded, disk, preparing, prepCut>>,
         started' \in [preparations : 0..MaxPreparations, partitions : 0..MaxPartitions],
         partCut' \in BOOLEAN
  PROVE  Preparing'
<1>1. PICK of, d : of = preparing'.of /\ d = disk'
  OBVIOUS
<1>2. preparing' # Resting => Sound(of)'
  BY <1>1, SoundFixed DEF Preparing
<1>3. \A f \in Files : d[f] \in {Missing, Torn} \/ WholeSound(d[f])'
  <2>1. \A f \in Files : d[f] \in {Missing, Torn} \/ WholeSound(d[f])
    BY <1>1 DEF Preparing
  <2> QED
    BY <2>1, SoundFixed
<1> QED
  BY <1>1, <1>2, <1>3 DEF Preparing, Drawn

LEMMA PrepareKeepsPreparing ==
  ASSUME Preparing, WrittenInOrder, TableOf, Prepare
  PROVE  Preparing'
<1>1. started \in [preparations : 0..MaxPreparations, partitions : 0..MaxPartitions]
      /\ partCut \in BOOLEAN
  BY DEF Preparing
<1>2. ASSUME NEW config \in Study.configs, Preprocess(config)
      PROVE  Preparing'
  <2>1. config \in Configs
    BY StudiesAssumption DEF TableOf, Study
  <2> QED
    BY <1>2, <2>1, StartKeepsPreparing
<1>3. ASSUME NEW deal, CreatePartitions(deal)
      PROVE  Preparing'
  <2>1. /\ started.partitions < MaxPartitions
        /\ started' = [started EXCEPT !.partitions = @ + 1]
        /\ UNCHANGED <<table, seeded, disk, preparing, prepCut, partCut>>
    BY <1>3 DEF CreatePartitions
  <2>2. started.partitions + 1 \in 0..MaxPartitions
    BY <1>1, <2>1, InputsAssumption
  <2>3. started' \in [preparations : 0..MaxPreparations, partitions : 0..MaxPartitions]
    BY <1>1, <2>1, <2>2
  <2> QED
    BY <1>1, <2>1, <2>3, OthersKeepPreparing
<1>4. CASE SavePartition \/ StopPartitioning
  <2>1. UNCHANGED <<table, seeded, disk, preparing, started, prepCut>>
    BY <1>4 DEF SavePartition, StopPartitioning
  <2>2. partCut' \in BOOLEAN
    BY <1>1, <1>4 DEF SavePartition, StopPartitioning
  <2> QED
    BY <1>1, <2>1, <2>2, OthersKeepPreparing
<1> QED
  BY <1>2, <1>3, <1>4, SaveKeepsPreparing, StopKeepsPreparing DEF Prepare

LEMMA ClientsListed ==
  /\ InOrder(Clients) \in Seq(Clients) /\ InOrder(Clients) # << >>
  /\ \A c \in Clients : \E k \in 1..Len(InOrder(Clients)) : InOrder(Clients)[k] = c
<1>1. IsFiniteSet(Clients) /\ Clients # {} /\ \A c \in Clients : c \in Nat
  BY InputsAssumption
<1>2. Grows(InOrder(Clients), Clients)
  BY <1>1, InOrderGrows
<1>3. PICK s : s = InOrder(Clients)
  OBVIOUS
<1>4. s \in Seq(Clients) /\ \A c \in Clients : \E k \in 1..Len(s) : s[k] = c
  BY <1>2, <1>3 DEF Grows
<1>5. s # << >>
  BY <1>1, <1>4
<1> QED
  BY <1>3, <1>4, <1>5

(* What a client is dealt, as it is written.                               *)
LEMMA DealingsGrow ==
  ASSUME Drawn, NEW file, WholeSound(file), NEW deal, DealOf(deal, file), NEW c \in Clients
  PROVE  LET s == Dealings(c, deal)
         IN  /\ s \in Seq(Nat) /\ Len(s) \in Nat
             /\ \A k \in 1..Len(s) : s[k] \in DOMAIN deal /\ deal[s[k]] = c
             /\ \A i \in DOMAIN deal : deal[i] = c => \E k \in 1..Len(s) : s[k] = i
             /\ \A k, l \in 1..Len(s) : k < l => s[k] < s[l]
<1>1. PICK D : D = {k \in DOMAIN deal : deal[k] = c}
  OBVIOUS
<1>2. file.of.split.train \in Seq(Seq(DOMAIN table))
  BY WholeKept DEF PartsOf, PartOf
<1>3. PICK n \in Nat : DOMAIN file.of.split.train = 1..n
  BY <1>2
<1>4. DOMAIN deal = 1..n
  BY <1>1, <1>3 DEF DealOf
<1>5. D \in SUBSET (1..n) /\ IsFiniteSet(1..n)
  BY <1>1, <1>4, FS_Interval
<1>6. IsFiniteSet(D) /\ \A i \in D : i \in Nat
  <2>1. \A i \in D : i \in Nat
    BY <1>1, <1>4
  <2> QED
    BY <1>5, <2>1, FS_Subset
<1>7. PICK s : s = InOrder(D)
  OBVIOUS
<1>8. Grows(s, D)
  BY <1>6, <1>7, InOrderGrows
<1>9. /\ s \in Seq(D) /\ Len(s) = Cardinality(D)
      /\ \A i \in D : \E k \in 1..Len(s) : s[k] = i
      /\ \A k, l \in 1..Len(s) : k < l => s[k] < s[l]
  BY <1>8 DEF Grows
<1>10. Len(s) \in Nat
  BY <1>9
<1>11. s \in Seq(Nat)
  BY <1>6, <1>9
<1>12. \A k \in 1..Len(s) : s[k] \in D
  BY <1>9
<1> QED
  BY <1>1, <1>7, <1>9, <1>10, <1>11, <1>12 DEF Dealings, ShareOf

LEMMA SaveKeepsPartitioning ==
  ASSUME Preparing, Partitioning, SavePartition
  PROVE  Partitioning'
<1>1. PICK left, deal, of : partitioning = [left |-> left, deal |-> deal, of |-> of]
  BY DEF SavePartition, Partitioning
<1>2. /\ partitioning.left = left /\ partitioning.deal = deal /\ partitioning.of = of
      /\ partitioning # Resting
  BY <1>1 DEF SavePartition
<1>3. /\ left \in Seq(Clients) /\ left # << >>
      /\ WholeSound(of) /\ DealOf(deal, of)
      /\ \A c \in Clients : (\E k \in 1..Len(left) : left[k] = c) \/ partitions[c] = Dealings(c, deal)
      /\ DOMAIN partitions = Clients /\ \A c \in Clients : partitions[c] \in Seq(Nat)
  BY <1>2 DEF Partitioning
<1> DEFINE h == Head(left)
           t == Tail(left)
<1>4. /\ partitions' = [partitions EXCEPT ![h] = Dealings(h, deal)]
      /\ partitioning' = IF t = << >> THEN Resting ELSE [partitioning EXCEPT !.left = t]
      /\ partCut' = (t # << >> \/ of # disk["arrays"])
      /\ UNCHANGED <<table, seeded, disk>>
  BY <1>2 DEF SavePartition, Dealings
<1>5. h \in Clients /\ t \in Seq(Clients)
      /\ \A k \in 1..Len(left) : left[k] = h \/ \E l \in 1..Len(t) : t[l] = left[k]
  <2>1. PICK n \in Nat : n = Len(left) /\ n >= 1
    BY <1>3
  <2>2. h = left[1] /\ Len(t) = n - 1 /\ \A l \in 1..n - 1 : t[l] = left[l + 1]
    BY <1>3, <2>1
  <2>3. ASSUME NEW k \in 1..n, k # 1 PROVE \E l \in 1..Len(t) : t[l] = left[k]
    <3>1. k - 1 \in 1..n - 1 /\ (k - 1) + 1 = k
      BY <2>3
    <3> QED
      BY <2>2, <3>1
  <2>4. h \in Clients /\ t \in Seq(Clients)
    BY <1>3, <2>1
  <2> QED
    BY <2>1, <2>2, <2>3, <2>4
<1> HIDE DEF h, t
<1>6. Drawn
  BY DEF Preparing
<1>7. \A c \in Clients : partitions'[c] = IF c = h THEN Dealings(h, deal) ELSE partitions[c]
  BY <1>3, <1>4
<1>8. DOMAIN partitions' = Clients /\ \A c \in Clients : partitions'[c] \in Seq(Nat)
  <2>1. Dealings(h, deal) \in Seq(Nat)
    BY <1>3, <1>5, <1>6, DealingsGrow
  <2> QED
    BY <1>3, <1>4, <1>7, <2>1
<1>9. \A c \in Clients : (\E k \in 1..Len(t) : t[k] = c) \/ partitions'[c] = Dealings(c, deal)
  <2> SUFFICES ASSUME NEW c \in Clients, ~(\E k \in 1..Len(t) : t[k] = c), c # h
               PROVE  partitions'[c] = Dealings(c, deal)
    BY <1>7
  <2>1. ~(\E k \in 1..Len(left) : left[k] = c)
    BY <1>5
  <2> QED
    BY <1>3, <1>7, <2>1
<1>10. WholeSound(of)' /\ DealOf(deal, of)
  BY <1>3, <1>4, SoundFixed
<1>11. ~partCut' => t = << >> /\ of = disk["arrays"]
  BY <1>4
<1>12. CASE t = << >>
  <2>1. partitioning' = Resting
    BY <1>4, <1>12
  <2>2. \A c \in Clients : partitions'[c] = Dealings(c, deal)
    BY <1>9, <1>12
  <2>3. PICK d : d = disk["arrays"]
    OBVIOUS
  <2>4. ~partCut' => WholeSound(d)'
    BY <1>10, <1>11, <2>3
  <2>5. ~partCut' => \E e : DealOf(e, d) /\ \A c \in Clients : partitions'[c] = Dealings(c, e)
    BY <1>10, <1>11, <2>2, <2>3
  <2> QED
    BY <1>4, <1>8, <2>1, <2>3, <2>4, <2>5 DEF Partitioning, DealOf, Dealings, InOrder, Arranged
<1>13. CASE t # << >>
  <2>1. partCut' = TRUE
    BY <1>4, <1>13
  <2>2. partitioning' = [left |-> t, deal |-> deal, of |-> of]
    BY <1>1, <1>4, <1>13
  <2>3. partitioning'.left = t /\ partitioning'.deal = deal /\ partitioning'.of = of
    BY <2>2
  <2>4. PICK p : p = partitioning'
    OBVIOUS
  <2>5. /\ p = [left |-> p.left, deal |-> p.deal, of |-> p.of]
        /\ p.left = t /\ p.deal = deal /\ p.of = of
    BY <2>2, <2>3, <2>4
  <2>6. WholeSound(p.of)' /\ DealOf(p.deal, p.of)
    BY <1>10, <2>5
  <2> QED
    BY <1>5, <1>8, <1>9, <1>13, <2>1, <2>4, <2>5, <2>6 DEF Partitioning
<1> QED
  BY <1>12, <1>13

LEMMA OthersKeepPartitioning ==
  ASSUME Partitioning, UNCHANGED <<table, seeded, partitions>>,
         partitioning' = partitioning \/ partitioning' = Resting,
         ~partCut' => ~partCut /\ disk'["arrays"] = disk["arrays"]
  PROVE  Partitioning'
<1>1. PICK p : p = partitioning'
  OBVIOUS
<1>2. p # Resting => p = partitioning /\ WholeSound(p.of)'
  <2>1. p # Resting => p = partitioning /\ WholeSound(p.of)
    BY <1>1 DEF Partitioning
  <2> QED
    BY <2>1, SoundFixed
<1>3. PICK d : d = disk["arrays"]
  OBVIOUS
<1>4. ~partCut' => /\ WholeSound(d)' /\ d = disk'["arrays"]
                   /\ \E deal : DealOf(deal, d) /\ \A c \in Clients : partitions[c] = Dealings(c, deal)
  <2>1. ~partCut' => /\ WholeSound(d) /\ d = disk'["arrays"]
                     /\ \E deal : DealOf(deal, d) /\ \A c \in Clients : partitions[c] = Dealings(c, deal)
    BY <1>3 DEF Partitioning
  <2> QED
    BY <2>1, SoundFixed
<1>5. p # Resting =>
       /\ p = [left |-> p.left, deal |-> p.deal, of |-> p.of]
       /\ p.left \in Seq(Clients) /\ p.left # << >>
       /\ WholeSound(p.of)' /\ DealOf(p.deal, p.of)
       /\ \A c \in Clients : (\E k \in 1..Len(p.left) : p.left[k] = c)
                               \/ partitions[c] = Dealings(c, p.deal)
  BY <1>2 DEF Partitioning
<1>6. DOMAIN partitions = Clients /\ \A c \in Clients : partitions[c] \in Seq(Nat)
  BY DEF Partitioning
<1> QED
  BY <1>1, <1>3, <1>4, <1>5, <1>6 DEF Partitioning

LEMMA CreateKeepsPartitioning ==
  ASSUME Preparing, Partitioning, NEW deal \in [DOMAIN Arrays.train -> Clients],
         CreatePartitions(deal)
  PROVE  Partitioning'
<1>1. /\ Readable("arrays")
      /\ partitioning' = [left |-> InOrder(Clients), deal |-> deal, of |-> disk["arrays"]]
      /\ UNCHANGED <<table, seeded, disk, partitions, partCut>>
  BY DEF CreatePartitions
<1>2. PICK d : d = disk["arrays"]
  OBVIOUS
<1>3. WholeSound(d)
  BY <1>1, <1>2 DEF Readable, Preparing, Files, Missing, Torn
<1>4. DealOf(deal, d)
  BY <1>1, <1>2 DEF DealOf, Arrays
<1>5. WholeSound(d)' /\ (~partCut' => \E e : DealOf(e, d) /\ \A c \in Clients : partitions[c] = Dealings(c, e))
  BY <1>1, <1>2, <1>3, SoundFixed DEF Partitioning
<1>6. PICK p : p = partitioning'
  OBVIOUS
<1>7. p = [left |-> InOrder(Clients), deal |-> deal, of |-> d]
  BY <1>1, <1>2, <1>6
<1>8. p.left = InOrder(Clients) /\ p.deal = deal /\ p.of = d
  BY <1>7
<1>9. /\ p = [left |-> p.left, deal |-> p.deal, of |-> p.of]
      /\ p.left \in Seq(Clients) /\ p.left # << >>
      /\ WholeSound(p.of)' /\ DealOf(p.deal, p.of)
      /\ \A c \in Clients : \E k \in 1..Len(p.left) : p.left[k] = c
  BY <1>4, <1>5, <1>7, <1>8, ClientsListed
<1>10. DOMAIN partitions = Clients /\ \A c \in Clients : partitions[c] \in Seq(Nat)
  BY DEF Partitioning
<1> QED
  BY <1>1, <1>2, <1>5, <1>6, <1>9, <1>10 DEF Partitioning

LEMMA PrepareKeepsPartitioning ==
  ASSUME Preparing, Partitioning, WrittenInOrder, Prepare
  PROVE  Partitioning'
<1>1. ASSUME NEW config, Preprocess(config)
      PROVE  Partitioning'
  <2>1. UNCHANGED <<table, seeded, disk, partitions, partitioning, partCut>>
    BY <1>1 DEF Preprocess
  <2> QED
    BY <2>1, OthersKeepPartitioning
<1>2. CASE SaveFile
  <2>1. /\ UNCHANGED <<table, seeded, partitions, partitioning>>
        /\ disk' = [disk EXCEPT ![Head(preparing.left)] = Whole(preparing.of)]
        /\ partCut' = (partCut \/ (Head(preparing.left) = "arrays"
                                     /\ disk["arrays"] # Whole(preparing.of)))
    BY <1>2 DEF SaveFile
  <2>2. DOMAIN disk = Files /\ "arrays" \in Files
    BY DEF WrittenInOrder, Files
  <2>3. ~partCut' => ~partCut /\ disk'["arrays"] = disk["arrays"]
    BY <2>1, <2>2
  <2> QED
    BY <2>1, <2>3, OthersKeepPartitioning
<1>3. CASE StopPreparing
  <2>1. /\ UNCHANGED <<table, seeded, partitions, partitioning>>
        /\ partCut' = (partCut \/ disk'["arrays"] # disk["arrays"])
    BY <1>3 DEF StopPreparing
  <2> QED
    BY <2>1, OthersKeepPartitioning
<1>4. CASE StopPartitioning
  <2>1. /\ UNCHANGED <<table, seeded, partitions, disk, partCut>>
        /\ partitioning' = Resting
    BY <1>4 DEF StopPartitioning
  <2> QED
    BY <2>1, OthersKeepPartitioning
<1> QED
  BY <1>1, <1>2, <1>3, <1>4, SaveKeepsPartitioning, CreateKeepsPartitioning DEF Prepare

(* What is prepared, and what the clients are dealt, beside the rest.      *)
PrepInv == Preparing /\ Partitioning /\ WrittenInOrder /\ TableOf

LEMMA StepPrepares ==
  ASSUME PrepInv, [Next]_vars
  PROVE  PrepInv'
<1>1. TableOf'
  BY StepKeepsTable DEF PrepInv
<1>2. CASE Prepare
  BY <1>1, <1>2, PrepareKeepsPreparing, PrepareKeepsPartitioning, PrepareInOrder DEF PrepInv
<1>3. CASE UNCHANGED prepVars
  <2>1. UNCHANGED <<table, seeded, disk, preparing, partitions, partitioning, started,
                    prepCut, partCut>>
    BY <1>3 DEF prepVars
  <2>2. Preparing'
    <3>1. started' \in [preparations : 0..MaxPreparations, partitions : 0..MaxPartitions]
          /\ partCut' \in BOOLEAN
      BY <2>1 DEF PrepInv, Preparing
    <3> QED
      BY <2>1, <3>1, OthersKeepPreparing DEF PrepInv
  <2>3. Partitioning'
    BY <2>1, OthersKeepPartitioning DEF PrepInv
  <2>4. WrittenInOrder'
    BY <2>1 DEF PrepInv, WrittenInOrder, HeldoutOfArrays, Steady, Readable
  <2> QED
    BY <1>1, <2>2, <2>3, <2>4 DEF PrepInv
<1> QED
  BY <1>2, <1>3 DEF Next, Train, Certify, Serve, Feed, Stream, SelectRows, AccuracyPass,
                    Score, RealPass, DemoOver, vars

LEMMA InitOrdered == Init => WrittenInOrder
<1> SUFFICES ASSUME Init PROVE WrittenInOrder
  OBVIOUS
<1>1. ~Readable("arrays") /\ DOMAIN disk = Files /\ preparing = Resting
  BY DEF Init, PrepInit, Readable, Missing, Files
<1> QED
  BY <1>1 DEF WrittenInOrder, HeldoutOfArrays

LEMMA InitPrepInv == Init => PrepInv
BY InitPreparing, InitOrdered, InitTable DEF PrepInv

-----------------------------------------------------------------------------
(* What follows for the clients.                                           *)
LEMMA ClientsAreApart ==
  ASSUME PrepInv
  PROVE  ClientsApart
<1> SUFFICES ASSUME ~partCut PROVE ClientsApart
  BY DEF ClientsApart
<1>1. PICK file : file = disk["arrays"]
  OBVIOUS
<1>2. PICK deal : DealOf(deal, file) /\ \A c \in Clients : partitions[c] = Dealings(c, deal)
  BY <1>1 DEF PrepInv, Partitioning
<1>3. WholeSound(file) /\ Drawn
  BY <1>1 DEF PrepInv, Partitioning, Preparing
<1>4. \A i \in DOMAIN deal : deal[i] \in Clients
  BY <1>2 DEF DealOf
<1>5. DOMAIN deal = DOMAIN Arrays.train
  BY <1>1, <1>2 DEF DealOf, Arrays
<1>6. ASSUME NEW c \in Clients
      PROVE  /\ partitions[c] \in Seq(Nat) /\ Len(partitions[c]) \in Nat
             /\ DOMAIN partitions[c] = 1..Len(partitions[c])
             /\ \A k \in 1..Len(partitions[c]) :
                  partitions[c][k] \in DOMAIN deal /\ deal[partitions[c][k]] = c
             /\ \A i \in DOMAIN deal : deal[i] = c =>
                  \E k \in 1..Len(partitions[c]) : partitions[c][k] = i
             /\ \A k, l \in 1..Len(partitions[c]) : k < l => partitions[c][k] < partitions[c][l]
  <2>1. PICK s : s = Dealings(c, deal)
    OBVIOUS
  <2>2. /\ s \in Seq(Nat) /\ Len(s) \in Nat
        /\ \A k \in 1..Len(s) : s[k] \in DOMAIN deal /\ deal[s[k]] = c
        /\ \A i \in DOMAIN deal : deal[i] = c => \E k \in 1..Len(s) : s[k] = i
        /\ \A k, l \in 1..Len(s) : k < l => s[k] < s[l]
    BY <1>2, <1>3, <2>1, DealingsGrow
  <2>3. partitions[c] = s /\ DOMAIN s = 1..Len(s)
    BY <1>2, <2>1, <2>2
  <2> QED
    BY <2>2, <2>3
<1>7. \A c \in Clients : \A i \in Range(partitions[c]) : i \in DOMAIN deal /\ deal[i] = c
  BY <1>6 DEF Range
<1>8. \A c \in Clients : \A i \in DOMAIN deal : deal[i] = c => i \in Range(partitions[c])
  BY <1>6 DEF Range
<1>9. UNION {Range(partitions[c]) : c \in Clients} = DOMAIN Arrays.train
  BY <1>4, <1>5, <1>7, <1>8
<1>10. ASSUME NEW c \in Clients, NEW d \in Clients, c # d
       PROVE  Range(partitions[c]) \intersect Range(partitions[d]) = {}
  BY <1>7, <1>10
<1>11. ASSUME NEW c \in Clients, NEW d \in Clients, Len(partitions[c]) > 1
       PROVE  ClientVal(c) \intersect ClientTrain(d) = {}
  <2> SUFFICES ASSUME NEW x, x \in ClientVal(c), x \in ClientTrain(d) PROVE FALSE
    OBVIOUS
  <2>1. PICK n, m \in Nat : n = Len(partitions[c]) /\ m = Len(partitions[d]) /\ n > 1
    BY <1>6, <1>11
  <2>2. \A z \in Nat : z >= 1 =>
          TrainedCount(z) \in Nat /\ TrainedCount(z) >= 1 /\ TrainedCount(z) <= z
            /\ (z > 1 => TrainedCount(z) < z)
    BY DEF TrainedCount, AtLeast
  <2>3. PICK t \in Nat : t = TrainedCount(n) /\ t < n
    BY <2>1, <2>2
  <2>4. PICK k \in t + 1..n : x = partitions[c][k]
    BY <2>1, <2>3 DEF ClientVal
  <2>5. PICK l \in 1..TrainedCount(m) \intersect 1..m : x = partitions[d][l]
    BY <1>6, <2>1 DEF ClientTrain
  <2>6. k \in 1..n /\ l \in 1..m
    BY <2>1, <2>3
  <2>7. deal[x] = c /\ deal[x] = d
    <3>1. deal[partitions[c][k]] = c
      BY <1>6, <2>1, <2>6
    <3>2. deal[partitions[d][l]] = d
      BY <1>6, <2>1, <2>6
    <3> QED
      BY <2>4, <2>5, <3>1, <3>2
  <2>8. c = d /\ n = m /\ TrainedCount(m) = t
    BY <2>1, <2>3, <2>7
  <2>9. l < k /\ l \in 1..n
    BY <2>3, <2>6, <2>8
  <2>10. partitions[c][l] < partitions[c][k] /\ partitions[c][k] \in Nat
    BY <1>6, <2>1, <2>6, <2>9
  <2> QED
    BY <2>4, <2>5, <2>8, <2>10
<1> QED
  BY <1>9, <1>10, <1>11 DEF ClientsApart

LEMMA PrepTyped ==
  ASSUME PrepInv
  PROVE  PrepTypeOK
<1>1. Drawn
  BY DEF PrepInv, Preparing
<1>2. (\A k \in DOMAIN table : table[k] \in Row) /\ seeded \in Seeds
  BY <1>1, TableTyped DEF Drawn
<1>3. ASSUME NEW file \in Files
      PROVE  disk[file] \in {Missing, Torn} \/ (Readable(file) /\ disk[file].of.config \in Configs)
  <2>1. PICK f : f = disk[file]
    OBVIOUS
  <2>2. f \in {Missing, Torn} \/ WholeSound(f)
    BY <2>1 DEF PrepInv, Preparing
  <2> QED
    BY <1>1, <2>1, <2>2, WholeKept DEF Readable
<1>4. Range(preparing.left) \subseteq Files
  <2>1. CASE preparing = Resting
    BY <2>1 DEF Resting, Range
  <2>2. CASE preparing # Resting
    <3>1. PICK left \in FilesLeft : left = preparing.left
      BY <2>2 DEF PrepInv, WrittenInOrder
    <3>2. Range(left) \subseteq Files
      BY DEF FilesLeft, Files, Range
    <3> QED
      BY <3>1, <3>2
  <2> QED
    BY <2>1, <2>2
<1>5. ASSUME preparing # Resting, NEW part \in {"train", "val", "test"}
      PROVE  /\ preparing.of.split[part] # << >>
             /\ RowsOf(preparing.of.split[part]) \subseteq DOMAIN table
  <2>1. Sound(preparing.of)
    BY <1>5 DEF PrepInv, Preparing
  <2>2. PICK p : p = preparing.of
    OBVIOUS
  <2>3. PartsOf(p.split, p.config)
    BY <1>1, <2>1, <2>2, SoundKept
  <2>4. p.split[part] # << >> /\ p.split[part] \in Seq(Seq(DOMAIN table))
    BY <2>3 DEF PartsOf, PartOf
  <2>5. \A i \in RowsOf(p.split[part]) : i \in DOMAIN table
    BY <2>4, RowsAre
  <2> QED
    BY <2>2, <2>4, <2>5
<1>6. Range(partitioning.left) \subseteq Clients
  <2>1. CASE partitioning = Resting
    BY <2>1 DEF Resting, Range
  <2>2. CASE partitioning # Resting
    <3>1. partitioning.left \in Seq(Clients)
      BY <2>2 DEF PrepInv, Partitioning
    <3> QED
      BY <3>1 DEF Range
  <2> QED
    BY <2>1, <2>2
<1>7. /\ started \in [preparations : 0..MaxPreparations, partitions : 0..MaxPartitions]
      /\ prepCut \in BOOLEAN /\ partCut \in BOOLEAN
      /\ \A c \in Clients : partitions[c] \in Seq(Nat)
  BY DEF PrepInv, Preparing, Partitioning
<1> QED
  BY <1>2, <1>3, <1>4, <1>5, <1>6, <1>7 DEF PrepTypeOK

(* Whatever was prepared over what, and wherever a preparation stopped: if *)
(* there are arrays to train on, the parts of their split are kept apart.  *)
THEOREM ArraysKeptApart == Spec => [](Readable("arrays") => KeptApart(disk["arrays"].of))
<1>1. ASSUME PrepInv, Readable("arrays")
      PROVE  KeptApart(disk["arrays"].of)
  <2>1. PICK file : file = disk["arrays"]
    OBVIOUS
  <2>2. file # Missing /\ file # Torn
    BY <1>1, <2>1 DEF Readable, Missing, Torn
  <2>3. WholeSound(file)
    BY <1>1, <2>1, <2>2 DEF PrepInv, Preparing, Files
  <2> QED
    BY <1>1, <2>1, <2>3, WholeKept DEF PrepInv, Preparing
<1>2. PrepInv => (Readable("arrays") => KeptApart(disk["arrays"].of))
  BY <1>1
<1> QED
  BY InitPrepInv, StepPrepares, <1>2, PTL DEF Spec

(* For any table, seed and configurations, however often and however far   *)
(* data is prepared and dealt out: the files of one partition of the       *)
(* arrays keep the clients apart.                                          *)
THEOREM ClientsStayApart == Spec => [](Readable("arrays") => ClientsApart)
<1>1. PrepInv => (Readable("arrays") => ClientsApart)
  BY ClientsAreApart
<1> QED
  BY InitPrepInv, StepPrepares, <1>1, PTL DEF Spec

-----------------------------------------------------------------------------
(* A demo's first pass: what is replayed with an alert for every record    *)
(* comes back, one by one.                                                 *)
LEMMA ReplayDelivers ==
  ASSUME Drawn, NEW rows \in Seq(DOMAIN table), source = Replayed(rows)
  PROVE  /\ Deliverable = {<<1, p>> : p \in Range(rows)}
         /\ \A p \in Range(rows) : RecordAt(<<1, p>>) = p
<1>1. Len(table) \in Nat /\ DOMAIN table = 1..Len(table) /\ IsFiniteSet(DOMAIN table)
        /\ Cardinality(DOMAIN table) = Len(table)
  BY TableTyped
<1>2. PICK W : W = Range(rows)
  OBVIOUS
<1>3. \A p \in W : p \in DOMAIN table
  BY <1>2 DEF Range
<1>4. Range(rows) \intersect DOMAIN table = W
  BY <1>2, <1>3
<1> DEFINE S == source.steps[1]
<1>5. /\ source.steps = <<S>> /\ S.wanted = W /\ S.max = NoMax /\ S.packets = Len(table)
      /\ S.records = [k \in DOMAIN table |-> k]
  BY <1>4 DEF Replayed
<1>6. DOMAIN source.steps = {1}
  BY <1>5
<1> HIDE DEF S
<1>7. Asked(S) = Len(table)
  BY <1>5 DEF Asked
<1>8. ASSUME NEW p \in W
      PROVE  Cardinality(UpTo(S, p)) <= Asked(S)
  <2>1. UpTo(S, p) \in SUBSET DOMAIN table
    BY <1>3, <1>5 DEF UpTo
  <2> QED
    BY <1>1, <1>7, <2>1, FS_Subset
<1>9. Taken(S) = W
  BY <1>5, <1>8 DEF Taken
<1>10. Deliverable = {1} \X W
  BY <1>6, <1>9 DEF Deliverable, S
<1>11. {1} \X W = {<<1, p>> : p \in W}
  OBVIOUS
<1>12. \A p \in W : RecordAt(<<1, p>>) = p
  BY <1>3, <1>5 DEF RecordAt, S
<1> QED
  BY <1>2, <1>10, <1>11, <1>12

LEMMA ReplayAlerts ==
  ASSUME StreamInv, Drawn, NEW rows \in Seq(DOMAIN table), Grows(rows, Range(rows)),
         source = Replayed(rows), all = TRUE, phase = "done", ~handling
  PROVE  \A k \in 1..Len(rows) : alerts[k] = rows[k]
<1>1. PICK n \in Nat : n = Len(rows)
  OBVIOUS
<1>2. /\ \A k \in 1..n : rows[k] \in Range(rows) /\ rows[k] \in DOMAIN table /\ rows[k] \in Nat
      /\ \A p \in Range(rows) : \E k \in 1..n : rows[k] = p
      /\ \A k, l \in 1..n : k < l => rows[k] < rows[l]
  <2>1. \A k \in 1..n : rows[k] \in Range(rows) /\ rows[k] \in DOMAIN table
    BY <1>1 DEF Range
  <2> QED
    BY <1>1, <2>1, TableTyped DEF Grows
<1>3. /\ Deliverable = {<<1, p>> : p \in Range(rows)}
      /\ \A p \in Range(rows) : RecordAt(<<1, p>>) = p
  BY ReplayDelivers
<1>4. ASSUME NEW k \in 0..n
      PROVE  LET V == {<<1, rows[l]>> : l \in 1..k} IN Cardinality(V) = k
  <2> DEFINE f == [l \in 1..k |-> <<1, rows[l]>>]
             V == {<<1, rows[l]>> : l \in 1..k}
  <2>1. f \in [1..k -> V]
    OBVIOUS
  <2>2. \A a, b \in 1..k : f[a] = f[b] => a = b
    <3> SUFFICES ASSUME NEW a \in 1..k, NEW b \in 1..k, f[a] = f[b], a # b PROVE FALSE
      OBVIOUS
    <3>1. rows[a] = rows[b]
      OBVIOUS
    <3>2. a \in 1..n /\ b \in 1..n /\ (a < b \/ b < a)
      BY <1>1
    <3>3. rows[a] < rows[b] \/ rows[b] < rows[a]
      BY <1>2, <3>2
    <3> QED
      BY <1>2, <3>1, <3>2, <3>3
  <2>3. \A v \in V : \E l \in 1..k : f[l] = v
    OBVIOUS
  <2> HIDE DEF f, V
  <2>4. f \in Bijection(1..k, V)
    BY <2>1, <2>2, <2>3 DEF Bijection, Injection, Surjection, IsInjective
  <2>5. IsFiniteSet(1..k) /\ Cardinality(1..k) = k
    BY FS_Interval
  <2>6. Cardinality(V) = k
    BY <2>4, <2>5, FS_Bijection DEF ExistsBijection
  <2> QED
    BY <2>6 DEF V
<1>5. ASSUME NEW k \in 1..n
      PROVE  <<1, rows[k]>> \in Deliverable /\ Turn(<<1, rows[k]>>) = k /\ RecordAt(<<1, rows[k]>>) = rows[k]
  <2>1. {c \in Deliverable : NoLater(c, <<1, rows[k]>>)} = {<<1, rows[l]>> : l \in 1..k}
    <3>1. ASSUME NEW c \in Deliverable, NoLater(c, <<1, rows[k]>>)
          PROVE  \E l \in 1..k : c = <<1, rows[l]>>
      <4>1. PICK p \in Range(rows) : c = <<1, p>>
        BY <1>3
      <4>2. PICK l \in 1..n : rows[l] = p
        BY <1>2
      <4>3. rows[l] <= rows[k]
        BY <3>1, <4>1, <4>2 DEF NoLater
      <4>4. ~(k < l)
        BY <1>2, <4>3
      <4> QED
        BY <4>1, <4>2, <4>4
    <3>2. ASSUME NEW l \in 1..k
          PROVE  <<1, rows[l]>> \in Deliverable /\ NoLater(<<1, rows[l]>>, <<1, rows[k]>>)
      <4>1. l \in 1..n /\ (l = k \/ l < k)
        BY <1>1
      <4>2. rows[l] <= rows[k]
        BY <1>2, <4>1
      <4> QED
        BY <1>2, <1>3, <4>1, <4>2 DEF NoLater
    <3> QED
      BY <3>1, <3>2
  <2>2. k \in 0..n
    OBVIOUS
  <2>3. Turn(<<1, rows[k]>>) = k
    BY <1>4, <2>1, <2>2 DEF Turn
  <2> QED
    BY <1>2, <1>3, <2>3
<1>6. Cardinality(Deliverable) = n
  <2>1. Deliverable = {<<1, rows[l]>> : l \in 1..n}
    BY <1>2, <1>3
  <2>2. n \in 0..n
    OBVIOUS
  <2> QED
    BY <1>4, <2>1, <2>2
<1>7. /\ judged = appended /\ Len(judged) = n
  <2>1. source.kind = "memory"
    BY DEF Replayed
  <2> QED
    BY <1>6, <2>1, JudgedOnce
<1>8. ASSUME NEW k \in 1..n
      PROVE  judged[k] = rows[k]
  <2>1. FirstOnes(judged)
    BY <1>7 DEF StreamInv, Delivery
  <2>2. PICK d : d = <<1, rows[k]>>
    OBVIOUS
  <2>3. d \in Deliverable /\ Turn(d) = k /\ RecordAt(d) = rows[k]
    BY <1>5, <2>2
  <2>4. Turn(d) <= Len(judged)
    BY <1>7, <2>3
  <2> QED
    BY <2>1, <2>3, <2>4 DEF FirstOnes
<1>9. ASSUME NEW k \in 0..n
      PROVE  Due(k) = 1..k /\ Cardinality(Due(k)) = k
  <2>1. Due(k) = 1..k
    BY DEF Due
  <2> QED
    BY <2>1, FS_Interval
<1>10. ASSUME NEW k \in 1..n
       PROVE  alerts[k] = judged[k]
  <2>1. k \in 0..n /\ n \in 0..n
    OBVIOUS
  <2>2. k \in Due(n) /\ Cardinality(Due(k)) = k
    BY <1>9, <2>1
  <2>3. \A i \in Due(Len(judged)) : alerts[Cardinality(Due(i))] = judged[i]
    BY DEF StreamInv, AlertsCounted, AlertsForDue
  <2> QED
    BY <1>7, <2>2, <2>3
<1> QED
  BY <1>1, <1>8, <1>10

-----------------------------------------------------------------------------
(* The rows a demo replays are rows of the table and held out: those of the *)
(* arrays, when it has seen what these are, and in order when max_records  *)
(* is set.                                                                 *)
Chosen(d) ==
  /\ d.idx \in Seq(DOMAIN table) /\ d.rows \in Seq(DOMAIN table)
  /\ \A i \in Range(d.rows) : i \in Range(d.idx)
  /\ d.size # 0 => Grows(d.rows, Range(d.rows))
  /\ d.arrays # Missing =>
       /\ WholeSound(d.arrays)
       /\ d.idx = HeldoutOf(d.arrays.of.config, d.arrays.of.split.test)

(* The inductive invariant of a demo: what it has started is the replay of *)
(* its rows, with an alert for each until they are scored.                 *)
Demoing ==
  /\ demos \in 0..Study.demos
  /\ demo # DemoOff =>
       /\ demo.at \in {"selected", "accuracy", "scored", "real"}
       /\ demo = [at |-> demo.at, idx |-> demo.idx, rows |-> demo.rows, size |-> demo.size,
                  config |-> demo.config, arrays |-> demo.arrays, against |-> demo.against,
                  scored |-> demo.scored]
       /\ server.at = "serving"
       /\ Chosen(demo)
       /\ demo.at \in {"accuracy", "scored"} => source = Replayed(demo.rows) /\ all = TRUE
       /\ demo.at = "scored" => phase = "done"
  /\ ScoredAgainstItsLabel

LEMMA ChosenFixed ==
  ASSUME UNCHANGED <<table, seeded>>, NEW CONSTANT d, Chosen(d)
  PROVE  Chosen(d)'
<1>1. PICK a : a = d.arrays
  OBVIOUS
<1>2. WholeSound(a) => WholeSound(a)'
  BY SoundFixed
<1>3. WholeSound(d.arrays) => WholeSound(d.arrays)'
  BY SoundFixed
<1> QED
  BY <1>3 DEF Chosen

LEMMA DemoStays ==
  ASSUME Demoing, UNCHANGED <<table, seeded, study, demo, demos>>,
         demo # DemoOff => server'.at = server.at,
         demo # DemoOff /\ demo.at \in {"accuracy", "scored"} => UNCHANGED <<source, all>>,
         demo # DemoOff /\ demo.at = "scored" => UNCHANGED <<phase, handling>>
  PROVE  Demoing'
<1>1. ScoredAgainstItsLabel'
  <2>1. demo.at = "scored" => demo # DemoOff
    BY DEF DemoOff
  <2> QED
    BY <2>1 DEF Demoing, ScoredAgainstItsLabel
<1>2. PICK d : d = demo'
  OBVIOUS
<1>3. demo # DemoOff => Chosen(d) /\ d = demo
  BY <1>2 DEF Demoing
<1>4. demo # DemoOff => Chosen(d)'
  BY <1>3, ChosenFixed
<1>5. demo' # DemoOff => Chosen(demo)'
  BY <1>2, <1>4
<1>6. demo # DemoOff /\ demo.at \in {"accuracy", "scored"} =>
        source' = Replayed(demo.rows)' /\ all' = TRUE
  BY DEF Demoing, Replayed
<1>7. demos' \in 0..Study'.demos
  BY DEF Demoing, Study
<1> QED
  BY <1>1, <1>2, <1>5, <1>6, <1>7 DEF Demoing

(* The steps of the others.                                                *)
LEMMA OthersKeepDemo ==
  ASSUME Demoing, PrepInv, Prepare \/ Train \/ Certify \/ Serve \/ Feed \/ Stream
  PROVE  Demoing'
<1>1. UNCHANGED <<table, seeded, study, demo, demos>>
  BY DEF Prepare, Train, Certify, Serve, Feed, Stream, prepVars, Preprocess, SaveFile,
         StopPreparing, CreatePartitions, SavePartition, StopPartitioning
<1>2. demo # DemoOff => server'.at = server.at
  <2>1. CASE Prepare \/ Feed \/ Stream
    BY <2>1 DEF Prepare, Feed, Stream, releaseVars, serveVars
  <2>2. CASE Certify
    BY <2>2 DEF Certify, CertifyNext, StartCertifying, FoldIn, WriteCertified, CheckManifest,
                WriteKey, Sign, VerifySignature, StopCertifying, serveVars
  <2>3. CASE Train
    BY <2>3 DEF Train, StartTraining, TrainNext, BetterEpoch, StaleEpoch, TestBest, SaveFederated,
                WriteTrainingManifest, StopTraining, serveVars
  <2> QED
    BY <2>1, <2>2, <2>3 DEF Serve
<1>3. demo # DemoOff => UNCHANGED streamVars \/ StreamNext
  BY DEF Prepare, Train, Certify, Serve, Feed, Stream
<1>4. StreamNext => phase # "done" /\ UNCHANGED <<source, all>>
  BY DEF StreamNext, Yield, NextStep, SourceEnds, TopicSilent, AppendRecord, Transform,
         TransformRaises, EmitOne, ClearBatch, Interrupt, sourceVars
<1>5. demo # DemoOff => UNCHANGED <<source, all>>
  BY <1>3, <1>4 DEF streamVars, sourceVars
<1>6. demo # DemoOff /\ demo.at = "scored" => UNCHANGED <<phase, handling>>
  BY <1>3, <1>4 DEF Demoing, streamVars
<1> QED
  BY <1>1, <1>2, <1>5, <1>6, DemoStays

(* Of some rows, all or some in order.                                     *)
LEMMA SampleOfRows ==
  ASSUME Drawn, NEW idx \in Seq(DOMAIN table), NEW size, NEW rows \in SamplesOf(idx, size)
  PROVE  /\ rows \in Seq(DOMAIN table)
         /\ \A i \in Range(rows) : i \in Range(idx)
         /\ size # 0 => Grows(rows, Range(rows))
<1>1. CASE size = 0
  BY <1>1 DEF SamplesOf
<1>2. CASE size # 0
  <2>1. PICK chosen \in kSubset(Least(size, Len(idx)), Range(idx)) : rows = InOrder(chosen)
    BY <1>2 DEF SamplesOf
  <2>2. \A i \in chosen : i \in Range(idx) /\ i \in DOMAIN table
    <3>1. \A i \in chosen : i \in Range(idx)
      BY <2>1 DEF kSubset
    <3>2. \A i \in Range(idx) : i \in DOMAIN table
      BY DEF Range
    <3> QED
      BY <3>1, <3>2
  <2>3. chosen \in SUBSET DOMAIN table
    BY <2>2
  <2>4. IsFiniteSet(chosen) /\ \A i \in chosen : i \in Nat
    BY <2>2, <2>3, TableTyped, FS_Subset
  <2>5. Grows(rows, chosen)
    BY <2>1, <2>4, InOrderGrows
  <2>6. Range(rows) = chosen
    <3>1. rows \in Seq(chosen) /\ \A i \in chosen : \E k \in 1..Len(rows) : rows[k] = i
      BY <2>5 DEF Grows
    <3> QED
      BY <3>1 DEF Range
  <2>7. rows \in Seq(DOMAIN table)
    <3>1. rows \in Seq(chosen)
      BY <2>5 DEF Grows
    <3> QED
      BY <2>2, <3>1
  <2> QED
    BY <2>2, <2>5, <2>6, <2>7
<1> QED
  BY <1>1, <1>2

(* The arrays of the selection, if it saw them settled.                    *)
LEMMA SettledArrays ==
  ASSUME PrepInv, Steady, disk["arrays"] # Missing
  PROVE  WholeSound(disk["arrays"]) /\ disk["heldout"] = disk["arrays"]
<1>1. disk["arrays"] # Torn
  BY DEF PrepInv, Preparing, Steady
<1>2. WholeSound(disk["arrays"])
  BY <1>1 DEF PrepInv, Preparing, Files
<1>3. Readable("arrays")
  <2>1. PICK a : a = disk["arrays"]
    OBVIOUS
  <2>2. a.is = "whole"
    BY <1>2, <2>1, WholeKept DEF PrepInv, Preparing
  <2> QED
    BY <2>1, <2>2 DEF Readable
<1> QED
  BY <1>2, <1>3 DEF PrepInv, WrittenInOrder, HeldoutOfArrays

LEMMA SelectsRows ==
  ASSUME PrepInv, Demoing, NEW idx \in Seq(DOMAIN table), NEW config, Select(idx, config),
         Steady /\ disk["arrays"] # Missing =>
           idx = HeldoutOf(disk["arrays"].of.config, disk["arrays"].of.split.test)
  PROVE  /\ Chosen(demo') /\ demo'.at = "selected" /\ demo' # DemoOff
         /\ demo' = [at |-> demo'.at, idx |-> demo'.idx, rows |-> demo'.rows,
                     size |-> demo'.size, config |-> demo'.config, arrays |-> demo'.arrays,
                     against |-> demo'.against, scored |-> demo'.scored]
<1>1. PICK arrays : arrays = IF Steady THEN disk["arrays"] ELSE Missing
  OBVIOUS
<1>2. PICK size, rows :
        rows \in SamplesOf(idx, size) /\
        demo' = [at |-> "selected", idx |-> idx, rows |-> rows, size |-> size,
                 config |-> config, arrays |-> arrays, against |-> Missing, scored |-> << >>]
  BY <1>1 DEF Select
<1>3. /\ rows \in Seq(DOMAIN table)
      /\ \A i \in Range(rows) : i \in Range(idx)
      /\ size # 0 => Grows(rows, Range(rows))
  BY <1>2, SampleOfRows DEF PrepInv, Preparing
<1>4. arrays # Missing => WholeSound(arrays) /\ idx = HeldoutOf(arrays.of.config, arrays.of.split.test)
  BY <1>1, SettledArrays
<1>5. Chosen(demo')
  BY <1>2, <1>3, <1>4 DEF Chosen
<1> QED
  BY <1>2, <1>5 DEF DemoOff

(* Of whole arrays, the held-out rows are rows of the table, tested on.    *)
LEMMA HeldoutOfWhole ==
  ASSUME Drawn, NEW file, WholeSound(file)
  PROVE  LET of  == file.of
             idx == HeldoutOf(of.config, of.split.test)
         IN  /\ idx \in Seq(DOMAIN table)
             /\ \A i \in Range(idx) : i \in RowsOf(of.split.test)
             /\ of.config.strategy # "windows" =>
                  /\ Len(idx) = Len(of.split.test)
                  /\ \A k \in 1..Len(idx) : idx[k] = Last(of.split.test[k])
<1>1. PICK of : of = file.of
  OBVIOUS
<1>2. PICK test, config : test = of.split.test /\ config = of.config
  OBVIOUS
<1>3. PartsOf(of.split, config) /\ config \in Configs
  BY <1>1, <1>2, WholeKept
<1>4. test \in Seq(Seq(DOMAIN table)) /\ \A k \in 1..Len(test) : Len(test[k]) = config.length
  BY <1>2, <1>3 DEF PartsOf, PartOf
<1>5. config.length \in Nat /\ config.length >= 1 /\ (config.strategy # "windows" => config.length = 1)
  BY <1>3, ConfigTyped
<1>6. \A k \in 1..Len(test) : Len(test[k]) >= 1
  BY <1>4, <1>5
<1>7. PICK idx : idx = HeldoutOf(config, test)
  OBVIOUS
<1>8. /\ idx \in Seq(DOMAIN table)
      /\ \A i \in Range(idx) : i \in RowsOf(test)
      /\ config.strategy # "windows" =>
           Len(idx) = Len(test) /\ \A k \in 1..Len(test) : idx[k] = test[k][1]
  BY <1>4, <1>6, <1>7, HeldoutRows
<1>9. ASSUME config.strategy # "windows"
      PROVE  Len(idx) = Len(test) /\ \A k \in 1..Len(idx) : idx[k] = Last(test[k])
  BY <1>4, <1>5, <1>8, <1>9 DEF Last
<1> QED
  BY <1>1, <1>2, <1>7, <1>8, <1>9

LEMMA SelectKeepsDemo ==
  ASSUME PrepInv, Demoing, SelectRows
  PROVE  Demoing'
<1>1. /\ server.at = "serving" /\ demos < Study.demos /\ demos' = demos + 1
      /\ UNCHANGED <<table, seeded, study, server>>
  BY DEF SelectRows, prepVars, releaseVars, serveVars
<1>2. Drawn /\ PrepInv
  BY DEF PrepInv, Preparing
<1>3. PICK config \in Study.configs :
        \/ /\ Readable("heldout")
           /\ Select(HeldoutOf(disk["heldout"].of.config, disk["heldout"].of.split.test), config)
        \/ MayReproduce(config) /\ Select(Reproduced(config), config)
  BY DEF SelectRows
<1>4. config \in Configs
  BY StudiesAssumption DEF PrepInv, TableOf, Study
<1> DEFINE Picks ==
      /\ Chosen(demo') /\ demo'.at = "selected" /\ demo' # DemoOff
      /\ demo' = [at |-> demo'.at, idx |-> demo'.idx, rows |-> demo'.rows,
                  size |-> demo'.size, config |-> demo'.config, arrays |-> demo'.arrays,
                  against |-> demo'.against, scored |-> demo'.scored]
<1>5. ASSUME Readable("heldout"),
             Select(HeldoutOf(disk["heldout"].of.config, disk["heldout"].of.split.test), config)
      PROVE  Picks
  <2>1. PICK file : file = disk["heldout"]
    OBVIOUS
  <2>2. file # Missing /\ file # Torn
    BY <1>5, <2>1 DEF Readable, Missing, Torn
  <2>3. WholeSound(file)
    BY <2>1, <2>2 DEF PrepInv, Preparing, Files
  <2>4. PICK idx : idx = HeldoutOf(file.of.config, file.of.split.test)
    OBVIOUS
  <2>5. idx \in Seq(DOMAIN table)
    BY <1>2, <2>3, <2>4, HeldoutOfWhole
  <2>6. Steady /\ disk["arrays"] # Missing =>
          idx = HeldoutOf(disk["arrays"].of.config, disk["arrays"].of.split.test)
    <3>1. Steady /\ disk["arrays"] # Missing => disk["arrays"] = file
      BY <2>1, SettledArrays
    <3> QED
      BY <2>4, <3>1
  <2>7. Select(idx, config)
    BY <1>5, <2>1, <2>4
  <2> QED
    BY <2>5, <2>6, <2>7, SelectsRows
<1>6. ASSUME MayReproduce(config), Select(Reproduced(config), config)
      PROVE  Picks
  <2>1. PICK test : test = SplitByRow(config).test
    OBVIOUS
  <2>2. test \in Seq(Seq(DOMAIN table)) /\ \A k \in 1..Len(test) : Len(test[k]) = 1
    BY <1>2, <1>4, <2>1, RowTest
  <2>3. ASSUME NEW k \in 1..Len(test)
        PROVE  Len(test[k]) >= 1
    <3>1. Len(test[k]) = 1
      BY <2>2
    <3> QED
      BY <3>1
  <2>4. PICK idx : idx = HeldoutOf(config, test)
    OBVIOUS
  <2>5. idx \in Seq(DOMAIN table)
    BY <1>2, <2>2, <2>3, <2>4, HeldoutRows
  <2>6. ~(Steady /\ disk["arrays"] # Missing)
    <3>1. disk["heldout"] = Missing
      BY <1>6 DEF MayReproduce
    <3> QED
      BY <3>1, SettledArrays
  <2>7. Select(idx, config)
    BY <1>6, <2>1, <2>4 DEF Reproduced
  <2> QED
    BY <2>5, <2>6, <2>7, SelectsRows
<1>7. Picks
  BY <1>3, <1>5, <1>6
<1>8. PICK d : d = demo'
  OBVIOUS
<1>9. Chosen(d)
  BY <1>7, <1>8
<1>10. Chosen(d)'
  BY <1>1, <1>9, ChosenFixed
<1>11. demo'.at = "selected"
  BY <1>7
<1>12. ScoredAgainstItsLabel'
  BY <1>11 DEF ScoredAgainstItsLabel
<1>13. demos' \in 0..Study'.demos
  <2>1. Study' = Study
    BY <1>1 DEF Study
  <2>2. Study.demos \in Nat
    BY StudiesAssumption DEF PrepInv, TableOf, Study
  <2>3. demos \in 0..Study.demos
    BY DEF Demoing
  <2> QED
    BY <1>1, <2>1, <2>2, <2>3
<1> QED
  BY <1>1, <1>7, <1>8, <1>10, <1>11, <1>12, <1>13 DEF Demoing

(* The labels a demo scores against are those of its rows.                 *)
LEMMA TruthOfRows ==
  ASSUME Drawn, Chosen(demo), demo.arrays # Missing, disk["arrays"] = demo.arrays,
         demo.arrays.of.config.strategy # "windows"
  PROVE  \A k \in 1..Len(demo.rows) : Truth[k] = table[demo.rows[k]].label
<1>1. PICK idx, rows, test :
        idx = demo.idx /\ rows = demo.rows /\ test = disk["arrays"].of.split.test
  OBVIOUS
<1>2. /\ idx \in Seq(DOMAIN table) /\ rows \in Seq(DOMAIN table)
      /\ \A i \in Range(rows) : i \in Range(idx)
  BY <1>1 DEF Chosen
<1>3. \A p \in 1..Len(idx) : idx[p] = Last(test[p])
  <2>1. PICK file : file = disk["arrays"]
    OBVIOUS
  <2>2. WholeSound(file) /\ idx = HeldoutOf(file.of.config, test)
    BY <1>1, <2>1 DEF Chosen
  <2> QED
    BY <1>1, <2>1, <2>2, HeldoutOfWhole
<1>4. DOMAIN rows = 1..Len(rows) /\ DOMAIN idx = 1..Len(idx)
  BY <1>2
<1> DEFINE position(row) == CHOOSE p \in DOMAIN idx : idx[p] = row
           lasts == [k \in DOMAIN rows |-> Last(test[position(rows[k])])]
<1>5. Truth = [k \in DOMAIN lasts |-> table[lasts[k]].label]
  BY <1>1 DEF Truth, LabelsOf, Arrays
<1>6. ASSUME NEW k \in 1..Len(rows)
      PROVE  lasts[k] = rows[k]
  <2>1. rows[k] \in Range(idx)
    BY <1>2, <1>4 DEF Range
  <2>2. \E p \in DOMAIN idx : idx[p] = rows[k]
    BY <2>1 DEF Range
  <2>3. position(rows[k]) \in DOMAIN idx /\ idx[position(rows[k])] = rows[k]
    BY <2>2
  <2> HIDE DEF position
  <2>4. Last(test[position(rows[k])]) = rows[k]
    BY <1>3, <1>4, <2>3
  <2> QED
    BY <1>4, <2>4
<1> HIDE DEF lasts
<1>7. DOMAIN lasts = 1..Len(rows)
  BY <1>4 DEF lasts
<1> QED
  BY <1>1, <1>5, <1>6, <1>7

LEMMA ScoreKeepsDemo ==
  ASSUME PrepInv, Demoing, StreamInv, Score
  PROVE  Demoing'
<1>1. /\ demo.at = "accuracy" /\ phase = "done" /\ Len(alerts) = Len(demo.rows)
      /\ demo' = [demo EXCEPT !.at = "scored", !.against = disk["arrays"],
                              !.scored = [k \in DOMAIN alerts |-> <<Truth[k], alerts[k]>>]]
      /\ UNCHANGED <<table, seeded, study, server, source, all, phase, handling, demos>>
  BY DEF Score, prepVars, releaseVars, serveVars, streamVars, sourceVars
<1>2. /\ demo # DemoOff /\ server.at = "serving" /\ Chosen(demo)
      /\ demo = [at |-> demo.at, idx |-> demo.idx, rows |-> demo.rows, size |-> demo.size,
                 config |-> demo.config, arrays |-> demo.arrays, against |-> demo.against,
                 scored |-> demo.scored]
      /\ source = Replayed(demo.rows) /\ all = TRUE
  <2>1. demo # DemoOff
    BY <1>1 DEF DemoOff
  <2> QED
    BY <1>1, <2>1 DEF Demoing
<1>3. PICK scored, against :
        scored = [k \in DOMAIN alerts |-> <<Truth[k], alerts[k]>>] /\ against = disk["arrays"]
  OBVIOUS
<1>4. demo' = [at |-> "scored", idx |-> demo.idx, rows |-> demo.rows, size |-> demo.size,
               config |-> demo.config, arrays |-> demo.arrays, against |-> against,
               scored |-> scored]
  BY <1>1, <1>2, <1>3
<1>5. Chosen(demo')
  BY <1>2, <1>4 DEF Chosen
<1>6. PICK d : d = demo'
  OBVIOUS
<1>7. Chosen(d)'
  BY <1>1, <1>5, <1>6, ChosenFixed
<1>8. ASSUME ~handling, demo.size # 0, against = demo.arrays,
             against.of.config.strategy # "windows"
      PROVE  \A k \in DOMAIN scored : scored[k][1] = table[scored[k][2]].label
  <2>1. Drawn
    BY DEF PrepInv, Preparing
  <2>2. demo.arrays # Missing
    BY <1>3, <1>8 DEF Score, Readable, Missing
  <2>3. \A k \in 1..Len(demo.rows) : Truth[k] = table[demo.rows[k]].label
    BY <1>2, <1>3, <1>8, <2>1, <2>2, TruthOfRows
  <2>4. demo.rows \in Seq(DOMAIN table) /\ Grows(demo.rows, Range(demo.rows))
    BY <1>2, <1>8 DEF Chosen
  <2>5. \A k \in 1..Len(demo.rows) : alerts[k] = demo.rows[k]
    BY <1>1, <1>2, <1>8, <2>1, <2>4, ReplayAlerts
  <2>6. DOMAIN alerts = 1..Len(demo.rows)
    <3>1. alerts \in Seq(Records)
      BY DEF StreamInv, StreamTypeOK
    <3> QED
      BY <1>1, <3>1
  <2> QED
    BY <1>3, <2>3, <2>5, <2>6
<1>9. ScoredAgainstItsLabel'
  <2>1. /\ demo'.scored = scored /\ demo'.against = against /\ demo'.arrays = demo.arrays
        /\ demo'.size = demo.size
    BY <1>4
  <2>2. handling' = handling /\ table' = table
    BY <1>1
  <2>3. ASSUME ~handling, demo.size # 0, against = demo.arrays,
               against.of.config.strategy # "windows", NEW k \in DOMAIN scored
        PROVE  scored[k][1] = table'[scored[k][2]].label
    BY <1>8, <2>2, <2>3
  <2> QED
    BY <2>1, <2>2, <2>3 DEF ScoredAgainstItsLabel
<1>10. demos' \in 0..Study'.demos
  BY <1>1 DEF Demoing, Study
<1>11. source' = Replayed(demo.rows)'
  BY <1>1, <1>2, <1>4 DEF Replayed
<1> QED
  BY <1>1, <1>2, <1>4, <1>6, <1>7, <1>9, <1>10, <1>11 DEF Demoing

LEMMA PassKeepsDemo ==
  ASSUME PrepInv, Demoing, AccuracyPass \/ RealPass
  PROVE  Demoing'
<1>1. PICK at : /\ demo' = [demo EXCEPT !.at = at]
                /\ \/ at = "accuracy" /\ source' = Replayed(demo.rows) /\ all' = TRUE
                   \/ at = "real"
  BY DEF AccuracyPass, RealPass, StartStream
<1>2. UNCHANGED <<table, seeded, study, server, demos>> /\ demo.at \in {"selected", "scored"}
  BY DEF AccuracyPass, RealPass, prepVars, releaseVars, serveVars
<1>3. /\ demo # DemoOff /\ server.at = "serving" /\ Chosen(demo)
      /\ demo = [at |-> demo.at, idx |-> demo.idx, rows |-> demo.rows, size |-> demo.size,
                 config |-> demo.config, arrays |-> demo.arrays, against |-> demo.against,
                 scored |-> demo.scored]
  <2>1. demo # DemoOff
    BY <1>2 DEF DemoOff
  <2> QED
    BY <2>1 DEF Demoing
<1>4. demo' = [at |-> at, idx |-> demo.idx, rows |-> demo.rows, size |-> demo.size,
               config |-> demo.config, arrays |-> demo.arrays, against |-> demo.against,
               scored |-> demo.scored]
  BY <1>1, <1>3
<1>5. Chosen(demo')
  BY <1>3, <1>4 DEF Chosen
<1>6. PICK d : d = demo'
  OBVIOUS
<1>7. Chosen(d)'
  BY <1>2, <1>5, <1>6, ChosenFixed
<1>8. ScoredAgainstItsLabel'
  <2>1. at # "scored"
    BY <1>1
  <2>2. demo'.at # "scored"
    BY <1>4, <2>1
  <2> QED
    BY <2>2 DEF ScoredAgainstItsLabel
<1>9. demos' \in 0..Study'.demos
  BY <1>2 DEF Demoing, Study
<1>10. at = "accuracy" => source' = Replayed(demo.rows)'
  BY <1>1, <1>2, <1>4 DEF Replayed
<1> QED
  BY <1>1, <1>2, <1>3, <1>4, <1>6, <1>7, <1>8, <1>9, <1>10 DEF Demoing

LEMMA StepKeepsDemo ==
  ASSUME PrepInv, Demoing, StreamInv, [Next]_vars
  PROVE  Demoing'
<1>1. CASE DemoOver
  <2>1. demo' = DemoOff /\ UNCHANGED <<study, demos>>
    BY <1>1 DEF DemoOver
  <2>2. ScoredAgainstItsLabel'
    BY <2>1 DEF ScoredAgainstItsLabel, DemoOff
  <2> QED
    BY <2>1, <2>2 DEF Demoing, Study
<1>2. CASE UNCHANGED vars
  <2>1. UNCHANGED <<table, seeded, study, demo, demos, server, source, all, phase, handling>>
    BY <1>2 DEF vars, prepVars, releaseVars, serveVars, streamVars, sourceVars
  <2> QED
    BY <2>1, DemoStays
<1> QED
  BY <1>1, <1>2, OthersKeepDemo, SelectKeepsDemo, ScoreKeepsDemo, PassKeepsDemo DEF Next

(* What is replayed was held out.                                          *)
LEMMA ReplayedFromTest ==
  ASSUME PrepInv, Demoing
  PROVE  ReplayedWasHeldOut
<1> SUFFICES ASSUME demo # DemoOff, demo.arrays # Missing
             PROVE  /\ Range(demo.rows) \subseteq RowsOf(demo.arrays.of.split.test)
                    /\ Range(demo.rows) \intersect RowsOf(demo.arrays.of.split.train) = {}
  BY DEF ReplayedWasHeldOut
<1>1. PICK file, idx, rows : file = demo.arrays /\ idx = demo.idx /\ rows = demo.rows
  OBVIOUS
<1>2. /\ WholeSound(file) /\ idx = HeldoutOf(file.of.config, file.of.split.test)
      /\ \A i \in Range(rows) : i \in Range(idx)
  BY <1>1 DEF Demoing, Chosen
<1>3. Drawn
  BY DEF PrepInv, Preparing
<1>4. \A i \in Range(idx) : i \in RowsOf(file.of.split.test)
  BY <1>2, <1>3, HeldoutOfWhole
<1>5. KeptApart(file.of)
  BY <1>2, <1>3, WholeKept
<1>6. \A i \in RowsOf(file.of.split.train), j \in RowsOf(file.of.split.test) : i # j
  BY <1>5 DEF KeptApart
<1> QED
  BY <1>1, <1>2, <1>4, <1>6

(* The inductive invariant of the composition.                             *)
Unseen == PrepInv /\ Demoing /\ StreamInv

LEMMA InitUnseen == Init => Unseen
<1> SUFFICES ASSUME Init PROVE Unseen
  OBVIOUS
<1>1. PrepInv
  BY InitPrepInv
<1>2. StreamInv
  BY InitStream DEF Init
<1>3. demo = DemoOff /\ demos = 0 /\ study \in DOMAIN Studies
  BY DEF Init
<1>4. demos \in 0..Study.demos
  BY <1>3, StudiesAssumption DEF Study
<1>5. ScoredAgainstItsLabel
  BY <1>3 DEF ScoredAgainstItsLabel, DemoOff
<1> QED
  BY <1>1, <1>2, <1>3, <1>4, <1>5 DEF Unseen, Demoing

LEMMA StepUnseen ==
  ASSUME Unseen, [Next]_vars
  PROVE  Unseen'
BY StepPrepares, StepKeepsDemo, StepStreams DEF Unseen, PrepInv

(* For any table, seed and configurations, and whatever is prepared,       *)
(* partitioned, trained, certified, served and streamed meanwhile: the     *)
(* parts of a split share no row and, by sessions, no stretch of a flow    *)
(* (endpoints in either order if both are grouped by, the other group      *)
(* columns the same); in chronological order nothing tested began before   *)
(* anything trained on; clients are kept apart; settled files are of one   *)
(* preparation; a demo replays held-out rows, and scores each against its  *)
(* own label.                                                              *)
THEOREM HeldoutNeverSeen == Spec => []HeldoutUnseen
<1>1. ASSUME Unseen
      PROVE  HeldoutUnseen
  <2>1. preparing # Resting => KeptApart(preparing.of)
    BY <1>1, SoundKept DEF Unseen, PrepInv, Preparing
  <2>2. Readable("arrays") => ClientsApart
    BY <1>1, ClientsAreApart DEF Unseen
  <2>3. HeldoutOfArrays
    BY <1>1 DEF Unseen, PrepInv, WrittenInOrder
  <2>4. ReplayedWasHeldOut /\ ScoredAgainstItsLabel
    BY <1>1, ReplayedFromTest DEF Unseen, Demoing
  <2> QED
    BY <2>1, <2>2, <2>3, <2>4 DEF HeldoutUnseen
<1>2. Unseen => HeldoutUnseen
  BY <1>1
<1>3. Unseen /\ [Next]_vars => Unseen'
  BY StepUnseen
<1> QED
  BY InitUnseen, <1>2, <1>3, PTL DEF Spec

(* Every part of the composition keeps its types, and a demo runs only     *)
(* while a model is served and replays rows it has chosen.                 *)
THEOREM TypeCorrect == Spec => []TypeOK
<1>1. ASSUME Unseen, ReleaseTypeOK
      PROVE  TypeOK
  <2>1. PrepTypeOK
    BY <1>1, PrepTyped DEF Unseen
  <2>2. StreamTypeOK
    BY <1>1 DEF Unseen, StreamInv
  <2>3. study \in DOMAIN Studies /\ demos \in 0..Study.demos
    BY <1>1 DEF Unseen, PrepInv, TableOf, Demoing
  <2>4. demo.at \in {"off", "selected", "accuracy", "scored", "real"}
    BY <1>1 DEF Unseen, Demoing, DemoOff
  <2>5. demo # DemoOff => server.at = "serving" /\ Range(demo.rows) \subseteq Range(demo.idx)
    BY <1>1 DEF Unseen, Demoing, Chosen
  <2> QED
    BY <1>1, <2>1, <2>2, <2>3, <2>4, <2>5 DEF TypeOK
<1>2. Unseen /\ ReleaseTypeOK => TypeOK
  BY <1>1
<1>3. Unseen /\ [Next]_vars => Unseen'
  BY StepUnseen
<1>4. Spec => []ReleaseTypeOK
  BY CompositionReleases, ReleaseTypeCorrect, PTL
<1> QED
  BY InitUnseen, <1>2, <1>3, <1>4, PTL DEF Spec
=============================================================================
