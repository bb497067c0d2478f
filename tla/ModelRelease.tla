---------------------------- MODULE ModelRelease ----------------------------
(***************************************************************************)
(* From training to serving: a checkpoint is trained (training/            *)
(* centralized.py or federated/server_app.py), certified                   *)
(* (scripts/certify_model.py with integrity/certification.py and           *)
(* integrity/signing.py), verified and loaded (StreamingIDS.from_config()  *)
(* of streaming/pipeline.py), all at one path.  Trainer, certifier and     *)
(* server are processes of their own that share only files, and each may   *)
(* stop between any two writes.                                            *)
(*                                                                         *)
(* A SHA-256 stands for the weights hashed, a signature for the manifest   *)
(* and the key it was made with: both are taken to be unforgeable.         *)
(***************************************************************************)
EXTENDS Integers, FiniteSets

CONSTANTS
  Datasets,           (* what may be trained on                             *)
  Trainers,           (* subset of {"central", "federated"}                 *)
  Scores,             (* macro-F1 on validation, in percent                 *)
  Epochs, Patience,   (* training.epochs, training.patience                 *)
  Requirements,       (* what from_config() may be configured to require    *)
  MaxRuns,            (* bound: trainings started                           *)
  MaxCertifications   (* bound: certifications started                      *)

ASSUME ReleaseAssumption ==
  /\ Trainers \subseteq {"central", "federated"}
  /\ Scores \subseteq 0..100
  /\ Epochs \in Nat \ {0} /\ Patience \in Nat \ {0}
  /\ Requirements \subseteq [signature : BOOLEAN, certified : BOOLEAN]
  /\ MaxRuns \in Nat /\ MaxCertifications \in Nat

VARIABLES
  trainer,        (* which of the two trainers is used                      *)
  required,       (* require_signature, require_certified_status            *)
  training,       (* the training under way                                 *)
  checkpoint,     (* the file with the weights                              *)
  manifest,       (* <checkpoint>.manifest.json                             *)
  signature,      (* <checkpoint>.sig                                       *)
  keys,           (* which of the two key files exist                       *)
  certifier,      (* the certification under way                            *)
  server,         (* the process that serves the model                      *)
  runs,           (* trainings started                                      *)
  certifications, (* certifications started                                 *)
  tested,         (* the weights centralized_metrics.json tells of          *)
  best,           (* history: per run, the best score of its epochs         *)
  signed,         (* history: the manifests signed                          *)
  replaced,       (* history: the checkpoint was written after it was last  *)
                  (* verified                                               *)
  confused        (* history: a certification ran while the checkpoint was  *)
                  (* not that of a finished training                        *)

trainVars   == <<trainer, training, runs, best, tested>>
certifyVars == <<keys, certifier, certifications, signed, confused>>
serveVars   == <<required, server, replaced>>
releaseVars == <<trainVars, certifyVars, serveVars, checkpoint, manifest, signature>>

-----------------------------------------------------------------------------
Weights == [run : Nat, epoch : Nat, score : -1..100, data : Datasets]

NoFile == [run |-> -1]
CutShort  == [run |-> -2]

NoRun == 0

(* What write_manifest() writes.  run is the run whose metadata it holds,  *)
(* folds how often certify_model.py folded a manifest into the next.       *)
Manifest ==
  [sha : Weights \union {CutShort}, status : {"trained-uncertified", "certified"},
   run : Nat, folds : Nat]

NoManifest  == [status |-> "none"]
NoSignature == [of |-> NoManifest]
Signature   == [of : Manifest]

NotRunning == [at |-> "idle"]

Training ==
  [at : {"epoch", "test", "manifest"}, run : Nat, data : Datasets,
   epoch : Nat, best : -1..100, stale : Nat]

Certifier ==
  [at : {"fold", "write", "check", "private", "public", "sign", "verify"},
   run : Nat, folds : Nat]

ServerSteps == {"off", "verified", "serving"}

ReleaseTypeOK ==
  /\ trainer \in Trainers
  /\ required \in Requirements
  /\ training \in Training \union {NotRunning}
  /\ checkpoint \in Weights \union {NoFile, CutShort}
  /\ manifest \in Manifest \union {NoManifest}
  /\ signature \in Signature \union {NoSignature}
  /\ keys \subseteq {"private", "public"}
  /\ certifier \in Certifier \union {NotRunning}
  /\ server \in [at : ServerSteps, model : Weights \union {NoFile}]
  /\ runs \in 0..MaxRuns /\ certifications \in 0..MaxCertifications
  /\ tested \in Weights \union {NoFile, CutShort}
  /\ best \in [1..MaxRuns -> -1..100]
  /\ signed \subseteq Manifest
  /\ replaced \in BOOLEAN /\ confused \in BOOLEAN

ReleaseInit ==
  /\ trainer \in Trainers
  /\ required \in Requirements
  /\ training = NotRunning
  /\ checkpoint = NoFile
  /\ manifest = NoManifest
  /\ signature = NoSignature
  /\ keys = {}
  /\ certifier = NotRunning
  /\ server = [at |-> "off", model |-> NoFile]
  /\ runs = 0 /\ certifications = 0
  /\ tested = NoFile
  /\ best = [r \in 1..MaxRuns |-> -1]
  /\ signed = {}
  /\ replaced = FALSE /\ confused = FALSE

-----------------------------------------------------------------------------
(* Training.                                                               *)

(* torch.save()                                                            *)
SaveCheckpoint(weights) ==
  /\ checkpoint' = weights
  /\ replaced' = (replaced \/ server.at = "verified")
  /\ confused' = (confused \/ certifier # NotRunning)

StartTraining(data) ==
  /\ training = NotRunning /\ runs < MaxRuns
  /\ runs' = runs + 1
  /\ training' = [at |-> "epoch", run |-> runs + 1, data |-> data,
                  epoch |-> 0, best |-> -1, stale |-> 0]
  /\ UNCHANGED <<trainer, best, tested, certifyVars, serveVars, checkpoint, manifest, signature>>

Improves(score) == score > training.best

(* The last epoch, and the Patience-th on end that was not better, are     *)
(* followed by the test.                                                   *)
AfterEpoch(score, stale) ==
  [at    |-> IF training.epoch + 1 = Epochs \/ stale >= Patience THEN "test" ELSE "epoch",
   run   |-> training.run,
   data  |-> training.data,
   epoch |-> training.epoch + 1,
   best  |-> score,
   stale |-> stale]

(* run_centralized(): an epoch better than all before is saved.            *)
BetterEpoch(score) ==
  /\ trainer = "central" /\ training.at = "epoch"
  /\ Improves(score)
  /\ training' = AfterEpoch(score, 0)
  /\ SaveCheckpoint([run |-> training.run, epoch |-> training.epoch + 1, score |-> score,
                     data |-> training.data])
  /\ best' = [best EXCEPT ![training.run] = IF score > @ THEN score ELSE @]
  /\ UNCHANGED <<trainer, runs, tested, keys, certifier, certifications, signed,
                 required, server, manifest, signature>>

StaleEpoch(score) ==
  /\ trainer = "central" /\ training.at = "epoch"
  /\ ~Improves(score)
  /\ training' = AfterEpoch(training.best, training.stale + 1)
  /\ best' = [best EXCEPT ![training.run] = IF score > @ THEN score ELSE @]
  /\ UNCHANGED <<trainer, runs, tested, certifyVars, serveVars, checkpoint, manifest, signature>>

(* The checkpoint is read back and tested.                                 *)
TestBest ==
  /\ trainer = "central" /\ training.at = "test"
  /\ tested' = checkpoint
  /\ training' = NotRunning
  /\ UNCHANGED <<trainer, runs, best, certifyVars, serveVars, checkpoint, manifest, signature>>

(* main() of server_app.py: the model of the last round is saved and its   *)
(* manifest written; a federated model has no score.                       *)
SaveFederated ==
  /\ trainer = "federated" /\ training.at = "epoch"
  /\ SaveCheckpoint([run |-> training.run, epoch |-> 0, score |-> -1, data |-> training.data])
  /\ training' = [training EXCEPT !.at = "manifest"]
  /\ UNCHANGED <<trainer, runs, best, tested, keys, certifier, certifications, signed,
                 required, server, manifest, signature>>

WriteTrainingManifest ==
  /\ training.at = "manifest"
  /\ manifest' = [sha |-> checkpoint, status |-> "trained-uncertified",
                  run |-> training.run, folds |-> 0]
  /\ training' = NotRunning
  /\ confused' = (confused \/ certifier # NotRunning)
  /\ UNCHANGED <<trainer, runs, best, tested, keys, certifier, certifications, signed,
                 serveVars, checkpoint, signature>>

(* A training stops; a save under way leaves a file cut short.             *)
StopTraining ==
  /\ training # NotRunning
  /\ training' = NotRunning
  /\ \/ UNCHANGED <<checkpoint, replaced, confused>>
     \/ training.at = "epoch" /\ SaveCheckpoint(CutShort)
  /\ UNCHANGED <<trainer, runs, best, tested, keys, certifier, certifications, signed,
                 required, server, manifest, signature>>

-----------------------------------------------------------------------------
(* certify_model.py --sign.                                                *)

StartCertifying ==
  /\ certifier = NotRunning /\ certifications < MaxCertifications
  /\ certifications' = certifications + 1
  /\ certifier' = [at |-> "fold", run |-> NoRun, folds |-> 0]
  /\ UNCHANGED <<trainVars, keys, signed, confused, serveVars, checkpoint, manifest, signature>>

(* The metadata of a manifest already there is folded into the new one.    *)
FoldIn ==
  /\ certifier.at = "fold"
  /\ certifier' = IF manifest = NoManifest THEN [certifier EXCEPT !.at = "write"]
                  ELSE [at |-> "write", run |-> manifest.run, folds |-> manifest.folds + 1]
  /\ confused' = (confused \/ training # NotRunning \/ checkpoint \notin Weights
                    \/ manifest = NoManifest \/ (manifest # NoManifest /\ manifest.sha # checkpoint))
  /\ UNCHANGED <<trainVars, keys, certifications, signed, serveVars,
                 checkpoint, manifest, signature>>

(* write_manifest(), of the checkpoint as it is by then.                   *)
WriteCertified ==
  /\ certifier.at = "write" /\ checkpoint # NoFile
  /\ manifest' = [sha |-> checkpoint, status |-> "certified",
                  run |-> certifier.run, folds |-> certifier.folds]
  /\ certifier' = [certifier EXCEPT !.at = "check"]
  /\ UNCHANGED <<trainVars, keys, certifications, signed, confused, serveVars,
                 checkpoint, signature>>

(* assert verify_manifest(), of the two files as they are by then.         *)
CheckManifest ==
  /\ certifier.at = "check" /\ manifest.sha = checkpoint
  /\ certifier' = [certifier EXCEPT !.at = IF "private" \in keys THEN "sign" ELSE "private"]
  /\ UNCHANGED <<trainVars, keys, certifications, signed, confused, serveVars,
                 checkpoint, manifest, signature>>

(* generate_keypair(): the private key, then the public one.               *)
WriteKey ==
  /\ certifier.at \in {"private", "public"}
  /\ keys' = keys \union {certifier.at}
  /\ certifier' = [certifier EXCEPT !.at = IF @ = "private" THEN "public" ELSE "sign"]
  /\ UNCHANGED <<trainVars, certifications, signed, confused, serveVars,
                 checkpoint, manifest, signature>>

(* The manifest is read once more and signed.                              *)
Sign ==
  /\ certifier.at = "sign"
  /\ signature' = [of |-> manifest]
  /\ signed' = signed \union {manifest}
  /\ certifier' = [certifier EXCEPT !.at = "verify"]
  /\ UNCHANGED <<trainVars, keys, certifications, confused, serveVars, checkpoint, manifest>>

(* assert verify_bytes(), of what was just signed.                         *)
VerifySignature ==
  /\ certifier.at = "verify" /\ "public" \in keys
  /\ certifier' = NotRunning
  /\ UNCHANGED <<trainVars, keys, certifications, signed, confused, serveVars,
                 checkpoint, manifest, signature>>

(* The script stops: it is killed, an assertion fails, a file is missing;  *)
(* or it was run without --sign.                                           *)
StopCertifying ==
  /\ certifier # NotRunning
  /\ certifier' = NotRunning
  /\ UNCHANGED <<trainVars, keys, certifications, signed, confused, serveVars,
                 checkpoint, manifest, signature>>

-----------------------------------------------------------------------------
(* verify_release().                                                       *)

StatusOk == required.certified => manifest.status = "certified"

(* Mutant of Sha256Ok: the hash is left to the signature.                  *)
Sha256OkIfUnsigned == required.signature \/ manifest.sha = checkpoint

Sha256Ok == manifest.sha = checkpoint

(* A signature is checked when one is required, and when there is one.     *)
SignatureOk ==
  IF required.signature \/ signature # NoSignature
  THEN signature # NoSignature /\ "public" \in keys /\ signature.of = manifest
  ELSE TRUE

ReleaseOk == manifest # NoManifest /\ StatusOk /\ Sha256Ok /\ SignatureOk

(* StreamingIDS.from_config(): the release is verified ...                 *)
Verify ==
  /\ server.at = "off" /\ checkpoint # NoFile
  /\ ReleaseOk
  /\ server' = [at |-> "verified", model |-> NoFile]
  /\ replaced' = FALSE
  /\ UNCHANGED <<trainVars, certifyVars, required, checkpoint, manifest, signature>>

(* ... and the checkpoint read again to be loaded.                         *)
LoadModel ==
  /\ server.at = "verified" /\ checkpoint \in Weights
  /\ server' = [at |-> "serving", model |-> checkpoint]
  /\ UNCHANGED <<trainVars, certifyVars, required, replaced, checkpoint, manifest, signature>>

StopServing ==
  /\ server.at # "off"
  /\ server' = [at |-> "off", model |-> NoFile]
  /\ UNCHANGED <<trainVars, certifyVars, required, replaced, checkpoint, manifest, signature>>

TrainNext ==
  \/ \E score \in Scores : BetterEpoch(score) \/ StaleEpoch(score)
  \/ TestBest
  \/ SaveFederated
  \/ WriteTrainingManifest
  \/ StopTraining

CertifyNext ==
  \/ StartCertifying
  \/ FoldIn
  \/ WriteCertified
  \/ CheckManifest
  \/ WriteKey
  \/ Sign
  \/ VerifySignature
  \/ StopCertifying

ReleaseNext ==
  \/ \E data \in Datasets : StartTraining(data)
  \/ TrainNext
  \/ CertifyNext
  \/ Verify
  \/ LoadModel
  \/ StopServing

ReleaseSpec == ReleaseInit /\ [][ReleaseNext]_releaseVars

-----------------------------------------------------------------------------
(* Where a signature and the certified status are required, the weights    *)
(* served are those of a manifest that was signed with that status, for    *)
(* whatever order trainers, certifiers and servers came in and wherever    *)
(* they stopped, unless the checkpoint was written again between its       *)
(* verification and its loading.                                           *)
CertifiedServed ==
  server.at = "serving" /\ required.signature /\ required.certified /\ ~replaced =>
    \E m \in signed : m.status = "certified" /\ m.sha = server.model

(* The training a certified manifest tells of is the one that made the     *)
(* weights, unless they were certified in the middle of a training or      *)
(* after one that wrote no manifest.                                       *)
ProvenanceKept ==
  ~confused =>
    \A m \in signed : m.status = "certified" => m.sha \in Weights /\ m.run = m.sha.run

(* The weights a central training reports its test on are the best of the  *)
(* run by validation.                                                      *)
BestTested ==
  tested \in Weights /\ trainer = "central" => tested.score = best[tested.run]

ServedIsVouched == CertifiedServed /\ ProvenanceKept /\ BestTested
=============================================================================
