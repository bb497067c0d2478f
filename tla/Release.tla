------------------------------ MODULE Release -------------------------------
(***************************************************************************)
(* Data preparation, training, certification and streaming over the files  *)
(* they share: the arrays a model is trained on, the checkpoint with its   *)
(* manifest and signature, and the held-out rows a streaming demo          *)
(* (scripts/run_streaming_demo.py) replays to the certified model.  Each   *)
(* runs by itself at any time; nothing locks a file.                       *)
(*                                                                         *)
(* The server is one process: what it streams ends before it does (killed, *)
(* it leaves nothing).  A study bounds how much of each part a behaviour   *)
(* holds.                                                                  *)
(***************************************************************************)
EXTENDS DataPreparation, ModelRelease, StreamingIDS

CONSTANTS
  Studies,       (* bounds: the tables, seeds, trainers and requirements,    *)
                 (* how often each part runs, whether a preparation may     *)
                 (* stop, the sources that may be fed                       *)
  SampleSizes    (* streaming.max_records of the demo; 0: unset             *)

ASSUME StudiesAssumption ==
  /\ \A n \in DOMAIN Studies : Studies[n].configs \subseteq Configs
  /\ Configs \subseteq Datasets
  /\ \A n \in DOMAIN Studies : Studies[n].feeds \subseteq Sources /\ Studies[n].demos \in Nat

VARIABLES
  study,  (* the bounds of this behaviour                                   *)
  demo,   (* the demo under way                                             *)
  demos   (* demos started                                                  *)

vars == <<prepVars, releaseVars, streamVars, study, demo, demos>>

Study   == Studies[study]
DemoOff == [at |-> "off"]

Init ==
  /\ study \in DOMAIN Studies
  /\ PrepInit /\ ReleaseInit /\ StreamInit
  /\ table \in Study.tables /\ seeded \in Study.seeds
  /\ trainer \in Study.trainers /\ required \in Study.required
  /\ demo = DemoOff /\ demos = 0

-----------------------------------------------------------------------------
Prepare ==
  /\ \/ /\ started.preparations < Study.preparations
        /\ \E config \in Study.configs : Preprocess(config)
     \/ SaveFile
     \/ Study.stops /\ StopPreparing
     \/ /\ started.partitions < Study.partitions
        /\ Readable("arrays")
        /\ \E deal \in [DOMAIN Arrays.train -> Clients] : CreatePartitions(deal)
     \/ SavePartition
     \/ StopPartitioning
  /\ UNCHANGED <<releaseVars, streamVars, study, demo, demos>>

(* load_prepared().  With the table and the seed fixed a configuration     *)
(* names the arrays it prepares.                                           *)
Train ==
  /\ \/ /\ runs < Study.runs
        /\ Readable("arrays") /\ Readable("metadata")
        /\ StartTraining(disk["arrays"].of.config)
     \/ TrainNext
  /\ UNCHANGED <<prepVars, streamVars, study, demo, demos>>

Certify ==
  /\ certifications < Study.certifications \/ certifier # NotRunning
  /\ CertifyNext
  /\ UNCHANGED <<prepVars, streamVars, study, demo, demos>>

(* StreamingIDS refuses windows, and needs the files of the preparation    *)
(* for its features.                                                       *)
Serve ==
  /\ demo = DemoOff /\ phase \in {"idle", "done", "dead"}
  /\ \/ Verify
     \/ /\ Readable("preprocessor") /\ Readable("metadata")
        /\ disk["metadata"].of.config.length = 1
        /\ LoadModel
     \/ StopServing
  /\ UNCHANGED <<prepVars, streamVars, study, demo, demos>>

(* run() of a scenario or of a live source, once.                          *)
Feed ==
  /\ server.at = "serving" /\ demo = DemoOff /\ phase = "idle"
  /\ \E from \in Study.feeds, emitNormal \in BOOLEAN : StartStream(from, emitNormal)
  /\ UNCHANGED <<prepVars, releaseVars, study, demo, demos>>

Stream ==
  /\ StreamNext
  /\ UNCHANGED <<prepVars, releaseVars, study, demo, demos>>

-----------------------------------------------------------------------------
(* run_streaming_demo.py                                                   *)

LabelsOf(rows) == [k \in DOMAIN rows |-> table[rows[k]].label]

(* heldout_indices() of a configuration: the saved rows; with none saved,  *)
(* those of a split by rows, which must have the labels of the arrays      *)
(* unless these are windows.                                               *)
Reproduced(config) == HeldoutOf(config, SplitByRow(config).test)

SameLabels(config) ==
  LET test == Arrays.test
  IN  LabelsOf(Reproduced(config)) = LabelsOf([k \in DOMAIN test |-> Last(test[k])])

MayReproduce(config) ==
  /\ disk["heldout"] = Missing
  /\ disk["arrays"] # Missing =>
       \/ Readable("metadata") /\ disk["metadata"].of.config.strategy = "windows"
       \/ disk["metadata"] # Torn /\ Readable("arrays") /\ SameLabels(config)

(* max_records of the held-out rows are drawn, in the order of the file;   *)
(* with max_records unset, all of them as they come.                       *)
SamplesOf(idx, size) ==
  IF size = 0 THEN {idx}
  ELSE {InOrder(chosen) : chosen \in kSubset(Least(size, Len(idx)), Range(idx))}

(* The rows are chosen.                                                    *)
Select(idx, config) ==
  \E size \in SampleSizes : \E rows \in SamplesOf(idx, size) :
    demo' = [at |-> "selected", idx |-> idx, rows |-> rows, size |-> size,
             config |-> config, arrays |-> IF Steady THEN disk["arrays"] ELSE Missing,
             against |-> Missing, scored |-> << >>]

SelectRows ==
  /\ server.at = "serving" /\ demo = DemoOff /\ phase \in {"idle", "done", "dead"}
  /\ demos < Study.demos
  /\ demos' = demos + 1
  /\ \E config \in Study.configs :
       \/ /\ Readable("heldout")
          /\ Select(HeldoutOf(disk["heldout"].of.config, disk["heldout"].of.split.test), config)
       \/ MayReproduce(config) /\ Select(Reproduced(config), config)
  /\ UNCHANGED <<prepVars, releaseVars, streamVars, study>>

(* The rows are picked out of the file, in its order, and replayed from    *)
(* memory: first with an alert for every one, to be scored, then as        *)
(* configured.                                                             *)
Replayed(rows) ==
  [kind |-> "memory",
   steps |-> <<[records |-> [k \in DOMAIN table |-> k], wanted |-> Range(rows) \intersect DOMAIN table,
                max |-> NoMax, packets |-> Len(table), closed |-> TRUE]>>]

AccuracyPass ==
  /\ demo.at = "selected"
  /\ StartStream(Replayed(demo.rows), TRUE)
  /\ demo' = [demo EXCEPT !.at = "accuracy"]
  /\ UNCHANGED <<prepVars, releaseVars, study, demos>>

(* The true labels: those the arrays have at the positions of the rows.    *)
Truth ==
  LET position(row) == CHOOSE k \in DOMAIN demo.idx : demo.idx[k] = row
  IN  LabelsOf([k \in DOMAIN demo.rows |-> Last(Arrays.test[position(demo.rows[k])])])

(* classification_report() takes as many predictions as labels.            *)
Score ==
  /\ demo.at = "accuracy" /\ phase = "done"
  /\ Readable("arrays") /\ Len(demo.idx) <= Len(Arrays.test)
  /\ Len(alerts) = Len(demo.rows)
  /\ demo' = [demo EXCEPT !.at = "scored", !.against = disk["arrays"],
                          !.scored = [k \in DOMAIN alerts |-> <<Truth[k], alerts[k]>>]]
  /\ UNCHANGED <<prepVars, releaseVars, streamVars, study, demos>>

RealPass ==
  /\ demo.at = "scored"
  /\ StartStream(Replayed(demo.rows), FALSE)
  /\ demo' = [demo EXCEPT !.at = "real"]
  /\ UNCHANGED <<prepVars, releaseVars, study, demos>>

(* The demo is over: its first alerts have gone through run_incident(), or *)
(* it has been stopped.                                                    *)
DemoOver ==
  /\ demo # DemoOff /\ phase \in {"idle", "done", "dead"}
  /\ demo' = DemoOff
  /\ UNCHANGED <<prepVars, releaseVars, streamVars, study, demos>>

Next ==
  \/ Prepare
  \/ Train
  \/ Certify
  \/ Serve
  \/ Feed
  \/ Stream
  \/ SelectRows
  \/ AccuracyPass
  \/ Score
  \/ RealPass
  \/ DemoOver

Spec == Init /\ [][Next]_vars

-----------------------------------------------------------------------------
TypeOK ==
  /\ PrepTypeOK /\ ReleaseTypeOK /\ StreamTypeOK
  /\ study \in DOMAIN Studies /\ demos \in 0..Study.demos
  /\ demo.at \in {"off", "selected", "accuracy", "scored", "real"}
  /\ demo # DemoOff => server.at = "serving" /\ Range(demo.rows) \subseteq Range(demo.idx)

-----------------------------------------------------------------------------
(* The preparation of the arrays is the one the held-out rows are of, once *)
(* one has run to its end and none was cut short.                          *)
HeldoutOfArrays ==
  Steady /\ Readable("arrays") => disk["heldout"] = disk["arrays"]

(* When the model served was trained on the arrays as they were when the   *)
(* rows were chosen, none of the rows replayed to it was trained on, and   *)
(* all are test rows; so when the same split by rows is reproduced.        *)
ReplayedWasHeldOut ==
  demo # DemoOff /\ demo.arrays # Missing /\ server.model.data = demo.arrays.of.config =>
    /\ Range(demo.rows) \subseteq RowsOf(demo.arrays.of.split.test)
    /\ Range(demo.rows) \intersect RowsOf(demo.arrays.of.split.train) = {}

(* The label a prediction is scored against is that of the row it is of,   *)
(* when max_records is set and the arrays scored against are those the     *)
(* rows were chosen for, and are no windows.                               *)
ScoredAgainstItsLabel ==
  demo.at = "scored" /\ ~handling /\ demo.size # 0
    /\ demo.against = demo.arrays /\ demo.against.of.config.strategy # "windows" =>
    \A k \in DOMAIN demo.scored : demo.scored[k][1] = table[demo.scored[k][2]].label

(* What is tested on was not seen before: the parts of a split are apart,  *)
(* the clients' parts are, the demo replays held-out rows, and it scores   *)
(* each against its own label.                                             *)
HeldoutUnseen ==
  /\ preparing # Resting => KeptApart(preparing.of)
  /\ Readable("arrays") => ClientsApart
  /\ HeldoutOfArrays
  /\ ReplayedWasHeldOut
  /\ ScoredAgainstItsLabel
=============================================================================
