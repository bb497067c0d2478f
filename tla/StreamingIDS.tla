---------------------------- MODULE StreamingIDS ----------------------------
(***************************************************************************)
(* The streaming detector (streaming/pipeline.py) and what it reads from   *)
(* (streaming/sources.py, live_source.py and scenario.py).                 *)
(*                                                                         *)
(* A source is a sequence of steps; only a scenario has several.  A step   *)
(* has records, of which some are wanted: the rows asked for of a file,    *)
(* the lines or messages that parse of a stream.  A live replay pairs each *)
(* record with a packet and ends with either.  What the model makes of a   *)
(* record is fixed: it is alarming or not.  Records are numbers from 1.    *)
(*                                                                         *)
(* A KeyboardInterrupt may come anywhere, also inside a flush.             *)
(***************************************************************************)
EXTENDS Integers, Sequences, FiniteSets

CONSTANTS
  BatchSize,     (* streaming.batch_size                                    *)
  Alarming       (* records classified as an attack, confidently enough     *)

ASSUME BatchAssumption == BatchSize \in Nat \ {0}

VARIABLES
  source,      (* what is read                                              *)
  step,        (* the step of the source that is read                       *)
  pos,         (* the record of the step last yielded                       *)
  emitted,     (* records of the step yielded                               *)
  hand,        (* the record yielded and not yet in the batch               *)
  batch,       (* the open batch                                            *)
  phase,       (* where run() is                                            *)
  resume,      (* where it goes on after a flush                            *)
  looked,      (* the records of the batch this flush has looked at         *)
  handling,    (* run() handles an interrupt                                *)
  all,         (* emit_normal: every record makes an alert                  *)
  alerts,      (* the alerts so far                                         *)
  suppressed,  (* stats.alerts_suppressed                                   *)
  appended,    (* history: the records put into a batch                     *)
  judged       (* history: the records an alert was or was not made of      *)

sourceVars == <<source, step, pos, emitted>>
flushVars  == <<alerts, suppressed, judged>>
streamVars == <<sourceVars, hand, batch, phase, resume, looked, handling, all, flushVars, appended>>

NoMax    == -1
NoRecord == 0
NoSource == [kind |-> "memory", steps |-> << >>]
Kinds    == {"memory", "scenario", "socket", "mqtt"}

Records == Nat \ {NoRecord}

(* A step of a source is consumed to its end before the next is opened.    *)
Steps ==
  {s \in [records : Seq(Records), wanted : SUBSET Nat, max : Nat \union {NoMax},
          packets : Nat, closed : BOOLEAN] :
     s.wanted \subseteq DOMAIN s.records}

Sources == [kind : Kinds, steps : Seq(Steps) \ {<< >>}]

Phases == {"idle", "read", "append", "transform", "emit", "done", "dead"}

StreamTypeOK ==
  /\ source \in Sources \union {NoSource}
  /\ step \in 0..Len(source.steps)
  /\ pos \in Nat /\ emitted \in Nat
  /\ hand \in Records \union {NoRecord}
  /\ phase = "append" <=> hand # NoRecord
  /\ batch \in Seq(Records) /\ Len(batch) <= BatchSize
  /\ phase \in Phases /\ resume \in {"read", "done"}
  /\ looked \in 0..BatchSize
  /\ handling \in BOOLEAN /\ all \in BOOLEAN
  /\ {alerts, judged, appended} \subseteq Seq(Records)
  /\ suppressed \in 0..Len(judged)

StreamInit ==
  /\ source = NoSource
  /\ step = 0 /\ pos = 0 /\ emitted = 0
  /\ hand = NoRecord /\ batch = << >>
  /\ phase = "idle" /\ resume = "read" /\ looked = 0 /\ handling = FALSE /\ all = FALSE
  /\ alerts = << >> /\ suppressed = 0 /\ judged = << >> /\ appended = << >>

(* run() of a source; a run that is over leaves its alerts to the caller.  *)
StartStream(from, emitNormal) ==
  /\ phase \in {"idle", "done", "dead"}
  /\ source' = from
  /\ step' = 1 /\ pos' = 0 /\ emitted' = 0
  /\ hand' = NoRecord /\ batch' = << >>
  /\ phase' = "read" /\ resume' = "read" /\ looked' = 0 /\ handling' = FALSE /\ all' = emitNormal
  /\ alerts' = << >> /\ suppressed' = 0 /\ judged' = << >> /\ appended' = << >>

-----------------------------------------------------------------------------
(* The sources.                                                            *)

Current == source.steps[step]

(* max_records is checked after a record was yielded.                      *)
MayYield == Current.max = NoMax \/ emitted = 0 \/ emitted < Current.max

Ahead == {p \in Current.wanted : p > pos}

HasNext == MayYield /\ Ahead # {} /\ emitted < Current.packets

Yield ==
  /\ phase = "read" /\ HasNext
  /\ pos' = CHOOSE p \in Ahead : \A q \in Ahead : p <= q
  /\ hand' = Current.records[pos']
  /\ emitted' = emitted + 1
  /\ phase' = "append"
  /\ UNCHANGED <<source, step, batch, resume, looked, handling, all, flushVars, appended>>

(* ScenarioRunner: the next step.                                          *)
NextStep ==
  /\ phase = "read" /\ ~HasNext /\ step < Len(source.steps)
  /\ step' = step + 1 /\ pos' = 0 /\ emitted' = 0
  /\ UNCHANGED <<source, hand, batch, phase, resume, looked, handling, all, flushVars, appended>>

(* flush() of a batch; with none there is nothing to do.                   *)
Flush(records, then) ==
  /\ phase' = IF records = << >> THEN then ELSE "transform"
  /\ resume' = then

(* The file, the steps or the connection are at their end; a topic only    *)
(* ends with max_records or a null message.                                *)
SourceEnds ==
  /\ phase = "read" /\ step = Len(source.steps)
  /\ \/ ~HasNext /\ (source.kind = "mqtt" => Current.closed \/ ~MayYield)
     \/ source.kind = "socket"
  /\ Flush(batch, "done")
  /\ UNCHANGED <<sourceVars, hand, batch, looked, handling, all, flushVars, appended>>

(* A topic is silent for a minute: queue.Empty leaves run().               *)
TopicSilent ==
  /\ phase = "read" /\ source.kind = "mqtt" /\ MayYield
  /\ phase' = "dead"
  /\ UNCHANGED <<sourceVars, hand, batch, resume, looked, handling, all, flushVars, appended>>

-----------------------------------------------------------------------------
(* run().                                                                  *)

AppendRecord ==
  /\ phase = "append"
  /\ batch' = Append(batch, hand)
  /\ appended' = Append(appended, hand)
  /\ hand' = NoRecord
  /\ IF Len(batch') >= BatchSize THEN Flush(batch', "read")
     ELSE phase' = "read" /\ UNCHANGED resume
  /\ UNCHANGED <<sourceVars, looked, handling, all, flushVars>>

(* flush(): the features and the predictions of the whole batch.           *)
Transform ==
  /\ phase = "transform"
  /\ phase' = "emit" /\ looked' = 0
  /\ UNCHANGED <<sourceVars, hand, batch, resume, handling, all, flushVars, appended>>

(* The transformer or the model raises: the exception leaves run().        *)
TransformRaises ==
  /\ phase = "transform"
  /\ phase' = "dead"
  /\ UNCHANGED <<sourceVars, hand, batch, resume, looked, handling, all, flushVars, appended>>

(* _alert_for() the next record of the batch makes an alert, or none.      *)
EmitOne ==
  /\ phase = "emit" /\ looked < Len(batch)
  /\ LET record == batch[looked + 1]
     IN  /\ judged' = Append(judged, record)
         /\ IF all \/ record \in Alarming
            THEN alerts' = Append(alerts, record) /\ UNCHANGED suppressed
            ELSE suppressed' = suppressed + 1 /\ UNCHANGED alerts
  /\ looked' = looked + 1
  /\ UNCHANGED <<sourceVars, hand, batch, phase, resume, handling, all, appended>>

ClearBatch ==
  /\ phase = "emit" /\ looked = Len(batch)
  /\ batch' = << >>
  /\ phase' = resume
  /\ UNCHANGED <<sourceVars, hand, resume, looked, handling, all, flushVars, appended>>

(* Mutant of Interrupt: run() returns with what it has.                    *)
InterruptDropsBatch ==
  /\ phase \in {"read", "append", "transform", "emit"}
  /\ hand' = NoRecord
  /\ IF handling THEN phase' = "dead" /\ UNCHANGED <<resume, handling>>
     ELSE handling' = TRUE /\ phase' = "done" /\ UNCHANGED resume
  /\ UNCHANGED <<sourceVars, batch, looked, all, flushVars, appended>>

(* A KeyboardInterrupt: what is in the batch is flushed, again if this     *)
(* comes inside a flush, and run() returns.  A record in hand is lost.  An *)
(* interrupt of that last flush leaves run().                              *)
Interrupt ==
  /\ phase \in {"read", "append", "transform", "emit"}
  /\ hand' = NoRecord
  /\ IF handling THEN phase' = "dead" /\ UNCHANGED <<resume, handling>>
     ELSE handling' = TRUE /\ Flush(batch, "done")
  /\ UNCHANGED <<sourceVars, batch, looked, all, flushVars, appended>>

StreamNext ==
  \/ Yield
  \/ NextStep
  \/ SourceEnds
  \/ TopicSilent
  \/ AppendRecord
  \/ Transform
  \/ TransformRaises
  \/ EmitOne
  \/ ClearBatch
  \/ Interrupt

-----------------------------------------------------------------------------
(* What a source has to deliver: of each step the wanted records, as many  *)
(* as max_records and the packets allow.  A record is named by its place.  *)
Least(m, n) == IF m <= n THEN m ELSE n

Asked(s) ==
  IF s.max = NoMax THEN s.packets ELSE Least(IF s.max = 0 THEN 1 ELSE s.max, s.packets)

UpTo(s, p) == {q \in s.wanted : q <= p}

Taken(s) == {p \in s.wanted : Cardinality(UpTo(s, p)) <= Asked(s)}

Deliverable == UNION {{n} \X Taken(source.steps[n]) : n \in DOMAIN source.steps}

NoLater(c, d) == c[1] < d[1] \/ (c[1] = d[1] /\ c[2] <= d[2])

RecordAt(d) == source.steps[d[1]].records[d[2]]

(* Records that are the first ones of what the source has to deliver.      *)
Turn(d) == Cardinality({c \in Deliverable : NoLater(c, d)})

FirstOnes(records) ==
  /\ Len(records) <= Cardinality(Deliverable)
  /\ \A d \in Deliverable : Turn(d) <= Len(records) => records[Turn(d)] = RecordAt(d)

(* Of the first n records judged, those an alert is due for.               *)
Due(n) == {k \in 1..n : all \/ judged[k] \in Alarming}

AlertsForDue ==
  /\ Len(alerts) = Cardinality(Due(Len(judged)))
  /\ \A k \in Due(Len(judged)) : alerts[Cardinality(Due(k))] = judged[k]

(* The records of a run that was not interrupted are judged once each, in  *)
(* the order of the source and, of a file or a scenario, all of them.  An  *)
(* interrupted run has judged every record it put into a batch; some of    *)
(* the last batch it may have judged twice, on end, never more than a      *)
(* batch.  A record that does not make an alert is counted.                *)
RecordsOnceInOrder ==
  /\ FirstOnes(appended)
  /\ phase = "done" /\ ~handling =>
       /\ judged = appended
       /\ source.kind \in {"memory", "scenario"} => Len(judged) = Cardinality(Deliverable)
  /\ phase = "done" /\ handling =>
       LET again == Len(judged) - Len(appended)
       IN  /\ again \in 0..BatchSize
           /\ \E j \in again..Len(appended) :
                judged = SubSeq(appended, 1, j)
                           \o SubSeq(appended, j - again + 1, Len(appended))
  /\ AlertsForDue
  /\ suppressed = Len(judged) - Len(alerts)

-----------------------------------------------------------------------------
(* The inductive invariant behind RecordsOnceInOrder.                      *)

StreamPhases ==
  /\ phase # "idle" => source \in Sources /\ step \in 1..Len(source.steps)
  /\ phase \in {"read", "append"} => resume = "read" /\ ~handling /\ Len(batch) < BatchSize
  /\ phase \in {"transform", "emit"} => batch # << >>
  /\ phase = "emit" => looked <= Len(batch)
  /\ phase = "done" => resume = "done"
  /\ handling => resume = "done"

(* What is due up to the record last yielded.                              *)
Reached == {d \in Deliverable : NoLater(d, <<step, pos>>)}

(* As long as nothing was interrupted all that is due so far is in a batch *)
(* or was, but for the record in hand; at the end nothing else is due.     *)
Delivery ==
  /\ FirstOnes(appended)
  /\ phase # "idle" => emitted = Cardinality(UpTo(Current, pos))
  /\ phase # "idle" /\ ~handling =>
       Len(appended) + (IF phase = "append" THEN 1 ELSE 0) = Cardinality(Reached)
  /\ phase = "append" => <<step, pos>> \in Deliverable /\ hand = RecordAt(<<step, pos>>)
  /\ resume = "done" /\ ~handling /\ source.kind \in {"memory", "scenario"} =>
       Reached = Deliverable

(* The last n records put into a batch were judged up to the again-th of   *)
(* them, then the first m of them once more.                               *)
JudgedAgain(n, again, m) ==
  LET before == Len(appended) - n + again
  IN  /\ Len(judged) = before + m
      /\ \A k \in 1..before : judged[k] = appended[k]
      /\ \A k \in 1..m : judged[before + k] = appended[Len(appended) - n + k]

SoFar == IF phase = "emit" THEN looked ELSE 0

Judging ==
  /\ Len(batch) <= Len(appended)
  /\ \A k \in 1..Len(batch) : batch[k] = appended[Len(appended) - Len(batch) + k]
  /\ ~handling /\ phase \in {"read", "append", "transform", "emit"} =>
       JudgedAgain(Len(batch), SoFar, 0)
  /\ ~handling /\ phase = "done" => JudgedAgain(0, 0, 0)
  /\ handling /\ phase \in {"transform", "emit"} =>
       \E again \in 0..Len(batch) : JudgedAgain(Len(batch), again, SoFar)
  /\ handling /\ phase = "done" =>
       \E n \in 0..BatchSize : n <= Len(appended) /\ \E again \in 0..n : JudgedAgain(n, again, n)

AlertsCounted == AlertsForDue /\ suppressed = Len(judged) - Len(alerts)

StreamInv == StreamTypeOK /\ StreamPhases /\ Delivery /\ Judging /\ AlertsCounted
=============================================================================
