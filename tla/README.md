# TFACD in TLA+

TFACD detects attacks on a network with a model that several sites train together, decides what to
do about an alert, and carries it out only if a trust boundary clears it. This directory holds TLA+
modules that model the parts of TFACD in which order, failure and time matter, the TLC runs that
check them on small instances, and proofs, checked by TLAPS, for every value of the constants.

Paths below are relative to `src/src/tfacd/` unless they start with `src/`.

    cd tla
    tlc -workers 2 -config MCAuditLog.cfg MCAuditLog.tla     # a run
    tlapm AuditLogProofs.tla                                 # the proofs of a module

`PROJECT.json` lists, in a form tools can read, the components, the runs, which lines of the source
each definition stands for, the hazards and the properties aimed at them, one mutation of a
definition per property that the property catches, the theorems and the findings.

## 1. The system

    alert ──> DecisionEngine ──plan──> Trust boundary ──actions──> Production executor ──rules──> firewall
     ^          |      ^                 |      |    |
     |          v      |                 v      v    +──> Audit log ──> analytics
    Streaming   Entity history <─────────+   behaviour score
     ^
    model <── Release check <── Certification <── Federated training (FTIL) <── clients

| component | state it keeps | operations | what is hard | what makes it correct |
|---|---|---|---|---|
| **Trust boundary** (`trust_boundary/boundary.py` and its stages) | none of its own: reads clock and history, writes history and audit log | `evaluate()`: preprocessing (nonce, age, quota), deterministic controls, dynamic trust, capability enforcement, `_finalize()` | a clock read several times, each write and the executor may raise, restarts, counting after acting | a replayed session does not act, the hourly quota, a plan acts as a whole or not at all, an honest audit entry |
| **Entity history** (`agentic/history.py`) | events in memory, a JSONL file | `append()`, `recent()`, replay at start-up | the write fails after memory took the event, or is cut short and the next line runs into it | what is recent is found, also after a restart |
| **Audit log** (`trust_boundary/audit.py`) | sequence number, last hash, the file | start-up check, `append()`, `verify_chain()` | two processes on one file, failing and cut-short writes, changes from outside | a log that verifies identifies its entries, nothing acknowledged vanishes unseen, no false alarm |
| **Production executor** (`trust_boundary/production_executor.py`) | the rules of the host's firewall, an action log | `execute()`, `remove_block_rule()` | several commands per action, any of which may fail or time out; rule order depends on the backend, netsh rules go by a folded name | protected addresses are left alone, what is reported holds |
| **Pluggable executors** (`trust_boundary/executors.py`) | none | commands, webhooks | late answers, exceptions | the boundary's, see there |
| **Decision engines** (`agentic/llm_engine.py`, `graph.py`, `decision_engine.py`) | the history they share with the boundary | `decide()` | retries, several models, a fallback that starts over after a partial failure | every alert gets an allowed plan, recorded once, truthfully labelled |
| **Federated trust integrity layer** (`federated/integrity_strategy.py`, `integrity/`) | trust of every client, a trust log, the global model | `aggregate_train()` each round | clients that come and go, trust over many rounds, quorum against trimming | one bad round does not sink a client, nobody is excluded for good, few strangers cannot move the model |
| **Certification and release** (`integrity/certification.py`, `training/centralized.py`, `src/scripts/certify_model.py`) | model, manifest, signature and key files | train, certify, sign, verify, load | files replaced one by one, between check and use, by scripts that may stop anywhere | only weights signed as certified are served, and the certificate tells of the run that made them |
| **Streaming IDS** (`streaming/`, `src/scripts/run_streaming_demo.py`) | a batch, sources | `run()`, `flush()`; CSV, memory, socket and MQTT sources, scenarios, live pacing | interrupts inside `flush()`, silent sources, limits of a source against limits of a scenario | each record judged once, in order, against its own label |
| **Behavioural trust** (`trust_boundary/behavioral_trust.py`) | scores, a forest, in memory | `score()`, `refit_from_history()` | features taken at one instant, recorded at another | a refit learns what was scored |
| **Analytics** (`analytics/`, `src/scripts/label_trust_decision.py`) | a chained label store; running reputations; reports | `append()`, `verify_label_chain()`, `update()`, reports | resumes without verifying, cut-short lines, two analysts; five readers of one log | a changed label shows, a genuine one raises no alarm, reports agree |
| **Data preparation** (`data/`, `federated/loaders.py`, `src/scripts/create_partitions.py`) | prepared arrays, indices, held-out rows, partitions: separate files | sessions, windows, splits, partitions, client loaders | rounding, rows without a time, both directions of a flow, columns that tell them apart, files of two preparations | nothing tested on was trained on |
| **Security benchmark** (`evaluation/astb_benchmark.py`) | counters of the generator, rows | generate, label, evaluate by variant, rates | draws that contradict the label, counters that skip | balanced, rightly labelled, rates that mean what the study says |
| **The rest**: threat context table, retrieval, redaction, simulated attacks on updates, certificates, configuration | | | | pure functions, measurement, or I/O |

Interactions. The engines and the boundary share one `EntityHistory`: the engines look for repeat
activity in it, the boundary for used nonces and counted actions. The boundary calls the executor
synchronously, between reading the quota and recording the decision, and appends to the audit log
last. Analytics join their labels to the audit log on its sequence number. Preparation, training,
certification and the streaming IDS meet in files only: each is a script of its own, nothing locks, and
the arrays, the checkpoint, the manifest, the signature and the held-out rows are written one by one.

## 2. The modules

| module | models | run by | proofs |
|---|---|---|---|
| `AuditLog` | `AuditLogger`, `verify_chain()` | `MCAuditLog` | `AuditLogProofs` |
| `TrustBoundary` | `evaluate()` with its stages and `EntityHistory` | `MCTrustBoundary` | `TrustBoundaryProofs` |
| `Firewall` | `ProductionExecutor` and the packet filter | `MCFirewall` | `FirewallProofs` |
| `PlanService` | what a caller of `decide()` relies on (abstract) | through `DecisionEngine` | |
| `DecisionEngine` | both engines, the LangGraph loop, the history | `MCDecisionEngine` | `DecisionEngineProofs` |
| `IntegrityStrategy` | `aggregate_train()`, detector trust, aggregation | `MCIntegrityStrategy` | `IntegrityStrategyProofs` |
| `Oversight` | the label store, the reports over the audit log, the refit from the history | `MCOversight` | `OversightProofs` |
| `SecurityBenchmark` | `generate_scenarios()`, the oracle, `evaluate_scenario()`, `_base_metrics()` | `MCSecurityBenchmark` | `SecurityBenchmarkProofs` |
| `DataPreparation` | `preprocess()`, sessions, splits, partitions, `client_loaders()` | through `Release` | in `ReleaseProofs` |
| `ModelRelease` | training, `certify_model.py`, `verify_release()`, loading | through `Release` | in `ReleaseProofs` |
| `StreamingIDS` | `StreamingIDS.run()` and its sources | through `Release` | in `ReleaseProofs` |
| `Release` | the three together, and `run_streaming_demo.py` | `MCRelease` | `ReleaseProofs` |

In each, one action stands for the code between two points where something else may happen: another
process takes a turn, time passes, a call raises, or the process ends. Inside such a stretch the code
is one step, with all the calls it makes.

### AuditLog

The file is a sequence of lines; a logger is a process with the log open (nothing locks the file).
`BeginAppend`, `WriteLine` and `EndAppend` are the three parts of `append()`: the number is taken, the
line written, `last_hash` moved. `WriteFails` and `WriteCutShort` are a write that raises, without and
with part of the line in the file; `Stop` is the end of a process at any point. `OpenNew`, `OpenResume`
and `OpenTampered` are the constructor; a file that cannot be parsed raises out of it, so no action
exists. `EditEntry` and `PutBackOlderCopy` are changes from outside. Hashes are free of collisions: a
hash is the sequence of the payloads hashed into it. Entry contents other than the sequence number are
one value.

### TrustBoundary

`Submit`, then `CheckNonce`, `CheckAge`, `CheckQuota`, `CheckControls`, `Regulate`, `Execute` (once for
each eligible action), `RecordDecision`, `AuditDecision`: the order of `evaluate()` and `_finalize()`.
Time may pass between any two (`Tick`). Each write, and the executor, has its `...Raises` variant, after
which the evaluation is abandoned where it stands, as in the code, which catches nothing. `Crash` ends
the process and `Start` replays the history file. That file is the sequence of its writes (`disk`), each of which left
a whole line, the text without its line break, or part of the text: the next write runs into one that was cut short
(`agentic/history.py:39-40`). `Legible` says which lines are still one event, and `Start` needs all of them to be
(`json.loads()` raises otherwise). `early` remembers, for the properties, the evaluations that noted the nonce of a
session issued later than that: `CheckNonce` and `CheckAge` read the clock one after the other. An executor reports true, false, or raises, and each
of these with or without having acted (a webhook whose answer is late, a command that times out).

String checks (targets, parameters, rationale, identifiers) are one verdict per stage; the trust score
is the level it is bucketed into. Both take any value, so the properties hold whatever the scores are.
The audit log is the sequence of its entries here; how it is written is `AuditLog`.

### Firewall

One action per command of `execute()`: create table and chain, accept rule, drop rule, action log.
Rules are kept in the order in which packets meet them: nft appends, `iptables -I` inserts at the head,
netsh only blocks. A command succeeds, fails, or times out with or without effect. A target is its spelling: `Covers`
gives the addresses of a network, so overlap with a protected network is set intersection, and `Folded` the spelling with
"/" and ":" replaced by "_", by which netsh rules are named (`RuleName`). `RemoveBlockRule` deletes every rule of that
name, so lifting one IPv6 target may lift another (`2001:db8::5/64` and `2001:db8::5:64`).

### PlanService and DecisionEngine

`PlanService` is the promise of `agentic/base.py` and of the docstring of `LLMDecisionEngine`: every
alert is answered, by a plan of playbooks allowed for it; an exception needs a broken history or
retrieval. `DecisionEngine` has the steps `Recall`, `Reason`, `Accept`, `Reject`, `FailOver`,
`RecordPlan` for the engines with models, `TemplateRecall` and `TemplateRecord` for the template engine,
and a `...Raises` step where a call may raise. A model proposes anything or fails. It implements
`PlanService` under `answers <- Visible` (an answer without its provenance) and
`broken <- Current \in brokenFor` (something broke during this alert).

### IntegrityStrategy

A round is `Detect` (validation, quorum, clustering, trust), `BelowQuorum` or `NoReplies`, then
`LogEvidence`, then `NewModel` or `KeepModel`. `Stop` is the end of the process, or an exception that
leaves the run, at any point; `StartRun` begins again, with every trust at 1.0. Which clients
clustering calls benign is open, within what `min_benign_fraction` and the rule for fewer than three
clients allow; which updates validation rejects is open too. An update is one parameter, an integer,
since the aggregations treat parameters one by one. Trust is an integer of which `Unit` is 1.0,
exact while 10 divides `Unit` once for each round (10^5 and five rounds).

Two history variables count what a client went through: `demerits`, the rounds of this run that put it
outside the benign cluster, and `streak`, up to two benign rounds on end.

### Oversight

The trust boundary is reduced to what its readers read. `Score` takes the behavioural features of a plan;
`EndScored` puts it into history and audit log, possibly later and after other evaluations of the agent;
`EndRejected` is one that never got a score. The history is `memory` and `file`, as in `EntityHistory`: an event
whose write failed is in memory only, and `Restart` begins again with what is in the file. Which events or entries
a function takes is a set of places in the sequence (`Since`, `PriorTo`, `ScoredOf`, `Matched`), in the order
of a series where the code sorts or appends (`PlaceByTime`, `PlaceInOrder`). `UpdateReputation` is `CrossAgentReputationEngine.update()` with the entries since the
last time; the other reports are operators over the log. `Show`, `OpenStore`, `AppendLabel` and their
`...Raises` are `label_trust_decision.py`, run by several analysts; `EditLabel` and `CutLabels` come from
outside. Trust values are percentages, their level follows from the configured thresholds.

### SecurityBenchmark

`GenerateControl` and `GenerateAttack` make one row each, with every value the seeded generator may draw;
`Evaluate` gives the row to every ablation variant. `Expected` is the oracle, `Verdict` the gates in
their order, `Attacked` what each attack changes. The similarity the text engine finds is any of
`Similarities`, except where the rationale decides it (the template itself, or words outside the
vocabulary). Rates are taken of the last `Window` rows, which makes the state small and asks the question
of every stretch of a benchmark. Protected targets are compared as text, and the generator draws none of
them, so that gate is left out.

### DataPreparation, ModelRelease, StreamingIDS and Release

`DataPreparation` has a table of rows with endpoints, other group columns, a time or none, and a label. `FlowKey` is
`add_flow_key()`: the endpoints are put in order if both their columns are grouped by, the others (`udp.port`,
`udp.stream`, `ip.proto` by default) are taken as they are, and without both endpoint columns so is everything. The group columns
are the same in every preparation of a behaviour. `Sessions`, `WindowsIn`
and `SplitBySession` are the algorithms of `data/temporal.py` and `data/preprocess.py`. Wherever the code
sorts, shuffles or goes through a group in turn, the model has a set and the pairs of its order (`Arranged`): rows by
flow and time, sessions by their beginning, windows by session and offset. A seed is the place at which it
draws each row or session (`AsDrawn`), the same in each preparation. `Preprocess` computes everything, `SaveFile` writes one file at a time,
`StopPreparing` is an exception or the end of the process between or within the writes; the partitions
(`CreatePartitions`, `SavePartition`) and the client loaders read what is on disk then. Any deal that
gives each client its minimum stands for a Dirichlet draw (`Sufficing`; the second minimum, per class, only narrows it), and
any even one for `iid_partition()` (`Even`).

`ModelRelease` has the files checkpoint, manifest, signature and keys, a training (central, epoch by
epoch with early stopping, or federated), a certification and a server, each of which may stop between any
two accesses. Weights are named by their run and the validation score of their epoch; a hash is the
weights, a signature the manifest that was signed.

`StreamingIDS` is `run()` step by step: the source yields (`Yield`), the record joins the batch, a full batch
is transformed, each alert emitted, the batch cleared; `Interrupt` is Ctrl-C at any point, whose handler
flushes again. What a source has to deliver is a set of places, a step and a position in it (`Deliverable`), in
their order (`Turn`), so that records that look alike are told apart. `Release` composes the three: training reads the arrays prepared before, streams are fed to the
model served, and the replay demo selects held-out rows, makes its accuracy pass with
`emit_all=True`, scores it, and makes its real pass. A sequence of `Studies` says how often each script
runs, so each study spends its states on one question.

## 3. The runs

| run | what it asks | bounds |
|---|---|---|
| `audit_log` | Is a log that verifies sound, and a sound log never refused? | 2 processes, 2 contents, 3 lines, 3 numbers each |
| `trust_boundary` | Replay, quota, whole-plan clearance, honest status, history before audit | 2 submissions, 2 nonces, 2 ticks, sessions up to 1 tick ahead of the clock, windows of 1 tick; a plan of 2 actions that may be cleared, and one each with an unauthorised action, an unknown one, and one too many; quota 3, every failure but a tampered log |
| `trust_boundary_spent_nonce` | *Violation*: a nonce is spent the moment it is offered | issued 1 tick ahead, 2 submissions |
| `trust_boundary_unaudited` | *Violation*: every decision reaches the audit log | log tampered with, 1 submission |
| `firewall` | Protection, containment, order of rules on every backend | 3 addresses, 3 networks that overlap, 2 of them of one netsh name, 3 actions |
| `firewall_limited_first` | *Violation*: a block reported as carried out blocks | nft, 2 actions |
| `decision_engine` | Does the engine implement `PlanService`, record once, label truthfully? | 0, 1 or 2 models, 2 attempts, 2 alerts, 2 ticks, every failure |
| `integrity_strategy` | How trust moves, what stands behind a model, can it be moved? | 3 clients of which 1 may send a value above the others', weights that may be 0, 5 rounds, quorum 2, all methods |
| `integrity_strategy_trims` | *Violation*: a trimmed mean that met the quorum trims | 3 clients, quorum 3, trim_ratio 0.2 |
| `oversight` | What does the label chain show, does a refit learn what was scored, do the reports agree? | 2 agents, 2 evaluations and 2 analysts at once; 2 decisions with 2 ticks, or 3 labels, or one of each over an old entry |
| `security_benchmark` | Balanced, rightly labelled, stopped by more than text, rates that mean what they say? | 30 rows, 4 threats, 4 roles, 2 sources, 2 assets, 5 similarities around the thresholds, 7 variants |
| `release` | Is what is tested unseen, what is served vouched for, each record judged once? | 853 tables of 4 rows, 48 of 7, 4 split configurations, 2 seeds; 2 preparations, partitions, trainings of 2 epochs, certifications; 6 sources; demos of 2 or all rows |

Why the bounds are enough to make the cases happen:

- *Audit log.* Two writers that overlap, one failed or cut-short write and one edit fit into three
  lines; a repeated sequence number needs two lines. Bigger instances only repeat this pattern,
  and the two safety properties that argue over whole chains are proved for any size.
- *Trust boundary.* `MaxAge = QuotaWindow = 1` with two ticks has every relation of two instants to a
  window: inside, at its edge, outside, and a session one tick ahead of the clock is in the future at one check and
  in its time at the next. Quota 3 takes one plan of two actions and not two of them. Two submissions are what a
  replay, an overrun, and a line that runs into another need.
- *Firewall.* Three actions are an early one, one that fails half-way, and a later one; the networks
  are one protected by overlap and two that contain each other and share a netsh name.
- *Decision engine.* Two attempts and two models reach every retry and every fallback; two alerts reach
  repeat activity, with both orders of the clock and the window.
- *Integrity strategy.* Three rounds out and two rounds back, in five rounds, are what the two trust
  properties need to be tight. A trim ratio of 1/3 makes one of three values trimmed; with the
  configured 1/5 five clients would be needed, and that three do not suffice is the violation.

- *Oversight.* Two evaluations that overlap and a window of one tick put an event inside, at the edge of and
  outside the window of another. Three labels are one before a change, the one changed, and one that
  chains to it. A reputation window of one entry overflows at the second.
- *Security benchmark.* 24 attack rows visit every subtype of every category (the largest has five) and
  wrap around; the similarities lie on, just past and far from each threshold.
- *Release.* Seven rows are the fewest of which windows of two rows fill three parts. Four rows of three
  pairs of endpoints have a conversation in both directions, cut by a silence, and without a time; others have a column
  that differs by direction or not, and one or no endpoint column. Two
  trainings and two certifications are what a certificate of the wrong run, or a stale signature, needs.
  A batch of two is full, part-full and empty within five records.

Symmetry is used where names are only compared (loggers, nonces, honest clients, agents, evaluations, analysts) and never with a
liveness property. `MCIntegrityStrategy` has a `VIEW` that leaves out the model, the line of an
earlier round and, but for the weighted mean, the weights: no action and no property other than the type
invariant reads them.

`CHECK_DEADLOCK FALSE` stands where the system may stop for good: a log that raises or is full, a
history that cannot be reopened (a line was cut short), scripts that have all ended, and bounds that
are used up.

**Fairness.** Only `decision_engine` checks liveness (`[]<>~Waiting` in `PlanService`). `FairSpec` is
weak fairness of `EngineStep`: `decide()` is one synchronous function, so its next step stays enabled
until it is taken, and the assumption is that each call of a model, the retrieval or the history returns or
raises. It is an assumption on the libraries: `ChatOllama` is built without a timeout, so a server that
accepts and never answers blocks `decide()` for good. No fairness is assumed of alerts.

### The properties

- `AuditLog`. `SequenceIdentifiesEntry`: writers that overtook each other leave a log that fails
  verification, never a repeated number. `NoSilentLoss`: an acknowledged entry is there, or the log can no
  longer be read. `NoFalseAlarm`: crashes and failing writes alone never look like tampering.
  `OnlyUneditedResumed`: a logger extends a log only if each entry is as written.
- `TrustBoundary`. `SessionActsOnce`, `QuotaKept`, `OnlyClearedPlansAct`, `StatusTruthful`,
  `AuditedIsRecorded`. `QuotaKept` counts evaluations that reached the history and the one in hand: an
  executor that raises, or a crash, leaves actions that neither history nor audit log know of, and the
  agent's next plan gets the whole quota again. `SessionActsOnce` is conditional on a history that
  survives (a file, or no restart), and the clock does not go back; and it leaves out exactly the sessions whose
  nonce was noted before they were issued and that were accepted a moment later, when their time had come: such
  a nonce is forgotten while the session is still fresh, and the session acts again. `OnlyClearedPlansAct`: an action
  that is unknown or not authorised, one action too many, or a session from the future keeps the whole plan from acting.
  `AuditedIsRecorded`: an audited decision is in memory and was written to the file as a line; that line can be read, unless a
  cut-short write made the file unreadable as a whole, in which case no process starts from it.
- `Firewall`. `ProtectedUntouched`, `ReportedIsContained` (until, with netsh, an operator lifts the action or another of the
  same rule name), `BlockedStaysBlocked` (nft), `BlockTakesEffect`.
- `DecisionEngine`. `ImplementsService` (with its liveness), `EveryPlanRecorded`, `RepeatTruthful`,
  `ProvenanceTrue`. `EveryPlanRecorded` (that there is one incident) and `RepeatTruthful` exempt an alert
  during which something broke: a history that raises after it took the incident in memory makes the
  fallback engine find it, call the alert repeat activity and record it again.
- `IntegrityStrategy`. `SlowToReject`: only three rounds outside the benign cluster make a client
  rejected, which is the "single bad round does not sink a client" of `src/README.md:136`.
  `QuickToReturn`: two benign rounds on end and it is accepted, however low it had fallen.
  `WithinHonest`: an outvoted minority (no more than are trimmed; fewer than half, for the median)
  leaves the aggregate between honest values. `ModelHasEvidence`: a model replaces another only with its line
  in the trust log, made from trusted updates, with a quorum behind it.

- `Oversight`. `MeddlingShows`: a label store that verifies has every line as written and every label whose
  `append()` returned, unless lines were cut off its end, which no chain can show. `NoFalseAlarm`: failed
  writes alone never break the chain. `RefitReplaysLive`: the refit computes the features that were scored, for
  evaluations during which neither the clock moved nor another of the agent ended. `ReportsAgree`: five
  readers of one log tell the same of every agent.
- `SecurityBenchmark`. `BalancedTaxonomy`, `LabelsMatchSafety` (the oracle blocks exactly what was made as an
  attack), `OnlyTextDecides` (what the full boundary lets through, it lets through on its reading of a text),
  `RatesTellTheVerdicts` (rates add up, each component added lowers false authorisations, the full boundary
  refuses no control and allows no attack on tools, context or execution). Its last part also says how the two figures
  called SAPR differ: `sapr_numerator` over `sapr_denominator` is legitimate rows allowed over legitimate rows,
  `safe_action_preservation_rate` rows to be allowed that were; for the full boundary the second is 1 and the
  first falls short of it by the controls that wait for a human, although the counts are emitted "so a thesis table can be
  independently reconstructed" (`src/src/tfacd/evaluation/astb_benchmark.py:819`).
- `Release`. `HeldoutUnseen`: the parts of a split share no row, no stretch of a flow, and the clients no
  example (a flow is what agrees in the group columns, endpoints in either order if both are there; it is a whole
  conversation only if `udp.port` and the like are the same both ways); replayed rows are test rows of the arrays the model was trained on; each prediction is held against
  the label of its own row, if `max_records` is set, the arrays scored against are those the rows were chosen for, and
  they are no windows (section 5 says why these three are needed). `ServedIsVouched`: as under proofs. `RecordsOnceInOrder`: an undisturbed
  run judges each record once, in order; an interrupted one repeats no more than a batch.

## 4. What is proved

All proofs are in the `...Proofs` modules and hold for any value of the constants that satisfies the
named assumptions next to their declarations.

| theorem | says | argument |
|---|---|---|
| `AuditLogProofs` `TypeCorrect`, `SequenceIdentifies`, `OnlyUnedited` | as the properties, any number of loggers and lines | `IInv`: each entry's hash ends in its own payload and its predecessor's number is lower (`Formed`), along every joined prefix numbers rise (`Ordered`), and a line differs from the written one in its content only (`GenuineInv`). The property alone is not inductive: it says nothing of a log that does not verify, whose next line may make a prefix whole, nor of an entry in a logger's hands |
| `AuditLogProofs` `LossShows` | as `NoSilentLoss`, any number of loggers | `KeptInv`: an acknowledged entry is a whole line, or some line is garbage, and likewise the entry of a logger between its write and its return; a write changes no line but a fragment |
| `AuditLogProofs` `FalseAlarmNever` | as `NoFalseAlarm`, any number of loggers taking turns, any failures | `TurnInv`: the garbage there is can only be the last line (`ReadThrough`), and whoever has the file open or has taken a number holds the hash the whole lines end in (`HoldsEnd`). A logger that starts alone reads up to that end, and keeps it until it closes |
| `TrustBoundaryProofs` `TypeCorrect`, `ClearedPlansOnly` | whatever acts belongs to a plan cleared as a whole | `BaseInv`: from each stage on, what the stages before have established of the plan in hand |
| `TrustBoundaryProofs` `ReplayNeverActs` | as `SessionActsOnce`, for any skew, windows and number of agents: a session acts twice only if its nonce was first noted before it was issued | `IInv`: the nonce of each session that acted is in the history, noted no earlier than the session was issued or by an evaluation in `early` (`NonceInv`), so while the session is fresh `recent()` finds it (`ReplayInv`). For the evaluations in `early` the nonce may run out first: see finding 1 |
| `TrustBoundaryProofs` `QuotaNeverExceeded` | as `QuotaKept`, any rate, number of agents and plans, also as the clock moves | `QuotaInv`. `EffectsInv` and `DecisionsInv` say whose each effect and decision is: of one evaluation, in its agent's name, no later than now. `RoomInv`: once the rate has been checked, the actions of the hour that the history knows leave room for the plan in hand; evaluations do not overlap, so no other can take that room, and time only makes it larger |
| `TrustBoundaryProofs` `AuditedRecorded` | as `AuditedIsRecorded`: each audit entry is of a decision in memory and of a whole line written to the file, which can be read if the file can | `RecordedInv` adds the evaluation about to be audited: its line is written already; the file is never shortened, and a process that is up has in memory what the file had when it started and all that came since, readable or not |
| `TrustBoundaryProofs` `StatusIsTrue` | as `StatusTruthful`, any plans, reports and failures | `TruthInv`: an evaluation that has not come to the executor has done nothing; one that has did no more than it asked for (`Asked`), and if as many were reported done as were asked for, all of it (`CountedInv`). The count alone decides "executed", so the invariant ties the number to the set; an entry is of an evaluation that is over (`OverInv`), so nothing is carried out behind its back |
| `FirewallProofs` `TypeCorrect`, `NeverTouchesProtected`, `ReportedContained` | for any networks, backend and number of actions | `IInv`: each rule carries the action it was added for, and each action reported whose rule name was not deleted since has its drop rule; deleting the rules of another name leaves it (`RuleStaysUp`) |
| `FirewallProofs` `BlockedForGood` | nft: no step unblocks | rules are only appended, behind the one that blocks, and the removal of rules exists for netsh only |
| `FirewallProofs` `ReportedTakesEffect` | as `BlockTakesEffect`, any backend and rules | `EffectInv`: accept rules come about with nft and iptables only, and a drop rule just added blocks unless one of those was there first; iptables puts the drop in front, so only nft's exception remains |
| `DecisionEngineProofs` `TypeCorrect`, `EngineIsService` | `Spec => Service!Safety`, step by step | `IInv`: an alert waits exactly while `decide()` has a step to do, and only an allowed plan gets to be recorded |
| `DecisionEngineProofs` `PlansRecorded`, `RepeatsTold` | as `EveryPlanRecorded` and `RepeatTruthful`, any number of alerts | `HistoryInv`: as long as nothing broke, the alert in hand has left no incident, and what was recalled for it (`RepeatInHand`) still holds: an incident added later is of a later alert |
| `DecisionEngineProofs` `ProvenanceTold` | as `ProvenanceTrue`, any proposals and attempts | `ProvenanceInv`: the models before the one in hand were asked and given up (`GivenUp`), those after it not asked (`NotAsked`), and the one in hand has proposed a valid plan exactly when that plan is to be recorded |
| `IntegrityStrategyProofs` `RejectedSlowly`, `ReturnsQuickly` | as the properties, any number of clients and rounds, any `Unit` | `TrustInv`: trust is 1.0, at least 0.7, at least 0.49 after no, one, two demerits, because no benign round lowers it; at least 0.3 and 0.51 after one and two benign rounds. The thresholds need the whole table: 0.35 alone is not inductive |
| `IntegrityStrategyProofs` `EvidenceKept` | as `ModelHasEvidence` | `EvidenceInv`: what a round decided is untouched up to the aggregation, and past the log it is the last line |
| `IntegrityStrategyProofs` `TypeCorrect` | as `TypeOK`, any values, weights and number of clients | `TypeInv` adds that a round is under way while its replies are in hand. A model is a sum over a count: that the sum is a number is an induction over the partial sums (`TotalUnfolds`) |
| `IntegrityStrategyProofs` `HonestBound` | as `WithinHonest`, any clients, values, weights and `TrimRatio`, all three methods | No induction over steps: it follows from the types. The values have an order (`OrderExists`, by induction over their number), in which the outvoted leave an honest client on either side of what is kept (`HonestPlace`, by counting), so each kept value, and their mean (`StretchWithin`), lies between two honest ones; for the weighted mean all are honest and the weights are positive in sum |
| `OversightProofs` `TypeCorrect` | as `TypeOK`, any number of agents, evaluations, analysts and decisions | with the room evaluations under way need: `BoundaryTyped` says that history and evaluations in hand together stay within the bound |
| `OversightProofs` `RefitIsExact` | as `RefitReplaysLive`, any plans, windows and restarts | `RefitInv`: memory and file differ after a restart in the places of events, but hold, since any time, as many saved events and violations of an agent (`SavedAreFiled`); an evaluation nothing disturbed would still be scored as it was (`UndisturbedAsNow`). `RefitReplaysLive` by itself says nothing of the evaluation whose event comes next |
| `OversightProofs` `ReportsAlwaysAgree` | as `ReportsAgree`, any log, labels and `RecentWindow` | `ReportInv`: entries are in the order of their times (`LogInOrder`), and the running reputation holds the counts and the last scored values of the entries read (`ReputationTells`); from there each report is a count over a partition of the same places, and sorting by time, being stable, leaves the order of the log (`SortedAsLogged`) |
| `OversightProofs` `MeddlingAlwaysShows`, `FalseAlarmNever` | as `MeddlingShows` and `NoFalseAlarm` of the label store, any number of analysts | `LabelInv`: each line's hash ends in what the analyst recorded (`LinesTrue`); a store nobody meddled with is joined from end to end, and the analyst at work holds its last hash (`StoreUnmeddled`). Unlike the audit log nothing numbers the lines, so a cut off end cannot show, and the theorem says so |
| `ReleaseProofs` `ReleaseVouched` | any number of trainings, epochs and certifications, stops anywhere: weights served under a required signature were signed as certified, a certificate tells of its run, the best epoch is tested | `Types`, `Trained` (the best score of a run is that of the weights it last saved) and `Vouched`: what a certifier holds was read from the files as they are, or the certification is marked confused; what a server has verified is in `signed` |
| `ReleaseProofs` `CompositionReleases`, `ServedVouchedInComposition` | `Spec => ReleaseSpec`, so the same holds beside preparations, streams and demos | `Prepared`: what is on disk, or being written, is of a configuration there is; then each step of the composition is one of the release or changes none of its variables |
| `ReleaseProofs` `CompositionPrepares`, `CompositionStreams` | the composition implements each of the other two parts as well: the steps of `DataPreparation` (`PrepNext`), and those of `StreamingIDS` with a start on any source (`StreamStep`) | step by step; what a demo replays is a source (`ReplayIsSource`), and the bounds of a study name configurations and sources there are (`TableOf`) |
| `ReleaseProofs` `HeldoutFollows` | the arrays and the held-out rows on disk are of one preparation, for any tables | `WrittenInOrder`: files are written in one order, the held-out rows last, so as long as nothing was cut short the files not left to write are of the preparation under way |
| `ReleaseProofs` `PreparationApart` | any table, seed and configuration: a split with no empty part keeps its parts apart, in rows, in stretches of a flow and, in chronological order, in time | No induction over steps. A finite set put in a strict total order is listed once each, in order (`ArrangedLists`, by counting what is before each member); so sessions are stretches of the sorted rows between two starts (`SessionsCut`), two rows of one flow, in whichever direction if both endpoints are grouped by, have one key (`OneFlow`), and less than a gap apart they lie in one session, since the rows between them leave no start (`Stretch`), windows are of one session (`WindowsWithin`), and the parts are of different sessions (`DealtOnce`, `PartsApart`) |
| `ReleaseProofs` `ArraysKeptApart`, `ClientsStayApart` | the same of the arrays on disk, at any time; and of the clients' files, once they are of one partition | `PrepInv`: what is on disk or under way was prepared whole from a configuration (`Preparing`), and of a partition each client is left to write or has the examples dealt to it (`Partitioning`); a torn file tells of a preparation cut short |
| `ReleaseProofs` `HeldoutNeverSeen` | as `HeldoutUnseen`, any table, seed, configurations and sample, in the whole composition | `Unseen`: `PrepInv`, `StreamInv` and `Demoing`. The rows a demo holds are those of the arrays it saw (`Chosen`), and what its first pass replays is these rows with an alert for each; so the k-th alert is of the k-th row (`ReplayAlerts`, from `StreamInv`), whose label is found at its position in the arrays (`TruthOfRows`). The property says nothing of a pass under way |
| `ReleaseProofs` `TypeCorrect` | as `TypeOK` of `Release` | from `Unseen`, and from `ReleaseTypeCorrect` through `CompositionReleases` |
| `ReleaseProofs` `RecordsJudgedOnce` | as `RecordsOnceInOrder`, any files, scenarios and live sources, any size of batch, in the whole composition | `StreamInv`: `StreamPhases` (only what was interrupted, or is at its end, flushes without reading on), `Delivery` (the records put into batches are the first ones due, as many as places were passed, but for the one in hand; the record last yielded is the next in turn), `Judging` (of the last batch so many records were judged, and then, after an interrupt, so many once more: `JudgedAgain`) and `AlertsCounted`. The property by itself says nothing of a batch still open |
| `SecurityBenchmarkProofs` `TextAloneDecides` | as `OnlyTextDecides`, any weights, similarities, number of rows, **assuming `PredictorStops`** | `MadeInv`: what waits to be evaluated and is unsafe is some attack of the taxonomy on some base row; then by form of attack (`AttackForm`) |
| `SecurityBenchmarkProofs` `RatesAreTold` | as `RatesTellTheVerdicts`, any weights, thresholds and number of rows, **assuming `PredictorAgrees` and `PredictorStops`** | `ToldInv`: row by row, attacks are those the oracle blocks, for the others the full boundary answers as the oracle does, and it allows no attack of three categories (`Told`); the counts follow from disjoint finite sets of rows |
| `SecurityBenchmarkProofs` `TypeCorrect` | **assuming `GeneratorNamed`** | each attack of a well-typed row is a well-typed row; with `DealtInv` for the counters |
| `SecurityBenchmarkProofs` `LabelsMatch`, `ComponentsRestrict` | for any roles, playbooks, weights and thresholds | each attack's change is one of the oracle's reasons; each component only adds reasons to block, and the trust value only falls |
| `SecurityBenchmarkProofs` `TaxonomyBalanced` | as `BalancedTaxonomy`, any number of rows | `DealtInv`: when n attacks have been dealt to m in turn, m times the count of the k-th lies in an interval of m numbers that n and k fix; the same again for the subtypes within a category |

The three assumptions on the benchmark are about its configuration, which the code loads without checking them:
`GeneratorNamed` (the roles and capabilities the generator names exist), `PredictorStops` (`delete_firewall` is nobody's,
`readonly` may not block, the context threshold is above zero, 10.10.10.10 is no address of a scenario) and
`PredictorAgrees` (the predictor's roles may do what the oracle's may with low- and high-risk capabilities, and exactly the
high-risk ones go to a human). All hold of the configuration shipped; `MCSecurityBenchmark` has them evaluated.
`TaxonomyBalanced`, `LabelsMatch` and `ComponentsRestrict` need none of them.

Only model-checked: the liveness of `ImplementsService`. Liveness under fairness rests on `ENABLED`, which the provers
do not take. Every other property of a passing run is a theorem above. The assumptions of `DataPreparation` are those the code makes or
enforces: an order in which the seed draws the rows, each once; windows of more than one row; at least one client;
and a test fraction below one, since with one `train_test_split()` raises.

The library's theorems of induction take an operator, so they cannot be used. Where a proof needs induction over data (sums,
orders, reputations after n entries) it is over a set of numbers instead: a set that has 0 and with each number the next
has all up to n (`AllUpTo`, `AllFromTo`), since a set of numbers has a least one (`LeastOfNumbers`). The recursive functions it is used
for (`Total`, `UpdatedUpTo`) are shown first to be what their equations say.

## 5. Findings

Each is a run of kind *violation*.

1. `SpentNonceRefused`: a session issued ahead of the clock is rejected, and accepted later, when its
   nonce has left the window and its age has not (`trust_boundary/preprocessing.py:81-88`). The same window lets a
   session that was accepted act twice: nonce noted a moment before `issued_at`, age checked at it.
2. `EveryDecisionAudited`: the audit log is written last; if it refuses, decisions were made, carried out and
   put into the history without an entry (`trust_boundary/boundary.py:126`).
3. `ReportedBlockBlocks`: with nft, `block_source` after `rate_limit` on the same source is reported as
   executed while packets still pass at the limited rate (`trust_boundary/production_executor.py:186`).
4. `TrimmedMeanTrims`: with the configured quorum of 3 and trim ratio of 0.2 a round that meets the
   quorum is a plain mean for 3 and 4 updates (`federated/integrity_strategy.py:154`,
   `src/configs/edge_iiot.yaml:85-91`).

Seen while modelling, without a run of their own.

*Trust boundary and audit log.* The comment on the start-up check (`trust_boundary/audit.py:43-48`) names an older
copy of the log among the changes it catches; an older genuine copy, put back, is a chain that verifies, and is
resumed. `not_attempted` is also the status of a plan of high-risk actions in `restricted_action` mode. A history line
that was cut short makes every later start raise, and the line written after it, of another decision, runs into it and is lost
with it (`agentic/history.py:39-40`); the process that is up notices nothing.

*Executor.* `remove_windows_block_rule()` deletes by a name in which "/" and ":" are "_"
(`trust_boundary/production_executor.py:141`): lifting the block of one IPv6 target may delete that of another.
`rate_limit` on Windows returns `False`, where `src/README.md:196` says it falls back to simulated;
iptables' `rate_limit` drops everything, since both rules go to the head; a later `rate_limit` whose drop rule
fails reopens an iptables block; a repeated `rate_limit` lets twice the rate through.

*Engines and federation.* Nothing downstream checks the targets a model chose (`agentic/graph.py`, SYSTEM_PROMPT
says the rules are enforced). A round with error replies only leaves no line in the trust log
(`src/docs/pipeline_runbook.md:52` says one line per round).

*Analytics.* `refit_from_history()` says it recomputes the features exactly as they were live; it does for
evaluations nothing overlapped. The threshold report calls itself ready on a count that includes labels of
decisions rejected before scoring, so the rate of a level may come from a single label. After a new audit log
file sequence numbers start again, and old labels attach to other decisions. Forecast and drift file entries
without an agent under "unknown", reputation leaves them out.

*Benchmark.* `sapr_numerator` and `sapr_denominator` count rows with `unsafe=false`, while the rate
`safe_action_preservation_rate` is conditioned on the oracle's ALLOW. `target_substitution` draws the role from two
that its comment calls authorised; a `security_operator` with `isolate_segment` is not.

*Preparation.* `add_flow_key()` calls its key bidirectional (`data/temporal.py:68`). It is for the endpoints, if both
columns are there; `udp.port` and every other group column enter as they are (lines 102-112, 125-129), so where such a column differs
by direction the two directions of one UDP conversation are two flows, and may be split between training and test. After a temporal preparation that was interrupted before the held-out rows were
saved, `heldout_indices()` (`data/preprocess.py:594`) answers with a split by rows. `validate_split_leakage.py` derives a
chronological split of its own from the table, so for windows or shuffled sessions its `leakage_free` says nothing
of the arrays on disk; chronological order is of the starts of sessions only, so its check may refuse sessions
that overlap. A client with a single example is validated on it. `federated/loaders.py:14` keeps arrays in memory
while the client's indices are read anew from disk.

*Release.* The certifier reads the manifest again to sign it (`src/scripts/certify_model.py:58`) and may sign the
one a training has just written; the status check refuses it. If a key generation stops between the
private and the public key, no later run makes the public one. A training killed after it saved weights and before its manifest, then
certified, gets a certificate of the run before it.

*Streaming.* With `streaming.max_records` unset the demo leaves its rows unsorted
(`src/scripts/run_streaming_demo.py:53`) while records come in file order: predictions and true labels are paired
wrongly. The true labels are looked up in the arrays as they are when the first pass is over
(`src/scripts/run_streaming_demo.py:79`), by positions in the held-out rows as they were before it: arrays prepared in between have
other labels there. Of windows the held-out rows are sorted and each saved once (`data/preprocess.py:521`), the test
labels are neither. A source with `max_records=0` yields one record (`streaming/sources.py:52`). The message `null` ends an MQTT
source. Data prepared again after training make the demo replay rows the model was trained on, and
the preprocessor and class names are not under the signature.

## 6. Not modelled

- *Numbers and text*: anomaly scores, forests, the moving average of behavioural trust, clustering, training,
  prompts, redaction. Where control depends on them (a trust level, a benign cluster, a model's proposal, a
  similarity, a validation score) they are an arbitrary choice.
- *Plumbing*: configuration, certificate creation, plots, dashboards, tests, the benchmarks of language models and the two of
  federated attacks (`agentic/benchmark.py`, `run_fl_security_matrix.py`, `integrity/benchmark.py`) and the
  simulated attacks on updates: they measure and have no state that outlives a loop.
- *Flower*: its round loop is `EndRound` and `StartRun`; transport, sampling and client identity are taken as
  given, a node that is not sampled being one without a reply.
- *Executors other than the production one* are the reports and effects of `Execute`; command templates
  and routing are not modelled.
- *Restarts of the decision engine*: the history's restart is in `TrustBoundary`.
- *Incidents* of a stream that go on to the decision engine and the boundary: each of the three is modelled by
  itself, and they share nothing but the history.
- *The statistics* of drift, forecast, explanation and the feedback loop, whose inputs are modelled.

## 7. Plan

Done: `AuditLog`, `TrustBoundary`, `Firewall`, `DecisionEngine` over `PlanService`, `IntegrityStrategy`; then
`Oversight`, `SecurityBenchmark`, and `Release` over `DataPreparation`, `ModelRelease` and `StreamingIDS`.

What would add most next:

1. `TrustBoundary` composed with `AuditLog`: the sequence of entries in the one implemented by the file of the
   other.
2. `feedback_loop.py` over `Oversight`: which labels change which thresholds; its search for detector parameters.
3. Proofs: that the scripts which share files need no more than the order their files are written in, for the
   features (preprocessor, encoder, metadata) as `HeldoutFollows` says it for the rows.
