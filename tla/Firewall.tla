------------------------------ MODULE Firewall ------------------------------
(***************************************************************************)
(* ProductionExecutor (trust_boundary/production_executor.py) and the      *)
(* packet filter it writes rules into.                                     *)
(*                                                                         *)
(* One process carries out one action at a time.  execute() is split at    *)
(* each command it runs and at the write of its action log: a command may  *)
(* fail, or time out with or without having taken effect, the write may    *)
(* fail, and the process may end in between.  The rules outlive it.        *)
(*                                                                         *)
(* A target is its spelling, which decides the addresses it covers and the *)
(* name netsh knows its rule by.  The filter is the list of its rules in   *)
(* the order in which packets meet them: nft adds at the end, iptables -I  *)
(* at the head, and netsh knows only rules that block.                     *)
(***************************************************************************)
EXTENDS Integers, Sequences

CONSTANTS
  Addresses,      (* source addresses of packets                            *)
  Networks,       (* targets that parse as an address or a network          *)
  OtherTargets,   (* no target at all, and names of assets                  *)
  Covers,         (* the addresses each network covers                      *)
  Folded,         (* each target with "/" and ":" replaced by "_"           *)
  Protected,      (* the entries of protected_targets that parse            *)
  Backends,       (* the hosts considered, see BackendKinds                 *)
  MaxRequests     (* bound: actions asked for                               *)

BackendKinds == {"nft", "iptables", "netsh", "none"}

ASSUME TargetsAssumption ==
  /\ Covers \in [Networks -> SUBSET Addresses]
  /\ DOMAIN Folded = Networks \union OtherTargets
  /\ Protected \subseteq SUBSET Addresses
  /\ Networks \intersect OtherTargets = {}
ASSUME BackendsAssumption == Backends \subseteq BackendKinds
ASSUME RequestsAssumption == MaxRequests \in Nat

VARIABLES
  backend,        (* which firewall the host has                            *)
  base,           (* nft's table and chain exist                            *)
  rules,          (* the rules, in the order in which packets meet them     *)
  pc,             (* the step of execute() that comes next                  *)
  cur,            (* the action in hand                                     *)
  succeeded,      (* the last command's exit status was 0                   *)
  log,            (* the lines of the action log and the rotation log       *)
  asked,          (* history: number of actions asked for                   *)
  lifted          (* history: the lines of the log whose rule name an       *)
                  (* operator has had deleted since                         *)

vars == <<backend, base, rules, pc, cur, succeeded, log, asked, lifted>>

-----------------------------------------------------------------------------
NetworkCapabilities == {"block_source", "isolate_segment", "rate_limit"}
LogOnlyCapabilities == {"log_only"}     (* the six of them behave alike     *)
Capabilities == NetworkCapabilities \union LogOnlyCapabilities
                \union {"rotate_session", "unknown"}

Targets == Networks \union OtherTargets
Action  == [capability: Capabilities, target: Targets]
Rule    == [capability: NetworkCapabilities, target: Networks,
            verdict: {"accept_limited", "drop", "deleted"}]
Record  == [action: Action, ok: BOOLEAN]

Steps == {"idle", "base", "accept", "drop", "record"}

NoAction == << >>

TypeOK ==
  /\ backend \in Backends
  /\ base \in BOOLEAN
  /\ rules \in Seq(Rule)
  /\ pc \in Steps
  /\ pc # "idle" => cur \in Action
  /\ pc \in {"base", "accept", "drop"} =>
       cur.capability \in NetworkCapabilities /\ cur.target \in Networks
  /\ pc = "accept" => cur.capability = "rate_limit"
  /\ succeeded \in BOOLEAN
  /\ log \in Seq(Record)
  /\ asked \in Nat
  /\ lifted \subseteq DOMAIN log

Init ==
  /\ backend \in Backends
  /\ base = FALSE
  /\ rules = << >>
  /\ pc = "idle"
  /\ cur = NoAction
  /\ succeeded = FALSE
  /\ log = << >>
  /\ asked = 0
  /\ lifted = {}

-----------------------------------------------------------------------------
(* What the rules do to the packets of an address.  A limited accept lets  *)
(* packets through up to its rate; the rest meet the rules after it.       *)

Applies(i, a, verdict) ==
  a \in Covers[rules[i].target] /\ rules[i].verdict = verdict

(* Packets beyond any rate are dropped.                                    *)
Contained(a) == \E i \in DOMAIN rules : Applies(i, a, "drop")

(* No packet passes.                                                       *)
Blocked(a) ==
  \E i \in DOMAIN rules : /\ Applies(i, a, "drop")
                          /\ \A j \in 1..i - 1 : ~Applies(j, a, "accept_limited")

RuleFor(verdict) ==
  [capability |-> cur.capability, target |-> cur.target, verdict |-> verdict]

(* Mutants of WithRule: the newest rule is met first, or last, whatever    *)
(* the backend.                                                            *)
WithRuleAtHead(verdict) == <<RuleFor(verdict)>> \o rules
WithRuleAtEnd(verdict)  == Append(rules, RuleFor(verdict))

WithRule(verdict) ==
  IF backend = "iptables" THEN <<RuleFor(verdict)>> \o rules
                          ELSE Append(rules, RuleFor(verdict))

-----------------------------------------------------------------------------
(* execute().                                                              *)

(* Mutant of IsProtected: the protected network must contain the target.   *)
IsProtectedWithin(target) == \E p \in Protected : Covers[target] \subseteq p

IsProtected(target) == \E p \in Protected : Covers[target] \intersect p # {}

Actable(action) ==
  /\ action.target \in Networks
  /\ ~IsProtected(action.target)
  /\ backend # "none"
  /\ ~(backend = "netsh" /\ action.capability = "rate_limit")

(* Mutant of FirstStep: iptables starts with the accept rule always.       *)
FirstStepAccept(action) ==
  CASE backend = "nft"      -> "base"
    [] backend = "iptables" -> "accept"
    [] OTHER                -> "drop"

FirstStep(action) ==
  CASE backend = "nft"                                           -> "base"
    [] backend = "iptables" /\ action.capability = "rate_limit" -> "accept"
    [] OTHER                                                     -> "drop"

Asked ==
  /\ pc = "idle"
  /\ asked < MaxRequests
  /\ asked' = asked + 1
  /\ UNCHANGED <<backend, base, rules, log, lifted>>

Begin(action, step) ==
  /\ Asked
  /\ pc' = step
  /\ cur' = action
  /\ succeeded' = FALSE

(* Returns False before any command is built.                              *)
Refuse(action) ==
  /\ \/ action.capability = "unknown"
     \/ action.capability \in NetworkCapabilities /\ ~Actable(action)
  /\ Asked
  /\ UNCHANGED <<pc, cur, succeeded>>

NetworkAction(action) ==
  /\ action.capability \in NetworkCapabilities
  /\ Actable(action)
  /\ Begin(action, FirstStep(action))

(* _log_only() and _rotate_session() write their line and do nothing else. *)
LogAction(action) ==
  /\ action.capability \in LogOnlyCapabilities \union {"rotate_session"}
  /\ Begin(action, "record")

(* _ensure_nft_base(): the results of both commands are ignored.           *)
EnsureBase(works) ==
  /\ pc = "base"
  /\ base' = (base \/ works)
  /\ pc' = IF cur.capability = "rate_limit" THEN "accept" ELSE "drop"
  /\ UNCHANGED <<backend, rules, cur, succeeded, log, asked, lifted>>

(* A command that adds a rule.  Without its chain nft can add none.        *)
Takes(works, verdict) ==
  /\ works => (backend = "nft" => base)
  /\ rules' = IF works THEN WithRule(verdict) ELSE rules

(* The result of the accept rule is ignored.                               *)
AddAccept(works) ==
  /\ pc = "accept"
  /\ Takes(works, "accept_limited")
  /\ pc' = "drop"
  /\ UNCHANGED <<backend, base, cur, succeeded, log, asked, lifted>>

(* Mutant of AddDrop: the exit status is not looked at.                    *)
AddDropUnchecked(works) ==
  /\ pc = "drop"
  /\ Takes(works, "drop")
  /\ succeeded' = TRUE
  /\ pc' = "record"
  /\ UNCHANGED <<backend, base, cur, log, asked, lifted>>

AddDrop(works) ==
  /\ pc = "drop"
  /\ Takes(works, "drop")
  /\ succeeded' = works
  /\ pc' = "record"
  /\ UNCHANGED <<backend, base, cur, log, asked, lifted>>

(* execute() is left by an exception: a command timed out, in time for its *)
(* effect or not, or its program is missing.                               *)
Leave ==
  /\ pc' = "idle"
  /\ cur' = NoAction

Raise ==
  /\ Leave
  /\ UNCHANGED <<backend, succeeded, log, asked, lifted>>

CommandRaises(works) ==
  /\ \/ pc = "base" /\ base' = (base \/ works) /\ UNCHANGED rules
     \/ pc = "accept" /\ Takes(works, "accept_limited") /\ UNCHANGED base
     \/ pc = "drop" /\ Takes(works, "drop") /\ UNCHANGED base
  /\ Raise

(* The log cannot be written, or the process ends.                         *)
Interrupted ==
  /\ pc # "idle"
  /\ Raise
  /\ UNCHANGED <<base, rules>>

(* The line is written and execute() returns whether the action succeeded; *)
(* an action that only writes its line succeeded by that.                  *)
Done == cur.capability \in NetworkCapabilities => succeeded

Finish ==
  /\ pc = "record"
  /\ log' = Append(log, [action |-> cur, ok |-> Done])
  /\ Leave
  /\ UNCHANGED <<backend, base, rules, succeeded, asked, lifted>>

(* remove_windows_block_rule(): netsh deletes every rule of the name of an *)
(* action, which actions on other targets may have as well.  An operator   *)
(* calls it between two actions; a call that fails changes nothing.        *)
RuleName(action) == <<action.capability, Folded[action.target]>>

Named(rule, action) == RuleName(rule) = RuleName(action)

RemoveBlockRule(action) ==
  /\ backend = "netsh"
  /\ pc = "idle"
  /\ rules' = [i \in DOMAIN rules |->
       IF Named(rules[i], action)
       THEN [rules[i] EXCEPT !.verdict = "deleted"] ELSE rules[i]]
  /\ lifted' = lifted \union
       {n \in DOMAIN log : RuleName(log[n].action) = RuleName(action)}
  /\ UNCHANGED <<backend, base, pc, cur, succeeded, log, asked>>

-----------------------------------------------------------------------------
Execute ==
  \/ \E action \in Action :
       Refuse(action) \/ NetworkAction(action) \/ LogAction(action)
  \/ \E works \in BOOLEAN :
       EnsureBase(works) \/ AddAccept(works) \/ AddDrop(works)
       \/ CommandRaises(works)
  \/ Interrupted
  \/ Finish

Next == Execute \/ \E action \in Action : RemoveBlockRule(action)

Spec == Init /\ [][Next]_vars

-----------------------------------------------------------------------------
(* Properties.                                                             *)

(* No rule ever touches a protected address, also through a target that    *)
(* only overlaps a protected network or contains one.                      *)
ProtectedUntouched ==
  \A i \in DOMAIN rules : \A p \in Protected :
    Covers[rules[i].target] \intersect p = {}

(* The actions on the network that execute() returned True for and whose   *)
(* rule name no operator has had deleted since, for them or for another    *)
(* action of that name.                                                    *)
Standing ==
  {log[n].action : n \in {n \in DOMAIN log \ lifted :
     log[n].ok /\ log[n].action.capability \in NetworkCapabilities}}

(* Whatever fails in between, a target that execute() reported as blocked, *)
(* isolated or rate limited is not open afterwards: at the least, packets  *)
(* beyond a rate are dropped, until with netsh an operator lifts that      *)
(* action or one of the same rule name.  Lifting a block of                *)
(* 2001:db8::5/64 deletes the rule for 2001:db8::5:64 with it: the         *)
(* property promises nothing of the latter from then on.                   *)
ReportedIsContained ==
  \A s \in Standing : \A a \in Covers[s.target] : Contained(a)

(* With nft no later action, failure or timeout lets packets of a blocked  *)
(* address through again.                                                  *)
BlockedStaysBlocked ==
  [][\A a \in Addresses : backend = "nft" /\ Blocked(a) => Blocked(a)']_vars

(* An action that execute() reports as blocking or isolating does block at *)
(* that time, unless nft had let the target through at a rate before.      *)
BlockTakesEffect ==
  [][\A n \in DOMAIN log' \ DOMAIN log :
       /\ log'[n].ok
       /\ log'[n].action.capability \in {"block_source", "isolate_segment"}
       => \A a \in Covers[log'[n].action.target] :
            \/ Blocked(a)
            \/ backend = "nft" /\ \E i \in DOMAIN rules :
                                    Applies(i, a, "accept_limited")]_vars

(* "executed - every eligible action ran, via ProductionExecutor           *)
(* (real-world effect)" (runtime/contracts.py:102): no packet of a source  *)
(* passes that block_source was reported to have acted on.                 *)
ReportedBlockBlocks ==
  \A s \in Standing :
    s.capability = "block_source" => \A a \in Covers[s.target] : Blocked(a)

-----------------------------------------------------------------------------
(* The inductive invariant behind ProtectedUntouched and                   *)
(* ReportedIsContained: a rule carries the action it was added for, so one *)
(* that stands for a reported action is deleted only with its name.        *)

RuleStands(action) ==
  \E i \in DOMAIN rules : /\ rules[i].capability = action.capability
                          /\ rules[i].target = action.target
                          /\ rules[i].verdict = "drop"

InHandInv ==
  /\ pc \in {"base", "accept", "drop"} => ~IsProtected(cur.target)
  /\ pc = "record" /\ cur.capability \in NetworkCapabilities /\ succeeded =>
       RuleStands(cur)

LogInv ==
  \A n \in DOMAIN log \ lifted :
    log[n].ok /\ log[n].action.capability \in NetworkCapabilities =>
      RuleStands(log[n].action)

IInv == TypeOK /\ ProtectedUntouched /\ InHandInv /\ LogInv

=============================================================================
