------------------------------ MODULE AuditLog ------------------------------
(***************************************************************************)
(* The hash-chained audit log (trust_boundary/audit.py): AuditLogger's     *)
(* start-up check and append(), and verify_chain().                        *)
(*                                                                         *)
(* The file is a sequence of lines.  Loggers are processes that may have   *)
(* the same path open; nothing in the code locks the file.  append() is    *)
(* split where another process, a crash or a failing write can come        *)
(* between: the sequence number is taken first, the line is written next   *)
(* and last_hash moves last.                                               *)
(*                                                                         *)
(* Data is abstracted to what the chain tells apart.  A decision stands    *)
(* for everything of an entry but its sequence number.  SHA-256 is taken   *)
(* to be free of collisions: the hash of a chain is the sequence of the    *)
(* payloads hashed into it.                                                *)
(***************************************************************************)
EXTENDS Integers, Sequences

CONSTANTS
  Loggers,        (* processes that open the log                            *)
  Decisions,      (* entry contents other than the sequence number          *)
  MaxLines,       (* bound: lines in the file                               *)
  MaxSequence     (* bound: sequence numbers a logger hands out             *)

ASSUME DecisionsAssumption == Decisions # {}
ASSUME BoundsAssumption    == MaxLines \in Nat /\ MaxSequence \in Nat

VARIABLES
  file,           (* the lines on disk                                      *)
  mode,           (* per logger: where it is, see Modes                     *)
  sequence,       (* per logger: self.sequence                              *)
  lastHash,       (* per logger: self.last_hash                             *)
  pending,        (* per logger: the entry append() is writing              *)
  genuine,        (* history: the lines as the loggers wrote them           *)
  acked,          (* history: entries whose append() returned, since an     *)
                  (* older copy was put back if one was                     *)
  overlapped      (* history: two loggers had the file open at once         *)

vars == <<file, mode, sequence, lastHash, pending, genuine, acked, overlapped>>

-----------------------------------------------------------------------------
(* Entries, lines and hashes.                                              *)

Payload  == [seq: Nat, dec: Decisions]
Hash     == Seq(Payload)
Genesis  == << >>
ChainHash(h, p) == Append(h, p)

Entry == [seq: Nat, dec: Decisions, prev: Hash, hash: Hash]

PayloadOf(e) == [seq |-> e.seq, dec |-> e.dec]

EntryAfter(h, n, d) ==
  [seq |-> n, dec |-> d, prev |-> h,
   hash |-> ChainHash(h, [seq |-> n, dec |-> d])]

(* A fragment is a line cut short by a failing write, without its newline. *)
(* Text appended to it runs into the same line, which then is garbage.     *)
LineKinds == {"whole", "fragment", "garbage"}
Line      == [kind: LineKinds, entry: Entry]

EndsInFragment(f) == f # << >> /\ f[Len(f)].kind = "fragment"

(* Mutant of WithLine: the file is opened with "w".                        *)
WithLineOpenedAnew(f, e) == <<[kind |-> "whole", entry |-> e]>>

(* open("a") and write one line, all of it or only its beginning.          *)
WithLine(f, e) ==
  IF EndsInFragment(f)
  THEN [f EXCEPT ![Len(f)] = [kind |-> "garbage", entry |-> e]]
  ELSE Append(f, [kind |-> "whole", entry |-> e])

WithFragment(f, e) ==
  IF EndsInFragment(f) THEN f
  ELSE Append(f, [kind |-> "fragment", entry |-> e])

-----------------------------------------------------------------------------
(* verify_chain(), which reads the lines in order: it returns at the first *)
(* entry that breaks the chain and raises at the first line that is not    *)
(* JSON, whichever comes first.                                            *)

PreviousHash(f, i) == IF i = 1 THEN Genesis ELSE f[i - 1].entry.hash

(* Mutant of Linked: the hash of the entry itself is not recomputed.       *)
LinkedByPreviousHash(f, i) == f[i].entry.prev = PreviousHash(f, i)

Linked(f, i) ==
  /\ f[i].entry.prev = PreviousHash(f, i)
  /\ f[i].entry.hash = ChainHash(PreviousHash(f, i), PayloadOf(f[i].entry))

Readable(f, i) == f[i].kind = "whole"

Verified(f) == \A i \in 1..Len(f) : Readable(f, i) /\ Linked(f, i)

Tampered(f) ==
  \E i \in 1..Len(f) : /\ \A j \in 1..i : Readable(f, j)
                       /\ ~Linked(f, i)

-----------------------------------------------------------------------------
(* A logger is down, ready for an append, refusing every append because    *)
(* the log failed verification when it started, or inside append(): about  *)
(* to write its entry, or done writing with last_hash not yet moved.       *)
Modes == {"down", "ready", "refusing", "writing", "written"}

NoEntry == [seq |-> 0, dec |-> CHOOSE d \in Decisions : TRUE,
            prev |-> Genesis, hash |-> Genesis]

TypeOK ==
  /\ file \in Seq(Line)
  /\ mode \in [Loggers -> Modes]
  /\ sequence \in [Loggers -> Nat]
  /\ lastHash \in [Loggers -> Hash]
  /\ pending \in [Loggers -> Entry]
  /\ genuine \in Seq(Line)
  /\ acked \in SUBSET Entry
  /\ overlapped \in BOOLEAN

Init ==
  /\ file = << >>
  /\ mode = [p \in Loggers |-> "down"]
  /\ sequence = [p \in Loggers |-> 0]
  /\ lastHash = [p \in Loggers |-> Genesis]
  /\ pending = [p \in Loggers |-> NoEntry]
  /\ genuine = << >>
  /\ acked = {}
  /\ overlapped = FALSE

-----------------------------------------------------------------------------
(* AuditLogger.__init__.  A file that cannot be parsed raises out of the   *)
(* constructor: no logger exists then, so there is no step for it.         *)

SomeoneElseUp(p) == \E q \in Loggers \ {p} : mode[q] # "down"

StartWith(p, m, n, h) ==
  /\ mode' = [mode EXCEPT ![p] = m]
  /\ sequence' = [sequence EXCEPT ![p] = n]
  /\ lastHash' = [lastHash EXCEPT ![p] = h]
  /\ overlapped' = (overlapped \/ SomeoneElseUp(p))
  /\ UNCHANGED <<file, pending, genuine, acked>>

(* Mutant of OpenNew: entries are numbered from 0, not from 1.             *)
OpenNewBeforeZero(p) ==
  /\ mode[p] = "down"
  /\ file = << >>
  /\ StartWith(p, "ready", -1, Genesis)

OpenNew(p) ==
  /\ mode[p] = "down"
  /\ file = << >>
  /\ StartWith(p, "ready", 0, Genesis)

(* Mutant of OpenResume: the numbering starts over.                        *)
OpenResumeFromZero(p) ==
  /\ mode[p] = "down"
  /\ file # << >>
  /\ Verified(file)
  /\ StartWith(p, "ready", 0, file[Len(file)].entry.hash)

OpenResume(p) ==
  /\ mode[p] = "down"
  /\ file # << >>
  /\ Verified(file)
  /\ StartWith(p, "ready", file[Len(file)].entry.seq, file[Len(file)].entry.hash)

OpenTampered(p) ==
  /\ mode[p] = "down"
  /\ Tampered(file)
  /\ StartWith(p, "refusing", 0, Genesis)

-----------------------------------------------------------------------------
(* append() returned or raised, or its process ended: its entry is gone.   *)
Leave(p, m) ==
  /\ mode' = [mode EXCEPT ![p] = m]
  /\ pending' = [pending EXCEPT ![p] = NoEntry]

(* append().  A refusing logger raises before it changes anything, so it   *)
(* has no step here.                                                       *)

BeginAppend(p, d) ==
  /\ mode[p] = "ready"
  /\ sequence[p] < MaxSequence
  /\ sequence' = [sequence EXCEPT ![p] = @ + 1]
  /\ pending' = [pending EXCEPT
       ![p] = EntryAfter(lastHash[p], sequence[p] + 1, d)]
  /\ mode' = [mode EXCEPT ![p] = "writing"]
  /\ UNCHANGED <<file, lastHash, genuine, acked, overlapped>>

WriteLine(p) ==
  /\ mode[p] = "writing"
  /\ Len(file) < MaxLines
  /\ file' = WithLine(file, pending[p])
  /\ genuine' = WithLine(genuine, pending[p])
  /\ mode' = [mode EXCEPT ![p] = "written"]
  /\ UNCHANGED <<sequence, lastHash, pending, acked, overlapped>>

EndAppend(p) ==
  /\ mode[p] = "written"
  /\ lastHash' = [lastHash EXCEPT ![p] = pending[p].hash]
  /\ acked' = acked \union {pending[p]}
  /\ Leave(p, "ready")
  /\ UNCHANGED <<file, sequence, genuine, overlapped>>

(* Mutant of WriteFails: last_hash moved before the line was written.      *)
WriteFailsAfterHash(p) ==
  /\ mode[p] = "writing"
  /\ Leave(p, "ready")
  /\ lastHash' = [lastHash EXCEPT ![p] = pending[p].hash]
  /\ UNCHANGED <<file, sequence, genuine, acked, overlapped>>

(* The write raises: nothing reached the file, or the line was cut short.  *)
(* The sequence number stays taken and last_hash stays where it was.       *)
WriteFails(p) ==
  /\ mode[p] = "writing"
  /\ Leave(p, "ready")
  /\ UNCHANGED <<file, sequence, lastHash, genuine, acked, overlapped>>

WriteCutShort(p) ==
  /\ mode[p] = "writing"
  /\ Len(file) < MaxLines
  /\ file' = WithFragment(file, pending[p])
  /\ genuine' = WithFragment(genuine, pending[p])
  /\ Leave(p, "ready")
  /\ UNCHANGED <<sequence, lastHash, acked, overlapped>>

(* The process ends, between any two steps or in an orderly way.           *)
Stop(p) ==
  /\ mode[p] # "down"
  /\ Leave(p, "down")
  /\ sequence' = [sequence EXCEPT ![p] = 0]
  /\ lastHash' = [lastHash EXCEPT ![p] = Genesis]
  /\ UNCHANGED <<file, genuine, acked, overlapped>>

-----------------------------------------------------------------------------
(* What happens to the file outside the loggers: the content of an entry   *)
(* changes in place, or, while no logger runs, an older copy of the file   *)
(* is put back.                                                            *)

EditEntry(i, d) ==
  /\ file[i].kind = "whole"
  /\ file' = [file EXCEPT ![i].entry.dec = d]
  /\ UNCHANGED <<mode, sequence, lastHash, pending, genuine, acked, overlapped>>

PutBackOlderCopy(n) ==
  /\ \A p \in Loggers : mode[p] = "down"
  /\ file' = SubSeq(file, 1, n)
  /\ genuine' = SubSeq(genuine, 1, n)
  /\ acked' = {}
  /\ UNCHANGED <<mode, sequence, lastHash, pending, overlapped>>

-----------------------------------------------------------------------------
Step(p) ==
  \/ OpenNew(p)
  \/ OpenResume(p)
  \/ OpenTampered(p)
  \/ \E d \in Decisions : BeginAppend(p, d)
  \/ WriteLine(p)
  \/ EndAppend(p)
  \/ WriteFails(p)
  \/ WriteCutShort(p)
  \/ Stop(p)

Next ==
  \/ \E p \in Loggers : Step(p)
  \/ \E i \in 1..Len(file), d \in Decisions : EditEntry(i, d)
  \/ \E n \in 1..Len(file) - 1 : PutBackOlderCopy(n)

Spec == Init /\ [][Next]_vars

-----------------------------------------------------------------------------
(* Properties.                                                             *)

(* An audit entry's sequence number is the only identifier an analyst      *)
(* label refers to.  In a log that passes start-up verification no two     *)
(* entries share one and they rise along the file, whatever two processes, *)
(* failed writes and restarts did before: writers that overtook each other *)
(* leave a log that fails verification, never one with a repeated number.  *)
SequenceIdentifiesEntry ==
  Verified(file) =>
    \A i, j \in 1..Len(file) : i < j => file[i].entry.seq < file[j].entry.seq

(* An entry whose append() returned stays in the log unless the file is    *)
(* changed from outside; if a cut-short line swallowed it, the log can no  *)
(* longer be read to the end, so the loss shows at the next start.         *)
NoSilentLoss ==
  file = genuine =>
    \A e \in acked :
      \/ \E i \in 1..Len(file) : file[i] = [kind |-> "whole", entry |-> e]
      \/ \E i \in 1..Len(file) : ~Readable(file, i)

(* As long as loggers take turns and nobody edits the file, crashes and    *)
(* failing writes at any point of append() never leave a chain that a      *)
(* later start reports as tampered with.                                   *)
NoFalseAlarm ==
  (~overlapped /\ file = genuine) => ~Tampered(file)

Resumes(p) == mode[p] = "down" /\ mode'[p] = "ready"

(* A logger that starts extends the log it finds only if every entry in it *)
(* is as a logger wrote it: one edited in between is refused.              *)
OnlyUneditedResumed ==
  [][\A p \in Loggers : Resumes(p) => file = genuine]_vars

-----------------------------------------------------------------------------
(* The inductive invariant behind SequenceIdentifiesEntry and              *)
(* OnlyUneditedResumed.                                                    *)

(* The last payload hashed into h has a sequence number of at most n.      *)
HashUpTo(h, n) == h # Genesis => h[Len(h)].seq <= n

(* An entry as append() builds it, whatever became of its content since.   *)
Formed(e) ==
  /\ e.hash # Genesis
  /\ e.hash[Len(e.hash)].seq = e.seq
  /\ HashUpTo(e.prev, e.seq - 1)

(* The first k lines are whole and each names the hash of the one before.  *)
JoinedUpTo(f, k) ==
  \A i \in 1..k : Readable(f, i) /\ f[i].entry.prev = PreviousHash(f, i)

LoggersInv ==
  \A p \in Loggers :
    /\ HashUpTo(lastHash[p], sequence[p])
    /\ mode[p] \in {"writing", "written"} =>
         /\ Formed(pending[p])
         /\ pending[p].seq = sequence[p]
         /\ pending[p].hash = ChainHash(pending[p].prev, PayloadOf(pending[p]))

Ordered(f) ==
  /\ \A i \in 1..Len(f) : Readable(f, i) => Formed(f[i].entry)
  /\ \A k \in 1..Len(f) : JoinedUpTo(f, k) =>
       \A i \in 1..k - 1 : f[i].entry.seq < f[k].entry.seq

FileInv == Ordered(file)

(* A line of the file differs from the line a logger wrote in the content  *)
(* of its entry only, and carries the hash of the original content.        *)
SameButContent(line, orig) ==
  /\ line.kind = orig.kind
  /\ line.entry.seq = orig.entry.seq
  /\ line.entry.prev = orig.entry.prev
  /\ line.entry.hash = orig.entry.hash
  /\ line.kind = "whole" =>
       orig.entry.hash = ChainHash(orig.entry.prev, PayloadOf(orig.entry))

GenuineInv ==
  /\ Len(genuine) = Len(file)
  /\ \A i \in 1..Len(file) : SameButContent(file[i], genuine[i])

IInv == TypeOK /\ LoggersInv /\ FileInv /\ GenuineInv

(* Behind NoFalseAlarm.  While loggers take turns, the log as they wrote   *)
(* it is linked for as far as it can be read, and if that is to its end    *)
(* the logger that is up holds the hash at its end.                        *)
ReadThrough(f) == \A i \in 1..Len(f) : Readable(f, i)

EndHash(f) == IF f = << >> THEN Genesis ELSE f[Len(f)].entry.hash

HoldsEnd(p) ==
  /\ mode[p] \in {"ready", "writing"} => lastHash[p] = EndHash(genuine)
  /\ mode[p] = "written" => pending[p].hash = EndHash(genuine)

TurnInv ==
  /\ \A p \in Loggers : mode[p] = "writing" => pending[p].prev = lastHash[p]
  /\ ~overlapped =>
       /\ \A p, q \in Loggers : p # q => mode[p] = "down" \/ mode[q] = "down"
       /\ ~Tampered(genuine)
       /\ ReadThrough(genuine) => \A p \in Loggers : HoldsEnd(p)

=============================================================================
