--------------------------- MODULE AuditLogProofs ---------------------------
(***************************************************************************)
(* Proofs about AuditLog, for any number of loggers, any length of the     *)
(* file and any sequence of crashes, failing writes, edits and older       *)
(* copies.                                                                 *)
(***************************************************************************)
EXTENDS AuditLog, SequenceTheorems, TLAPS

-----------------------------------------------------------------------------
(* Facts about entries and lines.                                          *)

LEMMA NoEntryType == NoEntry \in Entry
BY DecisionsAssumption DEF NoEntry, Entry, Hash, Genesis

LEMMA PayloadType ==
  ASSUME NEW e \in Entry
  PROVE  PayloadOf(e) \in Payload
BY DEF PayloadOf, Entry, Payload

(* What append() builds is an entry whose hash ends in its own payload.    *)
LEMMA EntryAfterFacts ==
  ASSUME NEW h \in Hash, NEW n \in Nat, NEW d \in Decisions,
         HashUpTo(h, n - 1)
  PROVE  LET e == EntryAfter(h, n, d)
         IN  /\ e \in Entry
             /\ Formed(e)
             /\ e.seq = n
             /\ e.hash = ChainHash(e.prev, PayloadOf(e))
<1> DEFINE pay == [seq |-> n, dec |-> d]
           e   == EntryAfter(h, n, d)
<1>1. pay \in Payload
  BY DEF Payload
<1>2. /\ Append(h, pay) \in Seq(Payload)
      /\ Len(Append(h, pay)) = Len(h) + 1
      /\ Append(h, pay)[Len(h) + 1] = pay
  BY <1>1 DEF Hash
<1>3. e = [seq |-> n, dec |-> d, prev |-> h, hash |-> Append(h, pay)]
  BY DEF EntryAfter, ChainHash
<1>4. e \in Entry
  BY <1>2, <1>3 DEF Entry, Hash
<1>5. e.hash # Genesis /\ e.hash[Len(e.hash)].seq = n
  BY <1>2, <1>3 DEF Genesis, Hash
<1> QED
  BY <1>3, <1>4, <1>5 DEF Formed, ChainHash, PayloadOf

(* A write to the file, in full or cut short, leaves every line but the    *)
(* last alone: it adds a line, or runs into an unfinished last one.        *)
LEMMA WithLineFacts ==
  ASSUME NEW f \in Seq(Line), NEW e \in Entry
  PROVE  LET g == WithLine(f, e)
         IN  /\ g \in Seq(Line)
             /\ Len(g) = IF EndsInFragment(f) THEN Len(f) ELSE Len(f) + 1
             /\ \A i \in 1..Len(g) - 1 : i \in 1..Len(f) /\ g[i] = f[i]
             /\ g[Len(g)] = [kind  |-> IF EndsInFragment(f) THEN "garbage"
                                                           ELSE "whole",
                             entry |-> e]
<1> DEFINE W(k) == [kind |-> k, entry |-> e]
<1>1. W("whole") \in Line /\ W("garbage") \in Line
  BY DEF Line, LineKinds
<1>2. CASE EndsInFragment(f)
  <2>1. Len(f) \in 1..Len(f)
    BY <1>2 DEF EndsInFragment
  <2>2. WithLine(f, e) = [f EXCEPT ![Len(f)] = W("garbage")]
    BY <1>2 DEF WithLine
  <2> QED
    BY <1>1, <1>2, <2>1, <2>2, ExceptSeq
<1>3. CASE ~EndsInFragment(f)
  <2>1. WithLine(f, e) = Append(f, W("whole"))
    BY <1>3 DEF WithLine
  <2> HIDE DEF W
  <2>2. /\ Append(f, W("whole")) \in Seq(Line)
        /\ Len(Append(f, W("whole"))) = Len(f) + 1
        /\ \A i \in 1..Len(f) : Append(f, W("whole"))[i] = f[i]
        /\ Append(f, W("whole"))[Len(f) + 1] = W("whole")
    BY <1>1
  <2> QED
    BY <1>3, <2>1, <2>2 DEF W
<1> QED
  BY <1>2, <1>3

LEMMA WithFragmentFacts ==
  ASSUME NEW f \in Seq(Line), NEW e \in Entry
  PROVE  LET g == WithFragment(f, e)
         IN  /\ g \in Seq(Line)
             /\ EndsInFragment(f) => g = f
             /\ ~EndsInFragment(f) =>
                  /\ Len(g) = Len(f) + 1
                  /\ \A i \in 1..Len(f) : g[i] = f[i]
                  /\ g[Len(g)] = [kind |-> "fragment", entry |-> e]
<1> DEFINE W == [kind |-> "fragment", entry |-> e]
<1>1. W \in Line
  BY DEF Line, LineKinds
<1>2. CASE EndsInFragment(f)
  BY <1>2 DEF WithFragment
<1>3. CASE ~EndsInFragment(f)
  <2>1. WithFragment(f, e) = Append(f, W)
    BY <1>3 DEF WithFragment
  <2> HIDE DEF W
  <2>2. /\ Append(f, W) \in Seq(Line)
        /\ Len(Append(f, W)) = Len(f) + 1
        /\ \A i \in 1..Len(f) : Append(f, W)[i] = f[i]
        /\ Append(f, W)[Len(f) + 1] = W
    BY <1>1
  <2> QED
    BY <1>3, <2>1, <2>2 DEF W
<1> QED
  BY <1>2, <1>3

-----------------------------------------------------------------------------
(* Type correctness.                                                       *)

LEMMA InitType == Init => TypeOK
<1> SUFFICES ASSUME Init PROVE TypeOK
  OBVIOUS
<1>1. file \in Seq(Line) /\ genuine \in Seq(Line) /\ Genesis \in Hash
  BY EmptySeq DEF Init, Hash, Genesis
<1>2. lastHash \in [Loggers -> Hash]
  BY <1>1 DEF Init
<1> QED
  BY <1>1, <1>2, NoEntryType DEF Init, TypeOK, Modes

LEMMA NextType == TypeOK /\ GenuineInv /\ [Next]_vars => TypeOK'
<1> SUFFICES ASSUME TypeOK, GenuineInv, [Next]_vars
             PROVE  TypeOK'
  OBVIOUS
<1> USE DEF TypeOK
<1>1. ASSUME NEW p \in Loggers, OpenNew(p)
      PROVE  TypeOK'
  BY <1>1 DEF OpenNew, StartWith, SomeoneElseUp, Modes, Hash, Genesis
<1>2. ASSUME NEW p \in Loggers, OpenResume(p)
      PROVE  TypeOK'
  <2>1. Len(file) \in 1..Len(file)
    BY <1>2 DEF OpenResume
  <2>2. file[Len(file)] \in Line
    BY <2>1, ElementOfSeq
  <2>3. file[Len(file)].entry.seq \in Nat /\ file[Len(file)].entry.hash \in Hash
    BY <2>2 DEF Line, Entry
  <2> QED
    BY <1>2, <2>3 DEF OpenResume, StartWith, SomeoneElseUp, Modes
<1>3. ASSUME NEW p \in Loggers, OpenTampered(p)
      PROVE  TypeOK'
  BY <1>3 DEF OpenTampered, StartWith, SomeoneElseUp, Modes, Hash, Genesis
<1>4. ASSUME NEW p \in Loggers, NEW d \in Decisions, BeginAppend(p, d)
      PROVE  TypeOK'
  <2>1. [seq |-> sequence[p] + 1, dec |-> d] \in Payload
    BY DEF Payload
  <2>2. EntryAfter(lastHash[p], sequence[p] + 1, d) \in Entry
    BY <2>1 DEF EntryAfter, ChainHash, Entry, Hash
  <2> QED
    BY <1>4, <2>2 DEF BeginAppend, Modes
<1>5. ASSUME NEW p \in Loggers, WriteLine(p)
      PROVE  TypeOK'
  BY <1>5, WithLineFacts DEF WriteLine, Modes
<1>6. ASSUME NEW p \in Loggers, EndAppend(p)
      PROVE  TypeOK'
  BY <1>6, NoEntryType DEF EndAppend, Leave, Modes, Entry
<1>7. ASSUME NEW p \in Loggers, WriteFails(p)
      PROVE  TypeOK'
  BY <1>7, NoEntryType DEF WriteFails, Leave, Modes
<1>8. ASSUME NEW p \in Loggers, WriteCutShort(p)
      PROVE  TypeOK'
  BY <1>8, WithFragmentFacts, NoEntryType DEF WriteCutShort, Leave, Modes
<1>9. ASSUME NEW p \in Loggers, Stop(p)
      PROVE  TypeOK'
  BY <1>9, NoEntryType DEF Stop, Leave, Modes, Hash, Genesis
<1>10. ASSUME NEW i \in 1..Len(file), NEW d \in Decisions, EditEntry(i, d)
       PROVE  TypeOK'
  <2>1. file[i] \in Line
    BY ElementOfSeq
  <2>2. /\ file[i].kind \in LineKinds
        /\ file[i].entry \in Entry
        /\ file[i] = [kind |-> file[i].kind, entry |-> file[i].entry]
    BY <2>1 DEF Line
  <2>3. [file[i].entry EXCEPT !.dec = d] \in Entry
    BY <2>2 DEF Entry
  <2>4. [file[i] EXCEPT !.entry.dec = d] \in Line
    BY <2>2, <2>3 DEF Line
  <2> QED
    BY <1>10, <2>4, ExceptSeq DEF EditEntry
<1>11. ASSUME NEW n \in 1..Len(file) - 1, PutBackOlderCopy(n)
       PROVE  TypeOK'
  <2>1. SubSeq(file, 1, n) \in Seq(Line)
    BY ElementOfSeq, SubSeqProperties
  <2>2. SubSeq(genuine, 1, n) \in Seq(Line)
    BY ElementOfSeq, SubSeqProperties DEF GenuineInv
  <2> QED
    BY <1>11, <2>1, <2>2 DEF PutBackOlderCopy
<1>12. CASE UNCHANGED vars
  BY <1>12 DEF vars
<1> QED
  BY <1>1, <1>2, <1>3, <1>4, <1>5, <1>6, <1>7, <1>8, <1>9, <1>10, <1>11, <1>12
     DEF Next, Step

-----------------------------------------------------------------------------
(* The file and what the loggers wrote stay parallel.                      *)

LEMMA SameKindsSameWrites ==
  ASSUME TypeOK, GenuineInv
  PROVE  EndsInFragment(file) <=> EndsInFragment(genuine)
<1>1. file # << >> <=> genuine # << >>
  BY EmptySeq DEF TypeOK, GenuineInv
<1>2. file # << >> => Len(file) \in 1..Len(file)
  BY DEF TypeOK
<1> QED
  BY <1>1, <1>2 DEF EndsInFragment, GenuineInv, SameButContent

LEMMA WriteGenuine ==
  ASSUME TypeOK, GenuineInv, NEW e \in Entry,
         e.hash = ChainHash(e.prev, PayloadOf(e)),
         file' = WithLine(file, e), genuine' = WithLine(genuine, e)
  PROVE  GenuineInv'
<1> DEFINE n == Len(file')
<1>1. file \in Seq(Line) /\ genuine \in Seq(Line)
  BY DEF TypeOK
<1>2. EndsInFragment(file) <=> EndsInFragment(genuine)
  BY SameKindsSameWrites
<1>3. /\ n = IF EndsInFragment(file) THEN Len(file) ELSE Len(file) + 1
      /\ \A i \in 1..n - 1 : i \in 1..Len(file) /\ file'[i] = file[i]
      /\ file'[n] = [kind |-> IF EndsInFragment(file) THEN "garbage" ELSE "whole",
                     entry |-> e]
  BY <1>1, WithLineFacts
<1>4. /\ Len(genuine') = n
      /\ \A i \in 1..n - 1 : genuine'[i] = genuine[i]
      /\ genuine'[n] = [kind |-> IF EndsInFragment(file) THEN "garbage" ELSE "whole",
                        entry |-> e]
  BY <1>1, <1>2, <1>3, WithLineFacts DEF GenuineInv
<1>5. n \in Nat
  BY <1>1, <1>3
<1>6. SameButContent(file'[n], genuine'[n])
  BY <1>3, <1>4 DEF SameButContent
<1>7. ASSUME NEW i \in 1..n
      PROVE  SameButContent(file'[i], genuine'[i])
  BY <1>3, <1>4, <1>5, <1>6 DEF GenuineInv
<1> QED
  BY <1>4, <1>7 DEF GenuineInv

LEMMA FragmentGenuine ==
  ASSUME TypeOK, GenuineInv, NEW e \in Entry,
         file' = WithFragment(file, e), genuine' = WithFragment(genuine, e)
  PROVE  GenuineInv'
<1> DEFINE n == Len(file) + 1
<1>1. file \in Seq(Line) /\ genuine \in Seq(Line)
  BY DEF TypeOK
<1>2. EndsInFragment(file) <=> EndsInFragment(genuine)
  BY SameKindsSameWrites
<1>3. CASE EndsInFragment(file)
  <2>1. file' = file /\ genuine' = genuine
    BY <1>1, <1>2, <1>3, WithFragmentFacts
  <2> QED
    BY <2>1 DEF GenuineInv
<1>4. CASE ~EndsInFragment(file)
  <2>1. /\ Len(file') = n
        /\ \A i \in 1..Len(file) : file'[i] = file[i]
        /\ file'[n] = [kind |-> "fragment", entry |-> e]
    BY <1>1, <1>4, WithFragmentFacts
  <2>2. /\ Len(genuine') = n
        /\ \A i \in 1..Len(file) : genuine'[i] = genuine[i]
        /\ genuine'[n] = [kind |-> "fragment", entry |-> e]
    BY <1>1, <1>2, <1>4, WithFragmentFacts DEF GenuineInv
  <2>3. SameButContent(file'[n], genuine'[n])
    BY <2>1, <2>2 DEF SameButContent
  <2>4. ASSUME NEW i \in 1..n
        PROVE  SameButContent(file'[i], genuine'[i])
    BY <1>1, <2>1, <2>2, <2>3 DEF GenuineInv
  <2> QED
    BY <2>1, <2>2, <2>4 DEF GenuineInv
<1> QED
  BY <1>3, <1>4

LEMMA EditGenuine ==
  ASSUME TypeOK, GenuineInv, NEW i \in 1..Len(file), NEW d \in Decisions,
         EditEntry(i, d)
  PROVE  GenuineInv'
<1>1. file[i] \in Line
  BY ElementOfSeq DEF TypeOK
<1>2. /\ file' = [file EXCEPT ![i].entry.dec = d]
      /\ genuine' = genuine
  BY DEF EditEntry
<1>3. Len(file') = Len(file)
  BY <1>2 DEF TypeOK
<1>4. ASSUME NEW j \in 1..Len(file)
      PROVE  SameButContent(file'[j], genuine[j])
  <2>1. CASE j # i
    BY <1>2, <2>1 DEF TypeOK, GenuineInv
  <2>2. CASE j = i
    <3>1. DOMAIN file = 1..Len(file)
      BY DEF TypeOK
    <3>2. /\ file'[i].kind = file[i].kind
          /\ file'[i].entry.seq = file[i].entry.seq
          /\ file'[i].entry.prev = file[i].entry.prev
          /\ file'[i].entry.hash = file[i].entry.hash
      BY <1>1, <1>2, <3>1 DEF Line, Entry
    <3> QED
      BY <2>2, <3>2 DEF GenuineInv, SameButContent
  <2> QED
    BY <2>1, <2>2
<1> QED
  BY <1>2, <1>3, <1>4 DEF GenuineInv

LEMMA OlderCopyGenuine ==
  ASSUME TypeOK, GenuineInv, NEW n \in 1..Len(file) - 1, PutBackOlderCopy(n)
  PROVE  GenuineInv'
<1>1. /\ file' = SubSeq(file, 1, n)
      /\ genuine' = SubSeq(genuine, 1, n)
  BY DEF PutBackOlderCopy
<1>2. /\ Len(file') = n /\ \A i \in 1..n : file'[i] = file[i]
      /\ Len(genuine') = n /\ \A i \in 1..n : genuine'[i] = genuine[i]
  BY <1>1 DEF TypeOK, GenuineInv
<1>3. Len(file) \in Nat
  BY DEF TypeOK
<1> QED
  BY <1>2, <1>3 DEF GenuineInv

LEMMA NextGenuine == IInv /\ [Next]_vars => GenuineInv'
<1> SUFFICES ASSUME IInv, [Next]_vars
             PROVE  GenuineInv'
  OBVIOUS
<1>1. TypeOK /\ GenuineInv
  BY DEF IInv
<1>2. CASE UNCHANGED <<file, genuine>>
  BY <1>1, <1>2 DEF GenuineInv
<1>3. ASSUME NEW p \in Loggers, WriteLine(p)
      PROVE  GenuineInv'
  <2>1. /\ pending[p] \in Entry
        /\ pending[p].hash = ChainHash(pending[p].prev, PayloadOf(pending[p]))
    BY <1>3 DEF WriteLine, IInv, LoggersInv, TypeOK
  <2> QED
    BY <1>1, <1>3, <2>1, WriteGenuine DEF WriteLine
<1>4. ASSUME NEW p \in Loggers, WriteCutShort(p)
      PROVE  GenuineInv'
  <2>1. pending[p] \in Entry
    BY <1>1 DEF TypeOK
  <2> QED
    BY <1>1, <1>4, <2>1, FragmentGenuine DEF WriteCutShort
<1>5. ASSUME NEW i \in 1..Len(file), NEW d \in Decisions, EditEntry(i, d)
      PROVE  GenuineInv'
  BY <1>1, <1>5, EditGenuine
<1>6. ASSUME NEW n \in 1..Len(file) - 1, PutBackOlderCopy(n)
      PROVE  GenuineInv'
  BY <1>1, <1>6, OlderCopyGenuine
<1> QED
  BY <1>2, <1>3, <1>4, <1>5, <1>6
     DEF Next, Step, vars, OpenNew, OpenResume, OpenTampered, StartWith,
         BeginAppend, EndAppend, WriteFails, Stop

-----------------------------------------------------------------------------
(* Sequence numbers and the hashes that carry them.                        *)

LEMMA NextLoggers == IInv /\ [Next]_vars => LoggersInv'
<1> SUFFICES ASSUME IInv, [Next]_vars
             PROVE  LoggersInv'
  OBVIOUS
<1> USE DEF IInv, TypeOK, LoggersInv
<1>1. ASSUME NEW p \in Loggers, OpenNew(p) \/ OpenTampered(p)
      PROVE  LoggersInv'
  BY <1>1 DEF OpenNew, OpenTampered, StartWith, HashUpTo
<1>2. ASSUME NEW p \in Loggers, OpenResume(p)
      PROVE  LoggersInv'
  <2> DEFINE e == file[Len(file)].entry
  <2>1. Len(file) \in 1..Len(file) /\ Readable(file, Len(file))
    BY <1>2 DEF OpenResume, Verified
  <2>2. Formed(e)
    BY <2>1 DEF FileInv, Ordered
  <2>3. file[Len(file)] \in Line
    BY <2>1, ElementOfSeq
  <2>4. HashUpTo(e.hash, e.seq)
    BY <2>2, <2>3 DEF Formed, HashUpTo, Line, Entry
  <2> QED
    BY <1>2, <2>4 DEF OpenResume, StartWith
<1>3. ASSUME NEW p \in Loggers, NEW d \in Decisions, BeginAppend(p, d)
      PROVE  LoggersInv'
  <2> DEFINE e == EntryAfter(lastHash[p], sequence[p] + 1, d)
  <2>1. /\ Formed(e)
        /\ e.seq = sequence[p] + 1
        /\ e.hash = ChainHash(e.prev, PayloadOf(e))
    BY EntryAfterFacts
  <2>2. HashUpTo(lastHash[p], sequence[p] + 1)
    <3>1. lastHash[p] \in Seq(Payload)
      BY DEF Hash
    <3>2. lastHash[p] # Genesis => lastHash[p][Len(lastHash[p])] \in Payload
      BY <3>1, EmptySeq, ElementOfSeq DEF Genesis
    <3>3. lastHash[p] # Genesis => lastHash[p][Len(lastHash[p])].seq \in Nat
      BY <3>2 DEF Payload
    <3> QED
      BY <3>3 DEF HashUpTo
  <2> HIDE DEF e
  <2>3. /\ pending'[p] = e
        /\ sequence'[p] = sequence[p] + 1
        /\ lastHash' = lastHash
        /\ \A q \in Loggers \ {p} : /\ pending'[q] = pending[q]
                                    /\ sequence'[q] = sequence[q]
                                    /\ mode'[q] = mode[q]
    BY <1>3 DEF BeginAppend, e
  <2> QED
    BY <2>1, <2>2, <2>3
<1>4. ASSUME NEW p \in Loggers, EndAppend(p)
      PROVE  LoggersInv'
  <2>1. HashUpTo(pending[p].hash, sequence[p])
    <3>1. Formed(pending[p]) /\ pending[p].seq = sequence[p]
      BY <1>4 DEF EndAppend
    <3> QED
      BY <3>1 DEF Formed, HashUpTo
  <2> QED
    BY <1>4, <2>1 DEF EndAppend, Leave
<1>5. ASSUME NEW p \in Loggers, WriteLine(p)
      PROVE  LoggersInv'
  BY <1>5 DEF WriteLine
<1>6. ASSUME NEW p \in Loggers, WriteFails(p) \/ WriteCutShort(p) \/ Stop(p)
      PROVE  LoggersInv'
  BY <1>6 DEF WriteFails, WriteCutShort, Stop, Leave, HashUpTo
<1>7. CASE UNCHANGED <<mode, sequence, lastHash, pending>>
  BY <1>7
<1> QED
  BY <1>1, <1>2, <1>3, <1>4, <1>5, <1>6, <1>7
     DEF Next, Step, vars, EditEntry, PutBackOlderCopy

(* Ordered speaks of the kinds, numbers and hashes of the lines only, and  *)
(* of each line with those before it: a file no longer than an ordered one *)
(* that agrees with it on these is ordered.                                *)
LEMMA AgreeingOrdered ==
  ASSUME NEW f \in Seq(Line), NEW g \in Seq(Line), Ordered(f),
         Len(g) <= Len(f),
         \A i \in 1..Len(g) : /\ g[i].kind = f[i].kind
                              /\ g[i].entry.seq = f[i].entry.seq
                              /\ g[i].entry.prev = f[i].entry.prev
                              /\ g[i].entry.hash = f[i].entry.hash
  PROVE  Ordered(g)
<1>1. \A i \in 1..Len(g) : i \in 1..Len(f)
  OBVIOUS
<1>2. ASSUME NEW i \in 1..Len(g), Readable(g, i)
      PROVE  Formed(g[i].entry)
  <2>1. Formed(f[i].entry)
    BY <1>1, <1>2 DEF Ordered, Readable
  <2> QED
    BY <2>1 DEF Formed
<1>3. ASSUME NEW k \in 1..Len(g), JoinedUpTo(g, k)
      PROVE  \A i \in 1..k - 1 : g[i].entry.seq < g[k].entry.seq
  <2>1. ASSUME NEW j \in 1..k
        PROVE  Readable(f, j) /\ f[j].entry.prev = PreviousHash(f, j)
    <3>1. Readable(g, j) /\ g[j].entry.prev = PreviousHash(g, j) /\ j \in 1..Len(g)
      BY <1>3 DEF JoinedUpTo
    <3>2. j = 1 \/ j - 1 \in 1..Len(g)
      OBVIOUS
    <3>3. PreviousHash(g, j) = PreviousHash(f, j)
      BY <3>2 DEF PreviousHash
    <3> QED
      BY <3>1, <3>3 DEF Readable
  <2>2. JoinedUpTo(f, k)
    BY <2>1 DEF JoinedUpTo
  <2>3. \A i \in 1..k - 1 : f[i].entry.seq < f[k].entry.seq
    BY <1>1, <2>2 DEF Ordered
  <2> QED
    BY <2>3
<1> QED
  BY <1>2, <1>3 DEF Ordered

(* A file whose last line is new stays ordered if that line is unreadable  *)
(* or holds an entry as append() builds it.                                *)
LEMMA ExtendedOrdered ==
  ASSUME NEW f \in Seq(Line), NEW g \in Seq(Line), Ordered(f),
         NEW n \in Nat, Len(g) = n,
         \A i \in 1..n - 1 : i \in 1..Len(f) /\ g[i] = f[i],
         (n > 0 /\ Readable(g, n)) => Formed(g[n].entry)
  PROVE  Ordered(g)
<1>1. ASSUME NEW i \in 1..n, Readable(g, i)
      PROVE  Formed(g[i].entry)
  BY <1>1 DEF Ordered, Readable
<1>2. ASSUME NEW k \in 1..n, JoinedUpTo(g, k), NEW i \in 1..k - 1
      PROVE  g[i].entry.seq < g[k].entry.seq
  <2>1. ASSUME NEW m \in 1..k, m # n
        PROVE  JoinedUpTo(f, m) /\ m \in 1..Len(f)
    <3>1. ASSUME NEW j \in 1..m
          PROVE  Readable(f, j) /\ f[j].entry.prev = PreviousHash(f, j)
      <4>1. Readable(g, j) /\ g[j].entry.prev = PreviousHash(g, j)
        BY <1>2 DEF JoinedUpTo
      <4>2. j \in 1..n - 1 /\ (j = 1 \/ j - 1 \in 1..n - 1)
        BY <2>1
      <4>3. PreviousHash(g, j) = PreviousHash(f, j)
        BY <4>2 DEF PreviousHash
      <4> QED
        BY <4>1, <4>2, <4>3 DEF Readable
    <3> QED
      BY <2>1, <3>1 DEF JoinedUpTo
  <2>2. CASE k # n
    <3>1. f[i].entry.seq < f[k].entry.seq
      BY <2>1, <2>2 DEF Ordered
    <3>2. i \in 1..n - 1 /\ k \in 1..n - 1
      BY <2>2
    <3> QED
      BY <3>1, <3>2
  <2>3. CASE k = n
    <3> DEFINE m == n - 1
    <3>1. m \in 1..k /\ m # n /\ i \in 1..m /\ m + 1 = n
      BY <2>3
    <3>2. JoinedUpTo(f, m) /\ m \in 1..Len(f)
      BY <2>1, <3>1
    <3>3. i = m \/ f[i].entry.seq < f[m].entry.seq
      BY <3>1, <3>2 DEF Ordered
    <3>4. Readable(f, m) /\ Formed(f[m].entry)
      BY <3>1, <3>2 DEF JoinedUpTo, Ordered
    <3>5. Readable(g, n) /\ g[n].entry.prev = g[n - 1].entry.hash
      BY <1>2, <2>3 DEF JoinedUpTo, PreviousHash
    <3>6. g[n - 1] = f[m] /\ g[i] = f[i]
      BY <3>1
    <3>7. f[m].entry.seq <= g[n].entry.seq - 1
      BY <2>3, <3>4, <3>5, <3>6 DEF Formed, HashUpTo
    <3>8. /\ f[i].entry.seq \in Nat
          /\ f[m].entry.seq \in Nat
          /\ g[n].entry.seq \in Nat
      <4>1. i \in 1..Len(f) /\ m \in 1..Len(f) /\ n \in 1..Len(g)
        BY <2>3, <3>1, <3>2
      <4>2. f[i] \in Line /\ f[m] \in Line /\ g[n] \in Line
        BY <4>1, ElementOfSeq
      <4> QED
        BY <4>2 DEF Line, Entry
    <3> QED
      BY <2>3, <3>3, <3>6, <3>7, <3>8
  <2> QED
    BY <2>2, <2>3
<1> QED
  BY <1>1, <1>2 DEF Ordered

LEMMA NextFile == IInv /\ [Next]_vars => FileInv'
<1> SUFFICES ASSUME IInv, [Next]_vars
             PROVE  FileInv'
  OBVIOUS
<1>1. file \in Seq(Line) /\ file' \in Seq(Line) /\ Ordered(file)
  BY NextType DEF IInv, TypeOK, FileInv
<1>2. CASE file' = file
  BY <1>1, <1>2 DEF FileInv
<1>3. ASSUME NEW p \in Loggers, WriteLine(p)
      PROVE  FileInv'
  <2>1. /\ pending[p] \in Entry
        /\ Formed(pending[p])
        /\ file' = WithLine(file, pending[p])
    BY <1>3 DEF WriteLine, IInv, TypeOK, LoggersInv
  <2>2. PICK e \in Entry : e = pending[p]
    BY <2>1
  <2>3. file' = WithLine(file, e) /\ Formed(e)
    BY <2>1, <2>2
  <2>4. PICK n \in Nat : n = Len(file')
    BY <1>1
  <2>5. /\ \A i \in 1..n - 1 : i \in 1..Len(file) /\ file'[i] = file[i]
        /\ file'[n] = [kind  |-> IF EndsInFragment(file) THEN "garbage"
                                                         ELSE "whole",
                       entry |-> e]
    BY <1>1, <2>3, <2>4, WithLineFacts
  <2>6. file'[n].entry = e
    BY <2>5
  <2>7. Ordered(file')
    BY <1>1, <2>3, <2>4, <2>5, <2>6, ExtendedOrdered
  <2> QED
    BY <2>7 DEF FileInv
<1>4. ASSUME NEW p \in Loggers, WriteCutShort(p), file' # file
      PROVE  FileInv'
  <2>1. pending[p] \in Entry /\ file' = WithFragment(file, pending[p])
    BY <1>4 DEF WriteCutShort, IInv, TypeOK
  <2>2. PICK n \in Nat : n = Len(file')
    BY <1>1
  <2>3. /\ n = Len(file) + 1
        /\ \A i \in 1..Len(file) : file'[i] = file[i]
        /\ file'[n] = [kind |-> "fragment", entry |-> pending[p]]
    BY <1>1, <1>4, <2>1, <2>2, WithFragmentFacts
  <2>4. ~Readable(file', n)
    BY <2>3 DEF Readable
  <2>5. \A i \in 1..n - 1 : i \in 1..Len(file) /\ file'[i] = file[i]
    BY <2>3
  <2>6. Ordered(file')
    BY <1>1, <2>2, <2>4, <2>5, ExtendedOrdered
  <2> QED
    BY <2>6 DEF FileInv
<1>5. ASSUME NEW i \in 1..Len(file), NEW d \in Decisions, EditEntry(i, d)
      PROVE  FileInv'
  <2>1. file' = [file EXCEPT ![i].entry.dec = d]
    BY <1>5 DEF EditEntry
  <2>2. Len(file') = Len(file) /\ Len(file) \in Nat /\ DOMAIN file = 1..Len(file)
    BY <1>1, <2>1
  <2>3. ASSUME NEW j \in 1..Len(file)
        PROVE  /\ file'[j].kind = file[j].kind
               /\ file'[j].entry.seq = file[j].entry.seq
               /\ file'[j].entry.prev = file[j].entry.prev
               /\ file'[j].entry.hash = file[j].entry.hash
    <3>1. file[j] \in Line
      BY <1>1, ElementOfSeq
    <3> QED
      BY <2>1, <2>2, <3>1 DEF Line, Entry
  <2>4. Ordered(file')
    BY <1>1, <2>2, <2>3, AgreeingOrdered
  <2> QED
    BY <2>4 DEF FileInv
<1>6. ASSUME NEW n \in 1..Len(file) - 1, PutBackOlderCopy(n)
      PROVE  FileInv'
  <2>1. /\ Len(file') = n
        /\ n <= Len(file)
        /\ \A i \in 1..n : file'[i] = file[i]
    BY <1>1, <1>6 DEF PutBackOlderCopy
  <2>2. Ordered(file')
    BY <1>1, <2>1, AgreeingOrdered
  <2> QED
    BY <2>2 DEF FileInv
<1> QED
  BY <1>2, <1>3, <1>4, <1>5, <1>6
     DEF Next, Step, vars, OpenNew, OpenResume, OpenTampered, StartWith,
         BeginAppend, EndAppend, WriteFails, Stop

-----------------------------------------------------------------------------
(* The inductive invariant and the theorems that follow from it.           *)

LEMMA InitInv == Init => IInv
<1> SUFFICES ASSUME Init PROVE IInv
  OBVIOUS
<1>1. TypeOK
  BY InitType
<1>2. LoggersInv
  BY DEF Init, LoggersInv, HashUpTo
<1>3. FileInv /\ GenuineInv
  BY DEF Init, FileInv, Ordered, GenuineInv
<1> QED
  BY <1>1, <1>2, <1>3 DEF IInv

LEMMA NextInv == IInv /\ [Next]_vars => IInv'
BY NextType, NextLoggers, NextFile, NextGenuine DEF IInv

THEOREM InvariantHolds == Spec => []IInv
BY InitInv, NextInv, PTL DEF Spec

(* Every reachable state is well typed; in particular a logger resumes     *)
(* from a number and a hash that an entry of the file carries.             *)
THEOREM TypeCorrect == Spec => []TypeOK
<1>1. IInv => TypeOK
  BY DEF IInv
<1> QED
  BY <1>1, InvariantHolds, PTL

LEMMA VerifiedIsJoined ==
  ASSUME Verified(file), NEW k \in 1..Len(file), file \in Seq(Line)
  PROVE  JoinedUpTo(file, k)
BY DEF Verified, JoinedUpTo, Linked

(* In a log that passes verification a sequence number names one entry.    *)
THEOREM SequenceIdentifies == Spec => []SequenceIdentifiesEntry
<1>1. IInv => SequenceIdentifiesEntry
  <2> SUFFICES ASSUME IInv, Verified(file),
                      NEW i \in 1..Len(file), NEW j \in 1..Len(file), i < j
               PROVE  file[i].entry.seq < file[j].entry.seq
    BY DEF SequenceIdentifiesEntry
  <2>1. JoinedUpTo(file, j)
    BY VerifiedIsJoined DEF IInv, TypeOK
  <2>2. i \in 1..j - 1
    OBVIOUS
  <2> QED
    BY <2>1, <2>2 DEF IInv, FileInv, Ordered
<1> QED
  BY <1>1, InvariantHolds, PTL

(* A verified file is the file as the loggers wrote it: its hashes are     *)
(* theirs, and a hash holds the payload it was made of.                    *)
LEMMA VerifiedIsGenuine ==
  ASSUME TypeOK, GenuineInv, Verified(file)
  PROVE  file = genuine
<1>1. /\ file \in Seq(Line) /\ genuine \in Seq(Line)
      /\ Len(genuine) = Len(file)
  BY DEF TypeOK, GenuineInv
<1>2. ASSUME NEW i \in 1..Len(file)
      PROVE  file[i] = genuine[i]
  <2>1. PICK l \in Line, o \in Line : l = file[i] /\ o = genuine[i]
    BY <1>1, ElementOfSeq
  <2>2. SameButContent(l, o) /\ l.kind = "whole"
    BY <2>1 DEF GenuineInv, Verified, Readable
  <2>3. l.entry.hash = ChainHash(l.entry.prev, PayloadOf(l.entry))
    BY <2>1 DEF Verified, Linked
  <2>4. o.entry.hash = ChainHash(l.entry.prev, PayloadOf(o.entry))
    BY <2>2 DEF SameButContent
  <2>5. /\ l.entry \in Entry /\ o.entry \in Entry
        /\ l = [kind |-> l.kind, entry |-> l.entry]
        /\ o = [kind |-> o.kind, entry |-> o.entry]
    BY DEF Line
  <2>6. PayloadOf(l.entry) = PayloadOf(o.entry)
    <3>1. /\ PayloadOf(l.entry) \in Payload
          /\ PayloadOf(o.entry) \in Payload
          /\ l.entry.prev \in Seq(Payload)
      BY <2>5, PayloadType DEF Entry, Hash
    <3>2. Append(l.entry.prev, PayloadOf(l.entry))
            = Append(l.entry.prev, PayloadOf(o.entry))
      BY <2>2, <2>3, <2>4 DEF SameButContent, ChainHash
    <3> QED
      BY <3>1, <3>2, AppendProperties
  <2>7. l.entry.dec = o.entry.dec
    BY <2>6 DEF PayloadOf
  <2>8. l.entry = o.entry
    BY <2>2, <2>5, <2>7 DEF SameButContent, Entry
  <2> QED
    BY <2>1, <2>2, <2>5, <2>8 DEF SameButContent
<1> QED
  BY <1>1, <1>2, SeqEqual

(* A log that starts is extended only as the loggers wrote it.             *)
THEOREM OnlyUnedited == Spec => OnlyUneditedResumed
<1>1. ASSUME IInv, [Next]_vars, NEW p \in Loggers, Resumes(p)
      PROVE  file = genuine
  <2>1. OpenNew(p) \/ OpenResume(p)
    <3>1. /\ mode \in [Loggers -> Modes]
          /\ mode[p] = "down"
          /\ mode'[p] = "ready"
      BY <1>1 DEF Resumes, IInv, TypeOK
    <3>2. ASSUME NEW q \in Loggers, OpenNew(q) \/ OpenResume(q)
          PROVE  q = p
      BY <3>1, <3>2 DEF OpenNew, OpenResume, StartWith
    <3>3. ASSUME NEW q \in Loggers, OpenTampered(q) \/ Stop(q)
          PROVE  FALSE
      BY <3>1, <3>3 DEF OpenTampered, StartWith, Stop, Leave
    <3>4. ASSUME NEW q \in Loggers, NEW d \in Decisions,
                 BeginAppend(q, d) \/ WriteLine(q)
          PROVE  FALSE
      BY <3>1, <3>4 DEF BeginAppend, WriteLine
    <3>5. ASSUME NEW q \in Loggers,
                 WriteLine(q) \/ EndAppend(q) \/ WriteFails(q) \/ WriteCutShort(q)
          PROVE  FALSE
      BY <3>1, <3>5 DEF WriteLine, EndAppend, WriteFails, WriteCutShort, Leave
    <3>6. mode' # mode
      BY <3>1
    <3> QED
      BY <1>1, <3>2, <3>3, <3>4, <3>5, <3>6
         DEF Next, Step, vars, EditEntry, PutBackOlderCopy
  <2>2. Verified(file)
    BY <2>1 DEF OpenNew, OpenResume, Verified
  <2> QED
    BY <1>1, <2>2, VerifiedIsGenuine DEF IInv
<1>2. IInv /\ [Next]_vars => [\A p \in Loggers : Resumes(p) => file = genuine]_vars
  BY <1>1
<1> QED
  BY <1>2, InvariantHolds, PTL DEF Spec, OnlyUneditedResumed

-----------------------------------------------------------------------------
(* What was acknowledged is kept.                                          *)

(* Log g has e as a line, or a line that stops whoever reads it.           *)
Keeps(g, e) ==
  \E i \in 1..Len(g) : g[i] = [kind |-> "whole", entry |-> e] \/ g[i].kind = "garbage"

KeptInv ==
  /\ \A e \in acked : Keeps(genuine, e)
  /\ \A p \in Loggers : mode[p] = "written" => Keeps(genuine, pending[p])

(* Only a fragment is ever run into: lines that are whole or garbage stay. *)
LEMMA WriteKeeps ==
  ASSUME NEW g \in Seq(Line), NEW x \in Entry
  PROVE  /\ Keeps(WithLine(g, x), x)
         /\ \A e : Keeps(g, e) => Keeps(WithLine(g, x), e) /\ Keeps(WithFragment(g, x), e)
<1> DEFINE W(k) == [kind |-> k, entry |-> x]
<1>1. /\ W("whole") \in Line /\ W("garbage") \in Line /\ W("fragment") \in Line
      /\ W("garbage").kind = "garbage"
  BY DEF Line, LineKinds
<1>2. CASE EndsInFragment(g)
  <2>1. /\ Len(g) \in 1..Len(g) /\ g[Len(g)].kind = "fragment"
        /\ WithFragment(g, x) = g /\ WithLine(g, x) = [g EXCEPT ![Len(g)] = W("garbage")]
    BY <1>2 DEF EndsInFragment, WithFragment, WithLine
  <2>2. /\ Len(WithLine(g, x)) = Len(g) /\ WithLine(g, x)[Len(g)] = W("garbage")
    BY <1>1, <2>1, ExceptSeq
  <2>3. \A e : Keeps(WithLine(g, x), e)
    BY <1>1, <2>1, <2>2 DEF Keeps
  <2> QED
    BY <2>1, <2>3
<1>3. CASE ~EndsInFragment(g)
  <2>1. /\ WithLine(g, x) = Append(g, W("whole"))
        /\ WithFragment(g, x) = Append(g, W("fragment"))
    BY <1>3 DEF WithFragment, WithLine
  <2> HIDE DEF W
  <2>2. ASSUME NEW l \in Line
        PROVE  /\ Len(Append(g, l)) = Len(g) + 1 /\ Append(g, l)[Len(g) + 1] = l
               /\ \A i \in 1..Len(g) : Append(g, l)[i] = g[i]
    OBVIOUS
  <2>3. ASSUME NEW l \in Line, NEW e, Keeps(g, e) PROVE Keeps(Append(g, l), e)
    <3>1. PICK i \in 1..Len(g) : \/ g[i] = [kind |-> "whole", entry |-> e]
                                \/ g[i].kind = "garbage"
      BY <2>3 DEF Keeps
    <3>2. i \in 1..Len(Append(g, l)) /\ Append(g, l)[i] = g[i]
      BY <2>2
    <3> QED
      BY <3>1, <3>2 DEF Keeps
  <2>4. Keeps(WithLine(g, x), x)
    <3>1. Len(g) + 1 \in 1..Len(WithLine(g, x)) /\ WithLine(g, x)[Len(g) + 1] = W("whole")
      BY <1>1, <2>1, <2>2
    <3> QED
      BY <3>1 DEF Keeps, W
  <2> QED
    BY <1>1, <2>1, <2>3, <2>4
<1> QED
  BY <1>2, <1>3

LEMMA NextKept ==
  ASSUME TypeOK, KeptInv, [Next]_vars
  PROVE  KeptInv'
<1> USE DEF TypeOK
<1>1. ASSUME NEW p \in Loggers, WriteLine(p)
      PROVE  KeptInv'
  <2>1. /\ genuine' = WithLine(genuine, pending[p])
        /\ UNCHANGED <<pending, acked>> /\ mode' = [mode EXCEPT ![p] = "written"]
    BY <1>1 DEF WriteLine
  <2>2. /\ Keeps(genuine', pending[p])
        /\ \A e : Keeps(genuine, e) => Keeps(genuine', e)
    BY <2>1, WriteKeeps
  <2> QED
    BY <2>1, <2>2 DEF KeptInv
<1>2. ASSUME NEW p \in Loggers, WriteCutShort(p)
      PROVE  KeptInv'
  <2>1. /\ genuine' = WithFragment(genuine, pending[p]) /\ UNCHANGED acked
        /\ \A q \in Loggers : mode'[q] = "written" =>
             mode[q] = "written" /\ pending'[q] = pending[q]
    BY <1>2 DEF WriteCutShort, Leave
  <2>2. \A e : Keeps(genuine, e) => Keeps(genuine', e)
    BY <2>1, WriteKeeps
  <2> QED
    BY <2>1, <2>2 DEF KeptInv
<1>3. ASSUME NEW p \in Loggers, EndAppend(p)
      PROVE  KeptInv'
  BY <1>3 DEF EndAppend, Leave, KeptInv
<1>4. ASSUME NEW p \in Loggers,
             \/ OpenNew(p) \/ OpenResume(p) \/ OpenTampered(p)
             \/ \E d \in Decisions : BeginAppend(p, d)
             \/ WriteFails(p) \/ Stop(p)
      PROVE  KeptInv'
  BY <1>4 DEF OpenNew, OpenResume, OpenTampered, StartWith, BeginAppend, WriteFails, Stop,
              Leave, KeptInv
<1>5. CASE \/ \E i \in 1..Len(file), d \in Decisions : EditEntry(i, d)
           \/ UNCHANGED vars
  BY <1>5 DEF EditEntry, vars, KeptInv
<1>6. CASE \E n \in 1..Len(file) - 1 : PutBackOlderCopy(n)
  BY <1>6 DEF PutBackOlderCopy, KeptInv
<1> QED
  BY <1>1, <1>2, <1>3, <1>4, <1>5, <1>6 DEF Next, Step

(* An entry whose append() returned is in the log, or the log cannot be    *)
(* read to its end, however many loggers write and fail: as long as the    *)
(* file is as they wrote it.                                               *)
THEOREM LossShows == Spec => []NoSilentLoss
<1>1. Init => KeptInv
  BY DEF Init, KeptInv
<1>2. TypeOK /\ KeptInv /\ [Next]_vars => KeptInv'
  BY NextKept
<1>3. KeptInv => NoSilentLoss
  BY DEF KeptInv, Keeps, NoSilentLoss, Readable
<1> QED
  BY <1>1, <1>2, <1>3, TypeCorrect, PTL DEF Spec

-----------------------------------------------------------------------------
(* Loggers that take turns.                                                *)

(* A log that is linked for as far as it can be read stays so when its     *)
(* last line is new, and linked if it can be read to there.                *)
LEMMA ExtendedLinked ==
  ASSUME NEW f \in Seq(Line), NEW g \in Seq(Line), ~Tampered(f),
         NEW n \in Nat, Len(g) = n,
         \A i \in 1..n - 1 : i \in 1..Len(f) /\ g[i] = f[i],
         (n > 0 /\ ReadThrough(g)) => Linked(g, n)
  PROVE  ~Tampered(g)
<1> SUFFICES ASSUME NEW i \in 1..n, \A j \in 1..i : Readable(g, j)
             PROVE  Linked(g, i)
  BY DEF Tampered
<1>1. CASE i = n
  BY <1>1 DEF ReadThrough
<1>2. CASE i # n
  <2>1. i \in 1..Len(f) /\ \A j \in 1..i : j \in 1..n - 1
    BY <1>2
  <2>2. \A j \in 1..i : Readable(f, j)
    BY <2>1 DEF Readable
  <2>3. Linked(f, i)
    BY <2>1, <2>2 DEF Tampered
  <2>4. g[i] = f[i] /\ (i = 1 \/ g[i - 1] = f[i - 1])
    BY <2>1
  <2>5. PreviousHash(g, i) = PreviousHash(f, i)
    BY <2>4 DEF PreviousHash
  <2> QED
    BY <2>3, <2>4, <2>5 DEF Linked
<1> QED
  BY <1>1, <1>2

(* A line written to a log that can be read to its end, by the logger that *)
(* holds the hash at its end, is linked, and its own hash is the new end.  *)
LEMMA WrittenLinked ==
  ASSUME NEW f \in Seq(Line), NEW e \in Entry, ~Tampered(f),
         e.hash = ChainHash(e.prev, PayloadOf(e)),
         ReadThrough(f) => e.prev = EndHash(f)
  PROVE  /\ ~Tampered(WithLine(f, e))
         /\ ReadThrough(WithLine(f, e)) => e.hash = EndHash(WithLine(f, e))
<1> DEFINE w == WithLine(f, e)
<1>1. PICK g \in Seq(Line) : g = w
  BY WithLineFacts
<1>2. PICK n \in Nat : n = Len(g)
  OBVIOUS
<1>3. /\ n = IF EndsInFragment(f) THEN Len(f) ELSE Len(f) + 1
      /\ \A i \in 1..n - 1 : i \in 1..Len(f) /\ g[i] = f[i]
      /\ g[n] = [kind |-> IF EndsInFragment(f) THEN "garbage" ELSE "whole",
                 entry |-> e]
  BY <1>1, <1>2, WithLineFacts
<1>4. g[n].entry = e
  BY <1>3
<1>5. n > 0
  BY <1>3, EmptySeq DEF EndsInFragment
<1>6. ASSUME ReadThrough(g)
      PROVE  Linked(g, n)
  <2>1. ~EndsInFragment(f)
    BY <1>2, <1>3, <1>5, <1>6 DEF ReadThrough, Readable
  <2>2. n - 1 = Len(f)
    BY <1>3, <2>1
  <2>3. \A i \in 1..Len(f) : g[i] = f[i] /\ i \in 1..n
    BY <1>3, <2>2
  <2>4. ReadThrough(f)
    BY <1>2, <1>6, <2>3 DEF ReadThrough, Readable
  <2>5. e.prev = PreviousHash(g, n)
    <3>1. f = << >> <=> n = 1
      BY <2>2, EmptySeq
    <3>2. n # 1 => g[n - 1] = f[Len(f)]
      BY <2>2, <2>3
    <3> QED
      BY <2>4, <3>1, <3>2 DEF EndHash, PreviousHash
  <2> QED
    BY <1>4, <2>5 DEF Linked
<1>7. ~Tampered(g)
  BY <1>2, <1>3, <1>6, ExtendedLinked
<1>8. e.hash = EndHash(g)
  BY <1>2, <1>4, <1>5, EmptySeq DEF EndHash
<1> QED
  BY <1>1, <1>7, <1>8

LEMMA CutShortLinked ==
  ASSUME NEW f \in Seq(Line), NEW e \in Entry, ~Tampered(f)
  PROVE  /\ ~Tampered(WithFragment(f, e))
         /\ ~ReadThrough(WithFragment(f, e))
<1>1. CASE EndsInFragment(f)
  <2>1. WithFragment(f, e) = f
    BY <1>1 DEF WithFragment
  <2>2. Len(f) \in 1..Len(f) /\ ~Readable(f, Len(f))
    BY <1>1, EmptySeq DEF EndsInFragment, Readable
  <2> QED
    BY <2>1, <2>2 DEF ReadThrough
<1>2. CASE ~EndsInFragment(f)
  <2>1. PICK g \in Seq(Line) : g = WithFragment(f, e)
    BY WithFragmentFacts
  <2>2. PICK n \in Nat : n = Len(g)
    OBVIOUS
  <2>3. /\ n = Len(f) + 1
        /\ \A i \in 1..Len(f) : g[i] = f[i]
        /\ g[n] = [kind |-> "fragment", entry |-> e]
    BY <1>2, <2>1, <2>2, WithFragmentFacts
  <2>4. n \in 1..n /\ ~Readable(g, n)
    BY <2>3 DEF Readable
  <2>5. ~ReadThrough(g)
    BY <2>2, <2>4 DEF ReadThrough
  <2>6. \A i \in 1..n - 1 : i \in 1..Len(f) /\ g[i] = f[i]
    BY <2>3
  <2>7. ~Tampered(g)
    BY <2>2, <2>5, <2>6, ExtendedLinked
  <2> QED
    BY <2>1, <2>5, <2>7
<1> QED
  BY <1>1, <1>2

(* Who opens the log while the others are down ends the overlap-free runs  *)
(* or is the only one up.                                                  *)
LEMMA AloneAfterStart ==
  ASSUME TypeOK, TurnInv, NEW p \in Loggers, NEW m \in Modes, NEW n, NEW h,
         StartWith(p, m, n, h), ~overlapped'
  PROVE  /\ ~overlapped
         /\ \A q \in Loggers \ {p} : mode'[q] = "down"
         /\ UNCHANGED <<pending, genuine>>
         /\ mode'[p] = m /\ lastHash'[p] = h
         /\ \A q \in Loggers \ {p} : lastHash'[q] = lastHash[q]
BY DEF StartWith, SomeoneElseUp, TypeOK

(* The line the file ends with has the hash the loggers gave it.           *)
LEMMA SameEnd ==
  ASSUME TypeOK, GenuineInv
  PROVE  EndHash(file) = EndHash(genuine)
<1>1. file = << >> <=> genuine = << >>
  BY EmptySeq DEF TypeOK, GenuineInv
<1>2. file # << >> => Len(file) \in 1..Len(file)
  BY EmptySeq DEF TypeOK
<1> QED
  BY <1>1, <1>2 DEF EndHash, GenuineInv, SameButContent

LEMMA NextTurn == IInv /\ TurnInv /\ [Next]_vars => TurnInv'
<1> SUFFICES ASSUME IInv, TurnInv, [Next]_vars
             PROVE  TurnInv'
  OBVIOUS
<1>0. TypeOK /\ LoggersInv /\ GenuineInv /\ genuine \in Seq(Line)
  BY DEF IInv, TypeOK
<1> USE DEF TypeOK
<1>1. ASSUME NEW p \in Loggers, NEW m \in {"ready", "refusing"}, NEW n, NEW h,
             mode[p] = "down", StartWith(p, m, n, h),
             m = "ready" => h = EndHash(file)
      PROVE  TurnInv'
  <2>1. \A q \in Loggers : mode'[q] = "writing" => pending'[q].prev = lastHash'[q]
    BY <1>0, <1>1 DEF StartWith, TurnInv
  <2>2. ASSUME ~overlapped'
        PROVE  /\ \A q, r \in Loggers : q # r => mode'[q] = "down" \/ mode'[r] = "down"
               /\ ~Tampered(genuine)'
               /\ \A q \in Loggers : HoldsEnd(q)'
    <3>1. /\ ~overlapped
          /\ \A q \in Loggers \ {p} : mode'[q] = "down"
          /\ UNCHANGED <<pending, genuine>>
          /\ mode'[p] = m /\ lastHash'[p] = h
      BY <1>0, <1>1, <2>2, AloneAfterStart DEF Modes
    <3>2. m = "ready" => h = EndHash(genuine)
      BY <1>0, <1>1, SameEnd
    <3>3. ~Tampered(genuine)'
      BY <3>1 DEF TurnInv
    <3>4. \A q \in Loggers : HoldsEnd(q)'
      BY <1>1, <3>1, <3>2 DEF HoldsEnd
    <3> QED
      BY <3>1, <3>3, <3>4
  <2> QED
    BY <2>1, <2>2 DEF TurnInv
<1>2. ASSUME NEW p \in Loggers, OpenNew(p) \/ OpenResume(p) \/ OpenTampered(p)
      PROVE  TurnInv'
  BY <1>1, <1>2 DEF OpenNew, OpenResume, OpenTampered, EndHash
<1>3. ASSUME NEW p \in Loggers, NEW d \in Decisions, BeginAppend(p, d)
      PROVE  TurnInv'
  <2>1. /\ mode' = [mode EXCEPT ![p] = "writing"] /\ mode[p] = "ready"
        /\ UNCHANGED <<lastHash, genuine, overlapped>>
        /\ pending'[p].prev = lastHash[p]
        /\ \A q \in Loggers \ {p} : pending'[q] = pending[q]
    BY <1>0, <1>3 DEF BeginAppend, EntryAfter
  <2> QED
    BY <1>0, <2>1 DEF TurnInv, HoldsEnd
<1>4. ASSUME NEW p \in Loggers, WriteLine(p)
      PROVE  TurnInv'
  <2>1. /\ mode' = [mode EXCEPT ![p] = "written"] /\ mode[p] = "writing"
        /\ UNCHANGED <<lastHash, pending, overlapped>>
        /\ genuine' = WithLine(genuine, pending[p])
    BY <1>4 DEF WriteLine
  <2>2. PICK e \in Entry : e = pending[p]
    BY <1>0
  <2>3. e.hash = ChainHash(e.prev, PayloadOf(e))
    BY <1>0, <2>1, <2>2 DEF LoggersInv
  <2>4. ASSUME ~overlapped
        PROVE  /\ ~Tampered(genuine')
               /\ ReadThrough(genuine') => e.hash = EndHash(genuine')
    <3>1. ReadThrough(genuine) => e.prev = EndHash(genuine)
      BY <2>1, <2>2, <2>4 DEF TurnInv, HoldsEnd, ReadThrough
    <3>2. ~Tampered(genuine)
      BY <2>4 DEF TurnInv
    <3> QED
      BY <1>0, <2>1, <2>2, <2>3, <3>1, <3>2, WrittenLinked
  <2>5. ASSUME ~overlapped, ReadThrough(genuine')
        PROVE  \A q \in Loggers : HoldsEnd(q)'
    <3>1. \A q \in Loggers \ {p} : mode'[q] = "down"
      BY <1>0, <2>1, <2>5 DEF TurnInv
    <3> QED
      BY <1>0, <2>1, <2>2, <2>4, <2>5, <3>1 DEF HoldsEnd
  <2> QED
    BY <1>0, <2>1, <2>4, <2>5 DEF TurnInv, ReadThrough, Tampered
<1>5. ASSUME NEW p \in Loggers, EndAppend(p)
      PROVE  TurnInv'
  <2>1. /\ mode' = [mode EXCEPT ![p] = "ready"] /\ mode[p] = "written"
        /\ lastHash' = [lastHash EXCEPT ![p] = pending[p].hash]
        /\ UNCHANGED <<genuine, overlapped>>
        /\ \A q \in Loggers \ {p} : pending'[q] = pending[q]
    BY <1>0, <1>5 DEF EndAppend, Leave
  <2> QED
    BY <1>0, <2>1 DEF TurnInv, HoldsEnd
<1>6. ASSUME NEW p \in Loggers, WriteFails(p) \/ Stop(p)
      PROVE  TurnInv'
  <2>1. /\ \/ mode[p] = "writing" /\ mode'[p] = "ready" /\ lastHash'[p] = lastHash[p]
           \/ mode'[p] = "down"
        /\ \A q \in Loggers \ {p} : /\ pending'[q] = pending[q]
                                    /\ mode'[q] = mode[q]
                                    /\ lastHash'[q] = lastHash[q]
        /\ UNCHANGED <<genuine, overlapped>>
    BY <1>0, <1>6 DEF WriteFails, Stop, Leave
  <2> QED
    BY <1>0, <2>1 DEF TurnInv, HoldsEnd
<1>7. ASSUME NEW p \in Loggers, WriteCutShort(p)
      PROVE  TurnInv'
  <2>1. /\ mode[p] = "writing" /\ mode'[p] = "ready"
        /\ UNCHANGED <<lastHash, overlapped>>
        /\ \A q \in Loggers \ {p} : pending'[q] = pending[q] /\ mode'[q] = mode[q]
        /\ genuine' = WithFragment(genuine, pending[p])
        /\ pending[p] \in Entry
    BY <1>0, <1>7 DEF WriteCutShort, Leave
  <2>2. ~overlapped => ~Tampered(genuine') /\ ~ReadThrough(genuine')
    BY <1>0, <2>1, CutShortLinked DEF TurnInv
  <2> QED
    BY <1>0, <2>1, <2>2 DEF TurnInv, ReadThrough, Tampered
<1>8. ASSUME NEW n \in 1..Len(file) - 1, PutBackOlderCopy(n)
      PROVE  TurnInv'
  <2>1. /\ \A p \in Loggers : mode[p] = "down"
        /\ genuine' = SubSeq(genuine, 1, n)
        /\ UNCHANGED <<mode, lastHash, pending, overlapped>>
    BY <1>8 DEF PutBackOlderCopy
  <2>2. /\ n \in Nat /\ n <= Len(genuine)
        /\ Len(genuine') = n /\ \A i \in 1..n : genuine'[i] = genuine[i]
    BY <1>0, <2>1 DEF GenuineInv
  <2>3. ASSUME ~overlapped
        PROVE  ~Tampered(genuine')
    <3> SUFFICES ASSUME NEW i \in 1..n, \A j \in 1..i : Readable(genuine', j)
                 PROVE  Linked(genuine', i)
      BY <2>2 DEF Tampered
    <3>1. i \in 1..Len(genuine) /\ \A j \in 1..i : Readable(genuine, j)
      BY <2>2 DEF Readable
    <3>2. Linked(genuine, i)
      BY <2>3, <3>1 DEF TurnInv, Tampered
    <3>3. genuine'[i] = genuine[i] /\ (i = 1 \/ genuine'[i - 1] = genuine[i - 1])
      BY <2>2
    <3> QED
      BY <3>2, <3>3 DEF Linked, PreviousHash
  <2> QED
    BY <1>0, <2>1, <2>3 DEF TurnInv, HoldsEnd, Tampered
<1>9. CASE UNCHANGED <<mode, lastHash, pending, genuine, overlapped>>
  BY <1>9 DEF TurnInv, HoldsEnd
<1> QED
  BY <1>2, <1>3, <1>4, <1>5, <1>6, <1>7, <1>8, <1>9 DEF Next, Step, vars, EditEntry

(* As long as loggers take turns and nobody edits the file, no crash and   *)
(* no failing write leaves a chain that start-up reports as tampered with, *)
(* for any number of loggers, lines and restarts.                          *)
THEOREM FalseAlarmNever == Spec => []NoFalseAlarm
<1>1. Init => IInv /\ TurnInv
  <2>1. Init => TurnInv
    BY DEF Init, TurnInv, Tampered, HoldsEnd
  <2> QED
    BY <2>1, InitInv
<1>2. (IInv /\ TurnInv) /\ [Next]_vars => (IInv /\ TurnInv)'
  BY NextInv, NextTurn
<1>3. TurnInv => NoFalseAlarm
  BY DEF TurnInv, NoFalseAlarm
<1> QED
  BY <1>1, <1>2, <1>3, PTL DEF Spec

=============================================================================
