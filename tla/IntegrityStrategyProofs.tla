---------------------- MODULE IntegrityStrategyProofs ----------------------
(***************************************************************************)
(* What a history of trust can and cannot do to a client, for any number   *)
(* of clients and rounds, and what stands behind every model.              *)
(***************************************************************************)
EXTENDS IntegrityStrategy, FiniteSetTheorems, WellFoundedInduction, TLAPS

(* Trust falls to 0.7 and 0.49 at worst, each time a round puts the client *)
(* outside the benign cluster, and no benign round lowers it; and from     *)
(* nothing it climbs to 0.3 and 0.51 at least, each benign round on end.   *)
Fall(c) ==
  /\ demerits[c] = 0 => trust[c] = Unit
  /\ demerits[c] = 1 => 100 * trust[c] >= 70 * Unit
  /\ demerits[c] = 2 => 100 * trust[c] >= 49 * Unit

Climb(c) ==
  /\ streak[c] = 1 => 100 * trust[c] >= 30 * Unit
  /\ streak[c] = 2 => 100 * trust[c] >= 51 * Unit

TrustInv ==
  /\ trust \in [Clients -> 0..Unit]
  /\ demerits \in [Clients -> Nat]
  /\ streak \in [Clients -> 0..2]
  /\ \A c \in Clients : Fall(c) /\ Climb(c)

(* One round of _update_trust(), with Unit in hundredths.                  *)
LEMMA SmoothedFacts ==
  ASSUME NEW k \in Nat, Unit = 100 * k, NEW old \in 0..Unit
  PROVE  /\ Smoothed(old, 0) \in 0..Unit
         /\ Smoothed(old, Unit) \in 0..Unit
         /\ Smoothed(old, Unit) >= old
         /\ Smoothed(old, Unit) >= 30 * k
         /\ old >= 30 * k  => Smoothed(old, Unit) >= 51 * k
         /\ old = Unit     => Smoothed(old, 0) >= 70 * k
         /\ old >= 70 * k  => Smoothed(old, 0) >= 49 * k
BY DEF Smoothed

LEMMA UnitHundredths == \E k \in Nat : Unit = 100 * k
<1>1. Unit \in Nat /\ Unit % 100 = 0
  BY UnitAssumption
<1>2. Unit \div 100 \in Nat /\ Unit = 100 * (Unit \div 100)
  BY <1>1
<1> QED
  BY <1>2

-----------------------------------------------------------------------------
LEMMA InitTrust == Init => TrustInv
BY UnitAssumption DEF Init, TrustInv, Fall, Climb

LEMMA FreshTrust == Fresh => TrustInv'
BY UnitAssumption DEF Fresh, TrustInv, Fall, Climb

LEMMA DetectTrust ==
  ASSUME TrustInv, NEW replies, NEW benign, Detect(replies, benign)
  PROVE  TrustInv'
<1> DEFINE clients == OfKind(replies, "valid")
<1>1. PICK k \in Nat : Unit = 100 * k
  BY UnitHundredths
<1>2. /\ trust' = NewTrust(clients, benign)
      /\ demerits' = [c \in Clients |->
           IF c \in clients \ benign THEN demerits[c] + 1 ELSE demerits[c]]
      /\ streak' = [c \in Clients |->
           IF c \notin clients THEN streak[c]
           ELSE IF c \in benign /\ streak[c] < 2 THEN streak[c] + 1
           ELSE IF c \in benign THEN 2 ELSE 0]
  BY DEF Detect
<1> HIDE DEF clients
<1>3. ASSUME NEW c \in Clients
      PROVE  /\ trust'[c] \in 0..Unit
             /\ demerits'[c] \in Nat
             /\ streak'[c] \in 0..2
             /\ Fall(c)' /\ Climb(c)'
  <2>1. /\ trust[c] \in 0..Unit /\ demerits[c] \in Nat /\ streak[c] \in 0..2
        /\ Fall(c) /\ Climb(c)
    BY DEF TrustInv
  <2>2. CASE c \notin clients
    <3>1. trust'[c] = trust[c] /\ demerits'[c] = demerits[c] /\ streak'[c] = streak[c]
      BY <1>2, <2>2 DEF NewTrust
    <3> QED
      BY <2>1, <3>1 DEF Fall, Climb
  <2>3. CASE c \in clients /\ c \in benign
    <3>1. /\ trust'[c] = Smoothed(trust[c], Unit)
          /\ demerits'[c] = demerits[c]
          /\ streak'[c] = IF streak[c] < 2 THEN streak[c] + 1 ELSE 2
      BY <1>2, <2>3 DEF NewTrust, Score
    <3>2. /\ Smoothed(trust[c], Unit) \in 0..Unit
          /\ Smoothed(trust[c], Unit) >= trust[c]
          /\ Smoothed(trust[c], Unit) >= 30 * k
          /\ trust[c] >= 30 * k => Smoothed(trust[c], Unit) >= 51 * k
      BY <1>1, <2>1, SmoothedFacts
    <3> QED
      BY <1>1, <2>1, <3>1, <3>2 DEF Fall, Climb
  <2>4. CASE c \in clients /\ c \notin benign
    <3>1. /\ trust'[c] = Smoothed(trust[c], 0)
          /\ demerits'[c] = demerits[c] + 1
          /\ streak'[c] = 0
      BY <1>2, <2>4 DEF NewTrust, Score
    <3>2. /\ Smoothed(trust[c], 0) \in 0..Unit
          /\ trust[c] = Unit => Smoothed(trust[c], 0) >= 70 * k
          /\ trust[c] >= 70 * k => Smoothed(trust[c], 0) >= 49 * k
      BY <1>1, <2>1, SmoothedFacts
    <3> QED
      BY <1>1, <2>1, <3>1, <3>2 DEF Fall, Climb
  <2> QED
    BY <2>2, <2>3, <2>4
<1>4. trust' \in [Clients -> 0..Unit]
  BY <1>2, <1>3 DEF NewTrust
<1>5. demerits' \in [Clients -> Nat] /\ streak' \in [Clients -> 0..2]
  BY <1>2, <1>3
<1> QED
  BY <1>3, <1>4, <1>5 DEF TrustInv

LEMMA NextTrust == TrustInv /\ [Next]_vars => TrustInv'
<1> SUFFICES ASSUME TrustInv, [Next]_vars PROVE TrustInv'
  OBVIOUS
<1>1. CASE StartRun \/ Stop
  BY <1>1, FreshTrust DEF StartRun, Stop
<1>2. CASE Train
  <2>1. PICK replies \in RepliesOfAll :
          \/ NoReplies(replies)
          \/ BelowQuorum(replies)
          \/ \E benign \in SUBSET OfKind(replies, "valid") : Detect(replies, benign)
    BY <1>2 DEF Train
  <2>2. CASE NoReplies(replies) \/ BelowQuorum(replies)
    BY <2>2 DEF NoReplies, BelowQuorum, TrustInv, Fall, Climb
  <2> QED
    BY <2>1, <2>2, DetectTrust
<1>3. CASE LogEvidence \/ KeepModel \/ NewModel \/ UNCHANGED vars
  BY <1>3 DEF LogEvidence, KeepModel, NewModel, vars, TrustInv, Fall, Climb
<1> QED
  BY <1>1, <1>2, <1>3 DEF Next

LEMMA TrustInvHolds == Spec => []TrustInv
BY InitTrust, NextTrust, PTL DEF Spec

(* A client is rejected only after three rounds of the run that put it     *)
(* outside the benign cluster, whatever else happens in between.           *)
THEOREM RejectedSlowly == Spec => []SlowToReject
<1>1. TrustInv => SlowToReject
  BY UnitAssumption DEF TrustInv, SlowToReject, Fall, Trusted
<1> QED
  BY <1>1, TrustInvHolds, PTL

(* Two benign rounds on end and a client is accepted again.                *)
THEOREM ReturnsQuickly == Spec => []QuickToReturn
<1>1. TrustInv => QuickToReturn
  BY UnitAssumption DEF TrustInv, QuickToReturn, Climb, Trusted
<1> QED
  BY <1>1, TrustInvHolds, PTL

-----------------------------------------------------------------------------
(* Between _update_trust() and the aggregation nobody touches what a round *)
(* decided: what is in hand is of this round, its accepted clients are     *)
(* trusted, and once past the log it is the line last written.             *)
EvidenceInv ==
  /\ pc \in {"log", "aggregate"} =>
       /\ cur.line.round = round
       /\ DOMAIN cur.updates = cur.line.accepted
       /\ \A c \in cur.line.accepted : Trusted(trust[c])
       /\ cur.line.accepted # {} =>
            Cardinality(cur.line.accepted \union cur.line.rejected) >= Quorum
  /\ pc = "aggregate" => line = cur.line

LEMMA DetectEvidence ==
  ASSUME NEW replies, NEW benign, Detect(replies, benign)
  PROVE  EvidenceInv'
<1> DEFINE clients  == OfKind(replies, "valid")
           accepted == {c \in clients : Trusted(trust'[c])}
<1>1. /\ Cardinality(clients) >= Quorum
      /\ ToLog(replies, accepted, clients \ accepted)
      /\ round' = round
  BY DEF Detect
<1> HIDE DEF clients
<1>2. /\ pc' = "log"
      /\ cur'.line.round = round'
      /\ cur'.line.accepted = accepted
      /\ cur'.line.rejected = clients \ accepted
      /\ DOMAIN cur'.updates = accepted
  BY <1>1 DEF ToLog
<1>3. accepted \union (clients \ accepted) = clients
  OBVIOUS
<1>4. Cardinality(cur'.line.accepted \union cur'.line.rejected) >= Quorum
  BY <1>1, <1>2, <1>3
<1>5. \A c \in cur'.line.accepted : Trusted(trust'[c])
  BY <1>2
<1> QED
  BY <1>2, <1>4, <1>5 DEF EvidenceInv, Trusted

LEMMA NextEvidence == EvidenceInv /\ [Next]_vars => EvidenceInv'
<1> SUFFICES ASSUME EvidenceInv, [Next]_vars PROVE EvidenceInv'
  OBVIOUS
<1>1. CASE StartRun \/ Stop
  BY <1>1 DEF StartRun, Stop, EvidenceInv
<1>2. CASE Train
  <2>1. PICK replies \in RepliesOfAll :
          \/ NoReplies(replies)
          \/ BelowQuorum(replies)
          \/ \E benign \in SUBSET OfKind(replies, "valid") : Detect(replies, benign)
    BY <1>2 DEF Train
  <2>2. CASE NoReplies(replies)
    BY <2>2 DEF NoReplies, EndRound, EvidenceInv
  <2>3. CASE BelowQuorum(replies)
    BY <2>3 DEF BelowQuorum, ToLog, EvidenceInv
  <2> QED
    BY <2>1, <2>2, <2>3, DetectEvidence
<1>3. CASE LogEvidence
  BY <1>3 DEF LogEvidence, EvidenceInv, Trusted
<1>4. CASE KeepModel \/ NewModel
  BY <1>4 DEF KeepModel, NewModel, EndRound, EvidenceInv
<1>5. CASE UNCHANGED vars
  BY <1>5 DEF vars, EvidenceInv, Trusted
<1> QED
  BY <1>1, <1>2, <1>3, <1>4, <1>5 DEF Next

(* No model without its round in the trust log, the clients it is made     *)
(* from, all of them trusted, and a quorum of valid updates.               *)
THEOREM EvidenceKept == Spec => ModelHasEvidence
<1>1. Init => EvidenceInv
  BY DEF Init, EvidenceInv
<1>2. EvidenceInv =>
        (NewModel => /\ line.round = round
                     /\ line.accepted = DOMAIN cur.updates
                     /\ \A c \in line.accepted : Trusted(trust[c])
                     /\ Cardinality(line.accepted \union line.rejected) >= Quorum)
  BY DEF EvidenceInv, NewModel
<1> QED
  BY <1>1, <1>2, NextEvidence, PTL DEF Spec, ModelHasEvidence

-----------------------------------------------------------------------------
(* Induction.  The library's theorems for it take an operator, which no    *)
(* prover here can instantiate; a set of numbers does as well.             *)

LEMMA LeastOfNumbers ==
  ASSUME NEW T \in SUBSET Nat, T # {}
  PROVE  \E x \in T : \A y \in T : x <= y
<1> DEFINE R == {ss \in Nat \X Nat : ss[1] < ss[2]}
<1>1. IsWellFoundedOn(R, Nat)
  BY NatLessThanWellFounded DEF OpToRel
<1>2. PICK x \in T : \A y \in T : ~(<<y, x>> \in R)
  <2> HIDE DEF R
  <2> QED
    BY <1>1, WFMin
<1>3. \A y \in T : ~(y < x)
  BY <1>2
<1> QED
  BY <1>3

LEMMA AllUpTo ==
  ASSUME NEW n \in Nat, NEW T \in SUBSET (0..n),
         0 \in T, \A k \in 1..n : k - 1 \in T => k \in T
  PROVE  T = 0..n
<1> DEFINE rest == (0..n) \ T
<1> SUFFICES ASSUME rest # {} PROVE FALSE
  OBVIOUS
<1>1. PICK x \in rest : \A y \in rest : x <= y
  <2>1. rest \in SUBSET Nat
    OBVIOUS
  <2> HIDE DEF rest
  <2> QED
    BY <2>1, LeastOfNumbers
<1>2. x # 0 /\ x \in 1..n
  OBVIOUS
<1>3. x - 1 \in T
  BY <1>1, <1>2
<1> QED
  BY <1>2, <1>3

-----------------------------------------------------------------------------
(* The sum of a sequence is the last of its partial sums.                  *)
LEMMA TotalUnfolds ==
  ASSUME NEW s \in Seq(Int)
  PROVE  \E p \in [0..Len(s) -> Int] :
           /\ p[0] = 0 /\ \A k \in 1..Len(s) : p[k] = p[k - 1] + s[k]
           /\ Total(s) = p[Len(s)]
<1> DEFINE n == Len(s)
           Partial(p, m) == /\ p \in [0..n -> Int]
                            /\ p[0] = 0 /\ \A k \in 1..m : p[k] = p[k - 1] + s[k]
           T == {m \in 0..n : \E p : Partial(p, m)}
<1>0. n \in Nat
  OBVIOUS
<1>1. 0 \in T
  <2>1. Partial([k \in 0..n |-> 0], 0)
    BY <1>0
  <2>2. 0 \in 0..n
    BY <1>0
  <2> HIDE DEF Partial
  <2> QED
    BY <2>1, <2>2
<1>2. ASSUME NEW m \in 1..n, m - 1 \in T PROVE m \in T
  <2>1. PICK p : Partial(p, m - 1)
    BY <1>2
  <2> DEFINE q == [p EXCEPT ![m] = p[m - 1] + s[m]]
  <2>2. q \in [0..n -> Int] /\ q[0] = 0
    <3>1. m \in 0..n /\ m - 1 \in 0..n /\ m # 0 /\ s[m] \in Int
      BY <1>0
    <3>2. p \in [0..n -> Int] /\ p[0] = 0
      BY <2>1
    <3>3. p[m - 1] + s[m] \in Int
      BY <3>1, <3>2
    <3>4. 0 \in 0..n
      BY <1>0
    <3> HIDE DEF n
    <3> QED
      BY <3>1, <3>2, <3>3, <3>4
  <2>3. \A k \in 1..m : q[k] = q[k - 1] + s[k]
    BY <2>1
  <2>4. Partial(q, m)
    BY <2>2, <2>3
  <2>5. m \in 0..n
    BY <1>0
  <2> HIDE DEF Partial, q
  <2> QED
    BY <2>4, <2>5
<1>3. T = 0..n
  <2>1. T \in SUBSET (0..n)
    OBVIOUS
  <2> HIDE DEF T
  <2> QED
    BY <1>0, <1>1, <1>2, <2>1, AllUpTo
<1>4. PICK p : Partial(p, n)
  <2>1. n \in 0..n
    BY <1>0
  <2> HIDE DEF Partial, n
  <2> QED
    BY <1>3, <2>1
<1> DEFINE Fits(f) == f = [k \in 0..n |-> IF k = 0 THEN 0 ELSE f[k - 1] + s[k]]
           upTo == CHOOSE f : Fits(f)
<1>5. Fits(p)
  BY <1>0, <1>4
<1>6. Fits(upTo)
  <2> HIDE DEF Fits
  <2> QED
    BY <1>5
<1>7. Total(s) = upTo[n]
  BY DEF Total
<1>8. ASSUME NEW f, Fits(f) PROVE \A k \in 0..n : f[k] = p[k]
  <2> DEFINE U == {k \in 0..n : f[k] = p[k]}
  <2>1. 0 \in U
    BY <1>0, <1>4, <1>8
  <2>2. ASSUME NEW k \in 1..n, k - 1 \in U PROVE k \in U
    <3>1. f[k] = f[k - 1] + s[k]
      BY <1>0, <1>8
    <3> QED
      BY <1>0, <1>4, <2>2, <3>1
  <2>3. U = 0..n
    <3>1. U \in SUBSET (0..n)
      OBVIOUS
    <3> HIDE DEF U
    <3> QED
      BY <1>0, <2>1, <2>2, <3>1, AllUpTo
  <2> QED
    BY <2>3
<1>9. upTo[n] = p[n]
  <2> HIDE DEF Fits, upTo
  <2> QED
    BY <1>0, <1>6, <1>8
<1> QED
  BY <1>4, <1>7, <1>9

LEMMA TotalIsNumber ==
  ASSUME NEW s \in Seq(Int)
  PROVE  Total(s) \in Int
<1>1. PICK p \in [0..Len(s) -> Int] : Total(s) = p[Len(s)]
  BY TotalUnfolds
<1>2. Len(s) \in 0..Len(s)
  OBVIOUS
<1> QED
  BY <1>1, <1>2

(* Sums compare as their members do, also when one sequence is scaled.     *)
LEMMA TotalsCompare ==
  ASSUME NEW s \in Seq(Int), NEW t \in Seq(Int), Len(s) = Len(t), NEW a \in Int
  PROVE  /\ (\A k \in 1..Len(s) : a * t[k] <= s[k]) => a * Total(t) <= Total(s)
         /\ (\A k \in 1..Len(s) : s[k] <= a * t[k]) => Total(s) <= a * Total(t)
<1> DEFINE n == Len(s)
<1>0. n \in Nat
  OBVIOUS
<1>1. PICK p \in [0..n -> Int] :
        /\ p[0] = 0 /\ \A k \in 1..n : p[k] = p[k - 1] + s[k]
        /\ Total(s) = p[n]
  BY TotalUnfolds
<1>2. PICK q \in [0..n -> Int] :
        /\ q[0] = 0 /\ \A k \in 1..n : q[k] = q[k - 1] + t[k]
        /\ Total(t) = q[n]
  BY TotalUnfolds
<1>3. ASSUME NEW k \in 1..n
      PROVE  /\ k - 1 \in 0..n
             /\ p[k] = p[k - 1] + s[k] /\ q[k] = q[k - 1] + t[k]
             /\ p[k - 1] \in Int /\ q[k - 1] \in Int /\ s[k] \in Int /\ t[k] \in Int
             /\ a * q[k] = a * q[k - 1] + a * t[k]
  <2>1. k - 1 \in 0..n
    BY <1>0
  <2>2. /\ p[k] = p[k - 1] + s[k] /\ q[k] = q[k - 1] + t[k]
        /\ p[k - 1] \in Int /\ q[k - 1] \in Int /\ s[k] \in Int /\ t[k] \in Int
    <3>1. s[k] \in Int /\ t[k] \in Int
      OBVIOUS
    <3>2. p[k - 1] \in Int /\ q[k - 1] \in Int
      BY <2>1
    <3> QED
      BY <1>1, <1>2, <3>1, <3>2
  <2>3. \A x, y \in Int : a * (x + y) = a * x + a * y
    OBVIOUS
  <2>4. a * q[k] = a * q[k - 1] + a * t[k]
    BY <2>2, <2>3
  <2> QED
    BY <2>1, <2>2, <2>4
<1>4. a * 0 = 0 /\ n \in 0..n /\ 0 \in 0..n
  BY <1>0
<1>5. \A x, y \in Int : x * y \in Int
  OBVIOUS
<1>8. \A w, x, y, z \in Int : w <= x /\ y <= z => w + y <= x + z
  OBVIOUS
<1> HIDE DEF n
<1>6. ASSUME \A k \in 1..n : a * t[k] <= s[k] PROVE a * q[n] <= p[n]
  <2> DEFINE T == {k \in 0..n : a * q[k] <= p[k]}
  <2>1. 0 \in T
    BY <1>1, <1>2, <1>4
  <2>2. ASSUME NEW k \in 1..n, k - 1 \in T PROVE k \in T
    <3>1. k \in 0..n
      BY <1>0
    <3>2. a * q[k - 1] \in Int /\ a * t[k] \in Int
      BY <1>3, <1>5
    <3>3. a * q[k - 1] + a * t[k] <= p[k - 1] + s[k]
      BY <1>3, <1>6, <1>8, <2>2, <3>2
    <3> QED
      BY <1>3, <3>1, <3>3
  <2>3. T \in SUBSET (0..n)
    OBVIOUS
  <2>4. T = 0..n
    <3> HIDE DEF T
    <3> QED
      BY <1>0, <2>1, <2>2, <2>3, AllUpTo
  <2> QED
    BY <1>4, <2>4
<1>7. ASSUME \A k \in 1..n : s[k] <= a * t[k] PROVE p[n] <= a * q[n]
  <2> DEFINE T == {k \in 0..n : p[k] <= a * q[k]}
  <2>1. 0 \in T
    BY <1>1, <1>2, <1>4
  <2>2. ASSUME NEW k \in 1..n, k - 1 \in T PROVE k \in T
    <3>1. k \in 0..n
      BY <1>0
    <3>2. a * q[k - 1] \in Int /\ a * t[k] \in Int
      BY <1>3, <1>5
    <3>3. p[k - 1] + s[k] <= a * q[k - 1] + a * t[k]
      BY <1>3, <1>7, <1>8, <2>2, <3>2
    <3> QED
      BY <1>3, <3>1, <3>3
  <2>3. T \in SUBSET (0..n)
    OBVIOUS
  <2>4. T = 0..n
    <3> HIDE DEF T
    <3> QED
      BY <1>0, <2>1, <2>2, <2>3, AllUpTo
  <2> QED
    BY <1>4, <2>4
<1> QED
  BY <1>1, <1>2, <1>6, <1>7 DEF n

-----------------------------------------------------------------------------
(* An order of the updates by value exists, so that Ordered() is one.      *)

InOrderOf(value, D, order) ==
  /\ order \in Bijection(1..Cardinality(D), D)
  /\ \A i, j \in 1..Cardinality(D) : i < j => value[order[i]] <= value[order[j]]

LEMMA GreatestExists ==
  ASSUME NEW C, IsFiniteSet(C), C # {}, NEW value \in [C -> Int]
  PROVE  \E x \in C : \A y \in C : value[y] <= value[x]
<1> DEFINE n == Cardinality(C)
           Has(D) == D # {} => \E x \in D : \A y \in D : value[y] <= value[x]
           T == {m \in 0..n : \A D \in SUBSET C : Cardinality(D) = m => Has(D)}
<1>0. n \in Nat /\ \A D \in SUBSET C : IsFiniteSet(D)
  BY FS_CardinalityType, FS_Subset
<1>1. 0 \in T
  <2>1. \A D \in SUBSET C : Cardinality(D) = 0 => D = {}
    BY <1>0, FS_EmptySet
  <2> QED
    BY <1>0, <2>1
<1>2. ASSUME NEW m \in 1..n, m - 1 \in T PROVE m \in T
  <2>1. ASSUME NEW D \in SUBSET C, Cardinality(D) = m, D # {} PROVE Has(D)
    <3>1. PICK c \in D : TRUE
      BY <2>1
    <3> DEFINE E == D \ {c}
    <3>2. Cardinality(E) = m - 1
      BY <1>0, <2>1, FS_RemoveElement
    <3>3. Has(E)
      BY <1>2, <3>2
    <3>4. CASE E = {}
      <4>1. \A y \in D : y = c
        BY <3>4
      <4>2. value[c] \in Int
        OBVIOUS
      <4> QED
        BY <4>1, <4>2
    <3>5. CASE E # {}
      <4>1. PICK x \in E : \A y \in E : value[y] <= value[x]
        BY <3>3, <3>5
      <4>2. value[c] \in Int /\ value[x] \in Int /\ \A y \in E : value[y] \in Int
        OBVIOUS
      <4>3. CASE value[c] <= value[x]
        <5>1. \A y \in D : value[y] <= value[x]
          BY <4>1, <4>3
        <5> QED
          BY <5>1
      <4>4. CASE value[x] <= value[c]
        <5>1. \A y \in D : value[y] <= value[c]
          BY <4>1, <4>2, <4>4
        <5> QED
          BY <5>1
      <4> QED
        BY <4>2, <4>3, <4>4
    <3> QED
      BY <3>4, <3>5
  <2>2. m \in 0..n
    BY <1>0
  <2> HIDE DEF Has, n
  <2>3. \A D \in SUBSET C : Cardinality(D) = m => Has(D)
    <3>1. Has({})
      BY DEF Has
    <3> QED
      BY <2>1, <3>1
  <2> QED
    BY <2>2, <2>3
<1>3. T = 0..n
  <2>1. T \in SUBSET (0..n)
    OBVIOUS
  <2> HIDE DEF T, n
  <2> QED
    BY <1>0, <1>1, <1>2, <2>1, AllUpTo
<1>4. n \in T
  <2>1. n \in 0..n
    BY <1>0
  <2> HIDE DEF T, n
  <2> QED
    BY <1>3, <2>1
<1> QED
  BY <1>4

LEMMA OrderExists ==
  ASSUME NEW C, IsFiniteSet(C), NEW value \in [C -> Int]
  PROVE  \E order : InOrderOf(value, C, order)
<1> DEFINE n == Cardinality(C)
           Has(D) == \E order : InOrderOf(value, D, order)
           T == {m \in 0..n : \A D \in SUBSET C : Cardinality(D) = m => Has(D)}
<1>0. n \in Nat /\ \A D \in SUBSET C : IsFiniteSet(D)
  BY FS_CardinalityType, FS_Subset
<1>1. 0 \in T
  <2>1. Has({})
    <3>1. Cardinality({}) = 0
      BY FS_EmptySet
    <3>2. InOrderOf(value, {}, [k \in 1..0 |-> 0])
      BY <3>1 DEF InOrderOf, Bijection, Injection, Surjection, IsInjective
    <3> QED
      BY <3>2
  <2>2. \A D \in SUBSET C : Cardinality(D) = 0 => D = {}
    BY <1>0, FS_EmptySet
  <2> HIDE DEF Has
  <2> QED
    BY <1>0, <2>1, <2>2
<1>2. ASSUME NEW m \in 1..n, m - 1 \in T PROVE m \in T
  <2>1. ASSUME NEW D \in SUBSET C, Cardinality(D) = m PROVE Has(D)
    <3>1. D # {} /\ IsFiniteSet(D) /\ m \in Nat /\ m > 0
      BY <1>0, <2>1, FS_EmptySet
    <3>2. PICK c \in D : \A y \in D : value[y] <= value[c]
      <4> DEFINE v == [d \in D |-> value[d]]
      <4>1. v \in [D -> Int]
        OBVIOUS
      <4>2. \E x \in D : \A y \in D : v[y] <= v[x]
        <5> HIDE DEF v
        <5> QED
          BY <3>1, <4>1, GreatestExists
      <4> QED
        BY <4>2
    <3> DEFINE E == D \ {c}
    <3>3. Cardinality(E) = m - 1
      BY <2>1, <3>1, FS_RemoveElement
    <3>4. PICK order : InOrderOf(value, E, order)
      BY <1>2, <3>3
    <3> DEFINE longer == [k \in 1..m |-> IF k = m THEN c ELSE order[k]]
    <3>5. /\ order \in [1..m - 1 -> E]
          /\ \A i, j \in 1..m - 1 : order[i] = order[j] => i = j
          /\ \A d \in E : \E k \in 1..m - 1 : order[k] = d
          /\ \A i, j \in 1..m - 1 : i < j => value[order[i]] <= value[order[j]]
      BY <3>3, <3>4 DEF InOrderOf, Bijection, Injection, Surjection, IsInjective
    <3>6. \A k \in 1..m : k # m => k \in 1..m - 1
      BY <3>1
    <3>7. \A k \in 1..m - 1 : k \in 1..m /\ k # m
      BY <3>1
    <3>8. m \in 1..m
      BY <3>1
    <3>9. longer \in [1..m -> D] /\ longer[m] = c
          /\ \A k \in 1..m - 1 : longer[k] = order[k] /\ order[k] # c
      BY <3>5, <3>6, <3>7, <3>8
    <3>10. \A i, j \in 1..m : longer[i] = longer[j] => i = j
      BY <3>5, <3>6, <3>9
    <3>11. \A d \in D : \E k \in 1..m : longer[k] = d
      BY <3>5, <3>7, <3>8, <3>9
    <3>12. \A i, j \in 1..m : i < j => value[longer[i]] <= value[longer[j]]
      <4> SUFFICES ASSUME NEW i \in 1..m, NEW j \in 1..m, i < j
                   PROVE  value[longer[i]] <= value[longer[j]]
        OBVIOUS
      <4>1. i \in 1..m - 1
        BY <3>1
      <4>2. CASE j = m
        BY <3>2, <3>9, <4>2
      <4>3. CASE j # m
        BY <3>5, <3>6, <3>9, <4>1, <4>3
      <4> QED
        BY <4>2, <4>3
    <3>13. longer \in Bijection(1..m, D)
      <4> HIDE DEF longer
      <4>1. longer \in Injection(1..m, D)
        BY <3>9, <3>10 DEF Injection, IsInjective
      <4>2. longer \in Surjection(1..m, D)
        BY <3>9, <3>11 DEF Surjection
      <4> QED
        BY <4>1, <4>2 DEF Bijection
    <3>14. InOrderOf(value, D, longer)
      <4> HIDE DEF longer
      <4> QED
        BY <2>1, <3>12, <3>13 DEF InOrderOf
    <3> QED
      BY <3>14
  <2>2. m \in 0..n
    BY <1>0
  <2> HIDE DEF Has, n
  <2> QED
    BY <2>1, <2>2
<1>3. T = 0..n
  <2>1. T \in SUBSET (0..n)
    OBVIOUS
  <2> HIDE DEF T, n
  <2> QED
    BY <1>0, <1>1, <1>2, <2>1, AllUpTo
<1>4. n \in T
  <2>1. n \in 0..n
    BY <1>0
  <2> HIDE DEF T, n
  <2> QED
    BY <1>3, <2>1
<1>5. Has(C)
  <2> HIDE DEF Has
  <2> QED
    BY <1>4
<1> QED
  BY <1>5

LEMMA TotalOfOnes ==
  ASSUME NEW n \in Nat
  PROVE  Total([k \in 1..n |-> 1]) = n
<1> DEFINE s == [k \in 1..n |-> 1]
<1>1. s \in Seq(Int) /\ Len(s) = n
  OBVIOUS
<1>2. PICK p \in [0..n -> Int] :
        /\ p[0] = 0 /\ \A k \in 1..n : p[k] = p[k - 1] + s[k]
        /\ Total(s) = p[n]
  <2> HIDE DEF s
  <2> QED
    BY <1>1, TotalUnfolds
<1> DEFINE T == {k \in 0..n : p[k] = k}
<1>3. 0 \in T /\ \A k \in 1..n : k - 1 \in T => k \in T
  BY <1>2
<1>4. T = 0..n
  <2>1. T \in SUBSET (0..n)
    OBVIOUS
  <2> HIDE DEF T
  <2> QED
    BY <1>3, <2>1, AllUpTo
<1>5. n \in 0..n
  OBVIOUS
<1>6. p[n] = n
  BY <1>4, <1>5
<1> QED
  BY <1>2, <1>6

-----------------------------------------------------------------------------
(* The aggregations of the updates of any clients.                         *)

LEMMA OrderedFacts ==
  ASSUME NEW C \in SUBSET Clients, NEW updates \in [C -> Update]
  PROVE  /\ IsFiniteSet(C) /\ Cardinality(C) \in Nat
         /\ Ordered(updates) \in [1..Cardinality(C) -> C]
         /\ \A i, j \in 1..Cardinality(C) :
              /\ Ordered(updates)[i] = Ordered(updates)[j] => i = j
              /\ i < j => updates[Ordered(updates)[i]].value
                            <= updates[Ordered(updates)[j]].value
<1> DEFINE n == Cardinality(C)
           value == [c \in C |-> updates[c].value]
           IsOrder(order) == /\ order \in Bijection(1..n, C)
                             /\ \A i, j \in DOMAIN order : i < j =>
                                  updates[order[i]].value <= updates[order[j]].value
<1>1. IsFiniteSet(C) /\ n \in Nat
  BY ClientsAssumption, FS_Subset, FS_CardinalityType
<1>2. value \in [C -> Int]
  BY ValuesAssumption DEF Update
<1>3. PICK order : InOrderOf(value, C, order)
  <2> HIDE DEF value
  <2> QED
    BY <1>1, <1>2, OrderExists
<1>4. IsOrder(order)
  BY <1>3 DEF InOrderOf, Bijection, Injection, Surjection
<1>5. DOMAIN updates = C
  OBVIOUS
<1>6. Ordered(updates) = CHOOSE o \in Bijection(1..n, C) :
                            \A i, j \in DOMAIN o : i < j =>
                              updates[o[i]].value <= updates[o[j]].value
  BY <1>5 DEF Ordered
<1>7. IsOrder(Ordered(updates))
  BY <1>4, <1>6
<1> QED
  BY <1>1, <1>7 DEF Bijection, Injection, Surjection, IsInjective

LEMMA SortedFacts ==
  ASSUME NEW C \in SUBSET Clients, NEW updates \in [C -> Update]
  PROVE  /\ Sorted(updates) \in Seq(Int) /\ Len(Sorted(updates)) = Cardinality(C)
         /\ \A k \in 1..Cardinality(C) : Sorted(updates)[k] = updates[Ordered(updates)[k]].value
         /\ \A i, j \in 1..Cardinality(C) :
              i <= j => Sorted(updates)[i] <= Sorted(updates)[j]
<1> DEFINE n == Cardinality(C)
           order == Ordered(updates)
<1>1. /\ n \in Nat /\ order \in [1..n -> C]
      /\ \A i, j \in 1..n :
           i < j => updates[order[i]].value <= updates[order[j]].value
  BY OrderedFacts
<1> HIDE DEF order, n
<1>2. Sorted(updates) = [k \in 1..n |-> updates[order[k]].value]
  BY <1>1 DEF Sorted, order
<1>3. \A k \in 1..n : updates[order[k]].value \in Int
  BY <1>1, ValuesAssumption DEF Update
<1>4. Sorted(updates) \in Seq(Int) /\ Len(Sorted(updates)) = n
  BY <1>1, <1>2, <1>3
<1>5. ASSUME NEW i \in 1..n, NEW j \in 1..n, i <= j
      PROVE  updates[order[i]].value <= updates[order[j]].value
  BY <1>1, <1>3, <1>5
<1> QED
  BY <1>2, <1>4, <1>5 DEF order, n

(* Of more places than there are strangers one is an honest client's.      *)
LEMMA HonestPlace ==
  ASSUME NEW C \in SUBSET Clients, NEW updates \in [C -> Update],
         NEW first \in Int, NEW last \in Int,
         1 <= first, first <= last, last <= Cardinality(C),
         last - first + 1 > Cardinality(Strangers(updates))
  PROVE  \E k \in first..last : Ordered(updates)[k] \in C \intersect Honest
<1> DEFINE n == Cardinality(C)
           order == Ordered(updates)
<1>1. /\ n \in Nat /\ order \in [1..n -> C] /\ IsFiniteSet(C)
      /\ \A i, j \in 1..n : order[i] = order[j] => i = j
  BY OrderedFacts
<1>2. \A k \in first..last : k \in 1..n
  BY <1>1
<1>3. Strangers(updates) = C \ Honest /\ IsFiniteSet(Strangers(updates))
  BY <1>1, FS_Subset DEF Strangers
<1> SUFFICES ASSUME \A k \in first..last : order[k] \notin C \intersect Honest
             PROVE  FALSE
  OBVIOUS
<1> HIDE DEF order, n
<1> DEFINE f == [k \in first..last |-> order[k]]
<1>4. f \in Injection(first..last, Strangers(updates))
  <2>1. f \in [first..last -> Strangers(updates)]
    BY <1>1, <1>2, <1>3
  <2>2. \A i, j \in first..last : f[i] = f[j] => i = j
    BY <1>1, <1>2
  <2> HIDE DEF f
  <2> QED
    BY <2>1, <2>2 DEF Injection, IsInjective
<1>5. Cardinality(first..last) = last - first + 1
  BY FS_Interval
<1>6. Cardinality(first..last) <= Cardinality(Strangers(updates))
  <2> HIDE DEF f
  <2> QED
    BY <1>3, <1>4, FS_Injection
<1>7. Cardinality(Strangers(updates)) \in Nat
  BY <1>3, FS_CardinalityType
<1> QED
  BY <1>5, <1>6, <1>7

(* The mean of a stretch of the sorted values with more values on either   *)
(* side of its ends, the ends counted, than there are strangers.           *)
LEMMA StretchWithin ==
  ASSUME NEW C \in SUBSET Clients, NEW updates \in [C -> Update],
         NEW first \in Int, NEW last \in Int,
         1 <= first, first <= last, last <= Cardinality(C),
         first > Cardinality(Strangers(updates)),
         Cardinality(C) - last + 1 > Cardinality(Strangers(updates))
  PROVE  Within(MeanOf(SubSeq(Sorted(updates), first, last)), updates)
<1> DEFINE n == Cardinality(C)
           s == Sorted(updates)
           part == SubSeq(s, first, last)
           m == last - first + 1
           ones == [k \in 1..m |-> 1]
           order == Ordered(updates)
<1>1. /\ s \in Seq(Int) /\ Len(s) = n /\ n \in Nat
      /\ \A i, j \in 1..n : i <= j => s[i] <= s[j]
      /\ \A k \in 1..n : s[k] = updates[order[k]].value
      /\ \A k \in 1..n : order[k] \in C
  BY SortedFacts, OrderedFacts
<1> HIDE DEF n, s, order
<1>2. /\ part \in Seq(Int) /\ Len(part) = m
      /\ \A k \in 1..m : part[k] = s[first + k - 1]
  BY <1>1 DEF n
<1>3. ones \in Seq(Int) /\ Len(ones) = m
  OBVIOUS
<1> HIDE DEF part
<1>4. PICK i \in 1..first : order[i] \in C \intersect Honest
  <2>1. first <= Cardinality(C)
    BY <1>1 DEF n
  <2> QED
    BY <2>1, HonestPlace DEF order
<1>5. PICK j \in last..n : order[j] \in C \intersect Honest
  <2>1. Cardinality(C) \in Int /\ 1 <= last /\ Cardinality(C) <= Cardinality(C)
    BY <1>1 DEF n
  <2>2. \E k \in last..Cardinality(C) : Ordered(updates)[k] \in C \intersect Honest
    BY <2>1, HonestPlace
  <2> QED
    BY <2>2 DEF order, n
<1>6. i \in 1..n /\ j \in 1..n /\ s[i] \in Int /\ s[j] \in Int
  BY <1>1 DEF n
<1>7. \A k \in 1..m : /\ first + k - 1 \in 1..n
                      /\ i <= first + k - 1 /\ first + k - 1 <= j
  <2>1. n \in Nat /\ last <= n
    BY <1>1 DEF n
  <2>2. i \in Int /\ i <= first /\ j \in Int /\ last <= j
    BY <2>1
  <2>3. \A k \in 1..m : k \in Int /\ 1 <= k /\ k <= last - first + 1
    OBVIOUS
  <2>4. \A k \in 1..m : first + k - 1 \in Int /\ first <= first + k - 1 /\ first + k - 1 <= last
    BY <2>3
  <2> HIDE DEF m
  <2> QED
    BY <2>1, <2>2, <2>4
<1>8. \A k \in 1..m : s[i] * ones[k] <= part[k] /\ part[k] <= s[j] * ones[k]
  <2>1. \A k \in 1..m : ones[k] = 1
    OBVIOUS
  <2>2. s[i] * 1 = s[i] /\ s[j] * 1 = s[j]
    BY <1>6
  <2>3. \A k \in 1..m : s[i] <= s[first + k - 1] /\ s[first + k - 1] <= s[j]
    BY <1>1, <1>6, <1>7
  <2> HIDE DEF ones, m
  <2> QED
    BY <1>2, <2>1, <2>2, <2>3
<1> HIDE DEF ones
<1>9. s[i] * Total(ones) <= Total(part) /\ Total(part) <= s[j] * Total(ones)
  BY <1>2, <1>3, <1>6, <1>8, TotalsCompare
<1>10. Total(ones) = m
  BY TotalOfOnes DEF ones
<1>11. MeanOf(part).sum = Total(part) /\ MeanOf(part).count = m
  BY <1>2 DEF MeanOf, Mean
<1>12. /\ s[i] \in {updates[c].value : c \in C \intersect Honest}
       /\ s[j] \in {updates[c].value : c \in C \intersect Honest}
  BY <1>1, <1>4, <1>5, <1>6
<1>13. DOMAIN updates = C
  OBVIOUS
<1>14. Within(MeanOf(part), updates)
  BY <1>9, <1>10, <1>11, <1>12, <1>13 DEF Within
<1> QED
  BY <1>14 DEF part, s

LEMMA WeightedWithin ==
  ASSUME NEW C \in SUBSET Clients, C # {}, NEW updates \in [C -> Update],
         Cardinality(Strangers(updates)) = 0
  PROVE  Within(WeightedAverage(updates), updates)
<1> DEFINE n == Cardinality(C)
           s == Sorted(updates)
           order == Ordered(updates)
           weights  == [k \in 1..n |-> updates[order[k]].weight]
           weighted == [k \in 1..n |-> updates[order[k]].value * updates[order[k]].weight]
<1>1. /\ s \in Seq(Int) /\ Len(s) = n /\ n \in Nat
      /\ \A i, j \in 1..n : i <= j => s[i] <= s[j]
      /\ \A k \in 1..n : s[k] = updates[order[k]].value
      /\ order \in [1..n -> C]
      /\ IsFiniteSet(C)
  BY SortedFacts, OrderedFacts
<1>2. n > 0
  BY <1>1, FS_EmptySet
<1>3. C \intersect Honest = C
  <2>1. Strangers(updates) = C \ Honest
    BY DEF Strangers
  <2>2. IsFiniteSet(C \ Honest)
    BY <1>1, FS_Subset
  <2>3. C \ Honest = {}
    BY <2>1, <2>2, FS_EmptySet
  <2> QED
    BY <2>3
<1> HIDE DEF n, s, order
<1>4. \A k \in 1..n : /\ s[k] \in Int /\ updates[order[k]].value = s[k]
                      /\ updates[order[k]].weight \in Nat
  <2>1. \A c \in C : updates[c].weight \in Nat
    BY MethodsAssumption DEF Update
  <2> QED
    BY <1>1, <2>1
<1>5. /\ weights \in Seq(Int) /\ Len(weights) = n
      /\ weighted \in Seq(Int) /\ Len(weighted) = n
  <2>1. \A x \in Int, w \in Nat : x * w \in Int /\ w \in Int
    OBVIOUS
  <2>2. \A k \in 1..n : /\ updates[order[k]].value * updates[order[k]].weight \in Int
                        /\ updates[order[k]].weight \in Int
    BY <1>4, <2>1
  <2> QED
    BY <1>1, <2>2
<1>6. /\ \A k \in 1..n : weights[k] = updates[order[k]].weight
      /\ \A k \in 1..n : weighted[k] = s[k] * updates[order[k]].weight
  BY <1>4
<1>7. WeightedAverage(updates) = Mean(Total(weighted), Total(weights))
  BY <1>1 DEF WeightedAverage, order
<1> HIDE DEF weights, weighted
<1>8. 1 \in 1..n /\ n \in 1..n
  BY <1>1, <1>2
<1>9. \A k \in 1..n : s[1] <= s[k] /\ s[k] <= s[n]
  BY <1>1, <1>8
<1>10. \A x, y \in Int, w \in Nat : x <= y => x * w <= y * w
  OBVIOUS
<1>11. \A k \in 1..n : s[1] * weights[k] <= weighted[k] /\ weighted[k] <= s[n] * weights[k]
  BY <1>4, <1>6, <1>8, <1>9, <1>10
<1>12. s[1] * Total(weights) <= Total(weighted) /\ Total(weighted) <= s[n] * Total(weights)
  BY <1>4, <1>5, <1>8, <1>11, TotalsCompare
<1>13. /\ s[1] \in {updates[c].value : c \in C \intersect Honest}
       /\ s[n] \in {updates[c].value : c \in C \intersect Honest}
  BY <1>1, <1>3, <1>4, <1>8
<1>14. DOMAIN updates = C
  OBVIOUS
<1> QED
  BY <1>7, <1>12, <1>13, <1>14 DEF Within, Mean

LEMMA TrimBounds ==
  ASSUME NEW n \in Nat
  PROVE  /\ TrimCount(n) \in Nat
         /\ n > 0 => 2 * TrimCount(n) < n
<1> DEFINE a == TrimNumerator
           b == TrimDenominator
           t == TrimCount(n)
<1>1. a \in Nat /\ b \in Nat /\ 2 * a < b /\ b > 0
  BY TrimAssumption
<1>2. n * a \in Nat
  BY <1>1
<1>3. t \in Nat /\ b * t <= n * a
  BY <1>1, <1>2 DEF TrimCount
<1> HIDE DEF a, b, t
<1>4. ASSUME n > 0, 2 * t >= n PROVE FALSE
  <2>1. \A x, y, z \in Nat : x >= y => z * x >= z * y
    OBVIOUS
  <2>2. b * (2 * t) >= b * n
    BY <1>1, <1>3, <1>4, <2>1
  <2>3. n * (2 * a) < n * b
    <3>1. \A x, y, z \in Nat : x < y /\ z > 0 => z * x < z * y
      OBVIOUS
    <3> QED
      BY <1>1, <1>4, <3>1
  <2>4. b * (2 * t) = 2 * (b * t) /\ n * (2 * a) = 2 * (n * a) /\ n * b = b * n
    BY <1>1, <1>3
  <2>5. b * n \in Int /\ b * t \in Int /\ n * a \in Int
    BY <1>1, <1>3
  <2> QED
    BY <1>3, <2>2, <2>3, <2>4, <2>5
<1>5. n > 0 => 2 * t < n
  BY <1>3, <1>4
<1> QED
  BY <1>3, <1>5 DEF t

(* The theorem on one aggregation, for any number of clients.              *)
LEMMA AggregateWithin ==
  ASSUME NEW C \in SUBSET Clients, C # {}, NEW updates \in [C -> Update],
         method \in Methods, Outvoted(updates)
  PROVE  Within(Aggregate(updates), updates)
<1> DEFINE n == Cardinality(C)
           d == Cardinality(Strangers(updates))
           s == Sorted(updates)
<1>1. /\ IsFiniteSet(C) /\ n \in Nat /\ n > 0 /\ d \in Nat
      /\ DOMAIN updates = C /\ Len(s) = n
  <2>1. IsFiniteSet(C) /\ n \in Nat /\ Len(s) = n
    BY SortedFacts, OrderedFacts
  <2>2. IsFiniteSet(Strangers(updates)) /\ n > 0
    BY <2>1, FS_Subset, FS_EmptySet DEF Strangers
  <2> QED
    BY <2>1, <2>2, FS_CardinalityType
<1>2. CASE method = "trimmed_mean"
  <2> DEFINE t == TrimCount(n)
  <2>1. d <= t
    BY <1>1, <1>2 DEF Outvoted
  <2>2. t \in Nat /\ 2 * t < n
    BY <1>1, TrimBounds
  <2>3. Aggregate(updates) = MeanOf(SubSeq(s, t + 1, n - t))
    BY <1>1, <1>2 DEF Aggregate, TrimmedMean
  <2> HIDE DEF n, d, t
  <2>4. /\ t + 1 \in Int /\ n - t \in Int /\ 1 <= t + 1 /\ t + 1 <= n - t /\ n - t <= n
        /\ t + 1 > d /\ n - (n - t) + 1 > d
    BY <1>1, <2>1, <2>2
  <2>5. Within(MeanOf(SubSeq(s, t + 1, n - t)), updates)
    BY <2>4, StretchWithin DEF n, d
  <2> QED
    BY <2>3, <2>5
<1>3. CASE method = "coordinate_median"
  <2> DEFINE first == (n + 1) \div 2
             last  == n \div 2 + 1
  <2>1. 2 * d < n
    BY <1>1, <1>3 DEF Outvoted
  <2>2. Aggregate(updates) = MeanOf(SubSeq(s, first, last))
    BY <1>1, <1>3 DEF Aggregate, CoordinateMedian
  <2> HIDE DEF n, d
  <2>3. /\ first \in Int /\ last \in Int /\ 1 <= first /\ first <= last /\ last <= n
        /\ first > d /\ n - last + 1 > d
    BY <1>1, <2>1
  <2> HIDE DEF first, last
  <2>4. Within(MeanOf(SubSeq(s, first, last)), updates)
    BY <2>3, StretchWithin DEF n, d
  <2> QED
    BY <2>2, <2>4
<1>4. CASE method = "weighted_mean"
  <2>1. d = 0
    BY <1>1, <1>4 DEF Outvoted
  <2>2. Aggregate(updates) = WeightedAverage(updates)
    BY <1>4 DEF Aggregate
  <2> QED
    BY <2>1, <2>2, WeightedWithin
<1> QED
  BY <1>2, <1>3, <1>4, MethodsAssumption DEF MethodKinds

-----------------------------------------------------------------------------
(* Types, and that a round under way is one of the run's.                  *)
TypeInv ==
  /\ TypeOK
  /\ pc \in {"train", "log", "aggregate"} => round \in 1..Rounds

LEMMA StretchType ==
  ASSUME NEW s \in Seq(Int), NEW first \in Int, NEW last \in Int,
         \A k \in first..last : k \in 1..Len(s)
  PROVE  SubSeq(s, first, last) \in Seq(Int)
<1>1. CASE first > last
  BY <1>1
<1>2. CASE first <= last
  <2>1. first \in 1..Len(s) /\ last \in 1..Len(s)
    BY <1>2
  <2> QED
    BY <1>2, <2>1
<1> QED
  BY <1>1, <1>2

LEMMA AggregateType ==
  ASSUME NEW C \in SUBSET Clients, C # {}, NEW updates \in [C -> Update],
         method \in Methods
  PROVE  Aggregate(updates) \in [sum : Int, count : Int]
<1> DEFINE n == Cardinality(C)
           s == Sorted(updates)
           order == Ordered(updates)
<1>1. /\ s \in Seq(Int) /\ Len(s) = n /\ n \in Nat
      /\ order \in [1..n -> C] /\ n > 0
  <2>1. /\ s \in Seq(Int) /\ Len(s) = n /\ n \in Nat
        /\ order \in [1..n -> C] /\ IsFiniteSet(C)
    BY SortedFacts, OrderedFacts
  <2> QED
    BY <2>1, FS_EmptySet
<1>2. ASSUME NEW part \in Seq(Int) PROVE MeanOf(part) \in [sum : Int, count : Int]
  BY TotalIsNumber DEF MeanOf, Mean
<1>3. CASE method = "trimmed_mean"
  <2>1. TrimCount(n) \in Nat
    BY <1>1, TrimBounds
  <2> DEFINE t == TrimCount(n)
  <2>2. Aggregate(updates) = MeanOf(SubSeq(s, t + 1, n - t))
    BY <1>1, <1>3 DEF Aggregate, TrimmedMean
  <2>3. SubSeq(s, t + 1, n - t) \in Seq(Int)
    <3>1. \A k \in t + 1..n - t : k \in 1..n
      BY <1>1, <2>1
    <3>2. t + 1 \in Int /\ n - t \in Int
      BY <1>1, <2>1
    <3> HIDE DEF s, t, n
    <3> QED
      BY <1>1, <3>1, <3>2, StretchType
  <2> QED
    BY <1>2, <2>2, <2>3
<1>4. CASE method = "coordinate_median"
  <2> DEFINE first == (n + 1) \div 2
             last  == n \div 2 + 1
  <2>1. Aggregate(updates) = MeanOf(SubSeq(s, first, last))
    BY <1>1, <1>4 DEF Aggregate, CoordinateMedian
  <2>2. SubSeq(s, first, last) \in Seq(Int)
    <3>1. first \in Int /\ last \in Int /\ \A k \in first..last : k \in 1..n
      <4> HIDE DEF n
      <4> QED
        BY <1>1
    <3> HIDE DEF first, last, n, s
    <3> QED
      BY <1>1, <3>1, StretchType
  <2> QED
    BY <1>2, <2>1, <2>2
<1>5. CASE method = "weighted_mean"
  <2> DEFINE weights  == [k \in 1..n |-> updates[order[k]].weight]
             weighted == [k \in 1..n |-> updates[order[k]].value * updates[order[k]].weight]
  <2>1. \A k \in 1..n : /\ updates[order[k]].weight \in Int
                        /\ updates[order[k]].value \in Int
    <3>1. \A c \in C : updates[c].weight \in Weights /\ updates[c].value \in Values
      BY DEF Update
    <3>2. \A c \in C : updates[c].weight \in Int /\ updates[c].value \in Int
      <4>1. (\A w \in Weights : w \in Int) /\ \A v \in Values : v \in Int
        BY ValuesAssumption, MethodsAssumption
      <4> QED
        BY <3>1, <4>1
    <3>3. \A k \in 1..n : order[k] \in C
      BY <1>1
    <3> HIDE DEF order, n
    <3> QED
      BY <3>2, <3>3
  <2>2. \A x, y \in Int : x * y \in Int
    OBVIOUS
  <2>3. weights \in Seq(Int) /\ weighted \in Seq(Int)
    <3> HIDE DEF order, n
    <3> QED
      BY <1>1, <2>1, <2>2
  <2>4. Aggregate(updates) = Mean(Total(weighted), Total(weights))
    BY <1>1, <1>5 DEF Aggregate, WeightedAverage
  <2> HIDE DEF weights, weighted
  <2> QED
    BY <2>3, <2>4, TotalIsNumber DEF Mean
<1> QED
  BY <1>3, <1>4, <1>5, MethodsAssumption DEF MethodKinds

LEMMA FreshType ==
  ASSUME Fresh PROVE /\ round' = 1
                     /\ model' \in [sum : Int, count : Nat]
                     /\ cur'.line \in Line /\ cur'.updates \in [cur'.line.accepted -> Update]
<1>1. /\ cur' = [line |-> [round |-> 0, accepted |-> {}, invalid |-> {}, rejected |-> {}],
                 updates |-> << >>]
      /\ round' = 1 /\ model' = [sum |-> 0, count |-> 1]
  BY DEF Fresh, Nothing, NoLine, InitialModel, Mean
<1>2. << >> \in [{} -> Update]
  OBVIOUS
<1> QED
  BY <1>1, <1>2 DEF Line

(* What aggregate_train() puts in hand for the log.                        *)
LEMMA ToLogType ==
  ASSUME TypeInv, pc = "train", NEW replies \in RepliesOfAll,
         NEW accepted \in SUBSET OfKind(replies, "valid"), NEW rejected \in SUBSET Clients,
         ToLog(replies, accepted, rejected)
  PROVE  /\ cur'.line \in Line /\ cur'.updates \in [cur'.line.accepted -> Update]
         /\ pc' = "log"
<1>1. /\ cur'.line = [round |-> round, accepted |-> accepted,
                      invalid |-> OfKind(replies, "invalid"), rejected |-> rejected]
      /\ cur'.updates = [c \in accepted |-> replies[c].update]
      /\ pc' = "log"
  BY DEF ToLog
<1>2. round \in Nat /\ OfKind(replies, "invalid") \subseteq Clients /\ accepted \subseteq Clients
  BY QuorumAssumption DEF TypeInv, TypeOK, OfKind
<1>3. ASSUME NEW c \in accepted PROVE replies[c].update \in Update
  <2>1. c \in Clients /\ replies[c].kind = "valid"
    BY DEF OfKind
  <2>2. replies[c] \in RepliesOf(c)
    BY <2>1 DEF RepliesOfAll
  <2>3. PICK update \in [value : IF c \in Honest THEN HonestValues ELSE Values,
                         weight : Weights] : replies[c] = Reply("valid", update)
    BY <2>1, <2>2 DEF RepliesOf, Reply
  <2>4. replies[c].update = update
    BY <2>3 DEF Reply
  <2>5. update.value \in Values
    BY ValuesAssumption
  <2>6. update \in [value : Values, weight : Weights]
    BY <2>5
  <2> QED
    BY <2>4, <2>6 DEF Update
<1> QED
  BY <1>1, <1>2, <1>3 DEF Line

LEMMA NextType == TypeInv /\ TrustInv /\ [Next]_vars => TypeInv'
<1> SUFFICES ASSUME TypeInv, TrustInv, [Next]_vars PROVE TypeInv'
  OBVIOUS
<1>0. /\ TrustInv' /\ Rounds \in Nat
      /\ trust' \in [Clients -> 0..Unit]
      /\ demerits' \in [Clients -> Nat]
      /\ streak' \in [Clients -> 0..2]
  BY NextTrust, QuorumAssumption DEF TrustInv
<1>1. CASE StartRun \/ Stop
  <2>1. /\ Fresh /\ pc' \in Steps /\ UNCHANGED <<method, line>>
        /\ pc' = "train" => Rounds > 0
        /\ pc' \in {"train", "down"}
    BY <1>1 DEF StartRun, Stop, Steps
  <2>2. /\ round' = 1
        /\ model' \in [sum : Int, count : Nat]
        /\ cur'.line \in Line /\ cur'.updates \in [cur'.line.accepted -> Update]
    BY <2>1, FreshType
  <2>3. round' \in 0..Rounds + 1 /\ (pc' = "train" => round' \in 1..Rounds)
    BY <1>0, <2>1, <2>2
  <2> QED
    BY <1>0, <2>1, <2>2, <2>3 DEF TypeInv, TypeOK
<1>2. ASSUME pc \in {"train", "aggregate"}, EndRound
      PROVE  /\ pc' \in Steps /\ round' \in 0..Rounds + 1
             /\ pc' \in {"train", "log", "aggregate"} => round' \in 1..Rounds
             /\ cur'.line \in Line /\ cur'.updates \in [cur'.line.accepted -> Update]
  <2>1. round \in 1..Rounds
    BY <1>2 DEF TypeInv
  <2>2. /\ cur' = [line |-> [round |-> 0, accepted |-> {}, invalid |-> {}, rejected |-> {}],
                   updates |-> << >>]
        /\ << >> \in [{} -> Update]
    BY <1>2 DEF EndRound, Nothing, NoLine
  <2>3. cur'.line \in Line /\ cur'.updates \in [cur'.line.accepted -> Update]
    BY <2>2 DEF Line
  <2>4. /\ pc' = (IF round < Rounds THEN "train" ELSE "done")
        /\ round' = round + 1
    BY <1>2 DEF EndRound
  <2> QED
    BY <1>0, <2>1, <2>3, <2>4 DEF Steps
<1>3. CASE Train
  <2>1. PICK replies \in RepliesOfAll :
          \/ NoReplies(replies)
          \/ BelowQuorum(replies)
          \/ \E benign \in SUBSET OfKind(replies, "valid") : Detect(replies, benign)
    BY <1>3 DEF Train
  <2>2. CASE NoReplies(replies)
    <3>1. /\ pc = "train" /\ EndRound
          /\ UNCHANGED <<method, model, line>>
      BY <2>2 DEF NoReplies
    <3> QED
      BY <1>0, <1>2, <3>1 DEF TypeInv, TypeOK
  <2>3. ASSUME NEW accepted \in SUBSET OfKind(replies, "valid"),
               NEW rejected \in SUBSET Clients,
               pc = "train", ToLog(replies, accepted, rejected),
               UNCHANGED <<method, round, model, line>>
        PROVE  TypeInv'
    <3>1. /\ cur'.line \in Line /\ cur'.updates \in [cur'.line.accepted -> Update]
          /\ pc' = "log"
      BY <2>3, ToLogType
    <3> QED
      BY <1>0, <2>3, <3>1 DEF TypeInv, TypeOK, Steps
  <2>4. CASE BelowQuorum(replies)
    <3>1. /\ pc = "train" /\ ToLog(replies, {}, {})
          /\ UNCHANGED <<method, round, model, line>>
      BY <2>4 DEF BelowQuorum
    <3> QED
      BY <2>3, <3>1
  <2>5. CASE \E benign \in SUBSET OfKind(replies, "valid") : Detect(replies, benign)
    <3> DEFINE clients  == OfKind(replies, "valid")
               accepted == {c \in clients : Trusted(trust'[c])}
    <3>1. /\ pc = "train" /\ ToLog(replies, accepted, clients \ accepted)
          /\ UNCHANGED <<method, round, model, line>>
      BY <2>5 DEF Detect
    <3>2. accepted \in SUBSET clients /\ clients \ accepted \in SUBSET Clients
      BY DEF OfKind
    <3> QED
      BY <2>3, <3>1, <3>2
  <2> QED
    BY <2>1, <2>2, <2>4, <2>5
<1>4. CASE LogEvidence
  BY <1>0, <1>4 DEF LogEvidence, TypeInv, TypeOK, Steps
<1>5. CASE KeepModel
  <2>1. /\ pc = "aggregate" /\ EndRound /\ UNCHANGED <<method, model, line>>
    BY <1>5 DEF KeepModel
  <2> QED
    BY <1>0, <1>2, <2>1 DEF TypeInv, TypeOK
<1>6. CASE NewModel
  <2>1. /\ pc = "aggregate" /\ EndRound /\ UNCHANGED <<method, line>>
        /\ cur.line.accepted # {}
        /\ Aggregate(cur.updates).count > 0 /\ model' = Aggregate(cur.updates)
    BY <1>6 DEF NewModel
  <2>2. /\ cur.line.accepted \in SUBSET Clients /\ method \in Methods
        /\ cur.updates \in [cur.line.accepted -> Update]
    BY DEF TypeInv, TypeOK, Line
  <2>3. Aggregate(cur.updates) \in [sum : Int, count : Int]
    BY <2>1, <2>2, AggregateType
  <2>4. model' \in [sum : Int, count : Nat]
    BY <2>1, <2>3
  <2> QED
    BY <1>0, <1>2, <2>1, <2>4 DEF TypeInv, TypeOK
<1>7. CASE UNCHANGED vars
  BY <1>7 DEF vars, TypeInv, TypeOK
<1> QED
  BY <1>1, <1>3, <1>4, <1>5, <1>6, <1>7 DEF Next

LEMMA InitType == Init => TypeInv
<1> SUFFICES ASSUME Init PROVE TypeInv
  OBVIOUS
<1>1. /\ cur = [line |-> [round |-> 0, accepted |-> {}, invalid |-> {}, rejected |-> {}],
                updates |-> << >>]
      /\ << >> \in [{} -> Update]
      /\ model = [sum |-> 0, count |-> 1]
  BY DEF Init, Nothing, NoLine, InitialModel, Mean
<1>2. /\ cur.line \in Line /\ cur.updates \in [cur.line.accepted -> Update]
      /\ model \in [sum : Int, count : Nat]
  BY <1>1 DEF Line
<1>3. line \in Line
  BY DEF Init, NoLine, Line
<1> QED
  BY <1>2, <1>3, UnitAssumption, QuorumAssumption DEF Init, TypeInv, TypeOK, Steps

LEMMA TypeInvHolds == Spec => []TypeInv
<1> QED
  BY InitType, NextType, TrustInvHolds, PTL DEF Spec

THEOREM TypeCorrect == Spec => []TypeOK
<1>1. TypeInv => TypeOK
  BY DEF TypeInv
<1> QED
  BY <1>1, TypeInvHolds, PTL

(* Whatever the clients that are not honest send, and whoever they are:    *)
(* while they are outvoted, the model a round arrives at lies within what  *)
(* the honest clients of the round sent.                                   *)
THEOREM HonestBound == Spec => []WithinHonest
<1>1. TypeInv => WithinHonest
  <2> SUFFICES ASSUME TypeInv, DOMAIN cur.updates # {}, Outvoted(cur.updates)
               PROVE  Within(Aggregate(cur.updates), cur.updates)
    BY DEF WithinHonest
  <2>1. /\ cur.line.accepted \in SUBSET Clients /\ method \in Methods
        /\ cur.updates \in [cur.line.accepted -> Update]
    BY DEF TypeInv, TypeOK, Line
  <2> QED
    BY <2>1, AggregateWithin
<1> QED
  BY <1>1, TypeInvHolds, PTL

=============================================================================
