--------------------------- MODULE DnsStageProofs ---------------------------
(***************************************************************************)
(* Theorems about DnsStage, for every size of the queue, of the table of   *)
(* pending queries and of the id space, for any number of queries, and for *)
(* threads that outlive stop().                                            *)
(***************************************************************************)
EXTENDS DnsStage, FiniteSetTheorems, WellFoundedInduction, TLAPS

(* Queries are numbered in the order in which they were offered.           *)
InOrder ==
  \E n \in 0..MaxQueries : \A q \in Queries : fate[q] # "none" <=> q <= n

(* The queue holds each query once, and only queries nobody has taken.     *)
QueueInv ==
  /\ \A i \in 1..Len(inbound) : fate[inbound[i]] = "queued"
  /\ \A i, j \in 1..Len(inbound) : inbound[i] = inbound[j] => i = j

(* The query tx works on has a name, and is nobody else's until it is      *)
(* registered.                                                             *)
TxInv ==
  /\ tx.pc \in {"bypass", "spend", "register", "send", "timer"} =>
       tx.q \in Queries /\ name[tx.q] \in Names /\ fate[tx.q] # "none"
  /\ tx.pc \in {"bypass", "spend", "register"} => fate[tx.q] = "taken"

(* No query is pending under two ids.                                      *)
OneId == \A i, j \in Ids : pending[i] # 0 /\ pending[i] = pending[j] => i = j

TInv == TypeOK /\ TxInv /\ InOrder
PInv == QueueInv /\ OneId /\ WaitingIsPending /\ PendingBounded

-----------------------------------------------------------------------------
(* Operators.                                                              *)

(* What is assumed of the constants, and the sets they define.             *)
LEMMA Constants ==
  /\ NIds \in Nat \ {0} /\ QueueDepth \in Nat \ {0} /\ MaxPending \in Nat \ {0}
  /\ MaxQueries \in Nat \ {0} /\ MaxAttaches \in Nat /\ MaxPending < NIds
  /\ Windscribe \in Names /\ 0 \in Ids /\ Ids \subseteq Nat /\ Queries \subseteq Nat
  /\ 0 \notin Queries
  BY StageAssumptions DEF Ids, Queries

(* A nonempty set of naturals has a least element.                         *)
LEMMA LeastNatural ==
  ASSUME NEW S \in SUBSET Nat, S # {}
  PROVE  \E k \in S : \A j \in S : k <= j
  <1> DEFINE R == {ss \in Nat \X Nat : ss[1] < ss[2]}
  <1>1. IsWellFoundedOn(R, Nat)
    BY NatLessThanWellFounded DEF OpToRel
  <1>2. PICK k \in S : \A j \in S : ~(<<j, k>> \in R)
    <2> HIDE DEF R
    <2> QED
      BY <1>1, WFMin
  <1>3. ASSUME NEW j \in S PROVE k <= j
    <2>1. ~(<<j, k>> \in R)
      BY <1>2
    <2>2. j \in Nat /\ k \in Nat
      OBVIOUS
    <2> QED
      BY <2>1, <2>2
  <1> QED
    BY <1>3

(* The pending table is finite.                                            *)
LEMMA PendingFinite ==
  /\ IsFiniteSet(Ids) /\ Cardinality(Ids) = NIds
  /\ IsFiniteSet(PendingIds) /\ Cardinality(PendingIds) \in Nat /\ PendingIds \subseteq Ids
  <1>1. IsFiniteSet(Ids) /\ Cardinality(Ids) = NIds
    BY Constants, FS_Interval DEF Ids
  <1>2. PendingIds \subseteq Ids
    BY DEF PendingIds
  <1> QED
    BY <1>1, <1>2, FS_Subset, FS_CardinalityType

(* Stepping from one id round the id space reaches every other.            *)
LEMMA RoundTheIds ==
  ASSUME NEW a \in Ids, NEW b \in Ids
  PROVE  \E k \in Ids : (a + k) % NIds = b
  <1>0. NIds \in Nat \ {0} /\ a \in 0..(NIds - 1) /\ b \in 0..(NIds - 1)
    BY Constants DEF Ids
  <1>1. CASE b >= a
    <2>1. b - a \in Ids /\ a + (b - a) = b
      BY <1>0, <1>1 DEF Ids
    <2>2. b % NIds = b
      BY <1>0
    <2> QED
      BY <2>1, <2>2
  <1>2. CASE b < a
    <2>1. b - a + NIds \in Ids /\ a + (b - a + NIds) = b + NIds
      BY <1>0, <1>2 DEF Ids
    <2>2. (b + NIds) % NIds = b
      BY <1>0
    <2> QED
      BY <2>1, <2>2
  <1> QED
    BY <1>0, <1>1, <1>2

(* Ids wrap around.                                                        *)
LEMMA ModIsId ==
  ASSUME NEW x \in Nat
  PROVE  x % NIds \in Ids
  BY Constants DEF Ids

(* allocateUpstreamId() finds an id, and it is free, as long as the limit  *)
(* on pending queries has not been reached.                                *)
LEMMA FreeIdIsFree ==
  ASSUME TypeOK, ~PendingFull
  PROVE  FreeId \in Ids /\ pending[FreeId] = 0
  <1> DEFINE Free(k) == pending[(nextId + k) % NIds] = 0
             S == {k \in Ids : Free(k)}
             First(k) == Free(k) /\ \A j \in 0..(k - 1) : pending[(nextId + j) % NIds] # 0
  <1>1. PICK i \in Ids : pending[i] = 0
    <2>1. PendingIds # Ids
      BY PendingFinite, Constants DEF PendingFull
    <2> QED
      BY <2>1 DEF PendingIds
  <1>2. nextId \in Ids
    BY DEF TypeOK
  <1>3. \E k \in Ids : Free(k)
    BY <1>1, <1>2, RoundTheIds
  <1>4. S \in SUBSET Nat /\ S # {}
    BY <1>3, Constants
  <1>5. PICK k \in S : \A j \in S : k <= j
    <2> HIDE DEF S
    <2> QED
      BY <1>4, LeastNatural
  <1>6. k \in Ids /\ First(k)
    <2>1. ASSUME NEW j \in 0..(k - 1) PROVE ~Free(j)
      <3>1. j \in Ids /\ j < k
        BY <1>5, Constants DEF Ids
      <3> QED
        BY <3>1, <1>5, Constants
    <2> QED
      BY <1>5, <2>1
  <1> DEFINE c == CHOOSE m \in Ids : First(m)
  <1>7. c \in Ids /\ First(c)
    BY <1>6
  <1>8. FreeId = (nextId + c) % NIds
    BY DEF FreeId
  <1>9. (nextId + c) % NIds \in Ids
    <2>0. c \in Ids
      BY <1>7
    <2> HIDE DEF c
    <2>1. nextId + c \in Nat
      BY <1>2, <2>0, Constants
    <2> QED
      BY <2>1, ModIsId
  <1> QED
    BY <1>7, <1>8, <1>9

(* As many queries were offered as there are numbers in use.               *)
LEMMA AskedCounts ==
  ASSUME InOrder
  PROVE  /\ Asked \in 0..MaxQueries
         /\ \A q \in Queries : fate[q] # "none" <=> q <= Asked
  <1>1. PICK n \in 0..MaxQueries : \A q \in Queries : fate[q] # "none" <=> q <= n
    BY DEF InOrder
  <1>2. {q \in Queries : fate[q] # "none"} = 1..n
    BY <1>1, Constants DEF Queries
  <1>3. Cardinality(1..n) = n
    <2>1. n \in Nat /\ n \in Int /\ 1 \in Int
      BY Constants
    <2>2. Cardinality(1..n) = IF 1 > n THEN 0 ELSE n - 1 + 1
      BY <2>1, FS_Interval
    <2> QED
      BY <2>1, <2>2
  <1>4. Asked = n
    BY <1>2, <1>3 DEF Asked
  <1> QED
    BY <1>1, <1>4

-----------------------------------------------------------------------------
(* Types.                                                                  *)

TxPc == {"top", "take", "bypass", "spend", "register", "send", "timer", "exit"}
TxType == [pc : TxPc, q : {0} \cup Queries, id : Ids]
Fates == {"none", "queued", "taken", "waiting", "passed", "dropped", "expired", "answered"}
Flags == {running, socket, timeouts, bypass, told} \subseteq BOOLEAN

(* The types of what is not a flag.                                        *)
DataOK ==
  /\ life \in {"new", "started", "failed", "stopping", "stopped"}
  /\ inbound \in Seq(Queries) /\ Len(inbound) <= QueueDepth
  /\ pending \in [Ids -> {0} \cup Queries] /\ nextId \in Ids
  /\ timers \subseteq [id : Ids, q : Queries] /\ sent \subseteq [id : Ids, name : Names]
  /\ tx \in TxType
  /\ rx \in {"top", "receive", "exit"} /\ attaches \in 0..MaxAttaches
  /\ name \in [Queries -> Names \cup {Malformed}]
  /\ fate \in [Queries -> Fates]

(* The flags and the data make up the type invariant.                      *)
LEMMA TypeParts == TypeOK <=> Flags /\ DataOK
  BY DEF TypeOK, Flags, DataOK, TxType, TxPc, Fates

(* The stage starts typed.                                                 *)
LEMMA InitTyped == Init => TypeOK
  <1> SUFFICES ASSUME Init PROVE TypeOK
    OBVIOUS
  <1>1. Flags
    BY DEF Init, Flags
  <1>2. DataOK
    BY Constants DEF Init, DataOK, TxType, TxPc, Fates
  <1> QED
    BY <1>1, <1>2, TypeParts

(* Every step keeps the flags.                                             *)
LEMMA FlagsTyped == Flags /\ [Next]_vars => Flags'
  <1> SUFFICES ASSUME Flags, [Next]_vars PROVE Flags'
    OBVIOUS
  <1>1. CASE TxSteps
    BY <1>1 DEF Flags, TxSteps, TxLoops, TxTakes, TxTestsBypass, TxSpendsBypass, TxRegisters,
       TxSends, TxArmsTimer, Elsewhere, arming
  <1>2. CASE RxSteps \/ RxFails \/ Expiry
    BY <1>2 DEF Flags, RxSteps, RxLoops, RxTimesOut, RxDelivers, RxFails, Expiry, Expires, arming
  <1>3. CASE \/ Start \/ StartFails \/ StopBegins \/ StopJoins \/ OnEngineAttached
             \/ \E n \in Names \cup {Malformed} : Offer(n)
             \/ \E reply \in sent : ResolverFails(reply)
    BY <1>3 DEF Flags, Start, StartFails, StopBegins, StopJoins, OnEngineAttached, Offer,
       ResolverFails, arming
  <1>4. CASE UNCHANGED vars
    BY <1>4 DEF Flags, vars
  <1> QED
    BY <1>1, <1>2, <1>3, <1>4 DEF Next

(* Moving tx on and settling a query keep their types.                     *)
LEMMA Updates ==
  ASSUME DataOK
  PROVE  /\ \A pc \in TxPc : [tx EXCEPT !.pc = pc] \in TxType
         /\ \A pc \in TxPc, q \in Queries : [tx EXCEPT !.pc = pc, !.q = q] \in TxType
         /\ \A pc \in TxPc, id \in Ids : [tx EXCEPT !.pc = pc, !.id = id] \in TxType
         /\ \A q \in Queries, f \in Fates : [fate EXCEPT ![q] = f] \in [Queries -> Fates]
         /\ \A i \in Ids, q \in {0} \cup Queries :
              [pending EXCEPT ![i] = q] \in [Ids -> {0} \cup Queries]
  <1>1. tx \in TxType
    BY DEF DataOK
  <1>2. /\ \A pc \in TxPc : [tx EXCEPT !.pc = pc] \in TxType
        /\ \A pc \in TxPc, q \in Queries : [tx EXCEPT !.pc = pc, !.q = q] \in TxType
        /\ \A pc \in TxPc, id \in Ids : [tx EXCEPT !.pc = pc, !.id = id] \in TxType
    BY <1>1 DEF TxType
  <1>3. fate \in [Queries -> Fates] /\ pending \in [Ids -> {0} \cup Queries]
    BY DEF DataOK
  <1> QED
    BY <1>2, <1>3

(* Every step keeps the queue, the table, the timers and the answers typed.*)
LEMMA DataTyped == DataOK /\ TypeOK /\ TxInv /\ InOrder /\ [Next]_vars => DataOK'
  <1> SUFFICES ASSUME DataOK, TypeOK, TxInv, InOrder, [Next]_vars PROVE DataOK'
    OBVIOUS
  <1>u. /\ \A pc \in TxPc : [tx EXCEPT !.pc = pc] \in TxType
        /\ \A pc \in TxPc, q \in Queries : [tx EXCEPT !.pc = pc, !.q = q] \in TxType
        /\ \A pc \in TxPc, id \in Ids : [tx EXCEPT !.pc = pc, !.id = id] \in TxType
    BY Updates
  <1>f. /\ \A q \in Queries, f \in Fates : [fate EXCEPT ![q] = f] \in [Queries -> Fates]
        /\ \A i \in Ids, q \in {0} \cup Queries :
             [pending EXCEPT ![i] = q] \in [Ids -> {0} \cup Queries]
    BY Updates
  <1>p. \A f \in {"queued", "taken", "waiting", "passed", "dropped", "expired", "answered"} : f \in Fates
    BY DEF Fates
  <1>c. \A pc \in {"top", "take", "bypass", "spend", "register", "send", "timer", "exit"} : pc \in TxPc
    BY DEF TxPc
  <1>x. tx.q \in {0} \cup Queries /\ tx.id \in Ids
    BY DEF DataOK, TxType
  <1> USE Constants
  <1> USE DEF DataOK, lookup, arming, Elsewhere, TxTo, Settle
  <1>1. ASSUME Start \/ StartFails PROVE DataOK'
    <2>1. tx' \in TxType
      BY <1>1, <1>u, <1>c DEF Start, StartFails
    <2> QED
      BY <1>1, <2>1 DEF Start, StartFails
  <1>2. ASSUME StopBegins PROVE DataOK'
    BY <1>2 DEF StopBegins
  <1>3. ASSUME StopJoins PROVE DataOK'
    <2>1. fate' \in [Queries -> Fates]
      BY <1>3, <1>p DEF StopJoins
    <2>2. /\ pending' \in [Ids -> {0} \cup Queries] /\ timers' = {}
          /\ inbound' \in Seq(Queries) /\ Len(inbound') <= QueueDepth
      BY <1>3 DEF StopJoins
    <2> QED
      BY <1>3, <2>1, <2>2 DEF StopJoins
  <1>4. ASSUME OnEngineAttached PROVE DataOK'
    BY <1>4 DEF OnEngineAttached
  <1>5. ASSUME NEW n \in Names \cup {Malformed}, Offer(n) PROVE DataOK'
    <2>1. Asked + 1 \in Queries
      BY <1>5, AskedCounts DEF Offer, Queries
    <2>2. inbound' \in Seq(Queries) /\ Len(inbound') <= QueueDepth
      BY <1>5, <2>1 DEF Offer
    <2>3. name' \in [Queries -> Names \cup {Malformed}] /\ fate' \in [Queries -> Fates]
      BY <1>5, <2>1, <1>p DEF Offer
    <2> QED
      BY <1>5, <2>2, <2>3 DEF Offer
  <1>6. ASSUME TxLoops PROVE DataOK'
    <2>1. tx' \in TxType
      BY <1>6, <1>u, <1>c DEF TxLoops
    <2> QED
      BY <1>6, <2>1 DEF TxLoops
  <1>7. ASSUME TxTakes PROVE DataOK'
    <2>1. CASE inbound # <<>>
      <3>1. Head(inbound) \in Queries /\ Tail(inbound) \in Seq(Queries) /\ Len(Tail(inbound)) <= QueueDepth
        BY <2>1
      <3>2. tx' \in TxType
        <4>1. \/ tx' = [tx EXCEPT !.pc = "top"]
              \/ tx' = [tx EXCEPT !.pc = "exit"]
              \/ tx' = [tx EXCEPT !.pc = "bypass", !.q = Head(inbound)]
          BY <1>7 DEF TxTakes
        <4>2. CASE tx' = [tx EXCEPT !.pc = "top"] \/ tx' = [tx EXCEPT !.pc = "exit"]
          BY <4>2, <1>u, <1>c
        <4>3. CASE tx' = [tx EXCEPT !.pc = "bypass", !.q = Head(inbound)]
          BY <4>3, <3>1, <1>u, <1>c
        <4> QED
          BY <4>1, <4>2, <4>3
      <3>3. fate' \in [Queries -> Fates]
        BY <1>7, <3>1, <1>f, <1>p DEF TxTakes
      <3>4. inbound' \in Seq(Queries) /\ Len(inbound') <= QueueDepth
        BY <1>7, <3>1 DEF TxTakes
      <3> QED
        BY <1>7, <3>2, <3>3, <3>4 DEF TxTakes
    <2>2. CASE inbound = <<>>
      <3>1. tx' \in TxType
        BY <1>7, <2>2, <1>u, <1>c DEF TxTakes
      <3> QED
        BY <1>7, <2>2, <3>1 DEF TxTakes
    <2> QED
      BY <2>1, <2>2
  <1>8. ASSUME TxTestsBypass PROVE DataOK'
    <2>1. tx' \in TxType
      BY <1>8, <1>u, <1>c DEF TxTestsBypass
    <2> QED
      BY <1>8, <2>1 DEF TxTestsBypass
  <1>9. ASSUME TxSpendsBypass PROVE DataOK'
    <2>1. tx' \in TxType /\ fate' \in [Queries -> Fates]
      BY <1>9, <1>u, <1>c, <1>f, <1>p DEF TxSpendsBypass, TxInv
    <2> QED
      BY <1>9, <2>1 DEF TxSpendsBypass
  <1>10. ASSUME TxRegisters PROVE DataOK'
    <2>q. tx.q \in Queries
      BY <1>10 DEF TxRegisters, TxInv
    <2>1. CASE PendingFull
      <3>1. tx' \in TxType /\ fate' \in [Queries -> Fates]
        <4>1. tx' = [tx EXCEPT !.pc = "top"] /\ fate' = [fate EXCEPT ![tx.q] = "dropped"]
          BY <1>10, <2>1 DEF TxRegisters
        <4> QED
          BY <4>1, <2>q, <1>u, <1>c, <1>f, <1>p
      <3> QED
        BY <1>10, <2>1, <3>1 DEF TxRegisters
    <2>2. CASE ~PendingFull
      <3>1. FreeId \in Ids
        BY <2>2, FreeIdIsFree
      <3>2. (FreeId + 1) % NIds \in Ids
        <4>1. FreeId + 1 \in Nat
          BY <3>1
        <4> QED
          BY <4>1, ModIsId
      <3>3. tx' \in TxType /\ fate' \in [Queries -> Fates]
        <4>1. /\ tx' = [tx EXCEPT !.pc = "send", !.id = FreeId]
              /\ fate' = [fate EXCEPT ![tx.q] = "waiting"]
          BY <1>10, <2>2 DEF TxRegisters
        <4> QED
          BY <4>1, <3>1, <2>q, <1>u, <1>c, <1>f, <1>p
      <3>4. pending' \in [Ids -> {0} \cup Queries] /\ nextId' \in Ids
        BY <1>10, <2>2, <2>q, <3>1, <3>2, <1>f DEF TxRegisters
      <3> QED
        BY <1>10, <3>3, <3>4 DEF TxRegisters
    <2> QED
      BY <2>1, <2>2
  <1>11. ASSUME TxSends PROVE DataOK'
    <2>1. tx' \in TxType
      <3>1. tx' = [tx EXCEPT !.pc = "top"] \/ tx' = [tx EXCEPT !.pc = "timer"]
        BY <1>11 DEF TxSends, SendFails
      <3>2. "top" \in TxPc /\ "timer" \in TxPc
        BY <1>c
      <3> QED
        BY <3>1, <3>2, <1>u
    <2>2. fate' \in [Queries -> Fates] /\ pending' \in [Ids -> {0} \cup Queries]
      <3>1. CASE UNCHANGED <<pending, fate>>
        BY <3>1
      <3>2. CASE SendFails
        <4>1. fate' \in [Queries -> Fates]
          BY <3>2, <1>p DEF SendFails
        <4>2. pending' \in [Ids -> {0} \cup Queries]
          BY <3>2, <1>x DEF SendFails
        <4> QED
          BY <4>1, <4>2
      <3> QED
        BY <1>11, <3>1, <3>2 DEF TxSends
    <2>3. sent' \subseteq [id : Ids, name : Names]
      BY <1>11, <1>x DEF TxSends, SendFails, TxInv
    <2> QED
      BY <1>11, <2>1, <2>2, <2>3 DEF TxSends
  <1>12. ASSUME TxArmsTimer PROVE DataOK'
    <2>0. tx' = [tx EXCEPT !.pc = "top"] /\ tx.q \in Queries
      BY <1>12 DEF TxArmsTimer, TxInv
    <2>1. tx' \in TxType /\ timers' \subseteq [id : Ids, q : Queries]
      <3>1. [id |-> tx.id, q |-> tx.q] \in [id : Ids, q : Queries]
        BY <2>0, <1>x
      <3>2. timers' \subseteq timers \cup {[id |-> tx.id, q |-> tx.q]}
        BY <1>12 DEF TxArmsTimer
      <3>3. timers' \subseteq [id : Ids, q : Queries]
        BY <3>1, <3>2
      <3> QED
        BY <2>0, <3>3, <1>u, <1>c
    <2> QED
      BY <1>12, <2>1 DEF TxArmsTimer
  <1>13. ASSUME RxLoops \/ RxTimesOut \/ RxFails PROVE DataOK'
    BY <1>13 DEF RxLoops, RxTimesOut, RxFails
  <1>14. ASSUME NEW reply \in sent, RxDelivers(reply) PROVE DataOK'
    <2>1. reply.id \in Ids /\ pending[reply.id] \in {0} \cup Queries
      OBVIOUS
    <2>2. fate' \in [Queries -> Fates] /\ pending' \in [Ids -> {0} \cup Queries]
      <3>1. CASE UNCHANGED <<pending, fate>>
        BY <3>1
      <3>2. CASE pending[reply.id] # 0 /\ ~UNCHANGED <<pending, fate>>
        <4>1. /\ pending' = [pending EXCEPT ![reply.id] = 0]
              /\ \E f \in {"answered", "dropped"} : fate' = [fate EXCEPT ![pending[reply.id]] = f]
          BY <1>14, <3>2 DEF RxDelivers
        <4> QED
          BY <4>1, <3>2, <2>1, <1>f, <1>p
      <3> QED
        BY <1>14, <3>1, <3>2 DEF RxDelivers
    <2> QED
      BY <1>14, <2>2 DEF RxDelivers
  <1>15. ASSUME NEW t \in timers, Expires(t) PROVE DataOK'
    <2>1. fate' \in [Queries -> Fates] /\ pending' \in [Ids -> {0} \cup Queries]
      BY <1>15, <1>f, <1>p DEF Expires
    <2> QED
      BY <1>15, <2>1 DEF Expires
  <1>16. ASSUME NEW reply \in sent, ResolverFails(reply) PROVE DataOK'
    <2>1. ASSUME NEW n \in Names PROVE [reply EXCEPT !.name = n] \in [id : Ids, name : Names]
      BY DEF ResolverFails
    <2>2. sent' \subseteq [id : Ids, name : Names]
      <3>1. CASE sent' = sent \ {reply}
        BY <3>1
      <3>2. CASE \E n \in Names \ {reply.name} :
                   sent' = (sent \ {reply}) \cup {[reply EXCEPT !.name = n]}
        BY <3>2, <2>1
      <3> QED
        BY <1>16, <3>1, <3>2 DEF ResolverFails
    <2> QED
      BY <1>16, <2>2 DEF ResolverFails
  <1>17. ASSUME UNCHANGED vars PROVE DataOK'
    BY <1>17 DEF vars
  <1> QED
    BY <1>1, <1>2, <1>3, <1>4, <1>5, <1>6, <1>7, <1>8, <1>9, <1>10, <1>11, <1>12, <1>13,
       <1>14, <1>15, <1>16, <1>17 DEF Next, TxSteps, RxSteps, Expiry

-----------------------------------------------------------------------------
(* The life of a query.                                                    *)

DInv == TInv /\ PInv

(* What one step may make of a query: it is offered, taken from the queue, *)
(* registered or given up by tx, or settled while it waits.  Only the step *)
(* that takes a queued query, or empties the queue, touches a queued one.  *)
FateStep ==
  \A q \in Queries : fate'[q] # fate[q] =>
    \/ fate[q] = "none" /\ fate'[q] \in {"queued", "passed"} /\ q = Asked + 1
    \/ /\ fate[q] = "queued" /\ fate'[q] \in {"taken", "passed", "dropped"}
       /\ \/ inbound' = <<>>
          \/ inbound # <<>> /\ q = Head(inbound) /\ inbound' = Tail(inbound)
    \/ /\ fate[q] = "taken" /\ fate'[q] \in {"waiting", "passed", "dropped"}
       /\ q = tx.q /\ tx'.pc # tx.pc
    \/ fate[q] = "waiting" /\ fate'[q] \in {"answered", "dropped", "expired"}

(* The types of the data, and who is in the table, in the form the steps use. *)
LEMMA Stages ==
  ASSUME DInv
  PROVE  /\ DataOK /\ fate \in [Queries -> Fates] /\ pending \in [Ids -> {0} \cup Queries]
         /\ tx \in TxType /\ \A i \in Ids : pending[i] # 0 => fate[pending[i]] = "waiting"
         /\ inbound \in Seq(Queries) /\ name \in [Queries -> Names \cup {Malformed}]
         /\ \A t \in timers : t.id \in Ids
         /\ \A r \in sent : r.id \in Ids
  <1>1. DataOK
    BY TypeParts DEF DInv, TInv
  <1>2. ASSUME NEW i \in Ids, pending[i] # 0 PROVE fate[pending[i]] = "waiting"
    BY <1>1, <1>2 DEF DInv, PInv, WaitingIsPending, DataOK
  <1> QED
    BY <1>1, <1>2 DEF DataOK

(* A query's fate only moves forward: a settled query stays settled.       *)
LEMMA FatesMove == DInv /\ [Next]_vars => FateStep
  <1> SUFFICES ASSUME DInv, [Next]_vars PROVE FateStep
    OBVIOUS
  <1>t. /\ fate \in [Queries -> Fates] /\ pending \in [Ids -> {0} \cup Queries] /\ tx \in TxType
        /\ \A i \in Ids : pending[i] # 0 => fate[pending[i]] = "waiting"
        /\ inbound \in Seq(Queries)
        /\ \A t \in timers : t.id \in Ids
        /\ \A r \in sent : r.id \in Ids
    BY Stages
  <1>0. CASE UNCHANGED fate
    BY <1>0 DEF FateStep
  <1>1. ASSUME StopJoins PROVE FateStep
    BY <1>1 DEF StopJoins, FateStep
  <1>2. ASSUME NEW n \in Names \cup {Malformed}, Offer(n) PROVE FateStep
    <2>1. Asked + 1 \in Queries /\ fate[Asked + 1] = "none"
      BY <1>2, AskedCounts, Constants DEF Offer, Queries, DInv, TInv
    <2>2. \E f \in {"queued", "passed"} : fate' = [fate EXCEPT ![Asked + 1] = f]
      BY <1>2 DEF Offer
    <2> QED
      BY <1>t, <2>1, <2>2 DEF FateStep
  <1>3. ASSUME TxTakes PROVE FateStep
    <2>1. CASE inbound # <<>>
      <3>1. Head(inbound) \in Queries /\ fate[Head(inbound)] = "queued"
        <4>1. Head(inbound) = inbound[1] /\ 1 \in 1..Len(inbound) /\ inbound[1] \in Queries
          BY <1>t, <2>1
        <4> QED
          BY <4>1 DEF DInv, PInv, QueueInv
      <3>2. \/ fate' = fate
            \/ /\ \E f \in {"passed", "taken"} : fate' = [fate EXCEPT ![Head(inbound)] = f]
               /\ inbound' = Tail(inbound)
        BY <1>3 DEF TxTakes, Settle
      <3> QED
        BY <1>t, <2>1, <3>1, <3>2 DEF FateStep
    <2>2. CASE inbound = <<>>
      BY <1>3, <2>2 DEF TxTakes, FateStep
    <2> QED
      BY <2>1, <2>2
  <1>4. ASSUME TxSpendsBypass PROVE FateStep
    <2>1. tx.q \in Queries /\ fate[tx.q] = "taken"
      BY <1>4 DEF TxSpendsBypass, DInv, TInv, TxInv
    <2>2. tx'.pc = "top" /\ tx.pc = "spend"
      BY <1>4, <1>t DEF TxSpendsBypass, TxTo, TxType
    <2> QED
      BY <1>4, <1>t, <2>1, <2>2 DEF TxSpendsBypass, Settle, FateStep
  <1>5. ASSUME TxRegisters PROVE FateStep
    <2>1. tx.q \in Queries /\ fate[tx.q] = "taken"
      BY <1>5 DEF TxRegisters, DInv, TInv, TxInv
    <2>2. tx'.pc \in {"top", "send"} /\ tx.pc = "register"
      BY <1>5, <1>t DEF TxRegisters, TxTo, TxType
    <2>3. \E f \in {"waiting", "dropped"} : fate' = [fate EXCEPT ![tx.q] = f]
      BY <1>5 DEF TxRegisters, Settle
    <2> QED
      BY <1>t, <2>1, <2>2, <2>3 DEF FateStep
  <1>6. ASSUME TxSends PROVE FateStep
    <2>1. CASE UNCHANGED fate
      BY <2>1, <1>0
    <2>2. CASE SendFails
      <3>1. tx.id \in Ids
        BY <1>t DEF TxType
      <3> QED
        BY <2>2, <3>1, <1>t, Constants DEF SendFails, FateStep
    <2> QED
      BY <1>6, <2>1, <2>2 DEF TxSends
  <1>7. ASSUME NEW reply \in sent, RxDelivers(reply) PROVE FateStep
    <2>1. reply.id \in Ids
      BY <1>t
    <2>2. CASE UNCHANGED fate
      BY <2>2, <1>0
    <2>3. CASE pending[reply.id] # 0 /\ ~UNCHANGED fate
      <3>1. \E f \in {"answered", "dropped"} : fate' = [fate EXCEPT ![pending[reply.id]] = f]
        BY <1>7, <2>3 DEF RxDelivers, Settle
      <3> QED
        BY <2>1, <2>3, <3>1, <1>t DEF FateStep
    <2> QED
      BY <1>7, <2>2, <2>3 DEF RxDelivers
  <1>8. ASSUME NEW t \in timers, Expires(t) PROVE FateStep
    <2>1. t.id \in Ids
      BY <1>t
    <2> QED
      BY <1>8, <2>1, <1>t, Constants DEF Expires, FateStep
  <1> QED
    BY <1>0, <1>1, <1>2, <1>3, <1>4, <1>5, <1>6, <1>7, <1>8
       DEF Next, TxSteps, RxSteps, Expiry, Start, StartFails, StopBegins, OnEngineAttached,
           TxLoops, TxTestsBypass, TxArmsTimer, RxLoops, RxTimesOut, RxFails, ResolverFails, vars

(* Offers number the queries in order, and nothing forgets one.            *)
LEMMA NextOrder == DInv /\ [Next]_vars => InOrder'
  <1> SUFFICES ASSUME DInv, [Next]_vars PROVE InOrder'
    OBVIOUS
  <1>1. FateStep
    BY FatesMove
  <1>2. Asked \in 0..MaxQueries /\ \A q \in Queries : fate[q] # "none" <=> q <= Asked
    BY AskedCounts DEF DInv, TInv
  <1>3. CASE \E q \in Queries : fate[q] = "none" /\ fate'[q] # "none"
    <2>1. Asked + 1 \in Queries /\ fate'[Asked + 1] # "none"
      BY <1>1, <1>3 DEF FateStep
    <2>2. \A q \in Queries : fate'[q] # "none" <=> q <= Asked + 1
      BY <1>1, <1>2, <2>1, Constants DEF FateStep, Queries
    <2>3. Asked + 1 \in 0..MaxQueries
      BY <1>2, <2>1, Constants DEF Queries
    <2> HIDE DEF Asked
    <2> QED
      BY <2>2, <2>3 DEF InOrder
  <1>4. CASE ~\E q \in Queries : fate[q] = "none" /\ fate'[q] # "none"
    <2>1. \A q \in Queries : fate'[q] # "none" <=> q <= Asked
      BY <1>1, <1>2, <1>4 DEF FateStep
    <2> QED
      BY <1>2, <2>1 DEF InOrder
  <1> QED
    BY <1>3, <1>4

(* Nobody settles or renames the query tx is working on.                   *)
LEMMA NextTx == DInv /\ [Next]_vars => TxInv'
  <1> SUFFICES ASSUME DInv, [Next]_vars PROVE TxInv'
    OBVIOUS
  <1>t. /\ tx \in TxType /\ inbound \in Seq(Queries) /\ TxInv /\ FateStep
        /\ name \in [Queries -> Names \cup {Malformed}]
        /\ fate \in [Queries -> Fates]
    BY Stages, FatesMove DEF DInv, TInv
  <1>n. \A q \in Queries : fate[q] # "none" => name'[q] = name[q]
    <2>1. ASSUME NEW n \in Names \cup {Malformed}, Offer(n)
          PROVE  \A q \in Queries : fate[q] # "none" => name'[q] = name[q]
      <3>1. ~(Asked + 1 <= Asked) /\ \A q \in Queries : fate[q] # "none" <=> q <= Asked
        BY AskedCounts, Constants DEF DInv, TInv
      <3>2. name' = [name EXCEPT ![Asked + 1] = n]
        BY <2>1 DEF Offer
      <3> QED
        BY <1>t, <3>1, <3>2
    <2>2. CASE name' = name
      BY <2>2
    <2> QED
      BY <2>1, <2>2 DEF Next, TxSteps, RxSteps, Expiry, Start, StartFails, StopBegins, StopJoins,
         OnEngineAttached, TxLoops, TxTakes, TxTestsBypass, TxSpendsBypass, TxRegisters, TxSends,
         TxArmsTimer, RxLoops, RxTimesOut, RxDelivers, RxFails, Expires, ResolverFails, Elsewhere,
         vars
  <1>1. CASE tx' = tx
    BY <1>1, <1>t, <1>n DEF TxInv, FateStep
  <1>2. CASE tx'.pc \in {"top", "take", "exit"}
    BY <1>2 DEF TxInv
  <1>3. ASSUME TxTakes, tx'.pc \notin {"top", "take", "exit"} PROVE TxInv'
    <2>1. /\ inbound # <<>> /\ tx' = [tx EXCEPT !.pc = "bypass", !.q = Head(inbound)]
          /\ fate' = [fate EXCEPT ![Head(inbound)] = "taken"]
          /\ name[Head(inbound)] # Malformed /\ name' = name
      BY <1>3, <1>t DEF TxTakes, TxTo, Settle, Elsewhere, TxType
    <2>2. Head(inbound) \in Queries
      BY <2>1, <1>t
    <2>3. tx'.q = Head(inbound) /\ tx'.pc = "bypass"
      BY <2>1, <1>t DEF TxType
    <2> QED
      BY <1>t, <2>1, <2>2, <2>3 DEF TxInv
  <1>4. ASSUME TxTestsBypass PROVE TxInv'
    <2>1. tx'.pc \in {"spend", "register"} /\ tx'.q = tx.q /\ tx.pc = "bypass" /\ fate' = fate /\ name' = name
      BY <1>4, <1>t DEF TxTestsBypass, TxTo, TxType, Elsewhere
    <2> QED
      BY <1>t, <2>1 DEF TxInv
  <1>5. ASSUME TxRegisters, tx'.pc \notin {"top", "take", "exit"} PROVE TxInv'
    <2>1. tx'.pc = "send" /\ tx'.q = tx.q /\ tx.pc = "register"
      BY <1>5, <1>t DEF TxRegisters, TxTo, TxType
    <2> QED
      BY <1>t, <1>n, <2>1 DEF TxInv, FateStep
  <1>6. ASSUME TxSends, tx'.pc \notin {"top", "take", "exit"} PROVE TxInv'
    <2>1. tx'.pc = "timer" /\ tx'.q = tx.q /\ tx.pc = "send"
      BY <1>6, <1>t DEF TxSends, SendFails, TxTo, TxType
    <2> QED
      BY <1>t, <1>n, <2>1 DEF TxInv, FateStep
  <1>7. ASSUME TxLoops \/ TxSpendsBypass \/ TxArmsTimer \/ Start PROVE tx'.pc \in {"top", "take", "exit"}
    BY <1>7, <1>t DEF TxLoops, TxSpendsBypass, TxArmsTimer, Start, TxTo, TxType
  <1>8. \/ tx' = tx \/ TxTakes \/ TxTestsBypass \/ TxRegisters \/ TxSends
        \/ TxLoops \/ TxSpendsBypass \/ TxArmsTimer \/ Start
    BY DEF Next, TxSteps, RxSteps, Expiry, StartFails, StopBegins, StopJoins, OnEngineAttached,
       Offer, RxLoops, RxTimesOut, RxDelivers, RxFails, Expires, ResolverFails, vars
  <1> QED
    BY <1>1, <1>2, <1>3, <1>4, <1>5, <1>6, <1>7, <1>8

(* The queue keeps what it holds until it is taken or dropped with it.     *)
LEMMA NextQueue == DInv /\ [Next]_vars => QueueInv'
  <1> SUFFICES ASSUME DInv, [Next]_vars PROVE QueueInv'
    OBVIOUS
  <1>t. inbound \in Seq(Queries) /\ FateStep /\ QueueInv /\ fate \in [Queries -> Fates]
    BY Stages, FatesMove DEF DInv, PInv
  <1>e. \A i \in 1..Len(inbound) : inbound[i] \in Queries
    BY <1>t
  <1>1. CASE inbound' = inbound
    <2>1. ASSUME NEW i \in 1..Len(inbound) PROVE fate'[inbound[i]] = "queued"
      <3>1. inbound # <<>> /\ Tail(inbound) # inbound
        BY <1>t, <2>1
      <3>2. fate[inbound[i]] = "queued" /\ inbound[i] \in Queries
        BY <1>t, <1>e DEF QueueInv
      <3> QED
        BY <1>1, <1>t, <3>1, <3>2 DEF FateStep
    <2> QED
      BY <1>1, <1>t, <2>1 DEF QueueInv
  <1>2. CASE inbound' = <<>>
    BY <1>2 DEF QueueInv
  <1>3. CASE inbound # <<>> /\ inbound' = Tail(inbound) /\ inbound' # <<>>
    <2>1. /\ Len(inbound') = Len(inbound) - 1 /\ Len(inbound) \in Nat
          /\ \A i \in 1..Len(inbound') : inbound'[i] = inbound[i + 1] /\ i + 1 \in 1..Len(inbound)
      BY <1>3, <1>t
    <2>2. 1 \in 1..Len(inbound) /\ Head(inbound) = inbound[1]
      BY <1>3, <1>t
    <2>3. ASSUME NEW i \in 1..Len(inbound') PROVE fate'[inbound'[i]] = "queued"
      <3>1. inbound'[i] = inbound[i + 1] /\ i + 1 \in 1..Len(inbound) /\ i + 1 # 1
        BY <2>1
      <3>2. inbound'[i] # Head(inbound)
        BY <3>1, <2>2, <1>t DEF QueueInv
      <3>3. fate[inbound'[i]] = "queued" /\ inbound'[i] \in Queries
        BY <3>1, <1>t, <1>e DEF QueueInv
      <3> QED
        BY <3>2, <3>3, <1>3, <1>t DEF FateStep
    <2>4. ASSUME NEW i \in 1..Len(inbound'), NEW j \in 1..Len(inbound'), inbound'[i] = inbound'[j]
          PROVE  i = j
      <3>1. inbound[i + 1] = inbound[j + 1] /\ i + 1 \in 1..Len(inbound) /\ j + 1 \in 1..Len(inbound)
        BY <2>1, <2>4
      <3>2. i + 1 = j + 1
        BY <3>1, <1>t DEF QueueInv
      <3> QED
        BY <3>2
    <2> QED
      BY <2>3, <2>4 DEF QueueInv
  <1>4. ASSUME NEW n \in Names \cup {Malformed}, Offer(n), inbound' # inbound PROVE QueueInv'
    <2> DEFINE q == Asked + 1
    <2>1. q \in Queries /\ fate[q] = "none"
      BY <1>4, AskedCounts, Constants DEF Offer, Queries, DInv, TInv
    <2>2. inbound' = Append(inbound, q) /\ fate' = [fate EXCEPT ![q] = "queued"]
      BY <1>4 DEF Offer
    <2> HIDE DEF q
    <2>3. /\ Len(inbound') = Len(inbound) + 1 /\ inbound'[Len(inbound) + 1] = q
          /\ \A i \in 1..Len(inbound) : inbound'[i] = inbound[i]
          /\ Len(inbound) \in Nat
      BY <2>1, <2>2, <1>t
    <2>4. \A i \in 1..Len(inbound) : inbound[i] # q
      BY <2>1, <1>t DEF QueueInv
    <2>5. ASSUME NEW i \in 1..Len(inbound') PROVE fate'[inbound'[i]] = "queued"
      <3>1. CASE i = Len(inbound) + 1
        BY <3>1, <2>1, <2>2, <2>3, <1>t
      <3>2. CASE i \in 1..Len(inbound)
        BY <3>2, <2>2, <2>3, <2>4, <1>t, <1>e DEF QueueInv
      <3> QED
        BY <2>3, <3>1, <3>2
    <2>6. ASSUME NEW i \in 1..Len(inbound'), NEW j \in 1..Len(inbound'), inbound'[i] = inbound'[j]
          PROVE  i = j
      BY <2>3, <2>4, <2>6, <1>t DEF QueueInv
    <2> QED
      BY <2>5, <2>6 DEF QueueInv
  <1>5. \/ inbound' = inbound \/ inbound' = <<>>
        \/ inbound # <<>> /\ inbound' = Tail(inbound)
        \/ \E n \in Names \cup {Malformed} : Offer(n)
    <2>1. CASE TxTakes
      BY <2>1 DEF TxTakes
    <2>2. CASE StopJoins
      BY <2>2 DEF StopJoins
    <2>3. CASE \/ RxSteps \/ RxFails \/ Expiry \/ Start \/ StartFails \/ StopBegins
               \/ OnEngineAttached \/ \E reply \in sent : ResolverFails(reply)
      BY <2>3 DEF RxSteps, Expiry, Start, StartFails, StopBegins, OnEngineAttached, RxLoops,
         RxTimesOut, RxDelivers, RxFails, Expires, ResolverFails
    <2>4. CASE \/ TxLoops \/ TxTestsBypass \/ TxSpendsBypass \/ TxRegisters \/ TxSends
               \/ TxArmsTimer \/ UNCHANGED vars
      BY <2>4 DEF TxLoops, TxTestsBypass, TxSpendsBypass, TxRegisters, TxSends, TxArmsTimer, vars
    <2> QED
      BY <2>1, <2>2, <2>3, <2>4 DEF Next, TxSteps
  <1> QED
    BY <1>1, <1>2, <1>3, <1>4, <1>5

-----------------------------------------------------------------------------
(* The pending table.                                                      *)

Table == OneId /\ WaitingIsPending /\ PendingBounded

(* Taking the entry of an id away, and settling the query it waited for.   *)
LEMMA EntryRemoved ==
  ASSUME DInv, NEW i \in Ids, NEW f \in Fates, f # "waiting",
         pending' = [pending EXCEPT ![i] = 0],
         \A q \in Queries : fate'[q] = IF q = pending[i] THEN f ELSE fate[q]
  PROVE  Table'
  <1>t. pending \in [Ids -> {0} \cup Queries] /\ OneId /\ WaitingIsPending /\ PendingBounded
    BY Stages DEF DInv, PInv
  <1>1. OneId'
    BY <1>t DEF OneId
  <1>2. WaitingIsPending'
    <2> SUFFICES ASSUME NEW q \in Queries
                 PROVE  fate'[q] = "waiting" <=> \E j \in Ids : pending'[j] = q
      BY DEF WaitingIsPending
    <2>0. q # 0
      BY Constants
    <2>1. CASE q = pending[i]
      BY <2>0, <2>1, <1>t DEF OneId
    <2>2. CASE q # pending[i]
      BY <2>0, <2>2, <1>t DEF WaitingIsPending
    <2> QED
      BY <2>1, <2>2
  <1>3. PendingBounded'
    <2>1. PendingIds' \in SUBSET PendingIds
      BY <1>t DEF PendingIds
    <2>2. Cardinality(PendingIds') <= Cardinality(PendingIds) /\ Cardinality(PendingIds') \in Nat
      BY <2>1, PendingFinite, FS_Subset, FS_CardinalityType
    <2> QED
      BY <1>t, <2>2, PendingFinite, Constants DEF PendingBounded
  <1> QED
    BY <1>1, <1>2, <1>3 DEF Table

(* Steps that leave the table alone leave the queries that wait alone.     *)
LEMMA TableKept ==
  ASSUME Table, pending' = pending, \A q \in Queries : fate'[q] = "waiting" <=> fate[q] = "waiting"
  PROVE  Table'
  BY DEF Table, OneId, WaitingIsPending, PendingBounded, PendingIds

(* Every step keeps the table of pending queries and its limit.            *)
LEMMA NextTable == DInv /\ [Next]_vars => Table'
  <1> SUFFICES ASSUME DInv, [Next]_vars PROVE Table'
    OBVIOUS
  <1>t. /\ pending \in [Ids -> {0} \cup Queries] /\ fate \in [Queries -> Fates] /\ tx \in TxType
        /\ inbound \in Seq(Queries) /\ Table /\ FateStep
        /\ \A t \in timers : t.id \in Ids
        /\ \A r \in sent : r.id \in Ids
        /\ \A i \in Ids : pending[i] # 0 => fate[pending[i]] = "waiting"
    BY Stages, FatesMove DEF DInv, PInv, Table
  <1>0. CASE UNCHANGED <<pending, fate>>
    BY <1>0, <1>t, TableKept
  <1>1. ASSUME StopJoins PROVE Table'
    <2>1. pending' = [i \in Ids |-> 0] /\ \A q \in Queries : fate'[q] # "waiting"
      BY <1>1, <1>t DEF StopJoins
    <2>2. PendingIds' = {}
      BY <2>1 DEF PendingIds
    <2>3. PendingBounded'
      BY <2>2, FS_EmptySet, Constants DEF PendingBounded
    <2> QED
      BY <2>1, <2>3, Constants DEF Table, OneId, WaitingIsPending
  <1>2. ASSUME NEW n \in Names \cup {Malformed}, Offer(n) PROVE Table'
    <2>0. Asked + 1 \in Queries /\ fate[Asked + 1] = "none"
      BY <1>2, AskedCounts, Constants DEF Offer, Queries, DInv, TInv
    <2>a. \E f \in {"queued", "passed"} : fate' = [fate EXCEPT ![Asked + 1] = f]
      BY <1>2 DEF Offer
    <2>1. \A q \in Queries : fate'[q] = "waiting" <=> fate[q] = "waiting"
      BY <2>0, <2>a, <1>t
    <2> QED
      BY <1>2, <2>1, <1>t, TableKept DEF Offer, lookup
  <1>3. ASSUME TxTakes PROVE Table'
    <2>1. \A q \in Queries : fate'[q] = "waiting" <=> fate[q] = "waiting"
      <3>1. CASE fate' = fate
        BY <3>1
      <3>2. CASE fate' # fate
        <4>1. /\ inbound # <<>> /\ \E f \in {"passed", "taken"} : fate' = [fate EXCEPT ![Head(inbound)] = f]
          BY <1>3, <3>2 DEF TxTakes, Settle
        <4>2. Head(inbound) = inbound[1] /\ 1 \in 1..Len(inbound)
          BY <4>1, <1>t
        <4>3. fate[Head(inbound)] = "queued"
          BY <4>2 DEF DInv, PInv, QueueInv
        <4> QED
          BY <4>1, <4>3, <1>t
      <3> QED
        BY <3>1, <3>2
    <2> QED
      BY <1>3, <2>1, <1>t, TableKept DEF TxTakes, lookup
  <1>4. ASSUME TxSpendsBypass PROVE Table'
    <2>1. fate[tx.q] = "taken" /\ tx.q \in Queries
      BY <1>4 DEF TxSpendsBypass, DInv, TInv, TxInv
    <2>2. \A q \in Queries : fate'[q] = "waiting" <=> fate[q] = "waiting"
      BY <1>4, <2>1, <1>t DEF TxSpendsBypass, Settle
    <2> QED
      BY <1>4, <2>2, <1>t, TableKept DEF TxSpendsBypass, lookup
  <1>5. ASSUME TxRegisters PROVE Table'
    <2>1. fate[tx.q] = "taken" /\ tx.q \in Queries /\ tx.q # 0
      BY <1>5, Constants DEF TxRegisters, DInv, TInv, TxInv
    <2>2. CASE PendingFull
      <3>1. \A q \in Queries : fate'[q] = "waiting" <=> fate[q] = "waiting"
        BY <1>5, <2>1, <2>2, <1>t DEF TxRegisters, Settle
      <3> QED
        BY <1>5, <2>2, <3>1, <1>t, TableKept DEF TxRegisters
    <2>3. CASE ~PendingFull
      <3>1. FreeId \in Ids /\ pending[FreeId] = 0
        BY <2>3, FreeIdIsFree DEF DInv, TInv
      <3>2. /\ pending' = [pending EXCEPT ![FreeId] = tx.q]
            /\ fate' = [fate EXCEPT ![tx.q] = "waiting"]
        BY <1>5, <2>3 DEF TxRegisters, Settle
      <3>3. \A i \in Ids : pending[i] # tx.q
        BY <2>1, <1>t
      <3> HIDE DEF FreeId
      <3>4. OneId'
        BY <3>1, <3>2, <3>3, <1>t DEF OneId, Table
      <3>5. WaitingIsPending'
        <4> SUFFICES ASSUME NEW q \in Queries
                     PROVE  fate'[q] = "waiting" <=> \E j \in Ids : pending'[j] = q
          BY DEF WaitingIsPending
        <4>0. q # 0
          BY Constants
        <4>1. CASE q = tx.q
          BY <4>1, <3>1, <3>2, <1>t, <2>1
        <4>2. CASE q # tx.q
          <5>1. fate'[q] = fate[q]
            BY <4>2, <3>2, <1>t, <2>1
          <5>2. \A j \in Ids : pending'[j] = q <=> pending[j] = q
            BY <4>0, <4>2, <3>1, <3>2, <1>t
          <5> QED
            BY <5>1, <5>2, <1>t DEF Table, WaitingIsPending
        <4> QED
          BY <4>1, <4>2
      <3>6. PendingBounded'
        <4>1. PendingIds' = PendingIds \cup {FreeId}
          BY <3>1, <3>2, <1>t, <2>1 DEF PendingIds
        <4>a. Cardinality(PendingIds \cup {FreeId}) =
                IF FreeId \in PendingIds THEN Cardinality(PendingIds) ELSE Cardinality(PendingIds) + 1
          BY PendingFinite, FS_AddElement
        <4>2. Cardinality(PendingIds') <= Cardinality(PendingIds) + 1
          <5>1. Cardinality(PendingIds) \in Nat
            BY PendingFinite
          <5> QED
            BY <4>1, <4>a, <5>1
        <4>3. Cardinality(PendingIds') \in Nat
          BY <4>1, PendingFinite, FS_AddElement, FS_CardinalityType
        <4> QED
          BY <4>2, <4>3, <2>3, PendingFinite, Constants DEF PendingBounded, PendingFull
      <3> QED
        BY <3>4, <3>5, <3>6 DEF Table
    <2> QED
      BY <2>2, <2>3
  <1>6. ASSUME TxSends PROVE Table'
    <2>1. CASE UNCHANGED <<pending, fate>>
      BY <2>1, <1>0
    <2>2. CASE SendFails
      <3>1. tx.id \in Ids /\ "dropped" \in Fates
        BY <1>t DEF TxType, Fates
      <3>2. /\ pending' = [pending EXCEPT ![tx.id] = 0]
            /\ \A q \in Queries : fate'[q] = IF q = pending[tx.id] THEN "dropped" ELSE fate[q]
        BY <2>2 DEF SendFails
      <3> QED
        BY <3>1, <3>2, EntryRemoved
    <2> QED
      BY <1>6, <2>1, <2>2 DEF TxSends
  <1>7. ASSUME NEW reply \in sent, RxDelivers(reply) PROVE Table'
    <2>1. reply.id \in Ids
      BY <1>t
    <2>2. CASE pending[reply.id] = 0
      BY <1>7, <2>2, <1>0 DEF RxDelivers
    <2>3. CASE pending[reply.id] # 0
      <3>1. PICK f \in {"answered", "dropped"} : fate' = [fate EXCEPT ![pending[reply.id]] = f]
        BY <1>7, <2>3 DEF RxDelivers, Settle
      <3>2. pending' = [pending EXCEPT ![reply.id] = 0]
        BY <1>7, <2>3 DEF RxDelivers
      <3>3. \A q \in Queries : fate'[q] = IF q = pending[reply.id] THEN f ELSE fate[q]
        BY <3>1, <1>t
      <3>4. f \in Fates /\ f # "waiting"
        BY DEF Fates
      <3> QED
        BY <2>1, <3>2, <3>3, <3>4, EntryRemoved
    <2> QED
      BY <2>2, <2>3
  <1>8. ASSUME NEW t \in timers, Expires(t) PROVE Table'
    <2>1. t.id \in Ids /\ "expired" \in Fates
      BY <1>t DEF Fates
    <2>2. /\ pending' = [pending EXCEPT ![t.id] = 0]
          /\ \A q \in Queries : fate'[q] = IF q = pending[t.id] THEN "expired" ELSE fate[q]
      BY <1>8 DEF Expires
    <2> QED
      BY <2>1, <2>2, EntryRemoved
  <1>9. CASE \/ Start \/ StartFails \/ StopBegins \/ OnEngineAttached \/ TxLoops \/ TxTestsBypass
             \/ TxArmsTimer \/ RxLoops \/ RxTimesOut \/ RxFails
             \/ (\E reply \in sent : ResolverFails(reply)) \/ UNCHANGED vars
    <2>1. UNCHANGED <<pending, fate>>
      BY <1>9 DEF Start, StartFails, StopBegins, OnEngineAttached, TxLoops, TxTestsBypass,
         TxArmsTimer, RxLoops, RxTimesOut, RxFails, ResolverFails, vars, lookup
    <2> QED
      BY <2>1, <1>0
  <1> QED
    BY <1>1, <1>2, <1>3, <1>4, <1>5, <1>6, <1>7, <1>8, <1>9 DEF Next, TxSteps, RxSteps, Expiry

-----------------------------------------------------------------------------
(* The theorems.                                                           *)

(* The invariant holds throughout.                                         *)
LEMMA DnsInductive == Spec => []DInv
  <1>1. Init => DInv
    <2> SUFFICES ASSUME Init PROVE DInv
      OBVIOUS
    <2>1. InOrder
      <3>1. 0 \in 0..MaxQueries /\ \A q \in Queries : fate[q] # "none" <=> q <= 0
        BY Constants DEF Init, Queries
      <3> QED
        BY <3>1 DEF InOrder
    <2>2. TxInv /\ QueueInv /\ OneId
      BY DEF Init, TxInv, QueueInv, OneId
    <2>3. WaitingIsPending
      BY Constants DEF Init, WaitingIsPending
    <2>4. PendingBounded
      <3>1. PendingIds = {}
        BY DEF Init, PendingIds
      <3> QED
        BY <3>1, FS_EmptySet, Constants DEF PendingBounded
    <2> QED
      BY <2>1, <2>2, <2>3, <2>4, InitTyped DEF DInv, TInv, PInv
  <1>2. DInv /\ [Next]_vars => DInv'
    <2> SUFFICES ASSUME DInv, [Next]_vars PROVE DInv'
      OBVIOUS
    <2>1. Flags' /\ DataOK'
      BY FlagsTyped, DataTyped, TypeParts DEF DInv, TInv
    <2>2. TypeOK'
      BY <2>1 DEF TypeOK, Flags, DataOK, TxType, TxPc, Fates
    <2> QED
      BY <2>2, NextOrder, NextTx, NextQueue, NextTable DEF DInv, TInv, PInv, Table
  <1> QED
    BY <1>1, <1>2, PTL DEF Spec

(* The stage keeps its types: ids stay in the id space however they wrap,  *)
(* the queue never exceeds QUEUE_DEPTH, and allocateUpstreamId() always    *)
(* finds an id when MAX_PENDING has not been reached.                      *)
THEOREM DnsTypeCorrect == Spec => []TypeOK
  <1>1. DInv => TypeOK
    BY DEF DInv, TInv
  <1> QED
    BY <1>1, DnsInductive, PTL

(* No query in flight loses its entry to another: ids that wrap around,    *)
(* answers, timers and failed sends each leave exactly the entries of the  *)
(* queries that still wait.                                                *)
THEOREM DnsEntriesAreWaiting == Spec => []WaitingIsPending
  <1>1. DInv => WaitingIsPending
    BY DEF DInv, PInv
  <1> QED
    BY <1>1, DnsInductive, PTL

(* MAX_PENDING bounds the table, also while threads outlive stop().        *)
THEOREM DnsPendingBounded == Spec => []PendingBounded
  <1>1. DInv => PendingBounded
    BY DEF DInv, PInv
  <1> QED
    BY <1>1, DnsInductive, PTL

(* An app is only given an answer to the name it asked.                    *)
THEOREM DnsAnswersTheQuestion == Spec => AnswersTheQuestion
  <1>1. DInv /\ [Next]_vars =>
          [\A q \in Queries : (fate[q] # "answered" /\ fate'[q] = "answered")
              => \E reply \in sent \ sent' : reply.name = name[q]]_vars
    <2> SUFFICES ASSUME DInv, Next, NEW q \in Queries, fate[q] # "answered", fate'[q] = "answered"
                 PROVE  \E reply \in sent \ sent' : reply.name = name[q]
      OBVIOUS
    <2>t. /\ fate \in [Queries -> Fates] /\ pending \in [Ids -> {0} \cup Queries]
          /\ inbound \in Seq(Queries) /\ \A r \in sent : r.id \in Ids
      BY Stages
    <2>1. PICK reply \in sent : RxDelivers(reply)
      <3>1. FateStep /\ fate[q] = "waiting"
        BY FatesMove DEF FateStep
      <3>2. ~StopJoins
        BY <3>1 DEF StopJoins
      <3>3. ~\E n \in Names \cup {Malformed} : Offer(n)
        BY <3>1, <2>t DEF Offer
      <3>4. ~TxTakes /\ ~TxSpendsBypass /\ ~TxRegisters
        BY <3>1, <2>t DEF TxTakes, TxSpendsBypass, TxRegisters, Settle
      <3>5. ~TxSends
        BY <3>1 DEF TxSends, SendFails
      <3>6. ~Expiry
        BY <3>1 DEF Expiry, Expires
      <3> QED
        BY <3>1, <3>2, <3>3, <3>4, <3>5, <3>6 DEF Next, TxSteps, RxSteps, Start, StartFails,
           StopBegins, OnEngineAttached, TxLoops, TxTestsBypass, TxArmsTimer, RxLoops, RxTimesOut,
           RxFails, ResolverFails
    <2>2. pending[reply.id] \in Queries /\ q = pending[reply.id] /\ QuestionMatches(reply, q)
      BY <2>1, <2>t DEF RxDelivers, Settle
    <2>3. sent' = sent \ {reply}
      BY <2>1 DEF RxDelivers
    <2> QED
      BY <2>2, <2>3 DEF QuestionMatches
  <1> QED
    BY <1>1, DnsInductive, PTL DEF Spec, AnswersTheQuestion

(* What became of a query is never revised.                                *)
THEOREM DnsSettlesOnce == Spec => SettledOnce
  <1>1. DInv /\ [Next]_vars =>
          [\A q \in Queries : fate[q] \in {"passed", "dropped", "expired", "answered"}
              => fate'[q] = fate[q]]_vars
    BY FatesMove DEF FateStep
  <1> QED
    BY <1>1, DnsInductive, PTL DEF Spec, SettledOnce

=============================================================================
