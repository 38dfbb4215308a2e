----------------------------- MODULE DnsStage ------------------------------
(***************************************************************************)
(* The DNS stage of the packet path: ControlDDnsStage.                     *)
(*                                                                         *)
(* The egress pump offers UDP/53 packets to a bounded queue.  A tx thread  *)
(* gives each query an upstream transaction id of the stage's own and      *)
(* sends it to the local resolver; an rx thread matches the answers by     *)
(* that id; a timer per query drops the ones nobody answers.  Ids wrap     *)
(* around, and neither a late answer nor an old timer is ever cancelled.   *)
(*                                                                         *)
(* A query is a number, in the order of the offers; 0 is null.             *)
(***************************************************************************)
EXTENDS Integers, Sequences, FiniteSets

CONSTANTS
  Names,        \* the names apps ask for
  Windscribe,   \* the one among them under windscribe.com
  NIds,         \* upstream ids: 0x10000
  QueueDepth,   \* QUEUE_DEPTH
  MaxPending,   \* MAX_PENDING
  MaxQueries,   \* bound on the queries of a behaviour
  MaxAttaches,  \* bound on the engine attaches of a behaviour
  MayTimeOut    \* a thread may outlive the bounded join of stop()

ASSUME StageAssumptions ==
  /\ Windscribe \in Names /\ MayTimeOut \in BOOLEAN
  /\ {NIds, QueueDepth, MaxPending, MaxQueries} \subseteq Nat \ {0}
  /\ MaxPending < NIds /\ MaxAttaches \in Nat

Ids == 0..(NIds - 1)
Queries == 1..MaxQueries
Malformed == "malformed"    \* a packet in which no DNS query is found

VARIABLES
  life,      \* "new", "started", "failed" at start, "stopping", "stopped"
  running, socket, inbound, pending, nextId,
  timeouts,  \* the executor is alive
  timers,    \* expiries scheduled on it
  tx, rx,    \* the two threads
  bypass,    \* windscribeBypassAvailable
  name, fate,
  sent,      \* datagrams at the resolver, or answers on the way back
  told,      \* onDnsStageFailure was called
  attaches

vars == <<life, running, socket, inbound, pending, nextId, timeouts, timers, tx, rx, bypass,
          name, fate, sent, told, attaches>>
lookup == <<pending, nextId, timers, sent>>
arming == <<bypass, attaches>>

Asked == Cardinality({q \in Queries : fate[q] # "none"})
PendingIds == {i \in Ids : pending[i] # 0}

Init ==
  /\ life = "new" /\ running = FALSE /\ socket = FALSE /\ inbound = <<>>
  /\ pending = [i \in Ids |-> 0] /\ nextId \in Ids
  /\ timeouts = FALSE /\ timers = {}
  /\ tx = [pc |-> "exit", q |-> 0, id |-> 0] /\ rx = "exit"
  /\ bypass = TRUE /\ attaches = 0
  /\ name = [q \in Queries |-> Malformed] /\ fate = [q \in Queries |-> "none"]
  /\ sent = {} /\ told = FALSE

-----------------------------------------------------------------------------
(* Called by the mux.                                                      *)

Start ==
  /\ life = "new" /\ life' = "started"
  /\ running' = TRUE /\ socket' = TRUE /\ timeouts' = TRUE
  /\ tx' = [tx EXCEPT !.pc = "top"] /\ rx' = "top"
  /\ UNCHANGED <<inbound, lookup, arming, name, fate, told>>

(* No socket after CONNECT_ATTEMPTS: reported, and the stage stays down.   *)
StartFails ==
  /\ life = "new" /\ life' = "failed"
  /\ told' = TRUE
  /\ UNCHANGED <<running, socket, inbound, lookup, timeouts, tx, rx, arming, name, fate>>

(* offer(): a query that is not taken goes to the engine, never waits.     *)
Offer(n) ==
  /\ life # "new" /\ Asked < MaxQueries
  /\ LET q == Asked + 1
         taken == running /\ Len(inbound) < QueueDepth
     IN  /\ name' = [name EXCEPT ![q] = n]
         /\ fate' = [fate EXCEPT ![q] = IF taken THEN "queued" ELSE "passed"]
         /\ inbound' = IF taken THEN Append(inbound, q) ELSE inbound
  /\ UNCHANGED <<life, running, socket, lookup, timeouts, tx, rx, arming, told>>

OnEngineAttached ==
  /\ life # "new" /\ attaches < MaxAttaches
  /\ attaches' = attaches + 1 /\ bypass' = TRUE
  /\ UNCHANGED <<life, running, socket, inbound, lookup, timeouts, tx, rx, name, fate, told>>

(* stop() after a failure closes the socket and leaves the rest.           *)
StopBegins ==
  /\ life \in {"started", "failed"}
  /\ life' = IF running THEN "stopping" ELSE "stopped"
  /\ running' = FALSE /\ socket' = FALSE
  /\ UNCHANGED <<inbound, lookup, timeouts, tx, rx, arming, name, fate, told>>

StopJoins ==
  /\ life = "stopping" /\ life' = "stopped"
  /\ (tx.pc = "exit" /\ rx = "exit") \/ MayTimeOut
  /\ timeouts' = FALSE /\ timers' = {}
  /\ pending' = [i \in Ids |-> 0] /\ inbound' = <<>>
  /\ fate' = [q \in Queries |->
                IF fate[q] \in {"queued", "waiting"} THEN "dropped" ELSE fate[q]]
  /\ UNCHANGED <<running, socket, nextId, tx, rx, arming, name, sent, told>>

-----------------------------------------------------------------------------
(* The tx thread: txLoop() and handleQuery().                              *)

TxTo(pc) == tx' = [tx EXCEPT !.pc = pc]
Settle(q, f) == fate' = [fate EXCEPT ![q] = f]
Elsewhere == UNCHANGED <<life, running, socket, timeouts, rx, name, told>>

TxLoops ==
  /\ tx.pc = "top"
  /\ TxTo(IF running THEN "take" ELSE "exit")
  /\ Elsewhere /\ UNCHANGED <<inbound, lookup, arming, fate>>

(* A packet, nothing for 200 ms, or the interrupt of stop().               *)
TxTakes ==
  /\ tx.pc = "take"
  /\ \/ /\ inbound # <<>>
        /\ inbound' = Tail(inbound)
        /\ IF name[Head(inbound)] = Malformed
           THEN TxTo("top") /\ Settle(Head(inbound), "passed")
           ELSE /\ tx' = [tx EXCEPT !.pc = "bypass", !.q = Head(inbound)]
                /\ Settle(Head(inbound), "taken")
     \/ inbound = <<>> /\ TxTo("top") /\ UNCHANGED <<inbound, fate>>
     \/ life = "stopping" /\ TxTo("exit") /\ UNCHANGED <<inbound, fate>>
  /\ Elsewhere /\ UNCHANGED <<lookup, arming>>

(* shouldBypass() tests the flag here and clears it in a later step.       *)
TxTestsBypass ==
  /\ tx.pc = "bypass"
  /\ TxTo(IF bypass /\ name[tx.q] = Windscribe THEN "spend" ELSE "register")
  /\ Elsewhere /\ UNCHANGED <<inbound, lookup, bypass, attaches, fate>>

TxSpendsBypass ==
  /\ tx.pc = "spend"
  /\ bypass' = FALSE
  /\ Settle(tx.q, "passed") /\ TxTo("top")
  /\ Elsewhere /\ UNCHANGED <<inbound, lookup, attaches>>

(* allocateUpstreamId(): the next id that is not in flight.  One is always *)
(* free, MAX_PENDING being smaller than the id space.                      *)
NextIdAnyway == nextId

FreeIdUnwrapped ==
  nextId + CHOOSE k \in Ids : /\ pending[(nextId + k) % NIds] = 0
                              /\ \A j \in 0..(k - 1) : pending[(nextId + j) % NIds] # 0

FreeId ==
  LET k == CHOOSE k \in Ids : /\ pending[(nextId + k) % NIds] = 0
                              /\ \A j \in 0..(k - 1) : pending[(nextId + j) % NIds] # 0
  IN  (nextId + k) % NIds

PendingFullLate == Cardinality(PendingIds) > MaxPending
PendingFull == Cardinality(PendingIds) >= MaxPending

(* Only tx adds to pending, so limit, id and put can be taken together.    *)
TxRegisters ==
  /\ tx.pc = "register"
  /\ IF PendingFull
     THEN Settle(tx.q, "dropped") /\ TxTo("top") /\ UNCHANGED <<pending, nextId>>
     ELSE /\ pending' = [pending EXCEPT ![FreeId] = tx.q]
          /\ nextId' = (FreeId + 1) % NIds
          /\ Settle(tx.q, "waiting")
          /\ tx' = [tx EXCEPT !.pc = "send", !.id = FreeId]
  /\ Elsewhere /\ UNCHANGED <<inbound, timers, sent, arming>>

SendFailsKeepingEntry ==
  /\ TxTo("top")
  /\ UNCHANGED <<pending, fate, sent>>

SendFailsSettling ==
  /\ pending' = [pending EXCEPT ![tx.id] = 0]
  /\ fate' = [fate EXCEPT ![tx.q] = "dropped"]
  /\ TxTo("top")
  /\ UNCHANGED sent

SendFails ==
  /\ pending' = [pending EXCEPT ![tx.id] = 0]
  /\ fate' = [q \in Queries |-> IF q = pending[tx.id] THEN "dropped" ELSE fate[q]]
  /\ TxTo("top")
  /\ UNCHANGED sent

TxSends ==
  /\ tx.pc = "send"
  /\ \/ SendFails
     \/ /\ socket
        /\ sent' = sent \cup {[id |-> tx.id, name |-> name[tx.q]]}
        /\ TxTo("timer")
        /\ UNCHANGED <<pending, fate>>
  /\ Elsewhere /\ UNCHANGED <<inbound, nextId, timers, arming>>

TxArmsTimer ==
  /\ tx.pc = "timer"
  /\ timers' = IF timeouts THEN timers \cup {[id |-> tx.id, q |-> tx.q]} ELSE timers
  /\ TxTo("top")
  /\ Elsewhere /\ UNCHANGED <<inbound, pending, nextId, sent, arming, fate>>

-----------------------------------------------------------------------------
(* The rx thread, the timer thread and the resolver.                       *)

RxLoops ==
  /\ rx = "top"
  /\ rx' = IF running /\ socket THEN "receive" ELSE "exit"
  /\ running' = (running /\ socket)
  /\ UNCHANGED <<life, socket, inbound, lookup, timeouts, tx, arming, name, fate, told>>

MatchesAnything(reply, q) == TRUE
QuestionMatches(reply, q) == reply.name = name[q]

(* deliver(): the entry is gone before the question is compared.           *)
RxDelivers(reply) ==
  /\ rx = "receive" /\ reply \in sent /\ socket
  /\ sent' = sent \ {reply}
  /\ LET q == pending[reply.id]
     IN  IF q = 0 THEN UNCHANGED <<pending, fate>>
         ELSE /\ pending' = [pending EXCEPT ![reply.id] = 0]
              /\ Settle(q, IF QuestionMatches(reply, q) THEN "answered" ELSE "dropped")
  /\ rx' = "top"
  /\ UNCHANGED <<life, running, socket, inbound, nextId, timeouts, timers, tx, arming, name,
                 told>>

RxTimesOut ==
  /\ rx = "receive" /\ rx' = "top"
  /\ UNCHANGED <<life, running, socket, inbound, lookup, timeouts, tx, arming, name, fate,
                 told>>

(* The socket failed, or stop() closed it.                                 *)
RxFails ==
  /\ rx = "receive" /\ rx' = "exit"
  /\ told' = (told \/ running) /\ running' = FALSE
  /\ UNCHANGED <<life, socket, inbound, lookup, timeouts, tx, arming, name, fate>>

Expires(t) ==
  /\ t \in timers
  /\ timers' = timers \ {t}
  /\ pending' = [pending EXCEPT ![t.id] = 0]
  /\ fate' = [q \in Queries |-> IF q = pending[t.id] THEN "expired" ELSE fate[q]]
  /\ UNCHANGED <<life, running, socket, inbound, nextId, timeouts, tx, rx, arming, name, sent,
                 told>>

(* The resolver does not answer, or answers something else.                *)
ResolverFails(reply) ==
  /\ reply \in sent
  /\ \/ sent' = sent \ {reply}
     \/ \E n \in Names \ {reply.name} :
          sent' = (sent \ {reply}) \cup {[reply EXCEPT !.name = n]}
  /\ UNCHANGED <<life, running, socket, inbound, pending, nextId, timeouts, timers, tx, rx,
                 arming, name, fate, told>>

TxSteps ==
  \/ TxLoops \/ TxTakes \/ TxTestsBypass \/ TxSpendsBypass
  \/ TxRegisters \/ TxSends \/ TxArmsTimer
RxSteps == RxLoops \/ RxTimesOut \/ \E reply \in sent : RxDelivers(reply)
Expiry == \E t \in timers : Expires(t)

Next ==
  \/ Start \/ StartFails \/ StopBegins \/ StopJoins \/ OnEngineAttached
  \/ \E n \in Names \cup {Malformed} : Offer(n)
  \/ TxSteps \/ RxSteps \/ RxFails \/ Expiry
  \/ \E reply \in sent : ResolverFails(reply)

Spec == Init /\ [][Next]_vars

(* Threads that can run do run, and a scheduled expiry comes.  Nothing     *)
(* makes the resolver answer.                                              *)
FairSpec ==
  /\ Spec
  /\ WF_vars(TxSteps) /\ WF_vars(RxLoops \/ RxTimesOut) /\ WF_vars(StopJoins)
  /\ \A i \in Ids, q \in Queries : WF_vars(Expires([id |-> i, q |-> q]))

-----------------------------------------------------------------------------
(* Properties.                                                             *)

TypeOK ==
  /\ life \in {"new", "started", "failed", "stopping", "stopped"}
  /\ {running, socket, timeouts, bypass, told} \subseteq BOOLEAN
  /\ inbound \in Seq(Queries) /\ Len(inbound) <= QueueDepth
  /\ pending \in [Ids -> {0} \cup Queries] /\ nextId \in Ids
  /\ timers \subseteq [id : Ids, q : Queries] /\ sent \subseteq [id : Ids, name : Names]
  /\ tx \in [pc : {"top", "take", "bypass", "spend", "register", "send", "timer", "exit"},
             q : {0} \cup Queries, id : Ids]
  /\ rx \in {"top", "receive", "exit"} /\ attaches \in 0..MaxAttaches
  /\ name \in [Queries -> Names \cup {Malformed}]
  /\ fate \in [Queries -> {"none", "queued", "taken", "waiting", "passed", "dropped",
                           "expired", "answered"}]

(* A query sent upstream keeps its entry until it is answered, expired or  *)
(* dropped, and an entry waits for nobody else: ids that wrap around never *)
(* take one from a query in flight.                                        *)
WaitingIsPending ==
  \A q \in Queries : fate[q] = "waiting" <=> \E i \in Ids : pending[i] = q

(* MAX_PENDING bounds the queries in flight.                               *)
PendingBounded == Cardinality(PendingIds) <= MaxPending

(* An app is only given an answer to the name it asked, also when a late   *)
(* answer meets a reused id.                                               *)
AnswersTheQuestion ==
  [][\A q \in Queries : (fate[q] # "answered" /\ fate'[q] = "answered")
        => \E reply \in sent \ sent' : reply.name = name[q]]_vars

(* What became of a query is final: neither a second answer, nor the old   *)
(* timer of a reused id, nor a failed send, nor stop() revises it.         *)
SettledOnce ==
  [][\A q \in Queries : fate[q] \in {"passed", "dropped", "expired", "answered"}
        => fate'[q] = fate[q]]_vars

(* Every query the stage took is answered, passed on, expired or dropped;  *)
(* only a failed stage abandons the ones still in its queue.               *)
QueriesSettle ==
  \A q \in Queries :
    (fate[q] \in {"queued", "taken", "waiting"})
      ~> \/ fate[q] \in {"answered", "passed", "expired", "dropped"}
         \/ fate[q] = "queued" /\ ~running

=============================================================================
