------------------------- MODULE McpDeliveryProofs --------------------------
(***************************************************************************)
(* Proofs about McpDelivery, for any callers, consumers, deliveries, clock *)
(* offsets and bounds: type correctness, exclusive and fenced leases, the  *)
(* order of grants, results in time, and the implementation of             *)
(* IdempotentResult.                                                       *)
(***************************************************************************)
EXTENDS McpDelivery, TLAPS

\* A consumer at work has a lease and knows its delivery, and what it sends says so.
Named ==
  \A k \in Consumers :
    /\ consumer[k] # "idle" => lease[k] \in LeaseIds
    /\ consumer[k] \in {"working", "completing"} => held[k].delivery \in Deliveries
    /\ reply[k].tag = "leased" =>
         consumer[k] = "claiming" /\ reply[k].held.delivery \in Deliveries
    /\ \A m \in msgs[k] : IF m.op = "claim" THEN m.delivery = Nil ELSE m.delivery \in Deliveries

TypeInv == TypeOK /\ Named

\* A lease is within its delivery's time, and a result was recorded within its lease.
InTime ==
  \A d \in Deliveries :
    /\ mailbox[d].state \in {"leased", "completed"} => mailbox[d].until <= mailbox[d].expires
    /\ mailbox[d].state = "completed" => mailbox[d].completedAt < mailbox[d].until

\* A claim that is on its way names a lease that nobody had yet.
Fresh(k, m) ==
  /\ m.lease <= claims /\ m.lease \notin fenced
  /\ \A d \in Deliveries : mailbox[d].lease # m.lease
  /\ \A j \in Consumers : \A n \in msgs[j] : n.op = "claim" /\ n.lease = m.lease => j = k /\ n = m

\* A lease is of one delivery, and a result is the lease's that owns it.
FenceInv ==
  /\ fenced \subseteq 1 .. claims
  /\ \A d \in Deliveries :
       /\ mailbox[d].lease \in (1 .. claims) \cup {Nil}
       /\ mailbox[d].lease \notin fenced
       /\ mailbox[d].result \in {Nil, mailbox[d].lease}
  /\ \A d, e \in Deliveries :
       mailbox[d].lease = mailbox[e].lease /\ mailbox[d].lease # Nil => d = e
  /\ \A k \in Consumers : \A m \in msgs[k] : m.op = "claim" => Fresh(k, m)

\* What a consumer was told that it holds is what the record says.
Keeps(k, h) ==
  h.until > now => /\ mailbox[h.delivery].lease = lease[k]
                   /\ mailbox[h.delivery].state = "leased" => mailbox[h.delivery].until >= h.until

\* Leases are of one consumer, and one that still works has not released its own.
OwnerInv ==
  /\ \A k \in Consumers : lease[k] \in (1 .. claims) \cup {Nil}
  /\ \A k, j \in Consumers : lease[k] = lease[j] /\ lease[k] # Nil => k = j
  /\ \A k, j \in Consumers : \A m \in msgs[k] : m.lease <= claims /\ (m.lease = lease[j] => j = k)
  /\ \A k \in Consumers : consumer[k] \in {"claiming", "working", "completing"} =>
       \A m \in msgs[k] : m.op = "release" => m.lease # lease[k]

HeldInv ==
  \A k \in Consumers :
    /\ consumer[k] \in {"working", "completing"} => Keeps(k, held[k])
    /\ reply[k].tag = "leased" => Keeps(k, reply[k].held)

MailboxInv == TypeInv /\ InTime /\ FenceInv /\ OwnerInv /\ HeldInv

-----------------------------------------------------------------------------
(* Types of what the actions build.                                         *)

\* What the mailbox may answer.
Replies == [tag : Tags, held : Holdings]

\* A lease id is not Nil.
LEMMA IdTypes == Nil \notin LeaseIds /\ LeaseIds \subseteq Int
  BY MailboxAssumption DEF LeaseIds

\* The answers are answers.
LEMMA ReplyTypes ==
  /\ NothingHeld \in Holdings
  /\ \A d \in Deliveries, u \in Int : Held(d, u) \in Holdings
  /\ \A tag \in Tags, h \in Holdings : Reply(tag, h) \in Replies
  /\ Failed \in Replies /\ NoReply \in Replies
  BY DEF NothingHeld, Held, Holdings, Reply, Replies, Tags, Failed, NoReply

\* What a consumer sends is a message.
LEMMA MessageTypes ==
  \A id \in LeaseIds, d \in Deliveries \cup {Nil} :
    Claim(id) \in Messages /\ Complete(id, d) \in Messages /\ Release(id, d) \in Messages
  BY DEF Claim, Complete, Release, Messages

\* The records that the transitions make are records.
LEMMA RecordTypes ==
  /\ NoRecord \in Records
  /\ \A c \in Callers : Queued(c) \in Records
  /\ \A r \in Records, id \in LeaseIds, u \in Int :
       r.state \in {"queued", "leased"} => Leased(r, id, u) \in Records
  /\ \A r \in Records, id \in LeaseIds, t \in Int :
       r.state = "leased" => Completed(r, id, t) \in Records
  /\ \A r \in Records : r.state = "leased" => Requeued(r) \in Records
<1>1. NoRecord \in Records /\ \A c \in Callers : Queued(c) \in Records
  BY MailboxAssumption DEF NoRecord, Queued, Records, RecordsOf
<1>2. /\ \A r \in Records : r.state = "queued" => r \in RecordsOf({"queued"}, {Nil}, {0}, {Nil}, {0})
      /\ \A r \in Records : r.state = "leased" => r \in RecordsOf({"leased"}, LeaseIds, Int, {Nil}, {0})
  BY DEF NoRecord, Records, RecordsOf
<1>3. ASSUME NEW r \in Records, NEW id \in LeaseIds, NEW u \in Int, r.state \in {"queued", "leased"}
      PROVE  Leased(r, id, u) \in RecordsOf({"leased"}, LeaseIds, Int, {Nil}, {0})
  BY <1>2, <1>3 DEF Leased, RecordsOf
<1>4. ASSUME NEW r \in Records, NEW id \in LeaseIds, NEW t \in Int, r.state = "leased"
      PROVE  Completed(r, id, t) \in RecordsOf({"completed"}, LeaseIds, Int, LeaseIds, Int)
  BY <1>2, <1>4 DEF Completed, RecordsOf
<1>5. ASSUME NEW r \in Records, r.state = "leased"
      PROVE  Requeued(r) \in RecordsOf({"queued"}, {Nil}, {0}, {Nil}, {0})
  BY <1>2, <1>5 DEF Requeued, RecordsOf
<1> QED BY <1>1, <1>3, <1>4, <1>5 DEF Records

\* What a record says goes together: its state, its lease and its result.
LEMMA RecordFacts ==
  \A r \in Records :
    /\ r.expires \in Int /\ r.until \in Int /\ r.created \in Int /\ r.completedAt \in Int
    /\ r.state \in {"none", "queued", "leased", "completed"}
    /\ r.state \in {"none", "queued"} => r.lease = Nil
    /\ r.state \in {"leased", "completed"} => r.lease \in LeaseIds
    /\ r.state # "completed" => r.result = Nil
    /\ r.state = "completed" => r.result \in LeaseIds
    /\ r.state # "none" => r.digest \in Digests
  BY DEF Records, RecordsOf, NoRecord

\* What each transition leaves as it was.
LEMMA TransitionFacts ==
  /\ \A c \in Callers : /\ Queued(c).state = "queued" /\ Queued(c).lease = Nil
                        /\ Queued(c).result = Nil
  /\ \A r \in Records, id \in LeaseIds, u \in Int :
       /\ Leased(r, id, u).state = "leased" /\ Leased(r, id, u).lease = id
       /\ Leased(r, id, u).until = u /\ Leased(r, id, u).expires = r.expires
       /\ Leased(r, id, u).result = r.result
  /\ \A r \in Records, id \in LeaseIds, t \in Int :
       /\ Completed(r, id, t).state = "completed" /\ Completed(r, id, t).lease = r.lease
       /\ Completed(r, id, t).until = r.until /\ Completed(r, id, t).expires = r.expires
       /\ Completed(r, id, t).result = id /\ Completed(r, id, t).completedAt = t
       /\ Completed(r, id, t).digest = r.digest
  /\ \A r \in Records :
       /\ Requeued(r).state = "queued" /\ Requeued(r).lease = Nil
       /\ Requeued(r).result = r.result
  BY DEF Queued, Leased, Completed, Requeued, Records, RecordsOf, NoRecord

\* An answer changes one consumer's messages and, if it listens, its answer.
LEMMA RespondEffect ==
  ASSUME TypeOK, NEW k \in Consumers, NEW m \in msgs[k], NEW r \in Replies, Respond(k, m, r)
  PROVE  /\ msgs' = [msgs EXCEPT ![k] = @ \ {m}]
         /\ msgs' \in [Consumers -> SUBSET Messages]
         /\ reply' \in [Consumers -> Replies]
         /\ \A j \in Consumers : reply'[j] # reply[j] =>
              j = k /\ Listening(k, m) /\ reply'[j] \in {r, Failed}
         /\ UNCHANGED <<now, callerVars, consumer, claims, lease, held>>
<1>1. Failed \in Replies
  BY ReplyTypes
<1>2. reply \in [Consumers -> Replies] /\ msgs \in [Consumers -> SUBSET Messages]
  BY DEF TypeOK, Replies
<1>3. CASE Listening(k, m)
  <2>1. PICK a \in {r, Failed} : reply' = [reply EXCEPT ![k] = a]
    BY <1>3 DEF Respond
  <2> QED BY <1>1, <1>2, <1>3, <2>1 DEF Respond
<1>4. CASE ~Listening(k, m)
  BY <1>2, <1>4 DEF Respond
<1> QED BY <1>3, <1>4

\* What the actions change of the records: a new one, a lease, a result, a release.
Enqueued(c) ==
  /\ mailbox[DeliveryOf[c]].state = "none"
  /\ mailbox' = [mailbox EXCEPT ![DeliveryOf[c]] = Queued(c)]
  /\ UNCHANGED <<now, fenced, consumerVars>>
Grants(k, m, d) ==
  LET until == Sooner(now + LeaseLifetime, mailbox[d].expires) IN
  /\ m.op = "claim" /\ IsNext(d) /\ mailbox[d].created <= now
  /\ mailbox' = [mailbox EXCEPT ![d] = Leased(@, m.lease, until)]
  /\ fenced' = fenced \cup ({mailbox[d].lease} \ {Nil})
  /\ Respond(k, m, Reply("leased", Held(d, until)))
Completes(k, m) ==
  /\ m.op = "complete" /\ MayComplete(mailbox[m.delivery], m.lease)
  /\ mailbox' = [mailbox EXCEPT ![m.delivery] = Completed(@, m.lease, now)]
  /\ Respond(k, m, Reply("completed", NothingHeld))
  /\ UNCHANGED fenced
Releases(k, m) ==
  /\ m.op = "release" /\ MayRelease(mailbox[m.delivery], m.lease)
  /\ mailbox' = [mailbox EXCEPT ![m.delivery] = Requeued(@)]
  /\ fenced' = fenced \cup {m.lease}
  /\ Respond(k, m, Reply("released", NothingHeld))
Refuses(k, m) ==
  /\ UNCHANGED <<mailbox, fenced>>
  /\ \E tag \in Tags \ {"leased"} : Respond(k, m, Reply(tag, NothingHeld))
CallerMoves == UNCHANGED <<now, mailbox, fenced, consumerVars>>

\* Every step is one of these.
LEMMA Steps ==
  ASSUME [Next]_vars
  PROVE  \/ \E c \in Callers : Enqueued(c)
         \/ CallerMoves
         \/ \E k \in Consumers : ConsumerStep(k) \/ ExchangeFails(k)
         \/ \E k \in Consumers : \E m \in msgs[k] :
              \/ \E d \in Deliveries : Grants(k, m, d)
              \/ Completes(k, m) \/ Releases(k, m) \/ Refuses(k, m)
         \/ Tick
<1>1. ASSUME NEW c \in Callers, CallerStep(c) PROVE Enqueued(c) \/ CallerMoves
  BY <1>1 DEF CallerStep, enqueueMcpDeliveryState, EnqueueFails, WaitEnds, Enqueued, CallerMoves
<1>2. ASSUME NEW k \in Consumers, claimMcpDeliveryState(k)
      PROVE  \E m \in msgs[k] : (\E d \in Deliveries : Grants(k, m, d)) \/ Refuses(k, m)
  <2>1. PICK m \in msgs[k] : claimMcpDeliveryState(k)!(m)
    BY <1>2 DEF claimMcpDeliveryState
  <2>2. ASSUME Respond(k, m, Reply("empty", NothingHeld)) \/ Respond(k, m, Failed),
               UNCHANGED <<mailbox, fenced>>
        PROVE  Refuses(k, m)
    BY <2>2 DEF Refuses, Tags, Failed
  <2> QED BY <2>1, <2>2 DEF Grants
<1>3. ASSUME NEW k \in Consumers, completeMcpDeliveryState(k)
      PROVE  \E m \in msgs[k] : Completes(k, m) \/ Refuses(k, m)
  BY <1>3 DEF completeMcpDeliveryState, Completes, Refuses, Tags
<1>4. ASSUME NEW k \in Consumers, releaseMcpDeliveryState(k)
      PROVE  \E m \in msgs[k] : Releases(k, m) \/ Refuses(k, m)
  BY <1>4 DEF releaseMcpDeliveryState, Releases, Refuses, Tags
<1>5. CASE UNCHANGED vars
  BY <1>5 DEF vars, CallerMoves
<1> QED BY <1>1, <1>2, <1>3, <1>4, <1>5 DEF Next, StoreStep
-----------------------------------------------------------------------------
(* Type correctness.                                                        *)

\* The caller's half of the types, which no consumer touches.
CallerTypes ==
  /\ caller \in [Callers -> {"enqueuing", "waiting", "done"}]
  /\ enqueues \subseteq Callers
  /\ answer \in [Callers -> [kind : {"none", "error", "ok"}, value : LeaseIds \cup {Nil}]]

\* Every step keeps it.
LEMMA CallerTypeStep == ASSUME TypeOK, [Next]_vars PROVE CallerTypes'
<1>1. ASSUME NEW c \in Callers, enqueueMcpDeliveryState(c) \/ EnqueueFails(c) PROVE CallerTypes'
  <2>1. enqueues' \subseteq Callers /\ UNCHANGED answer
    BY <1>1 DEF enqueueMcpDeliveryState, EnqueueFails, TypeOK
  <2>2. caller' \in {caller} \cup {[caller EXCEPT ![c] = p] : p \in {"waiting", "done"}}
    BY <1>1 DEF enqueueMcpDeliveryState, EnqueueFails, Move
  <2> QED BY <2>1, <2>2 DEF TypeOK, CallerTypes
<1>2. ASSUME NEW c \in Callers, WaitEnds(c) PROVE CallerTypes'
  <2>1. caller' = [caller EXCEPT ![c] = "done"] /\ UNCHANGED enqueues
    BY <1>2 DEF WaitEnds, Move
  <2>2. HasResult(c) => mailbox[DeliveryOf[c]].result \in LeaseIds
    BY RecordFacts, MailboxAssumption DEF HasResult, TypeOK
  <2>3. \E o \in [kind : {"none", "error", "ok"}, value : LeaseIds \cup {Nil}] :
          answer' = [answer EXCEPT ![c] = o]
    BY <1>2, <2>2 DEF WaitEnds, Result, ErrorAnswer
  <2> QED BY <2>1, <2>3 DEF TypeOK, CallerTypes
<1>3. ASSUME NEW k \in Consumers, ConsumerStep(k) \/ StoreStep(k) PROVE UNCHANGED callerVars
  BY <1>3 DEF ConsumerStep, StoreStep, ClaimNext, Finish, Answered, Restart, ExchangeFails,
              claimMcpDeliveryState, completeMcpDeliveryState, releaseMcpDeliveryState, Respond
<1>4. CASE Tick \/ UNCHANGED vars
  BY <1>4 DEF Tick, vars, callerVars, TypeOK, CallerTypes
<1> QED BY <1>1, <1>2, <1>3, <1>4 DEF Next, CallerStep, callerVars, TypeOK, CallerTypes

\* A consumer's own steps keep the types of what it is and what it sends.
LEMMA ConsumerTypeStep ==
  ASSUME TypeInv, NEW k \in Consumers, ConsumerStep(k) \/ ExchangeFails(k),
         CallerTypes'
  PROVE  TypeInv'
<1> USE DEF TypeInv
<1>1. CASE ClaimNext(k)
  <2>1. claims + 1 \in LeaseIds
    BY <1>1, MailboxAssumption DEF ClaimNext, TypeOK, LeaseIds
  <2>2. Claim(claims + 1) \in Messages
    BY <2>1, MessageTypes
  <2>3. TypeOK'
    BY <1>1, <2>1, <2>2, ReplyTypes, MailboxAssumption
       DEF ClaimNext, Send, TypeOK, CallerTypes, Replies, LeaseIds
  <2>4. Named'
    BY <1>1, <2>1 DEF ClaimNext, Send, TypeOK, Named, Claim, NoReply, Reply
  <2> QED BY <2>3, <2>4
<1>2. CASE Finish(k)
  <2>1. lease[k] \in LeaseIds /\ held[k].delivery \in Deliveries
    BY <1>2 DEF Finish, Named
  <2>2. PICK p \in {"completing", "releasing"},
             m \in {Complete(lease[k], held[k].delivery), Release(lease[k], held[k].delivery)} :
             Send(k, p, m) /\ UNCHANGED <<now, mailbox, fenced, callerVars, claims, lease, held>>
    BY <1>2 DEF Finish
  <2>3. m \in Messages
    BY <2>1, MessageTypes
  <2>6. m.op # "claim" /\ m.delivery \in Deliveries
    BY <2>1 DEF Complete, Release
  <2>4. TypeOK'
    BY <2>2, <2>3, ReplyTypes DEF Send, TypeOK, CallerTypes, Replies
  <2>5. Named'
    BY <2>1, <2>2, <2>6 DEF Send, TypeOK, Named, NoReply, Reply
  <2> QED BY <2>4, <2>5
<1>3. CASE Answered(k)
  <2>1. reply[k] \in Replies /\ reply[k].held \in Holdings
    BY DEF TypeOK, Replies
  <2>2. /\ reply' = [reply EXCEPT ![k] = NoReply]
        /\ UNCHANGED <<now, mailbox, fenced, callerVars, claims, lease, msgs>>
        /\ \/ /\ reply[k].tag = "leased"
              /\ consumer' = [consumer EXCEPT ![k] = "working"]
              /\ held' = [held EXCEPT ![k] = reply[k].held]
           \/ /\ consumer[k] = "completing"
              /\ consumer' = [consumer EXCEPT ![k] = "working"]
              /\ UNCHANGED held
           \/ /\ consumer' = [consumer EXCEPT ![k] = "idle"]
              /\ held' = [held EXCEPT ![k] = NothingHeld]
    BY <1>3 DEF Answered
  <2>3. /\ consumer' \in [Consumers -> {"idle", "claiming", "working", "completing", "releasing"}]
        /\ held' \in [Consumers -> Holdings]
    <3>1. consumer' \in {[consumer EXCEPT ![k] = p] : p \in {"working", "idle"}}
      BY <2>2
    <3>2. \E h \in Holdings : held' = [held EXCEPT ![k] = h] \/ held' = held
      BY <2>1, <2>2, ReplyTypes
    <3>3. held' \in [Consumers -> Holdings]
      BY <3>2 DEF TypeOK
    <3> QED BY <3>1, <3>3 DEF TypeOK
  <2>4. TypeOK'
    BY <2>2, <2>3, ReplyTypes DEF TypeOK, CallerTypes, Replies
  <2>5. Named'
    BY <2>1, <2>2 DEF TypeOK, Named, NoReply, Reply
  <2> QED BY <2>4, <2>5
<1>4. CASE Restart(k)
  <2>1. TypeOK'
    BY <1>4, ReplyTypes DEF Restart, TypeOK, CallerTypes, Replies
  <2>2. Named'
    BY <1>4 DEF Restart, TypeOK, Named, NoReply, Reply
  <2> QED BY <2>1, <2>2
<1>5. CASE ExchangeFails(k)
  <2>1. /\ reply' = [reply EXCEPT ![k] = Failed]
        /\ \E m \in msgs[k] : msgs' \in {msgs, [msgs EXCEPT ![k] = @ \ {m}]}
        /\ UNCHANGED <<now, mailbox, fenced, callerVars, consumer, claims, lease, held>>
    BY <1>5 DEF ExchangeFails
  <2>2. msgs' \in [Consumers -> SUBSET Messages] /\ \A j \in Consumers : msgs'[j] \subseteq msgs[j]
    BY <2>1 DEF TypeOK
  <2>3. TypeOK'
    BY <2>1, <2>2, ReplyTypes DEF TypeOK, CallerTypes, Replies
  <2>4. Named'
    BY <2>1, <2>2 DEF TypeOK, Named, Failed, Reply
  <2> QED BY <2>3, <2>4
<1> QED BY <1>1, <1>2, <1>3, <1>4, <1>5 DEF ConsumerStep

\* So does an answer of the mailbox that grants no lease, or grants one.
LEMMA RespondTypeStep ==
  ASSUME TypeInv, NEW k \in Consumers, NEW m \in msgs[k], NEW tag \in Tags, NEW h \in Holdings,
         Respond(k, m, Reply(tag, h)), tag = "leased" => m.op = "claim" /\ h.delivery \in Deliveries,
         mailbox' \in [Deliveries -> Records], fenced' \subseteq LeaseIds, CallerTypes'
  PROVE  TypeInv'
<1> DEFINE r == Reply(tag, h)
<1>1. r \in Replies /\ TypeOK
  BY ReplyTypes DEF TypeInv
<1>2. /\ msgs' = [msgs EXCEPT ![k] = @ \ {m}]
      /\ msgs' \in [Consumers -> SUBSET Messages]
      /\ reply' \in [Consumers -> Replies]
      /\ \A j \in Consumers : reply'[j] # reply[j] =>
           j = k /\ Listening(k, m) /\ reply'[j] \in {r, Failed}
      /\ UNCHANGED <<now, callerVars, consumer, claims, lease, held>>
  BY <1>1, RespondEffect
<1>3. TypeOK'
  BY <1>1, <1>2 DEF TypeOK, CallerTypes, Replies
<1>4. \A j \in Consumers : reply'[j].tag = "leased" =>
        consumer'[j] = "claiming" /\ reply'[j].held.delivery \in Deliveries
  BY <1>2 DEF TypeInv, Named, Reply, Failed, Listening
<1>5. \A j \in Consumers : msgs'[j] \subseteq msgs[j]
  BY <1>1, <1>2 DEF TypeOK
<1>6. Named'
  BY <1>2, <1>4, <1>5 DEF TypeInv, Named
<1> QED BY <1>3, <1>6 DEF TypeInv

\* Every step keeps the types.
LEMMA TypeStep == ASSUME TypeInv, [Next]_vars PROVE TypeInv'
<1>1. CallerTypes' /\ TypeOK
  BY CallerTypeStep DEF TypeInv
<1>2. ASSUME NEW c \in Callers, Enqueued(c) PROVE TypeInv'
  <2>1. mailbox' \in [Deliveries -> Records]
    BY <1>1, <1>2, RecordTypes DEF Enqueued, TypeOK
  <2> QED BY <1>1, <1>2, <2>1 DEF Enqueued, consumerVars, TypeInv, TypeOK, CallerTypes, Named
<1>3. CASE CallerMoves
  BY <1>1, <1>3 DEF CallerMoves, consumerVars, TypeInv, TypeOK, CallerTypes, Named
<1>4. CASE Tick
  BY <1>1, <1>4 DEF Tick, consumerVars, TypeInv, TypeOK, CallerTypes, Named
<1>5. ASSUME NEW k \in Consumers, NEW m \in msgs[k], NEW d \in Deliveries, Grants(k, m, d)
      PROVE  TypeInv'
  <2>1. m.lease \in LeaseIds
    BY <1>1 DEF TypeOK, Messages
  <2>2. mailbox[d] \in Records /\ mailbox[d].state \in {"queued", "leased"}
    BY <1>1, <1>5 DEF TypeOK, Grants, IsNext, Offered
  <2>3. PICK u \in Int : u = Sooner(now + LeaseLifetime, mailbox[d].expires)
    BY <1>1, <2>2, RecordFacts, MailboxAssumption DEF TypeOK, Sooner
  <2>4. mailbox' \in [Deliveries -> Records]
    BY <1>1, <1>5, <2>1, <2>2, <2>3, RecordTypes DEF Grants, TypeOK
  <2>5. fenced' \subseteq LeaseIds
    BY <1>1, <1>5, <2>2, RecordFacts DEF Grants, TypeOK
  <2>6. Respond(k, m, Reply("leased", Held(d, u))) /\ Held(d, u) \in Holdings
    BY <1>5, <2>3, ReplyTypes DEF Grants
  <2>7. Held(d, u).delivery \in Deliveries /\ "leased" \in Tags /\ m.op = "claim"
    BY <1>5 DEF Held, Tags, Grants
  <2> QED BY <1>1, <2>4, <2>5, <2>6, <2>7, RespondTypeStep
<1>6. ASSUME NEW k \in Consumers, NEW m \in msgs[k], Completes(k, m) \/ Releases(k, m)
      PROVE  TypeInv'
  <2>1. m.lease \in LeaseIds /\ m.delivery \in Deliveries
    BY <1>1, <1>6 DEF TypeInv, Named, TypeOK, Messages, Completes, Releases
  <2>2. mailbox[m.delivery] \in Records /\ mailbox[m.delivery].state = "leased" /\ now \in Int
    BY <1>1, <1>6, <2>1 DEF TypeOK, Completes, Releases, MayComplete, MayRelease
  <2>3. mailbox' \in [Deliveries -> Records]
    BY <1>1, <1>6, <2>1, <2>2, RecordTypes DEF Completes, Releases, TypeOK
  <2>4. fenced' \subseteq LeaseIds
    BY <1>1, <1>6, <2>1 DEF Completes, Releases, TypeOK
  <2>5. \E tag \in Tags \ {"leased"} : Respond(k, m, Reply(tag, NothingHeld))
    BY <1>6 DEF Completes, Releases, Tags
  <2> QED BY <1>1, <2>3, <2>4, <2>5, RespondTypeStep, ReplyTypes
<1>7. ASSUME NEW k \in Consumers, NEW m \in msgs[k], Refuses(k, m) PROVE TypeInv'
  BY <1>1, <1>7, RespondTypeStep, ReplyTypes DEF Refuses, TypeOK
<1>8. ASSUME NEW k \in Consumers, ConsumerStep(k) \/ ExchangeFails(k) PROVE TypeInv'
  BY <1>1, <1>8, ConsumerTypeStep
<1> QED BY <1>2, <1>3, <1>4, <1>5, <1>6, <1>7, <1>8, Steps

\* The types are an invariant.
LEMMA TypesInvariant == Spec => []TypeInv
<1>1. Init => TypeInv
  BY IdTypes, ReplyTypes, RecordTypes, MailboxAssumption
     DEF Init, TypeInv, TypeOK, Named, NoAnswer, Holdings, Replies, NoReply, Reply
<1>2. TypeInv /\ [Next]_vars => TypeInv'
  BY TypeStep
<1> QED BY <1>1, <1>2, PTL DEF Spec

\* The mailbox, its callers and its consumers stay within their types.
THEOREM TypeCorrect == Spec => []TypeOK
<1>1. TypeInv => TypeOK
  BY DEF TypeInv
<1> QED BY <1>1, TypesInvariant, PTL
-----------------------------------------------------------------------------
(* Results in time.                                                         *)

\* Every step keeps leases within deliveries, and results within leases.
LEMMA InTimeStep == ASSUME TypeInv, InTime, [Next]_vars PROVE InTime'
<1> USE DEF InTime
<1>1. TypeOK /\ now \in Int /\ mailbox \in [Deliveries -> Records]
  BY DEF TypeInv, TypeOK
<1>2. ASSUME NEW c \in Callers, Enqueued(c) PROVE InTime'
  BY <1>1, <1>2, TransitionFacts DEF Enqueued
<1>3. ASSUME UNCHANGED mailbox PROVE InTime'
  BY <1>3
<1>4. ASSUME NEW k \in Consumers, NEW m \in msgs[k], NEW d \in Deliveries, Grants(k, m, d)
      PROVE  InTime'
  <2>1. m.lease \in LeaseIds /\ mailbox[d] \in Records
    BY <1>1 DEF TypeOK, Messages
  <2>2. mailbox[d].expires \in Int
    BY <2>1, RecordFacts
  <2>3. PICK u \in Int : /\ u = Sooner(now + LeaseLifetime, mailbox[d].expires)
                         /\ u <= mailbox[d].expires
    BY <1>1, <2>2, MailboxAssumption DEF Sooner
  <2>4. mailbox' = [mailbox EXCEPT ![d] = Leased(mailbox[d], m.lease, u)]
    BY <1>4, <2>3 DEF Grants
  <2>5. /\ mailbox'[d].state = "leased" /\ mailbox'[d].until = u
        /\ mailbox'[d].expires = mailbox[d].expires
    BY <1>1, <2>1, <2>4, TransitionFacts
  <2> QED BY <1>1, <2>3, <2>4, <2>5
<1>5. ASSUME NEW k \in Consumers, NEW m \in msgs[k], Completes(k, m) PROVE InTime'
  <2>1. m.lease \in LeaseIds /\ m.delivery \in Deliveries
    BY <1>1, <1>5 DEF TypeInv, Named, TypeOK, Messages, Completes
  <2>2. /\ mailbox[m.delivery].state = "leased" /\ mailbox[m.delivery].until > now
        /\ mailbox' = [mailbox EXCEPT ![m.delivery] = Completed(mailbox[m.delivery], m.lease, now)]
    BY <1>5 DEF Completes, MayComplete
  <2>3. /\ mailbox'[m.delivery].completedAt = now
        /\ mailbox'[m.delivery].until = mailbox[m.delivery].until
        /\ mailbox'[m.delivery].expires = mailbox[m.delivery].expires
    BY <1>1, <2>1, <2>2, TransitionFacts
  <2>4. mailbox[m.delivery].until \in Int
    BY <1>1, <2>1, RecordFacts
  <2> QED BY <1>1, <2>1, <2>2, <2>3, <2>4
<1>6. ASSUME NEW k \in Consumers, NEW m \in msgs[k], Releases(k, m) PROVE InTime'
  <2>1. m.delivery \in Deliveries
    BY <1>6 DEF TypeInv, Named, Releases
  <2> QED BY <1>1, <1>6, <2>1, TransitionFacts DEF Releases
<1>7. ASSUME NEW k \in Consumers, ConsumerStep(k) \/ ExchangeFails(k) PROVE UNCHANGED mailbox
  BY <1>7 DEF ConsumerStep, ClaimNext, Finish, Answered, Restart, ExchangeFails
<1> QED BY <1>2, <1>3, <1>4, <1>5, <1>6, <1>7, Steps DEF CallerMoves, Refuses, Tick

-----------------------------------------------------------------------------
(* Fencing.                                                                 *)

\* A step that leaves leases and results as they are, and sends no new claim,
\* keeps the fences.
LEMMA FenceKept ==
  ASSUME TypeInv, FenceInv, TypeInv', UNCHANGED <<fenced, claims>>,
         \A d \in Deliveries :
           /\ mailbox'[d].lease = mailbox[d].lease
           /\ mailbox'[d].result \in {mailbox[d].result, mailbox[d].lease},
         \A k \in Consumers : \A m \in msgs'[k] : m.op = "claim" => m \in msgs[k]
  PROVE  FenceInv'
<1>1. ASSUME NEW k \in Consumers, NEW m \in msgs'[k], m.op = "claim" PROVE Fresh(k, m)'
  <2>1. Fresh(k, m)
    BY <1>1 DEF FenceInv
  <2> QED BY <2>1 DEF Fresh
<1>2. \A d, e \in Deliveries :
        mailbox'[d].lease = mailbox'[e].lease /\ mailbox'[d].lease # Nil => d = e
  BY DEF FenceInv
<1> QED BY <1>1, <1>2 DEF FenceInv

\* Every step keeps the fences.
LEMMA FenceStep == ASSUME TypeInv, FenceInv, [Next]_vars PROVE FenceInv'
<1>1. /\ TypeOK /\ TypeInv' /\ mailbox \in [Deliveries -> Records]
      /\ msgs \in [Consumers -> SUBSET Messages]
  BY TypeStep DEF TypeInv, TypeOK
<1>2. ASSUME NEW c \in Callers, Enqueued(c) PROVE FenceInv'
  <2>1. DeliveryOf[c] \in Deliveries
    BY MailboxAssumption
  <2>2. /\ mailbox[DeliveryOf[c]].lease = Nil /\ mailbox[DeliveryOf[c]].result = Nil
        /\ mailbox'[DeliveryOf[c]].lease = Nil /\ mailbox'[DeliveryOf[c]].result = Nil
    BY <1>1, <1>2, <2>1, RecordFacts, TransitionFacts DEF Enqueued
  <2> QED BY <1>1, <1>2, <2>1, <2>2, FenceKept DEF Enqueued, consumerVars
<1>3. CASE CallerMoves \/ Tick
  BY <1>1, <1>3, FenceKept DEF CallerMoves, Tick, consumerVars
<1>4. ASSUME NEW k \in Consumers, ClaimNext(k) PROVE FenceInv'
  <2>1. /\ claims \in Nat /\ claims' = claims + 1
        /\ msgs' = [msgs EXCEPT ![k] = msgs[k] \cup {Claim(claims + 1)}]
        /\ UNCHANGED <<mailbox, fenced>>
    BY <1>1, <1>4, MailboxAssumption DEF ClaimNext, Send, TypeOK
  <2>2. \A d \in Deliveries : mailbox[d].lease \in (1 .. claims) \cup {Nil}
    BY DEF FenceInv
  <2>3. claims + 1 \in 1 .. MaxClaims
    BY <1>1, <1>4, MailboxAssumption DEF ClaimNext, TypeOK
  <2>4. claims + 1 # Nil
    BY <2>3, MailboxAssumption
  <2>5. ASSUME NEW j \in Consumers, NEW n \in msgs'[j], n.op = "claim" PROVE Fresh(j, n)'
    <3>1. CASE n \in msgs[j]
      <4>1. Fresh(j, n)
        BY <2>5, <3>1 DEF FenceInv
      <4>3. n.lease \in LeaseIds
        BY <1>1, <3>1 DEF Messages
      <4>2. n.lease # Claim(claims + 1).lease
        BY <2>1, <4>1, <4>3, IdTypes DEF Fresh, Claim
      <4>4. \A i \in Consumers : \A o \in msgs'[i] : o \in msgs[i] \/ o = Claim(claims + 1)
        BY <1>1, <2>1
      <4>5. n.lease <= claims'
        BY <2>1, <4>1, <4>3, MailboxAssumption DEF Fresh, LeaseIds
      <4> QED BY <2>1, <4>1, <4>2, <4>4, <4>5 DEF Fresh
    <3>2. CASE j = k /\ n = Claim(claims + 1)
      <4>1. n.lease = claims + 1
        BY <3>2 DEF Claim
      <4>2. n.lease \notin fenced /\ \A d \in Deliveries : mailbox[d].lease # n.lease
        BY <2>1, <2>2, <2>4, <4>1 DEF FenceInv
      <4>3. \A i \in Consumers : \A o \in msgs[i] : o.op = "claim" => o.lease # n.lease
        <5>1. \A i \in Consumers : \A o \in msgs[i] : o.op = "claim" => o.lease <= claims
          BY DEF FenceInv, Fresh
        <5> QED BY <2>1, <4>1, <5>1
      <4> QED BY <1>1, <2>1, <3>2, <4>1, <4>2, <4>3 DEF Fresh
    <3> QED BY <1>1, <2>1, <2>5, <3>1, <3>2
  <2>6. /\ fenced' \subseteq 1 .. claims'
        /\ \A d \in Deliveries : mailbox'[d].lease \in (1 .. claims') \cup {Nil}
    BY <2>1 DEF FenceInv
  <2> QED BY <2>1, <2>5, <2>6 DEF FenceInv
<1>5. ASSUME NEW k \in Consumers, Finish(k) \/ Answered(k) \/ Restart(k) \/ ExchangeFails(k)
      PROVE  FenceInv'
  <2>1. UNCHANGED <<mailbox, fenced, claims>>
    BY <1>5 DEF Finish, Answered, Restart, ExchangeFails
  <2>2. \A j \in Consumers : \A n \in msgs'[j] : n.op = "claim" => n \in msgs[j]
    BY <1>1, <1>5 DEF Finish, Answered, Restart, ExchangeFails, Send, Complete, Release
  <2> QED BY <1>1, <2>1, <2>2, FenceKept
<1>6. ASSUME NEW k \in Consumers, NEW m \in msgs[k], NEW d \in Deliveries, Grants(k, m, d)
      PROVE  FenceInv'
  <2>1. m.lease \in LeaseIds /\ m.op = "claim" /\ Fresh(k, m)
    BY <1>1, <1>6 DEF Messages, Grants, FenceInv
  <2>2. mailbox[d].lease # m.lease /\ m.lease # Nil /\ m.lease \in 1 .. claims
    BY <1>1, <2>1, IdTypes, MailboxAssumption DEF Fresh, LeaseIds, TypeOK
  <2>3. mailbox[d] \in Records /\ mailbox[d].state \in {"queued", "leased"}
    BY <1>1, <1>6 DEF Grants, IsNext, Offered
  <2>4. PICK u \in Int : u = Sooner(now + LeaseLifetime, mailbox[d].expires)
    BY <1>1, <2>3, RecordFacts, MailboxAssumption DEF TypeOK, Sooner
  <2>5. /\ mailbox' = [mailbox EXCEPT ![d] = Leased(mailbox[d], m.lease, u)]
        /\ fenced' = fenced \cup ({mailbox[d].lease} \ {Nil})
    BY <1>6, <2>4 DEF Grants
  <2>6. mailbox'[d].lease = m.lease /\ mailbox'[d].result = Nil
    BY <1>1, <2>1, <2>3, <2>4, <2>5, TransitionFacts, RecordFacts
  <2>7. \A e \in Deliveries \ {d} : mailbox'[e] = mailbox[e]
    BY <1>1, <2>5
  <2>8. msgs' = [msgs EXCEPT ![k] = @ \ {m}] /\ UNCHANGED claims
    BY <1>6 DEF Grants, Respond
  <2>9. ASSUME NEW e \in Deliveries
        PROVE  /\ mailbox'[e].lease \in (1 .. claims) \cup {Nil}
               /\ mailbox'[e].lease \notin fenced'
               /\ mailbox'[e].result \in {Nil, mailbox'[e].lease}
    <3>1. CASE e = d
      BY <2>1, <2>2, <2>5, <2>6, <3>1 DEF Fresh
    <3>2. CASE e # d
      <4>1. mailbox[e].lease \notin {mailbox[d].lease} \ {Nil}
        BY <3>2 DEF FenceInv
      <4> QED BY <2>5, <2>7, <3>2, <4>1 DEF FenceInv
    <3> QED BY <3>1, <3>2
  <2>10. \A e \in Deliveries \ {d} : mailbox'[e].lease # m.lease
    BY <2>1, <2>7 DEF Fresh
  <2>11. \A e, f \in Deliveries :
           mailbox'[e].lease = mailbox'[f].lease /\ mailbox'[e].lease # Nil => e = f
    BY <2>6, <2>7, <2>10 DEF FenceInv
  <2>12. ASSUME NEW j \in Consumers, NEW n \in msgs'[j], n.op = "claim" PROVE Fresh(j, n)'
    <3>1. n \in msgs[j] /\ Fresh(j, n) /\ n.lease \in LeaseIds
      BY <1>1, <2>8, <2>12 DEF FenceInv, Messages
    <3>2. n.lease # m.lease
      <4>1. n.lease = m.lease => j = k /\ n = m
        BY <2>1, <2>12, <3>1 DEF Fresh
      <4> QED BY <1>1, <2>8, <2>12, <4>1
    <3>3. n.lease \notin fenced' /\ \A e \in Deliveries : mailbox'[e].lease # n.lease
      BY <2>5, <2>6, <2>7, <3>1, <3>2 DEF Fresh
    <3>4. \A i \in Consumers : msgs'[i] \subseteq msgs[i]
      BY <1>1, <2>8
    <3> QED BY <2>8, <3>1, <3>3, <3>4 DEF Fresh
  <2>13. fenced' \subseteq 1 .. claims
    BY <2>5 DEF FenceInv
  <2> QED BY <2>8, <2>9, <2>11, <2>12, <2>13 DEF FenceInv
<1>7. ASSUME NEW k \in Consumers, NEW m \in msgs[k], Completes(k, m) PROVE FenceInv'
  <2>1. m.lease \in LeaseIds /\ m.delivery \in Deliveries
    BY <1>1, <1>7 DEF TypeInv, Named, Messages, Completes
  <2>2. /\ mailbox[m.delivery].lease = m.lease
        /\ mailbox' = [mailbox EXCEPT ![m.delivery] = Completed(mailbox[m.delivery], m.lease, now)]
        /\ UNCHANGED fenced
    BY <1>7 DEF Completes, MayComplete
  <2>3. mailbox'[m.delivery].lease = m.lease /\ mailbox'[m.delivery].result = m.lease
    BY <1>1, <2>1, <2>2, TransitionFacts DEF TypeOK
  <2>4. UNCHANGED claims /\ \A j \in Consumers : msgs'[j] \subseteq msgs[j]
    BY <1>1, <1>7 DEF Completes, Respond
  <2> QED BY <1>1, <2>1, <2>2, <2>3, <2>4, FenceKept
<1>8. ASSUME NEW k \in Consumers, NEW m \in msgs[k], Releases(k, m) PROVE FenceInv'
  <2>1. m.lease \in LeaseIds /\ m.delivery \in Deliveries
    BY <1>1, <1>8 DEF TypeInv, Named, Messages, Releases
  <2>2. /\ mailbox[m.delivery].lease = m.lease /\ mailbox[m.delivery].state = "leased"
        /\ mailbox' = [mailbox EXCEPT ![m.delivery] = Requeued(mailbox[m.delivery])]
        /\ fenced' = fenced \cup {m.lease}
    BY <1>8 DEF Releases, MayRelease
  <2>3. mailbox'[m.delivery].lease = Nil /\ mailbox'[m.delivery].result = Nil
    BY <1>1, <2>1, <2>2, TransitionFacts, RecordFacts
  <2>4. UNCHANGED claims /\ \A j \in Consumers : msgs'[j] \subseteq msgs[j]
    BY <1>1, <1>8 DEF Releases, Respond
  <2>5. \A e \in Deliveries \ {m.delivery} : mailbox'[e] = mailbox[e] /\ mailbox[e].lease # m.lease
    BY <1>1, <2>1, <2>2, IdTypes DEF FenceInv
  <2>6. m.lease \in 1 .. claims /\ Nil \notin fenced'
    BY <2>1, <2>2, IdTypes, <1>1 DEF FenceInv, TypeOK
  <2>7. \A e \in Deliveries : /\ mailbox'[e].lease \in (1 .. claims) \cup {Nil}
                              /\ mailbox'[e].lease \notin fenced'
                              /\ mailbox'[e].result \in {Nil, mailbox'[e].lease}
    BY <2>2, <2>3, <2>5, <2>6 DEF FenceInv
  <2>8. \A e, f \in Deliveries :
          mailbox'[e].lease = mailbox'[f].lease /\ mailbox'[e].lease # Nil => e = f
    BY <2>3, <2>5 DEF FenceInv
  <2>9. ASSUME NEW j \in Consumers, NEW n \in msgs'[j], n.op = "claim" PROVE Fresh(j, n)'
    <3>1. n \in msgs[j] /\ Fresh(j, n) /\ n.lease \in LeaseIds
      BY <1>1, <2>4, <2>9 DEF FenceInv, Messages
    <3>2. n.lease # m.lease /\ n.lease # Nil
      BY <2>1, <2>2, <3>1, IdTypes DEF Fresh
    <3>3. \A e \in Deliveries : mailbox'[e].lease # n.lease
      BY <2>3, <2>5, <3>1, <3>2 DEF Fresh
    <3> QED BY <2>2, <2>4, <3>1, <3>2, <3>3 DEF Fresh
  <2> QED BY <2>2, <2>4, <2>6, <2>7, <2>8, <2>9 DEF FenceInv
<1>9. ASSUME NEW k \in Consumers, NEW m \in msgs[k], Refuses(k, m) PROVE FenceInv'
  <2>1. UNCHANGED claims /\ \A j \in Consumers : msgs'[j] \subseteq msgs[j]
    BY <1>1, <1>9 DEF Refuses, Respond
  <2> QED BY <1>1, <1>9, <2>1, FenceKept DEF Refuses
<1> QED BY <1>2, <1>3, <1>4, <1>5, <1>6, <1>7, <1>8, <1>9, Steps DEF ConsumerStep

\* Fencing, from any state: a lease that was replaced or released owns nothing.
THEOREM Fencing == Spec => []FormerLeaseFenced
<1>1. Init => FenceInv
  BY MailboxAssumption, IdTypes DEF Init, FenceInv, NoRecord
<1>2. TypeInv /\ FenceInv /\ [Next]_vars => FenceInv'
  BY FenceStep
<1>3. FenceInv /\ TypeOK => FormerLeaseFenced
  BY IdTypes DEF FenceInv, FormerLeaseFenced, TypeOK
<1> QED BY <1>1, <1>2, <1>3, TypesInvariant, TypeCorrect, PTL DEF Spec

\* A result is recorded before its lease and its delivery expire.
THEOREM InTimeResults == Spec => []ResultInTime
<1>1. Init => InTime
  BY DEF Init, InTime, NoRecord
<1>2. TypeInv /\ InTime /\ [Next]_vars => InTime'
  BY InTimeStep
<1>3. InTime => ResultInTime
  BY DEF InTime, ResultInTime
<1> QED BY <1>1, <1>2, <1>3, TypesInvariant, PTL DEF Spec
-----------------------------------------------------------------------------
(* Exclusion.                                                               *)

\* A consumer that has not released what it holds.
Owning == {"claiming", "working", "completing"}

\* Consumers that send nothing and make no lease own what they owned.
LEMMA OwnerKept ==
  ASSUME TypeInv, OwnerInv, UNCHANGED <<claims, lease>>,
         \A k \in Consumers : msgs'[k] \subseteq msgs[k],
         \A k \in Consumers : consumer'[k] \in Owning => consumer[k] \in Owning
  PROVE  OwnerInv'
<1>1. ASSUME NEW k \in Consumers, consumer'[k] \in Owning, NEW m \in msgs'[k], m.op = "release"
      PROVE  m.lease # lease'[k]
  BY <1>1 DEF OwnerInv, Owning
<1> QED BY <1>1 DEF OwnerInv, Owning

\* Every step keeps the leases apart.
LEMMA OwnerStep == ASSUME TypeInv, OwnerInv, [Next]_vars PROVE OwnerInv'
<1>1. /\ claims \in Nat /\ lease \in [Consumers -> LeaseIds \cup {Nil}]
      /\ msgs \in [Consumers -> SUBSET Messages]
      /\ consumer \in [Consumers -> {"idle", "claiming", "working", "completing", "releasing"}]
  BY MailboxAssumption DEF TypeInv, TypeOK
<1>2. ASSUME NEW k \in Consumers, ClaimNext(k) PROVE OwnerInv'
  <2>1. /\ claims' = claims + 1
        /\ lease' = [lease EXCEPT ![k] = claims + 1]
        /\ msgs' = [msgs EXCEPT ![k] = msgs[k] \cup {Claim(claims + 1)}]
        /\ consumer' = [consumer EXCEPT ![k] = "claiming"]
    BY <1>2 DEF ClaimNext, Send
  <2>2. claims + 1 \in 1 .. MaxClaims
    BY <1>1, <1>2, MailboxAssumption DEF ClaimNext, TypeInv, TypeOK
  <2>3. claims + 1 # Nil /\ claims + 1 \notin 1 .. claims
    BY <1>1, <2>2, MailboxAssumption
  <2>4. \A j \in Consumers : lease[j] # claims + 1
    BY <2>3 DEF OwnerInv
  <2>5. \A j \in Consumers : \A m \in msgs[j] : m.lease <= claims /\ m.lease \in Int
    BY <1>1 DEF OwnerInv, Messages, LeaseIds
  <2>6. Claim(claims + 1).lease = claims + 1 /\ Claim(claims + 1).op = "claim"
    BY DEF Claim
  <2>7. ASSUME NEW j \in Consumers, NEW m \in msgs'[j]
        PROVE  /\ m.lease <= claims'
               /\ \A i \in Consumers : m.lease = lease'[i] => i = j
               /\ consumer'[j] \in Owning /\ m.op = "release" => m.lease # lease'[j]
    <3>1. CASE m \in msgs[j]
      <4>1. m.lease # claims + 1 /\ m.lease <= claims'
        BY <1>1, <2>1, <2>5, <3>1
      <4> QED BY <1>1, <2>1, <3>1, <4>1 DEF OwnerInv, Owning
    <3>2. CASE j = k /\ m = Claim(claims + 1)
      BY <1>1, <2>1, <2>4, <2>6, <3>2
    <3> QED BY <1>1, <2>1, <3>1, <3>2
  <2>8. \A i \in Consumers : lease'[i] \in (1 .. claims') \cup {Nil}
    BY <1>1, <2>1 DEF OwnerInv
  <2>9. \A i, j \in Consumers : lease'[i] = lease'[j] /\ lease'[i] # Nil => i = j
    BY <1>1, <2>1, <2>4 DEF OwnerInv
  <2> QED BY <2>7, <2>8, <2>9 DEF OwnerInv, Owning
<1>3. ASSUME NEW k \in Consumers, Finish(k) PROVE OwnerInv'
  <2>1. PICK p \in {"completing", "releasing"}, n \in Messages :
          /\ consumer' = [consumer EXCEPT ![k] = p]
          /\ msgs' = [msgs EXCEPT ![k] = msgs[k] \cup {n}]
          /\ n.lease = lease[k] /\ (p = "completing" => n.op = "complete")
    <3>1. lease[k] \in LeaseIds /\ held[k].delivery \in Deliveries
      BY <1>3 DEF TypeInv, Named, Finish
    <3>2. /\ Complete(lease[k], held[k].delivery) \in Messages
          /\ Release(lease[k], held[k].delivery) \in Messages
      BY <3>1, MessageTypes
    <3> QED BY <1>3, <3>2 DEF Finish, Send, Complete, Release
  <2>2. UNCHANGED <<claims, lease>> /\ consumer[k] = "working" /\ lease[k] \in LeaseIds
    BY <1>3 DEF Finish, TypeInv, Named
  <2>3. lease[k] <= claims
    BY <1>1, <2>2, IdTypes DEF OwnerInv
  <2>4. ASSUME NEW j \in Consumers, NEW m \in msgs'[j]
        PROVE  /\ m.lease <= claims'
               /\ \A i \in Consumers : m.lease = lease'[i] => i = j
               /\ consumer'[j] \in Owning /\ m.op = "release" => m.lease # lease'[j]
    <3>1. CASE m \in msgs[j]
      BY <1>1, <2>1, <2>2, <3>1 DEF OwnerInv, Owning
    <3>2. CASE j = k /\ m = n
      BY <1>1, <2>1, <2>2, <2>3, <3>2, IdTypes DEF OwnerInv, Owning
    <3> QED BY <1>1, <2>1, <3>1, <3>2
  <2> QED BY <2>2, <2>4 DEF OwnerInv, Owning
<1>4. ASSUME NEW k \in Consumers, Answered(k) \/ Restart(k) \/ ExchangeFails(k) PROVE OwnerInv'
  <2>1. UNCHANGED <<claims, lease>> /\ \A j \in Consumers : msgs'[j] \subseteq msgs[j]
    BY <1>1, <1>4 DEF Answered, Restart, ExchangeFails
  <2>2. \A j \in Consumers : consumer'[j] \in Owning => consumer[j] \in Owning
    BY <1>1, <1>4 DEF Answered, Restart, ExchangeFails, Owning, TypeInv, Named
  <2> QED BY <2>1, <2>2, OwnerKept
<1>5. ASSUME NEW k \in Consumers, NEW m \in msgs[k],
             Completes(k, m) \/ Releases(k, m) \/ Refuses(k, m)
               \/ \E d \in Deliveries : Grants(k, m, d)
      PROVE  OwnerInv'
  <2>1. /\ UNCHANGED <<claims, lease, consumer>>
        /\ \A j \in Consumers : msgs'[j] \subseteq msgs[j]
    BY <1>1, <1>5 DEF Completes, Releases, Refuses, Grants, Respond
  <2> QED BY <2>1, OwnerKept
<1>6. CASE CallerMoves \/ Tick \/ \E c \in Callers : Enqueued(c)
  BY <1>6, OwnerKept DEF CallerMoves, Tick, Enqueued, consumerVars
<1> QED BY <1>2, <1>3, <1>4, <1>5, <1>6, Steps DEF ConsumerStep

\* What is held is kept when no record that is held changes, and time may pass.
LEMMA HeldKept ==
  ASSUME TypeInv, TypeInv', HeldInv, UNCHANGED lease,
         now' >= now,
         \A k \in Consumers :
           /\ consumer'[k] \in {"working", "completing"} =>
                \/ consumer[k] \in {"working", "completing"} /\ held'[k] = held[k]
                \/ reply[k].tag = "leased" /\ held'[k] = reply[k].held
           /\ reply'[k].tag = "leased" => reply'[k] = reply[k],
         UNCHANGED mailbox
  PROVE  HeldInv'
<1>1. ASSUME NEW k \in Consumers, NEW h \in Holdings, Keeps(k, h) PROVE Keeps(k, h)'
  <2>1. now \in Int /\ now' \in Int /\ h.until \in Int
    BY DEF TypeInv, TypeOK, Holdings
  <2> QED BY <1>1, <2>1 DEF Keeps
<1>2. \A k \in Consumers : held[k] \in Holdings /\ reply[k].held \in Holdings
  BY DEF TypeInv, TypeOK
<1> QED BY <1>1, <1>2 DEF HeldInv

\* So it is when the record that changes is not one that is held.
LEMMA HeldOtherwise ==
  ASSUME TypeInv, HeldInv, UNCHANGED <<lease, now, held, consumer>>,
         \A k \in Consumers, h \in Holdings :
           consumer[k] \in Owning /\ h.delivery \in Deliveries /\ Keeps(k, h)
             => Keeps(k, h)',
         \A k \in Consumers : reply'[k].tag = "leased" =>
           reply'[k] = reply[k] \/ Keeps(k, reply[k].held)'
  PROVE  HeldInv'
<1>1. \A k \in Consumers : held[k] \in Holdings /\ reply[k].held \in Holdings
  BY DEF TypeInv, TypeOK
<1>2. ASSUME NEW k \in Consumers, consumer'[k] \in {"working", "completing"}
      PROVE  Keeps(k, held[k])'
  <2>1. Keeps(k, held[k]) /\ consumer[k] \in Owning /\ held[k].delivery \in Deliveries
    BY <1>2 DEF HeldInv, TypeInv, Named, Owning
  <2> QED BY <1>1, <2>1 DEF Keeps
<1>3. ASSUME NEW k \in Consumers, reply'[k].tag = "leased", reply'[k] = reply[k]
      PROVE  Keeps(k, reply[k].held)'
  <2>1. Keeps(k, reply[k].held) /\ consumer[k] \in Owning /\ reply[k].held.delivery \in Deliveries
    BY <1>3 DEF HeldInv, TypeInv, Named, Owning
  <2> QED BY <1>1, <1>3, <2>1 DEF Keeps
<1> QED BY <1>2, <1>3 DEF HeldInv, Keeps

\* Every step keeps what consumers hold: the record of a held delivery is neither
\* granted anew, nor released by another's message, before the lease expires.
LEMMA HeldStep ==
  ASSUME TypeInv, OwnerInv, HeldInv, [Next]_vars
  PROVE  HeldInv'
<1>1. /\ TypeOK /\ TypeInv' /\ now \in Int /\ mailbox \in [Deliveries -> Records]
      /\ msgs \in [Consumers -> SUBSET Messages]
  BY TypeStep DEF TypeInv, TypeOK
<1>2. ASSUME NEW c \in Callers, Enqueued(c) PROVE HeldInv'
  <2>1. /\ mailbox[DeliveryOf[c]].lease = Nil
        /\ \A d \in Deliveries \ {DeliveryOf[c]} : mailbox'[d] = mailbox[d]
    BY <1>1, <1>2, RecordFacts, MailboxAssumption DEF Enqueued
  <2>2. UNCHANGED <<lease, now, held, consumer, reply>>
    BY <1>2 DEF Enqueued, consumerVars
  <2>3. ASSUME NEW k \in Consumers, NEW h \in Holdings, consumer[k] \in Owning,
               h.delivery \in Deliveries, Keeps(k, h)
        PROVE  Keeps(k, h)'
    <3>1. lease[k] # Nil
      BY <2>3, IdTypes DEF TypeInv, Named, Owning
    <3> QED BY <2>1, <2>2, <2>3, <3>1 DEF Keeps
  <2> QED BY <2>2, <2>3, HeldOtherwise
<1>3. CASE CallerMoves \/ Tick
  BY <1>1, <1>3, HeldKept DEF CallerMoves, Tick, consumerVars
<1>4. ASSUME NEW k \in Consumers, ClaimNext(k) PROVE HeldInv'
  <2>1. /\ consumer' = [consumer EXCEPT ![k] = "claiming"]
        /\ reply' = [reply EXCEPT ![k] = NoReply]
        /\ UNCHANGED <<now, mailbox, held>>
        /\ \A j \in Consumers \ {k} : lease'[j] = lease[j]
    BY <1>1, <1>4 DEF ClaimNext, Send, TypeOK
  <2>2. ASSUME NEW j \in Consumers
        PROVE  /\ consumer'[j] \in {"working", "completing"} => j # k /\ consumer[j] = consumer'[j]
               /\ reply'[j].tag = "leased" => j # k /\ reply[j] = reply'[j]
    BY <1>1, <2>1 DEF TypeOK, NoReply, Reply
  <2> QED BY <2>1, <2>2 DEF HeldInv, Keeps
<1>5. ASSUME NEW k \in Consumers, Finish(k) \/ Answered(k) \/ Restart(k) \/ ExchangeFails(k)
      PROVE  HeldInv'
  <2>1. UNCHANGED <<lease, now, mailbox>>
    BY <1>5 DEF Finish, Answered, Restart, ExchangeFails
  <2>2. ASSUME NEW j \in Consumers
        PROVE  /\ consumer'[j] \in {"working", "completing"} =>
                    \/ consumer[j] \in {"working", "completing"} /\ held'[j] = held[j]
                    \/ reply[j].tag = "leased" /\ held'[j] = reply[j].held
               /\ reply'[j].tag = "leased" => reply'[j] = reply[j]
    <3>1. CASE Finish(k)
      BY <1>1, <3>1 DEF Finish, Send, NoReply, Reply, TypeOK
    <3>2. CASE Answered(k)
      BY <1>1, <3>2 DEF Answered, NoReply, Reply, TypeOK
    <3>3. CASE Restart(k)
      BY <1>1, <3>3 DEF Restart, NoReply, Reply, TypeOK
    <3>4. CASE ExchangeFails(k)
      BY <1>1, <3>4 DEF ExchangeFails, Failed, Reply, TypeOK
    <3> QED BY <1>5, <3>1, <3>2, <3>3, <3>4
  <2>3. now' >= now
    BY <1>1, <2>1
  <2> QED BY <1>1, <2>1, <2>2, <2>3, HeldKept
<1>6. ASSUME NEW k \in Consumers, NEW m \in msgs[k], NEW d \in Deliveries, Grants(k, m, d)
      PROVE  HeldInv'
  <2>1. m.lease \in LeaseIds /\ m.op = "claim"
    BY <1>1, <1>6 DEF Messages, Grants
  <2>2. /\ mailbox[d] \in Records /\ mailbox[d].state \in {"queued", "leased"}
        /\ mailbox[d].state = "leased" => mailbox[d].until <= now
    BY <1>1, <1>6 DEF Grants, IsNext, Offered
  <2>3. PICK u \in Int : u = Sooner(now + LeaseLifetime, mailbox[d].expires)
    BY <1>1, <2>2, RecordFacts, MailboxAssumption DEF Sooner
  <2>4. /\ mailbox' = [mailbox EXCEPT ![d] = Leased(mailbox[d], m.lease, u)]
        /\ Respond(k, m, Reply("leased", Held(d, u)))
    BY <1>6, <2>3 DEF Grants
  <2>5. Reply("leased", Held(d, u)) \in Replies
    BY ReplyTypes DEF Tags
  <2>6. /\ \A j \in Consumers : reply'[j] # reply[j] =>
             /\ j = k /\ Listening(k, m)
             /\ reply'[j] \in {Reply("leased", Held(d, u)), Failed}
        /\ UNCHANGED <<now, consumer, lease, held>>
    BY <1>1, <2>4, <2>5, RespondEffect
  <2>7. ASSUME NEW j \in Consumers, NEW h \in Holdings, consumer[j] \in Owning,
               h.delivery \in Deliveries, Keeps(j, h)
        PROVE  Keeps(j, h)'
    <3>1. lease[j] # Nil
      BY <2>7, IdTypes DEF TypeInv, Named, Owning
    <3>2. h.until \in Int /\ mailbox[d].until \in Int
      BY <2>2, RecordFacts DEF Holdings
    <3>3. CASE h.until > now /\ h.delivery = d
      <4>1. mailbox[d].lease # Nil
        BY <2>7, <3>1, <3>3 DEF Keeps
      <4>2. mailbox[d].state = "leased"
        BY <2>2, <4>1, RecordFacts
      <4>3. mailbox[d].until >= h.until
        BY <2>7, <3>3, <4>2 DEF Keeps
      <4> QED BY <1>1, <2>2, <3>2, <3>3, <4>2, <4>3
    <3>4. CASE ~(h.until > now)
      BY <2>6, <3>4 DEF Keeps
    <3>5. CASE h.delivery # d
      BY <1>1, <2>4, <2>6, <2>7, <3>5 DEF Keeps
    <3> QED BY <3>3, <3>4, <3>5
  <2>8. mailbox'[d].lease = m.lease /\ mailbox'[d].until = u
    BY <1>1, <2>1, <2>2, <2>4, TransitionFacts
  <2>9. ASSUME NEW j \in Consumers, reply'[j].tag = "leased", reply'[j] # reply[j]
        PROVE  Keeps(j, reply[j].held)'
    <3>1. j = k /\ m.lease = lease[k] /\ reply'[j] = Reply("leased", Held(d, u))
      BY <2>6, <2>9 DEF Listening, Failed, Reply
    <3> QED BY <2>6, <2>8, <3>1 DEF Keeps, Reply, Held
  <2> QED BY <2>6, <2>7, <2>9, HeldOtherwise
<1>7. ASSUME NEW k \in Consumers, NEW m \in msgs[k], Completes(k, m) \/ Releases(k, m) \/ Refuses(k, m)
      PROVE  HeldInv'
  <2>1. PICK tag \in Tags \ {"leased"} : Respond(k, m, Reply(tag, NothingHeld))
    BY <1>7 DEF Completes, Releases, Refuses, Tags
  <2>2. Reply(tag, NothingHeld) \in Replies
    BY ReplyTypes
  <2>3. /\ \A j \in Consumers : reply'[j] # reply[j] =>
             reply'[j] \in {Reply(tag, NothingHeld), Failed}
        /\ UNCHANGED <<now, consumer, lease, held>>
    BY <1>1, <2>1, <2>2, RespondEffect
  <2>4. \A j \in Consumers : reply'[j].tag = "leased" => reply'[j] = reply[j]
    BY <2>3 DEF Failed, Reply
  <2>5. ASSUME NEW j \in Consumers, NEW h \in Holdings, consumer[j] \in Owning,
               h.delivery \in Deliveries, Keeps(j, h)
        PROVE  Keeps(j, h)'
    <3>1. CASE Refuses(k, m)
      BY <2>3, <2>5, <3>1 DEF Refuses, Keeps
    <3>2. CASE Completes(k, m)
      <4>1. m.lease \in LeaseIds /\ m.delivery \in Deliveries
        BY <1>1, <3>2 DEF TypeInv, Named, Messages, Completes
      <4>2. mailbox' = [mailbox EXCEPT ![m.delivery] = Completed(mailbox[m.delivery], m.lease, now)]
        BY <3>2 DEF Completes
      <4>3. /\ mailbox'[m.delivery].lease = mailbox[m.delivery].lease
            /\ mailbox'[m.delivery].state = "completed"
        BY <1>1, <4>1, <4>2, TransitionFacts
      <4> QED BY <1>1, <2>3, <2>5, <4>1, <4>2, <4>3 DEF Keeps
    <3>3. CASE Releases(k, m)
      <4>1. /\ m.lease \in LeaseIds /\ m.delivery \in Deliveries /\ m.op = "release"
            /\ mailbox[m.delivery].lease = m.lease
        BY <1>1, <3>3 DEF TypeInv, Named, Messages, Releases, MayRelease
      <4>2. m.lease # lease[j]
        BY <2>5, <4>1 DEF OwnerInv, Owning
      <4>3. \A d \in Deliveries \ {m.delivery} : mailbox'[d] = mailbox[d]
        BY <1>1, <3>3 DEF Releases
      <4> QED BY <2>3, <2>5, <4>1, <4>2, <4>3 DEF Keeps
    <3> QED BY <1>7, <3>1, <3>2, <3>3
  <2> QED BY <2>3, <2>4, <2>5, HeldOtherwise
<1> QED BY <1>2, <1>3, <1>4, <1>5, <1>6, <1>7, Steps DEF ConsumerStep

\* The exclusive lease (LeaseKeptUntilExpiry of the run), from any state: restarts,
\* late messages and the other consumers do not take a delivery from its holder.
THEOREM Exclusion == Spec => []LeaseKeptUntilExpiry
<1> DEFINE Inv == OwnerInv /\ HeldInv
<1>1. Init => Inv
  BY DEF Init, OwnerInv, HeldInv, NoReply, Reply
<1>2. TypeInv /\ Inv /\ [Next]_vars => Inv'
  BY OwnerStep, HeldStep
<1>3. Inv => LeaseKeptUntilExpiry
  BY DEF HeldInv, Keeps, LeaseKeptUntilExpiry
<1> QED BY <1>1, <1>2, <1>3, TypesInvariant, PTL DEF Spec

-----------------------------------------------------------------------------
(* The order of grants.                                                     *)

\* What GrantsInOrder says of a step.
InOrder ==
  \A d, e \in Deliveries :
    Granted(d) /\ mailbox[e].state \in {"queued", "leased"} /\ mailbox[e].expires > now =>
      mailbox[d].created <= mailbox[e].created \/ mailbox[e].until > now

\* A grant takes the oldest of what is offered.
LEMMA OrderStep == ASSUME TypeInv, [Next]_vars PROVE InOrder
<1>1. /\ TypeOK /\ now \in Int /\ mailbox \in [Deliveries -> Records]
      /\ msgs \in [Consumers -> SUBSET Messages]
  BY DEF TypeInv, TypeOK
<1>2. ASSUME NEW c \in Callers, Enqueued(c) PROVE \A d \in Deliveries : ~Granted(d)
  BY <1>1, <1>2, TransitionFacts, MailboxAssumption DEF Enqueued, Granted
<1>3. ASSUME NEW k \in Consumers, NEW m \in msgs[k], Completes(k, m)
      PROVE  \A d \in Deliveries : ~Granted(d)
  <2>1. m.lease \in LeaseIds /\ m.delivery \in Deliveries
    BY <1>1, <1>3 DEF TypeInv, Named, Messages, Completes
  <2> QED BY <1>1, <1>3, <2>1, TransitionFacts DEF Completes, Granted
<1>4. ASSUME NEW k \in Consumers, NEW m \in msgs[k], Releases(k, m)
      PROVE  \A d \in Deliveries : ~Granted(d)
  <2>1. m.delivery \in Deliveries
    BY <1>1, <1>4 DEF TypeInv, Named, Releases
  <2> QED BY <1>1, <1>4, <2>1, TransitionFacts DEF Releases, Granted
<1>5. ASSUME NEW k \in Consumers, NEW m \in msgs[k], NEW x \in Deliveries, Grants(k, m, x)
      PROVE  InOrder
  <2>1. IsNext(x) /\ \A d \in Deliveries \ {x} : mailbox'[d] = mailbox[d]
    BY <1>1, <1>5 DEF Grants
  <2>2. ASSUME NEW e \in Deliveries, mailbox[e].state \in {"queued", "leased"},
               mailbox[e].expires > now, ~(mailbox[e].until > now)
        PROVE  mailbox[x].created <= mailbox[e].created
    <3>1. mailbox[e].until \in Int /\ mailbox[e].created \in Int /\ mailbox[x].created \in Int
      BY <1>1, RecordFacts
    <3>2. Offered(e)
      BY <1>1, <2>2, <3>1 DEF Offered
    <3> QED BY <2>1, <3>1, <3>2 DEF IsNext, Precedes
  <2> QED BY <2>1, <2>2 DEF InOrder, Granted
<1>6. ASSUME UNCHANGED mailbox PROVE \A d \in Deliveries : ~Granted(d)
  BY <1>6 DEF Granted
<1>7. ASSUME NEW k \in Consumers, ConsumerStep(k) \/ ExchangeFails(k) PROVE UNCHANGED mailbox
  BY <1>7 DEF ConsumerStep, ClaimNext, Finish, Answered, Restart, ExchangeFails
<1> QED BY <1>2, <1>3, <1>4, <1>5, <1>6, <1>7, Steps DEF CallerMoves, Refuses, Tick, InOrder

\* Leases are granted oldest first (GrantsInOrder of the run).
THEOREM OldestFirst == Spec => GrantsInOrder
<1>1. TypeInv /\ [Next]_vars => [InOrder]_vars
  BY OrderStep
<1> QED BY <1>1, TypesInvariant, PTL DEF Spec, GrantsInOrder, InOrder

-----------------------------------------------------------------------------
(* The refinement of IdempotentResult.                                      *)

\* A caller that has not ended has no answer.
OpenUnanswered == \A c \in Callers : caller[c] # "done" => answer[c] = NoAnswer

\* What a step may do to the answers: a wait ends, with the result or without.
WaitAnswers ==
  \/ UNCHANGED answer
  \/ \E c \in Callers :
       /\ caller[c] = "waiting" /\ UNCHANGED mailbox
       /\ \/ answer' = [answer EXCEPT ![c] = ErrorAnswer]
          \/ HasResult(c) /\ answer' = [answer EXCEPT ![c] = Result(mailbox[DeliveryOf[c]].result)]

\* And to a delivery's record: a result stays, and a new one comes alone.
ResultStays ==
  \A d \in Deliveries :
    /\ mailbox[d].state = "completed" => mailbox'[d] = mailbox[d]
    /\ mailbox[d].state # "completed" /\ mailbox'[d].state = "completed" => UNCHANGED answer

\* Every step changes the answers and the results this way only.
LEMMA ResultEffect == ASSUME TypeInv, [Next]_vars PROVE WaitAnswers /\ ResultStays
<1>1. /\ mailbox \in [Deliveries -> Records] /\ msgs \in [Consumers -> SUBSET Messages]
  BY DEF TypeInv, TypeOK
<1>2. ASSUME NEW c \in Callers, WaitEnds(c) PROVE WaitAnswers
  BY <1>2 DEF WaitEnds, WaitAnswers
<1>3. ASSUME NEW c \in Callers, enqueueMcpDeliveryState(c) \/ EnqueueFails(c) PROVE UNCHANGED answer
  BY <1>3 DEF enqueueMcpDeliveryState, EnqueueFails
<1>4. ASSUME NEW k \in Consumers, ConsumerStep(k) \/ StoreStep(k) PROVE UNCHANGED answer
  BY <1>4 DEF ConsumerStep, StoreStep, ClaimNext, Finish, Answered, Restart, ExchangeFails, callerVars,
              claimMcpDeliveryState, completeMcpDeliveryState, releaseMcpDeliveryState, Respond
<1>5. ASSUME Tick \/ UNCHANGED vars PROVE UNCHANGED answer
  BY <1>5 DEF Tick, vars, callerVars
<1>6. WaitAnswers
  BY <1>2, <1>3, <1>4, <1>5 DEF Next, CallerStep, WaitAnswers
<1>7. ASSUME NEW d \in Deliveries, mailbox[d].state = "completed" PROVE mailbox'[d] = mailbox[d]
  <2>1. ASSUME NEW c \in Callers, Enqueued(c) PROVE mailbox'[d] = mailbox[d]
    BY <1>1, <1>7, <2>1 DEF Enqueued
  <2>2. ASSUME NEW k \in Consumers, NEW m \in msgs[k], NEW e \in Deliveries, Grants(k, m, e)
        PROVE  mailbox'[d] = mailbox[d]
    BY <1>1, <1>7, <2>2 DEF Grants, IsNext, Offered
  <2>3. ASSUME NEW k \in Consumers, NEW m \in msgs[k], Completes(k, m) \/ Releases(k, m)
        PROVE  mailbox'[d] = mailbox[d]
    BY <1>1, <1>7, <2>3 DEF Completes, Releases, MayComplete, MayRelease
  <2>4. ASSUME NEW k \in Consumers, ConsumerStep(k) \/ ExchangeFails(k) PROVE UNCHANGED mailbox
    BY <2>4 DEF ConsumerStep, ClaimNext, Finish, Answered, Restart, ExchangeFails
  <2> QED BY <2>1, <2>2, <2>3, <2>4, Steps DEF CallerMoves, Refuses, Tick
<1>8. ASSUME NEW d \in Deliveries, mailbox[d].state # "completed", mailbox'[d].state = "completed"
      PROVE  UNCHANGED answer
  BY <1>6, <1>8 DEF WaitAnswers
<1> QED BY <1>6, <1>7, <1>8 DEF ResultStays

\* A caller that has ended does not begin again.
LEMMA DoneStays ==
  ASSUME TypeOK, [Next]_vars, NEW x \in Callers, caller[x] = "done" PROVE caller'[x] = "done"
<1>1. ASSUME NEW c \in Callers, CallerStep(c) PROVE caller'[x] = "done"
  BY <1>1 DEF CallerStep, enqueueMcpDeliveryState, EnqueueFails, WaitEnds, Move, TypeOK
<1>2. ASSUME NEW k \in Consumers, ConsumerStep(k) \/ StoreStep(k) PROVE UNCHANGED caller
  BY <1>2 DEF ConsumerStep, StoreStep, ClaimNext, Finish, Answered, Restart, ExchangeFails, callerVars,
              claimMcpDeliveryState, completeMcpDeliveryState, releaseMcpDeliveryState, Respond
<1>3. CASE Tick \/ UNCHANGED vars
  BY <1>3 DEF Tick, vars, callerVars
<1> QED BY <1>1, <1>2, <1>3 DEF Next

\* An answer ends its call.
LEMMA AnswerEnds ==
  ASSUME TypeOK, [Next]_vars, NEW x \in Callers, answer'[x] # answer[x] PROVE caller'[x] = "done"
<1>1. ASSUME NEW c \in Callers, WaitEnds(c) PROVE caller'[x] = "done"
  <2>1. caller' = [caller EXCEPT ![c] = "done"] /\ \A y \in Callers \ {c} : answer'[y] = answer[y]
    BY <1>1 DEF WaitEnds, Move, TypeOK
  <2> QED BY <2>1 DEF TypeOK
<1>2. ASSUME NEW c \in Callers, enqueueMcpDeliveryState(c) \/ EnqueueFails(c) PROVE UNCHANGED answer
  BY <1>2 DEF enqueueMcpDeliveryState, EnqueueFails
<1>3. ASSUME NEW k \in Consumers, ConsumerStep(k) \/ StoreStep(k) PROVE UNCHANGED answer
  BY <1>3 DEF ConsumerStep, StoreStep, ClaimNext, Finish, Answered, Restart, ExchangeFails, callerVars,
              claimMcpDeliveryState, completeMcpDeliveryState, releaseMcpDeliveryState, Respond
<1>4. CASE Tick \/ UNCHANGED vars
  BY <1>4 DEF Tick, vars, callerVars
<1> QED BY <1>1, <1>2, <1>3, <1>4 DEF Next, CallerStep

\* The program keeps OpenUnanswered.
LEMMA OpenStep == ASSUME TypeOK, OpenUnanswered, [Next]_vars PROVE OpenUnanswered'
<1> SUFFICES ASSUME NEW c \in Callers, caller'[c] # "done" PROVE answer'[c] = NoAnswer
  BY DEF OpenUnanswered
<1>1. answer'[c] = answer[c] /\ caller[c] # "done"
  BY AnswerEnds, DoneStays
<1> QED BY <1>1 DEF OpenUnanswered

\* The initial state is an abstract one.
LEMMA ResultInit == Init => OneResult!AInit
<1> SUFFICES ASSUME Init PROVE OneResult!AInit
  OBVIOUS
<1>1. mailbox[Watched].state = "none"
  BY MailboxAssumption DEF Init, NoRecord
<1>2. \A c \in Watchers : answer[c] = NoAnswer
  BY DEF Init, Watchers
<1> QED BY <1>1, <1>2 DEF OneResult!AInit, OneResult!NoAnswer, NoAnswer

\* Every step is an abstract step or changes nothing the abstraction sees.
LEMMA ResultStep ==
  TypeInv /\ TypeInv' /\ OpenUnanswered /\ [Next]_vars => [OneResult!ANext]_OneResult!avars
<1> SUFFICES ASSUME TypeInv, TypeInv', OpenUnanswered, [Next]_vars
             PROVE  [OneResult!ANext]_OneResult!avars
  OBVIOUS
<1> DEFINE r == mailbox[Watched]
           Settled(x) == IF x.state = "completed" THEN [digest |-> x.digest, value |-> x.result] ELSE Nil
           Shown(o) == [c \in Watchers |-> o[c]]
<1>1. WaitAnswers /\ ResultStays /\ Watched \in Deliveries /\ Watchers \subseteq Callers
  BY ResultEffect, MailboxAssumption DEF Watchers
<1>2. /\ r.state = "completed" => r.digest \in Digests /\ r.result \in LeaseIds
      /\ r'.state = "completed" => r'.digest \in Digests /\ r'.result \in LeaseIds
  BY <1>1, RecordFacts DEF TypeInv, TypeOK
<1>3. CASE r.state # "completed" /\ r'.state = "completed"
  <2>1. Settled(r) = Nil /\ Settled(r') = OneResult!Settled(r'.digest, r'.result)
    BY <1>3 DEF OneResult!Settled
  <2>2. Shown(answer') = Shown(answer)
    BY <1>1, <1>3 DEF ResultStays
  <2> QED BY <1>2, <1>3, <2>1, <2>2 DEF OneResult!ANext, OneResult!Settle
<1>4. CASE r.state = "completed" \/ r'.state # "completed"
  <2>1. Settled(r') = Settled(r)
    BY <1>1, <1>4 DEF ResultStays
  <2>2. ASSUME NEW c \in Watchers, answer'[c] # answer[c]
        PROVE  /\ Shown(answer)[c] = OneResult!NoAnswer
               /\ \/ Shown(answer')[c] = OneResult!ErrorAnswer
                  \/ /\ Settled(r) # Nil
                     /\ Settled(r).digest = DigestOf[c]
                     /\ Shown(answer')[c] = OneResult!OkAnswer(Settled(r).value)
    <3>1. /\ answer \in [Callers -> [kind : {"none", "error", "ok"}, value : LeaseIds \cup {Nil}]]
          /\ c \in Callers /\ DeliveryOf[c] = Watched
      BY <1>1 DEF TypeInv, TypeOK, Watchers
    <3>2. /\ caller[c] = "waiting"
          /\ \/ answer'[c] = ErrorAnswer
             \/ HasResult(c) /\ answer'[c] = Result(r.result)
      BY <1>1, <2>2, <3>1 DEF WaitAnswers
    <3>3. Shown(answer)[c] = OneResult!NoAnswer
      BY <3>1, <3>2 DEF OpenUnanswered, NoAnswer, OneResult!NoAnswer
    <3>4. CASE answer'[c] = ErrorAnswer
      BY <3>3, <3>4 DEF ErrorAnswer, OneResult!ErrorAnswer
    <3>5. CASE HasResult(c) /\ answer'[c] = Result(r.result)
      <4>1. r.state = "completed" /\ r.digest = DigestOf[c]
        BY <3>1, <3>5 DEF HasResult
      <4>2. Settled(r) = [digest |-> DigestOf[c], value |-> r.result]
        BY <4>1
      <4>3. Settled(r) \in [digest : Digests, value : 1 .. MaxClaims]
        BY <1>2, <4>1, <4>2 DEF LeaseIds
      <4>4. Settled(r) # Nil
        BY <4>3, MailboxAssumption
      <4>5. Shown(answer')[c] = OneResult!OkAnswer(r.result)
        BY <3>5 DEF Result, OneResult!OkAnswer
      <4> QED BY <3>3, <4>2, <4>4, <4>5
    <3> QED BY <3>2, <3>4, <3>5
  <2>3. OneResult!Answer
    BY <2>1, <2>2 DEF OneResult!Answer, OneResult!MayAnswer
  <2> QED BY <2>3 DEF OneResult!ANext
<1> QED BY <1>3, <1>4

\* The mailbox of a delivery implements IdempotentResult (ImplementsOneResult of the
\* run): one result, settled once, and no other answer to its callers.
THEOREM ImplementsIdempotentResult == Spec => ImplementsOneResult
<1>1. Init => OpenUnanswered
  BY DEF Init, OpenUnanswered
<1>2. Spec => []OpenUnanswered
  BY <1>1, OpenStep, TypeCorrect, PTL DEF Spec
<1> QED BY <1>2, ResultInit, ResultStep, TypesInvariant, PTL
        DEF Spec, ImplementsOneResult, OneResult!ASpec
=============================================================================
