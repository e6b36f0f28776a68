---------------------------- MODULE McpDelivery -----------------------------
(***************************************************************************)
(* The route mailbox of services/mcp-gateway: device-bound reads are put   *)
(* into the Durable Object of their route, and the route's consumers lease *)
(* them one at a time, oldest first, and complete or release them.         *)
(*                                                                         *)
(* One mailbox is modelled: mailboxes share nothing.  What enqueues, waits *)
(* and consumes is a user of the repository's methods; the repository, its *)
(* state transitions and its wait loop are the gateway's.  Messages to the *)
(* mailbox are applied late, lost, or lose their answer, and a consumer    *)
(* stops and starts again with its old messages still on their way.        *)
(***************************************************************************)
EXTENDS Integers

CONSTANTS Callers,       \* who enqueues a read and waits for its result
          Consumers,     \* consumer processes of the route
          Deliveries,    \* delivery ids (derived from request ids)
          Watched,       \* the delivery ImplementsOneResult is about: any one
          Digests,
          DeliveryOf,    \* the delivery each caller enqueues ...
          DigestOf,      \* ... its digest ...
          CreatedAt,     \* ... its createdAt, by the caller's clock ...
          ExpiresAt,     \* ... and its expiry
          Rank,          \* the order of the ids as strings
          LeaseLifetime, \* leaseLifetimeMs
          MaxClaims,     \* bound on the claims of all consumers
          MaxTime,       \* bound on the clock
          Nil

ASSUME MailboxAssumption ==
  /\ DeliveryOf \in [Callers -> Deliveries]
  /\ DigestOf \in [Callers -> Digests] /\ Watched \in Deliveries
  /\ CreatedAt \in [Callers -> Int] /\ ExpiresAt \in [Callers -> Int]
  /\ \A c \in Callers : CreatedAt[c] < ExpiresAt[c]
  /\ Rank \in [Deliveries -> Int]
  /\ \A d, e \in Deliveries : Rank[d] = Rank[e] => d = e
  /\ LeaseLifetime \in Nat \ {0}
  /\ MaxClaims \in Nat /\ MaxTime \in Nat
  /\ Nil \notin 1 .. MaxClaims
  /\ Nil \notin Digests
  /\ Nil \notin [digest : Digests, value : 1 .. MaxClaims]

VARIABLES
  now,       \* the mailbox's clock
  mailbox,   \* the stored record of each delivery
  fenced,    \* history: leases that were granted and then replaced or released
  caller,    \* where each caller is
  enqueues,  \* callers whose enqueue message is on its way
  answer,    \* what each caller's wait returned
  consumer,  \* where each consumer is
  claims,    \* how many lease ids were made: random, hence distinct
  lease,     \* the lease id each consumer made last
  held,      \* the delivery and the expiry claimNext gave each consumer
  msgs,      \* each consumer's messages on their way
  reply      \* the mailbox's answer to a consumer

callerVars == <<caller, enqueues, answer>>
consumerVars == <<consumer, claims, lease, held, msgs, reply>>
vars == <<now, mailbox, fenced, callerVars, consumerVars>>
-----------------------------------------------------------------------------
\* A consumer's result is named by the lease it was made under.
LeaseIds == 1 .. MaxClaims

NoRecord == [state |-> "none", digest |-> Nil, created |-> 0, expires |-> 0,
             lease |-> Nil, until |-> 0, result |-> Nil, completedAt |-> 0]
Queued(c) == [state |-> "queued", digest |-> DigestOf[c], created |-> CreatedAt[c],
              expires |-> ExpiresAt[c], lease |-> Nil, until |-> 0, result |-> Nil, completedAt |-> 0]
Leased(r, id, u) == [r EXCEPT !.state = "leased", !.lease = id, !.until = u]
Completed(r, v, t) == [r EXCEPT !.state = "completed", !.result = v, !.completedAt = t]
Requeued(r) == [r EXCEPT !.state = "queued", !.lease = Nil, !.until = 0]

\* The mutable states that normalizeMcpDeliveryRecord takes for consistent.
RecordsOf(states, leases, untils, results, times) ==
  [state : states, digest : Digests, created : Int, expires : Int,
   lease : leases, until : untils, result : results, completedAt : times]
Records == {NoRecord} \cup RecordsOf({"queued"}, {Nil}, {0}, {Nil}, {0})
  \cup RecordsOf({"leased"}, LeaseIds, Int, {Nil}, {0})
  \cup RecordsOf({"completed"}, LeaseIds, Int, LeaseIds, Int)

NothingHeld == [delivery |-> Nil, until |-> 0]
Held(d, u) == [delivery |-> d, until |-> u]
NoReply == [tag |-> "none", held |-> NothingHeld]
Reply(tag, h) == [tag |-> tag, held |-> h]
Holdings == [delivery : Deliveries \cup {Nil}, until : Int]
Tags == {"none", "leased", "empty", "completed", "stale", "released", "failed"}

NoAnswer == [kind |-> "none", value |-> Nil]
ErrorAnswer == [kind |-> "error", value |-> Nil]
Result(v) == [kind |-> "ok", value |-> v]

Claim(id) == [op |-> "claim", lease |-> id, delivery |-> Nil]
Complete(id, d) == [op |-> "complete", lease |-> id, delivery |-> d]
Release(id, d) == [op |-> "release", lease |-> id, delivery |-> d]
Messages == [op : {"claim", "complete", "release"}, lease : LeaseIds,
             delivery : Deliveries \cup {Nil}]

TypeOK ==
  /\ now \in Nat
  /\ mailbox \in [Deliveries -> Records]
  /\ fenced \subseteq LeaseIds
  /\ caller \in [Callers -> {"enqueuing", "waiting", "done"}]
  /\ enqueues \subseteq Callers
  /\ answer \in [Callers -> [kind : {"none", "error", "ok"}, value : LeaseIds \cup {Nil}]]
  /\ consumer \in [Consumers -> {"idle", "claiming", "working", "completing", "releasing"}]
  /\ claims \in 0 .. MaxClaims
  /\ lease \in [Consumers -> LeaseIds \cup {Nil}]
  /\ held \in [Consumers -> Holdings]
  /\ msgs \in [Consumers -> SUBSET Messages]
  /\ reply \in [Consumers -> [tag : Tags, held : Holdings]]

Init ==
  /\ now = 0
  /\ mailbox = [d \in Deliveries |-> NoRecord]
  /\ fenced = {}
  /\ caller = [c \in Callers |-> "enqueuing"]
  /\ enqueues = Callers
  /\ answer = [c \in Callers |-> NoAnswer]
  /\ consumer = [k \in Consumers |-> "idle"]
  /\ claims = 0
  /\ lease = [k \in Consumers |-> Nil]
  /\ held = [k \in Consumers |-> NothingHeld]
  /\ msgs = [k \in Consumers |-> {}]
  /\ reply = [k \in Consumers |-> NoReply]

Sooner(a, b) == IF a < b THEN a ELSE b
-----------------------------------------------------------------------------
(* A caller enqueues its read and waits for the result.  Its message is on  *)
(* its way from the start: when it was sent makes no difference.            *)

Move(c, p) == caller' = [caller EXCEPT ![c] = p]

\* enqueueMcpDeliveryState: a new record, the same again, or other content.
SameContent(c, r) ==
  r.digest = DigestOf[c] /\ r.created = CreatedAt[c] /\ r.expires = ExpiresAt[c]

enqueueMcpDeliveryState(c) ==
  LET d == DeliveryOf[c]
      current == mailbox[d]
      Answered(p) == \/ caller[c] = "enqueuing" /\ (Move(c, p) \/ Move(c, "waiting"))
                     \/ caller[c] # "enqueuing" /\ UNCHANGED caller
  IN
  /\ c \in enqueues
  /\ enqueues' = enqueues \ {c}
  /\ \/ /\ current.state = "none"
        /\ mailbox' = [mailbox EXCEPT ![d] = Queued(c)]
        /\ Answered("waiting")
     \/ /\ current.state # "none" /\ SameContent(c, current)
        /\ Answered("waiting")
        /\ UNCHANGED mailbox
     \/ /\ current.state # "none" /\ ~SameContent(c, current)
        /\ Answered("done")
        /\ UNCHANGED mailbox
  /\ UNCHANGED <<now, fenced, answer, consumerVars>>

\* The exchange fails, with the message lost or still on its way.  The caller,
\* which cannot tell, may wait for the result all the same.
EnqueueFails(c) ==
  /\ caller[c] = "enqueuing"
  /\ Move(c, "waiting")
  /\ enqueues' \in {enqueues, enqueues \ {c}}
  /\ UNCHANGED <<now, mailbox, fenced, answer, consumerVars>>

\* The wait polls the record until it is completed.  It ends without a result
\* when the record is missing or has another digest, when a read fails or when
\* it has taken too long: the last two may be at any time.
AnyDigest(c) == mailbox[DeliveryOf[c]].state = "completed"
HasResult(c) == /\ mailbox[DeliveryOf[c]].state = "completed"
                /\ mailbox[DeliveryOf[c]].digest = DigestOf[c]

WaitEnds(c) ==
  /\ caller[c] = "waiting"
  /\ Move(c, "done")
  /\ \/ HasResult(c) /\ answer' = [answer EXCEPT ![c] = Result(mailbox[DeliveryOf[c]].result)]
     \/ answer' = [answer EXCEPT ![c] = ErrorAnswer]
  /\ UNCHANGED <<now, mailbox, fenced, enqueues, consumerVars>>
-----------------------------------------------------------------------------
(* A consumer of the route.                                                 *)

Send(k, p, m) ==
  /\ consumer' = [consumer EXCEPT ![k] = p]
  /\ msgs' = [msgs EXCEPT ![k] = @ \cup {m}]
  /\ reply' = [reply EXCEPT ![k] = NoReply]

ClaimNext(k) ==
  /\ consumer[k] = "idle" /\ claims < MaxClaims
  /\ claims' = claims + 1
  /\ lease' = [lease EXCEPT ![k] = claims + 1]
  /\ Send(k, "claiming", Claim(claims + 1))
  /\ UNCHANGED <<now, mailbox, fenced, callerVars, held>>

\* The read's result, its error, or nothing yet: the lease is completed or released.
Finish(k) ==
  /\ consumer[k] = "working"
  /\ \/ Send(k, "completing", Complete(lease[k], held[k].delivery))
     \/ Send(k, "releasing", Release(lease[k], held[k].delivery))
  /\ UNCHANGED <<now, mailbox, fenced, callerVars, claims, lease, held>>

\* An answer arrives.  A completion whose answer is lost may be sent again.
Answered(k) ==
  /\ reply[k].tag # "none"
  /\ reply' = [reply EXCEPT ![k] = NoReply]
  /\ \/ /\ reply[k].tag = "leased"
        /\ consumer' = [consumer EXCEPT ![k] = "working"]
        /\ held' = [held EXCEPT ![k] = reply[k].held]
     \/ /\ reply[k].tag = "failed" /\ consumer[k] = "completing"
        /\ consumer' = [consumer EXCEPT ![k] = "working"]
        /\ UNCHANGED held
     \/ /\ reply[k].tag # "leased"
        /\ consumer' = [consumer EXCEPT ![k] = "idle"]
        /\ held' = [held EXCEPT ![k] = NothingHeld]
  /\ UNCHANGED <<now, mailbox, fenced, callerVars, claims, lease, msgs>>

\* The consumer stops and starts again; what it has sent stays on its way.
Restart(k) ==
  /\ consumer[k] # "idle"
  /\ consumer' = [consumer EXCEPT ![k] = "idle"]
  /\ held' = [held EXCEPT ![k] = NothingHeld]
  /\ reply' = [reply EXCEPT ![k] = NoReply]
  /\ UNCHANGED <<now, mailbox, fenced, callerVars, claims, lease, msgs>>
-----------------------------------------------------------------------------
(* The mailbox.  Each message is handled in one step.                       *)

Listening(k, m) ==
  /\ reply[k].tag = "none"
  /\ m.lease = lease[k]
  /\ \/ m.op = "claim" /\ consumer[k] = "claiming"
     \/ m.op = "complete" /\ consumer[k] = "completing"
     \/ m.op = "release" /\ consumer[k] = "releasing"

Failed == Reply("failed", NothingHeld)

Respond(k, m, r) ==
  /\ msgs' = [msgs EXCEPT ![k] = @ \ {m}]
  /\ IF Listening(k, m)
     THEN \E a \in {r, Failed} : reply' = [reply EXCEPT ![k] = a]
     ELSE UNCHANGED reply
  /\ UNCHANGED <<now, callerVars, consumer, claims, lease, held>>

\* What SELECT_NEXT offers: unexpired, and queued or leased until now at most.
OfferedSinceGranted(d) ==
  mailbox[d].state \in {"queued", "leased"} /\ mailbox[d].expires > now
Offered(d) ==
  /\ mailbox[d].state \in {"queued", "leased"}
  /\ mailbox[d].expires > now
  /\ mailbox[d].state = "leased" => mailbox[d].until <= now

\* ORDER BY created_at, id.
ById(d, e) == Rank[d] <= Rank[e]
Precedes(d, e) == \/ mailbox[d].created < mailbox[e].created
                  \/ mailbox[d].created = mailbox[e].created /\ Rank[d] <= Rank[e]
IsNext(d) == Offered(d) /\ \A e \in Deliveries : Offered(e) => Precedes(d, e)

\* A lease may not begin before createdAt, by a caller's clock that is ahead: then
\* the transition is rejected.
claimMcpDeliveryState(k) == \E m \in msgs[k] :
  /\ m.op = "claim"
  /\ \/ /\ \A d \in Deliveries : ~Offered(d)
        /\ Respond(k, m, Reply("empty", NothingHeld))
        /\ UNCHANGED <<mailbox, fenced>>
     \/ \E d \in Deliveries :
          LET until == Sooner(now + LeaseLifetime, mailbox[d].expires) IN
          /\ IsNext(d)
          /\ \/ /\ mailbox[d].created > now
                /\ Respond(k, m, Failed)
                /\ UNCHANGED <<mailbox, fenced>>
             \/ /\ mailbox[d].created <= now
                /\ mailbox' = [mailbox EXCEPT ![d] = Leased(@, m.lease, until)]
                /\ fenced' = fenced \cup ({mailbox[d].lease} \ {Nil})
                /\ Respond(k, m, Reply("leased", Held(d, until)))

\* Who may complete a delivery, and who may release it.
MayComplete(r, id) == r.state = "leased" /\ r.lease = id /\ r.until > now /\ r.expires > now

completeMcpDeliveryState(k) == \E m \in msgs[k] :
  /\ m.op = "complete"
  /\ \/ /\ MayComplete(mailbox[m.delivery], m.lease)
        /\ mailbox' = [mailbox EXCEPT ![m.delivery] = Completed(@, m.lease, now)]
        /\ Respond(k, m, Reply("completed", NothingHeld))
     \/ /\ ~MayComplete(mailbox[m.delivery], m.lease)
        /\ Respond(k, m, Reply("stale", NothingHeld))
        /\ UNCHANGED mailbox
  /\ UNCHANGED fenced

MayRelease(r, id) == r.state = "leased" /\ r.lease = id

releaseMcpDeliveryState(k) == \E m \in msgs[k] :
  /\ m.op = "release"
  /\ \/ /\ MayRelease(mailbox[m.delivery], m.lease)
        /\ mailbox' = [mailbox EXCEPT ![m.delivery] = Requeued(@)]
        /\ fenced' = fenced \cup {m.lease}
     \/ ~MayRelease(mailbox[m.delivery], m.lease) /\ UNCHANGED <<mailbox, fenced>>
  /\ Respond(k, m, Reply("released", NothingHeld))

\* The exchange fails, with the message lost or still on its way.
ExchangeFails(k) == \E m \in msgs[k] :
  /\ Listening(k, m)
  /\ reply' = [reply EXCEPT ![k] = Failed]
  /\ msgs' \in {msgs, [msgs EXCEPT ![k] = @ \ {m}]}
  /\ UNCHANGED <<now, mailbox, fenced, callerVars, consumer, claims, lease, held>>

Tick == /\ now < MaxTime
        /\ now' = now + 1
        /\ UNCHANGED <<mailbox, fenced, callerVars, consumerVars>>

CallerStep(c) == enqueueMcpDeliveryState(c) \/ EnqueueFails(c) \/ WaitEnds(c)
ConsumerStep(k) == ClaimNext(k) \/ Finish(k) \/ Answered(k) \/ Restart(k)
StoreStep(k) == claimMcpDeliveryState(k) \/ completeMcpDeliveryState(k)
                \/ releaseMcpDeliveryState(k) \/ ExchangeFails(k)

Next == \/ \E c \in Callers : CallerStep(c)
        \/ \E k \in Consumers : ConsumerStep(k) \/ StoreStep(k)
        \/ Tick

Spec == Init /\ [][Next]_vars
-----------------------------------------------------------------------------
(* Properties.                                                              *)

\* A consumer that was given a lease has the delivery to itself until the lease
\* expires on the mailbox's clock: restarts, late messages and other consumers of
\* the route included.
LeaseKeptUntilExpiry ==
  \A k \in Consumers :
    consumer[k] \in {"working", "completing"} /\ held[k].until > now =>
      mailbox[held[k].delivery].lease = lease[k]

\* A lease that was replaced or released never owns a delivery again, and what was
\* made under it never becomes the delivery's result, whatever its consumer sends.
FormerLeaseFenced ==
  \A d \in Deliveries : mailbox[d].lease \notin fenced /\ mailbox[d].result \notin fenced

\* A result is recorded before its lease and its delivery expire.
ResultInTime ==
  \A d \in Deliveries : mailbox[d].state = "completed" =>
    /\ mailbox[d].completedAt < mailbox[d].until
    /\ mailbox[d].until <= mailbox[d].expires

\* A lease is granted for the oldest delivery that nobody has: one that was released,
\* or abandoned by a consumer whose lease ran out, comes before every later one.
Granted(d) == mailbox'[d].lease # Nil /\ mailbox'[d].lease # mailbox[d].lease
GrantsInOrder ==
  [][\A d, e \in Deliveries :
       Granted(d) /\ mailbox[e].state \in {"queued", "leased"} /\ mailbox[e].expires > now =>
         mailbox[d].created <= mailbox[e].created \/ mailbox[e].until > now]_vars

\* A delivery, any one of them, settles on one result, which all who wait for it
\* with its digest get.
Watchers == {c \in Callers : DeliveryOf[c] = Watched}
OneResult == INSTANCE IdempotentResult WITH
  Calls   <- Watchers,
  Values  <- LeaseIds,
  settled <- IF mailbox[Watched].state = "completed"
             THEN [digest |-> mailbox[Watched].digest, value |-> mailbox[Watched].result]
             ELSE Nil,
  answer  <- [c \in Watchers |-> answer[c]]
ImplementsOneResult == OneResult!ASpec
=============================================================================
