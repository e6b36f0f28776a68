---------------------------- MODULE McpRequests -----------------------------
(***************************************************************************)
(* Atomic request coordination of services/mcp-gateway.                    *)
(*                                                                         *)
(* Several gateway isolates serve calls that carry the same request id.    *)
(* Each request id owns one request store (one SQLite Durable Object, or   *)
(* one entry of the memory store), so one id is modelled: ids never share  *)
(* state.  An isolate remembers the call that runs for the id (inflight),  *)
(* proposes a claim to the store, and then executes, waits or replays.     *)
(* Every exchange with the store is a remote call that may be applied late,*)
(* fail before it is applied, or lose its reply after it was applied; an   *)
(* isolate may stop at any await, leaving its last message on its way.     *)
(***************************************************************************)
EXTENDS Integers

CONSTANTS Calls,           \* calls of execute(), client retries included
          Gateways,        \* gateway isolates
          Digests,         \* digests of (request, transport client)
          GatewayOf,       \* the isolate each call reaches
          DigestOf,        \* the digest of each call
          Skew,            \* offset of an isolate's clock from the store's
          ReqExpires,      \* request.expiresAt
          ClaimLifetime,   \* claimLifetimeMs
          MaxTime,         \* bound on the clock
          Nil

MAX_REQUEST_CLAIM_ATTEMPTS == 3

ASSUME CallsAssumption ==
  /\ GatewayOf \in [Calls -> Gateways]
  /\ DigestOf \in [Calls -> Digests]
  /\ Nil \notin Calls /\ Nil \notin Digests
  /\ Nil \notin Calls \X (1 .. MAX_REQUEST_CLAIM_ATTEMPTS)
  /\ Nil \notin [digest : Digests, value : Calls \X (1 .. MAX_REQUEST_CLAIM_ATTEMPTS)]

ASSUME TimeAssumption ==
  /\ Skew \in [Gateways -> Int]
  /\ ReqExpires \in Int
  /\ ClaimLifetime \in Nat \ {0}
  /\ MaxTime \in Nat

VARIABLES
  now,        \* the repository's clock
  store,      \* the store's one row: empty, a claim or a completed record
  fenced,     \* history: claims that were granted and then replaced or released
  inflight,   \* per isolate: the call whose promise runs for the id
  pc,         \* where each call is in execute()
  attempt,    \* the claim attempt a call is in
  claimUntil, \* claim.expiresAt of that attempt
  awaited,    \* the claim a waiting call waits for
  deadline,   \* until when it waits, on its isolate's clock
  rpc,        \* the message a call has on its way to the store
  reply,      \* the store's answer on its way back
  out         \* what the call returned

local == <<pc, attempt, claimUntil, awaited, deadline, rpc, reply>>
vars == <<now, store, fenced, inflight, local, out>>
-----------------------------------------------------------------------------
(* Data.  A claim id is a random UUID: unique per call and attempt.  An     *)
(* execution's result is named by the claim it was executed under, so that  *)
(* two executions never yield equal results.                                *)

Attempts == 1 .. MAX_REQUEST_CLAIM_ATTEMPTS
ClaimIds == Calls \X Attempts

EmptyRow == [kind |-> "none", digest |-> Nil, claim |-> Nil, expires |-> 0]
ClaimRow(d, id, e) == [kind |-> "claim", digest |-> d, claim |-> id, expires |-> e]
RecordRow(d, id) == [kind |-> "record", digest |-> d, claim |-> id, expires |-> 0]

NoRpc == [op |-> "none", id |-> Nil, expires |-> 0]
Rpc(op, id, e) == [op |-> op, id |-> id, expires |-> e]

NoReply == [tag |-> "none", claim |-> Nil, expires |-> 0]
Reply(tag, id, e) == [tag |-> tag, claim |-> id, expires |-> e]
Tags == {"none", "acquired", "pending", "completed", "stale", "collision",
         "released", "unavailable"}

NoOut == [kind |-> "none", value |-> Nil, code |-> "none"]
Ok(v) == [kind |-> "ok", value |-> v, code |-> "none"]
Err(code) == [kind |-> "error", value |-> Nil, code |-> code]
Codes == {"none", "expired-request", "request-id-collision", "request-in-progress",
          "request-claim-lost", "gateway-storage-unavailable", "read-failed"}

Pcs == {"idle", "hashing", "joined", "claiming", "waiting", "executing",
        "completing", "releasing", "done", "stopped"}

Rows == [kind : {"none", "claim", "record"}, digest : Digests \cup {Nil},
         claim : ClaimIds \cup {Nil}, expires : Int]
Messages == [op : {"none", "claim", "complete", "release"},
             id : ClaimIds \cup {Nil}, expires : Int]
Replies == [tag : Tags, claim : ClaimIds \cup {Nil}, expires : Int]
Outcomes == [kind : {"none", "ok", "error"}, value : ClaimIds \cup {Nil}, code : Codes]

TypeOK ==
  /\ now \in Nat
  /\ store \in Rows
  /\ fenced \subseteq ClaimIds
  /\ inflight \in [Gateways -> Calls \cup {Nil}]
  /\ pc \in [Calls -> Pcs]
  /\ attempt \in [Calls -> 0 .. MAX_REQUEST_CLAIM_ATTEMPTS]
  /\ claimUntil \in [Calls -> Int]
  /\ awaited \in [Calls -> ClaimIds \cup {Nil}]
  /\ deadline \in [Calls -> Int]
  /\ rpc \in [Calls -> Messages]
  /\ reply \in [Calls -> Replies]
  /\ out \in [Calls -> Outcomes]

Init ==
  /\ now = 0
  /\ store = EmptyRow
  /\ fenced = {}
  /\ inflight = [g \in Gateways |-> Nil]
  /\ pc = [c \in Calls |-> "idle"]
  /\ attempt = [c \in Calls |-> 0]
  /\ claimUntil = [c \in Calls |-> 0]
  /\ awaited = [c \in Calls |-> Nil]
  /\ deadline = [c \in Calls |-> 0]
  /\ rpc = [c \in Calls |-> NoRpc]
  /\ reply = [c \in Calls |-> NoReply]
  /\ out = [c \in Calls |-> NoOut]

Clock(c) == now + Skew[GatewayOf[c]]
CurrentClaim(c) == <<c, attempt[c]>>
Sooner(a, b) == IF a < b THEN a ELSE b
-----------------------------------------------------------------------------
(* How a call ends.  The running call's promise also answers the calls that *)
(* joined it, and execute() then forgets it.                                *)

AnsweredWith(c) == {x \in Calls : \/ x = c
                                  \/ pc[x] = "joined" /\ GatewayOf[x] = GatewayOf[c]}

Finish(c, o) ==
  /\ pc' = [x \in Calls |-> IF x \in AnsweredWith(c) THEN "done" ELSE pc[x]]
  /\ out' = [x \in Calls |-> IF x \in AnsweredWith(c) THEN o ELSE out[x]]
  /\ inflight' = [inflight EXCEPT ![GatewayOf[c]] = Nil]

Reject(c, o) ==
  /\ pc' = [pc EXCEPT ![c] = "done"]
  /\ out' = [out EXCEPT ![c] = o]

\* The head of executeCoordinated's loop, at attempt n.
MayTry(n) == n <= MAX_REQUEST_CLAIM_ATTEMPTS

TryClaim(c, n) ==
  \/ /\ ~MayTry(n)
     /\ Finish(c, Err("request-in-progress"))
     /\ UNCHANGED <<attempt, claimUntil, rpc>>
  \/ /\ MayTry(n)
     /\ ReqExpires <= Clock(c)
     /\ Finish(c, Err("expired-request"))
     /\ UNCHANGED <<attempt, claimUntil, rpc>>
  \/ /\ MayTry(n)
     /\ ReqExpires > Clock(c)
     /\ pc' = [pc EXCEPT ![c] = "claiming"]
     /\ attempt' = [attempt EXCEPT ![c] = n]
     /\ claimUntil' = [claimUntil EXCEPT ![c] = Sooner(Clock(c) + ClaimLifetime, ReqExpires)]
     /\ rpc' = [rpc EXCEPT ![c] = Rpc("claim", <<c, n>>, claimUntil'[c])]
     /\ inflight' = [inflight EXCEPT ![GatewayOf[c]] = c]
     /\ UNCHANGED out
-----------------------------------------------------------------------------
(* The caller's side: execute() and executeCoordinated().                   *)

\* normalizeRequest accepts the request, or it has already expired; the
\* digest is then awaited.
Begin(c) ==
  /\ pc[c] = "idle"
  /\ \/ /\ ReqExpires <= Clock(c)
        /\ Reject(c, Err("expired-request"))
     \/ /\ ReqExpires > Clock(c)
        /\ pc' = [pc EXCEPT ![c] = "hashing"]
        /\ UNCHANGED out
  /\ UNCHANGED <<now, store, fenced, inflight, attempt, claimUntil, awaited, deadline, rpc, reply>>

\* The digest is known: the call joins the isolate's running promise, is
\* refused because that promise runs other content, or becomes the promise.
Enter(c) ==
  LET running == inflight[GatewayOf[c]] IN
  /\ pc[c] = "hashing"
  /\ \/ /\ running # Nil /\ DigestOf[running] = DigestOf[c]
        /\ pc' = [pc EXCEPT ![c] = "joined"]
        /\ UNCHANGED <<inflight, attempt, claimUntil, rpc, out>>
     \/ /\ running # Nil /\ DigestOf[running] # DigestOf[c]
        /\ Reject(c, Err("request-id-collision"))
        /\ UNCHANGED <<inflight, attempt, claimUntil, rpc>>
     \/ running = Nil /\ TryClaim(c, 1)
  /\ UNCHANGED <<now, store, fenced, awaited, deadline, reply>>

\* The claim was granted: executeFresh begins.
Acquired(c) ==
  /\ pc[c] = "claiming" /\ reply[c].tag = "acquired"
  /\ pc' = [pc EXCEPT ![c] = "executing"]
  /\ reply' = [reply EXCEPT ![c] = NoReply]
  /\ UNCHANGED <<now, store, fenced, inflight, attempt, claimUntil, awaited, deadline, rpc, out>>

\* Another claim is pending: wait until it should have expired, or try again
\* at once when this isolate's clock says that it has.
Pending(c) ==
  /\ pc[c] = "claiming" /\ reply[c].tag = "pending"
  /\ reply' = [reply EXCEPT ![c] = NoReply]
  /\ LET until == Sooner(reply[c].expires, ReqExpires) IN
     \/ /\ until <= Clock(c)
        /\ TryClaim(c, attempt[c] + 1)
        /\ UNCHANGED <<awaited, deadline>>
     \/ /\ until > Clock(c)
        /\ pc' = [pc EXCEPT ![c] = "waiting"]
        /\ awaited' = [awaited EXCEPT ![c] = reply[c].claim]
        /\ deadline' = [deadline EXCEPT ![c] = until]
        /\ UNCHANGED <<inflight, attempt, claimUntil, rpc, out>>
  /\ UNCHANGED <<now, store, fenced>>

\* requestStore.wait looks at the row and finds that the wait is over.
WaitInspect(c) ==
  /\ pc[c] = "waiting"
  /\ \/ /\ store.kind = "none" \/ (/\ store.kind = "claim"
                                   /\ store.digest = DigestOf[c]
                                   /\ store.claim # awaited[c])
        /\ TryClaim(c, attempt[c] + 1)
     \/ /\ store.kind # "none" /\ store.digest # DigestOf[c]
        /\ Finish(c, Err("request-id-collision"))
        /\ UNCHANGED <<attempt, claimUntil, rpc>>
     \/ /\ store.kind = "record" /\ store.digest = DigestOf[c]
        /\ Finish(c, Ok(store.claim))
        /\ UNCHANGED <<attempt, claimUntil, rpc>>
  /\ UNCHANGED <<now, store, fenced, awaited, deadline, reply>>

\* A wait that is given no timeout.
WaitForever(c) == FALSE /\ UNCHANGED vars

\* The wait times out (its last look may be older than the row).
WaitTimeout(c) ==
  /\ pc[c] = "waiting" /\ deadline[c] <= Clock(c)
  /\ TryClaim(c, attempt[c] + 1)
  /\ UNCHANGED <<now, store, fenced, awaited, deadline, reply>>

\* A look fails: the call gives up.
WaitUnavailable(c) ==
  /\ pc[c] = "waiting"
  /\ Finish(c, Err("gateway-storage-unavailable"))
  /\ UNCHANGED <<now, store, fenced, attempt, claimUntil, awaited, deadline, rpc, reply>>

\* executeFresh returns a result: it is sent to the store.
FreshResult(c) ==
  /\ pc[c] = "executing"
  /\ pc' = [pc EXCEPT ![c] = "completing"]
  /\ rpc' = [rpc EXCEPT ![c] = Rpc("complete", CurrentClaim(c), 0)]
  /\ UNCHANGED <<now, store, fenced, inflight, attempt, claimUntil, awaited, deadline, reply, out>>

\* executeFresh throws: the claim is released before the error is returned.
FreshError(c) ==
  /\ pc[c] = "executing"
  /\ pc' = [pc EXCEPT ![c] = "releasing"]
  /\ rpc' = [rpc EXCEPT ![c] = Rpc("release", CurrentClaim(c), 0)]
  /\ UNCHANGED <<now, store, fenced, inflight, attempt, claimUntil, awaited, deadline, reply, out>>

\* What a call returns for an answer that ends it.
Outcome(c) ==
  IF pc[c] = "releasing" THEN Err("read-failed")
  ELSE CASE reply[c].tag = "completed"  -> Ok(reply[c].claim)
         [] reply[c].tag = "stale"      -> Err("request-claim-lost")
         [] reply[c].tag = "collision"  -> Err("request-id-collision")
         [] OTHER                       -> Err("gateway-storage-unavailable")

\* The answer ends the call: a record to replay, a refusal, a failed exchange,
\* or whatever came of the release, whose failure is swallowed.
Ends(c) ==
  /\ \/ pc[c] \in {"claiming", "completing"}
        /\ reply[c].tag \in {"completed", "stale", "collision", "unavailable"}
     \/ pc[c] = "releasing" /\ reply[c].tag # "none"
  /\ Finish(c, Outcome(c))
  /\ reply' = [reply EXCEPT ![c] = NoReply]
  /\ UNCHANGED <<now, store, fenced, attempt, claimUntil, awaited, deadline, rpc>>

\* The isolate stops: its calls are gone, its messages are not.
Stop(g) ==
  LET gone == {c \in Calls : GatewayOf[c] = g /\ pc[c] \notin {"idle", "done"}} IN
  /\ \E c \in gone : pc[c] # "stopped"
  /\ pc' = [c \in Calls |-> IF c \in gone THEN "stopped" ELSE pc[c]]
  /\ reply' = [c \in Calls |-> IF c \in gone THEN NoReply ELSE reply[c]]
  /\ inflight' = [inflight EXCEPT ![g] = Nil]
  /\ UNCHANGED <<now, store, fenced, attempt, claimUntil, awaited, deadline, rpc, out>>
-----------------------------------------------------------------------------
(* The store's side.  Each message is handled in one atomic step; whoever   *)
(* sent it may be gone, and the answer may be lost on its way back.         *)

\* McpRequestStoreError: the store refuses what it was sent, or what it holds.
Unavailable == Reply("unavailable", Nil, 0)
Listening(c) == pc[c] \in {"claiming", "completing", "releasing"} /\ reply[c] = NoReply

Respond(c, r) ==
  /\ rpc' = [rpc EXCEPT ![c] = NoRpc]
  /\ IF Listening(c)
     THEN \E answer \in {r, Unavailable} : reply' = [reply EXCEPT ![c] = answer]
     ELSE UNCHANGED reply
  /\ UNCHANGED <<now, inflight, pc, attempt, claimUntil, awaited, deadline, out>>

Collides(c) == store.kind # "none" /\ store.digest # DigestOf[c]

\* A claim gives way once its expiry is reached on the repository's clock.
OverSinceGranted(row) == row.expires - ClaimLifetime <= now
ClaimOver(row) == row.expires <= now

claimMcpRequestState(c) ==
  /\ rpc[c].op = "claim"
  /\ \/ /\ Collides(c)
        /\ Respond(c, Reply("collision", Nil, 0))
        /\ UNCHANGED <<store, fenced>>
     \/ /\ ~Collides(c) /\ store.kind = "record"
        /\ Respond(c, Reply("completed", store.claim, 0))
        /\ UNCHANGED <<store, fenced>>
     \/ /\ ~Collides(c) /\ store.kind = "claim" /\ ~ClaimOver(store)
        /\ Respond(c, Reply("pending", store.claim, store.expires))
        /\ UNCHANGED <<store, fenced>>
     \/ /\ ~Collides(c)
        /\ store.kind = "none" \/ (store.kind = "claim" /\ ClaimOver(store))
        /\ store' = ClaimRow(DigestOf[c], rpc[c].id, rpc[c].expires)
        /\ fenced' = fenced \cup ({store.claim} \ {Nil})
        /\ Respond(c, Reply("acquired", rpc[c].id, rpc[c].expires))

\* Only the current claim of the same content completes or releases.
IsCurrentContent(c) == store.kind = "claim" /\ ~Collides(c)
IsAnyState(c) == store.kind # "none" /\ ~Collides(c)
IsCurrentClaim(c) == store.kind = "claim" /\ ~Collides(c) /\ store.claim = rpc[c].id

completeMcpRequestState(c) ==
  /\ rpc[c].op = "complete"
  /\ \/ /\ IsCurrentClaim(c)
        /\ store' = RecordRow(DigestOf[c], rpc[c].id)
        /\ Respond(c, Reply("completed", rpc[c].id, 0))
     \/ /\ ~IsCurrentClaim(c) /\ Collides(c)
        /\ Respond(c, Reply("collision", Nil, 0))
        /\ UNCHANGED store
     \/ /\ ~IsCurrentClaim(c) /\ ~Collides(c) /\ store.kind = "record"
        /\ Respond(c, Reply("completed", store.claim, 0))
        /\ UNCHANGED store
     \/ /\ ~IsCurrentClaim(c) /\ ~Collides(c) /\ store.kind # "record"
        /\ Respond(c, Reply("stale", Nil, 0))
        /\ UNCHANGED store
  /\ UNCHANGED fenced

releaseMcpRequestState(c) ==
  /\ rpc[c].op = "release"
  /\ \/ /\ IsCurrentClaim(c)
        /\ store' = EmptyRow
        /\ fenced' = fenced \cup {store.claim}
     \/ ~IsCurrentClaim(c) /\ UNCHANGED <<store, fenced>>
  /\ Respond(c, Reply("released", Nil, 0))

\* The message never reaches the store.
Undelivered(c) ==
  /\ rpc[c].op # "none"
  /\ rpc' = [rpc EXCEPT ![c] = NoRpc]
  /\ reply' = IF Listening(c) THEN [reply EXCEPT ![c] = Unavailable] ELSE reply
  /\ UNCHANGED <<now, store, fenced, inflight, pc, attempt, claimUntil, awaited,
                 deadline, out>>

\* The exchange breaks off while the message is still on its way.
BreaksOff(c) ==
  /\ rpc[c].op # "none" /\ Listening(c)
  /\ reply' = [reply EXCEPT ![c] = Unavailable]
  /\ UNCHANGED <<now, store, fenced, inflight, pc, attempt, claimUntil, awaited,
                 deadline, rpc, out>>

Tick == /\ now < MaxTime
        /\ now' = now + 1
        /\ UNCHANGED <<store, fenced, inflight, local, out>>

StoreStep(c) == claimMcpRequestState(c) \/ completeMcpRequestState(c)
                \/ releaseMcpRequestState(c) \/ Undelivered(c)
WaitStep(c) == WaitInspect(c) \/ WaitTimeout(c) \/ WaitUnavailable(c)
CallStep(c) == Begin(c) \/ Enter(c) \/ Acquired(c) \/ Pending(c)
               \/ WaitStep(c) \/ Ends(c)

Next == \/ \E c \in Calls : CallStep(c) \/ FreshResult(c) \/ FreshError(c)
                           \/ StoreStep(c) \/ BreaksOff(c)
        \/ \E g \in Gateways : Stop(g)
        \/ Tick

Spec == Init /\ [][Next]_vars

\* Promises settle, messages are handled or fail, timers fire.  Nothing makes a
\* read handler return, so FreshResult and FreshError have no fairness.
Fairness == /\ \A c \in Calls : /\ WF_vars(Begin(c)) /\ WF_vars(Enter(c))
                                /\ WF_vars(Acquired(c)) /\ WF_vars(Pending(c))
                                /\ WF_vars(Ends(c))
                                /\ WF_vars(WaitInspect(c) \/ WaitTimeout(c))
                                /\ WF_vars(StoreStep(c))
            /\ WF_vars(Tick)

FairSpec == Spec /\ Fairness
-----------------------------------------------------------------------------
(* Properties.                                                              *)

\* Every call that returns a result returns the one durable record of its own
\* digest: isolates that execute the same request twice after a claim expired
\* still answer alike, and no answer is lost or replaced later (gateway.js
\* executeCoordinated/replay over request-store.js).
AnswersAgree ==
  \A c \in Calls : out[c].kind = "ok" =>
    /\ store.kind = "record"
    /\ store.digest = DigestOf[c]
    /\ store.claim = out[c].value

\* A claim that was replaced or released is fenced: however late its result is
\* delivered, it never becomes the durable record (completeMcpRequestState).
FormerClaimFenced == store.claim \notin fenced

\* A call keeps a granted claim until it expires on the repository's clock: it
\* executes alone until then, even if an isolate stopped, a message came late or
\* another isolate's clock runs ahead.  Two executions overlap only after that.
ClaimKeptUntilExpiry ==
  \A c \in Calls :
    pc[c] = "executing" /\ claimUntil[c] > now =>
      store.kind = "claim" /\ store.claim = CurrentClaim(c)

\* A result is refused with request-claim-lost only when its claim has expired.
LostClaimHadExpired ==
  \A c \in Calls : out[c].code = "request-claim-lost" => claimUntil[c] <= now

\* If read handlers return, every call is answered, joined ones included, unless its
\* isolate stops: a claimant that was stopped does not hold up the ones that wait for it.
HandlersReturn == \A c \in Calls : []<>(pc[c] # "executing")
EveryCallAnswered ==
  HandlersReturn => \A c \in Calls : (pc[c] # "idle") ~> (pc[c] \in {"done", "stopped"})

\* The coordination implements the abstract promise: one result per id.
OneResult == INSTANCE IdempotentResult WITH
  Values  <- ClaimIds,
  settled <- IF store.kind = "record"
             THEN [digest |-> store.digest, value |-> store.claim] ELSE Nil,
  answer  <- [c \in Calls |-> [kind |-> out[c].kind, value |-> out[c].value]]
ImplementsOneResult == OneResult!ASpec
=============================================================================
