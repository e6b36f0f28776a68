----------------------------- MODULE McpPairing -----------------------------
(***************************************************************************)
(* Pairing sessions of services/mcp-gateway: a browser approves an OAuth   *)
(* authorization, and the gateway turns one approval into one connection.  *)
(*                                                                         *)
(* A challenge is one session in its own Durable Object; sessions share    *)
(* nothing, so one is modelled, with every approval that is submitted for  *)
(* it.  authorize() reads the session, verifies, claims it, has the OAuth  *)
(* provider issue a token for the claim's connection, and consumes it.     *)
(* Workers stop at any await; messages to the repository are applied late, *)
(* fail before they are applied, or lose their answer.                     *)
(***************************************************************************)
EXTENDS Integers, FiniteSets

CONSTANTS Calls,           \* calls of authorize(): each one makes one claim id
          Skew,            \* offset of each call's worker clock
          ChallengeExpires,\* challenge.expiresAt
          ClaimLifetime,   \* claimLifetimeMs
          MaxTime,         \* bound on the clock
          Nil

ASSUME PairingAssumption ==
  /\ Skew \in [Calls -> Int]
  /\ ChallengeExpires \in Nat \ {0}
  /\ ClaimLifetime \in Nat \ {0}
  /\ MaxTime \in Nat
  /\ Nil \notin Calls

VARIABLES
  now,       \* the repository's clock
  session,   \* the stored session
  pc,        \* where each call is in authorize()
  saw,       \* the session state that each call read first
  rpc,       \* the messages each call has on their way to the repository
  reply,     \* the repository's answer on its way back
  oauth,     \* the provider's work on each call's token
  out,       \* how each call ended
  accepted   \* history: connections the gateway took from the repository

vars == <<now, session, pc, saw, rpc, reply, oauth, out, accepted>>
-----------------------------------------------------------------------------
(* A call's claim id and the connection id derived from it are the call.    *)

\* The client, scopes, device and key of the challenge are checked when it is stored
\* and stay as they are.
Open == [state |-> "open", claim |-> Nil, until |-> 0, consumedAt |-> 0]
Claimed(c, u) == [state |-> "claimed", claim |-> c, until |-> u, consumedAt |-> 0]
Consumed(s, t) == [s EXCEPT !.state = "consumed", !.consumedAt = t]
Released(s) == Open

\* The stored states that normalizeMcpPairingSession takes for consistent.
Sessions == [state : {"open"}, claim : {Nil}, until : {0}, consumedAt : {0}]
  \cup [state : {"claimed"}, claim : Calls, until : Int, consumedAt : {0}]
  \cup [state : {"consumed"}, claim : Calls, until : Int, consumedAt : Int]
Pcs == {"idle", "verifying", "claiming", "authorizing", "consuming", "releasing",
        "done", "stopped"}
Ops == {"claim", "consume", "release"}
Replies == {"none", "claimed", "used", "expired", "consumed", "changed", "released",
            "unavailable"}
Outs == {"none", "paired", "pairing-session-used", "pairing-challenge-expired",
         "rejected", "failed"}

TypeOK ==
  /\ now \in Nat
  /\ session \in Sessions
  /\ pc \in [Calls -> Pcs]
  /\ saw \in [Calls -> Sessions]
  /\ rpc \in [Calls -> SUBSET Ops]
  /\ reply \in [Calls -> Replies]
  /\ oauth \in [Calls -> {"none", "asked", "issued", "refused"}]
  /\ out \in [Calls -> Outs]
  /\ accepted \subseteq Calls

\* begin() has stored the challenge.
Init ==
  /\ now = 0
  /\ session = Open
  /\ pc = [c \in Calls |-> "idle"]
  /\ saw = [c \in Calls |-> Open]
  /\ rpc = [c \in Calls |-> {}]
  /\ reply = [c \in Calls |-> "none"]
  /\ oauth = [c \in Calls |-> "none"]
  /\ out = [c \in Calls |-> "none"]
  /\ accepted = {}

Clock(c) == now + Skew[c]
Sooner(a, b) == IF a < b THEN a ELSE b

\* A claim is live until its expiry on the given clock.
LiveAt(s, t) == s.state = "claimed" /\ s.until > t
-----------------------------------------------------------------------------
(* authorize(), in a worker.                                                *)

\* The session is read; the answer may be old when it is looked at.
Read(c) ==
  /\ pc[c] = "idle"
  /\ pc' = [pc EXCEPT ![c] = "verifying"]
  /\ saw' = [saw EXCEPT ![c] = session]
  /\ UNCHANGED <<now, session, rpc, reply, oauth, out, accepted>>

End(c, o) == pc' = [pc EXCEPT ![c] = "done"] /\ out' = [out EXCEPT ![c] = o]
Send(c, p, op) == pc' = [pc EXCEPT ![c] = p] /\ rpc' = [rpc EXCEPT ![c] = @ \cup {op}]

\* The assertion is malformed, is of another challenge, device, key or time, or its
\* signature fails.
Rejects(c) == End(c, "rejected") /\ UNCHANGED rpc

\* The session that was read and the assertion are judged by the worker's clock.
\* The claim is then sent.
Verify(c) ==
  /\ pc[c] = "verifying"
  /\ \/ /\ saw[c].state = "consumed" \/ LiveAt(saw[c], Clock(c))
        /\ End(c, "pairing-session-used")
        /\ UNCHANGED rpc
     \/ /\ saw[c].state # "consumed" /\ ~LiveAt(saw[c], Clock(c))
        /\ ChallengeExpires <= Clock(c)
        /\ End(c, "pairing-challenge-expired")
        /\ UNCHANGED rpc
     \/ /\ saw[c].state # "consumed" /\ ~LiveAt(saw[c], Clock(c))
        /\ ChallengeExpires > Clock(c)
        /\ Send(c, "claiming", "claim")
        /\ UNCHANGED out
     \/ Rejects(c)
  /\ UNCHANGED <<now, session, saw, reply, oauth, accepted>>

\* claimSession returned: the provider is asked.  Its failure ends the call
\* outside of the try block, so that nothing is released.
ClaimReturns(c) ==
  /\ pc[c] = "claiming" /\ reply[c] # "none"
  /\ reply' = [reply EXCEPT ![c] = "none"]
  /\ \/ /\ reply[c] = "claimed"
        /\ pc' = [pc EXCEPT ![c] = "authorizing"]
        /\ oauth' = [oauth EXCEPT ![c] = "asked"]
        /\ UNCHANGED out
     \/ /\ reply[c] = "used"
        /\ End(c, "pairing-session-used")
        /\ UNCHANGED oauth
     \/ /\ reply[c] = "expired"
        /\ End(c, "pairing-challenge-expired")
        /\ UNCHANGED oauth
     \/ /\ reply[c] = "unavailable"
        /\ End(c, "failed")
        /\ UNCHANGED oauth
  /\ UNCHANGED <<now, session, saw, rpc, accepted>>

\* completeAuthorization returned: the session is consumed.
OAuthAnswered(c) == pc[c] = "authorizing" /\ oauth[c] = "issued"

Authorized(c) ==
  /\ OAuthAnswered(c)
  /\ Send(c, "consuming", "consume")
  /\ UNCHANGED <<now, session, saw, reply, oauth, out, accepted>>

\* It threw, whatever the provider has done or will do: the claim is released.
AuthorizationThrows(c) ==
  /\ pc[c] = "authorizing"
  /\ Send(c, "releasing", "release")
  /\ UNCHANGED <<now, session, saw, reply, oauth, out, accepted>>

\* consumeSession returned, or threw: then the claim is released too.
ConsumeReturns(c) ==
  /\ pc[c] = "consuming" /\ reply[c] # "none"
  /\ reply' = [reply EXCEPT ![c] = "none"]
  /\ \/ reply[c] = "consumed" /\ End(c, "paired") /\ UNCHANGED rpc
     \/ reply[c] # "consumed" /\ Send(c, "releasing", "release") /\ UNCHANGED out
  /\ UNCHANGED <<now, session, saw, oauth, accepted>>

\* releaseSession returned or threw, which nobody looks at.
ReleaseConfirmed(c) == pc[c] = "releasing" /\ reply[c] = "released"
ReleaseAnswered(c) == pc[c] = "releasing" /\ reply[c] # "none"

ReleaseReturns(c) ==
  /\ ReleaseAnswered(c)
  /\ reply' = [reply EXCEPT ![c] = "none"]
  /\ End(c, "failed")
  /\ UNCHANGED <<now, session, saw, rpc, oauth, accepted>>

\* The worker stops; what it has sent stays on its way.
Stop(c) ==
  /\ pc[c] \notin {"idle", "done", "stopped"}
  /\ pc' = [pc EXCEPT ![c] = "stopped"]
  /\ reply' = [reply EXCEPT ![c] = "none"]
  /\ UNCHANGED <<now, session, saw, rpc, oauth, out, accepted>>
-----------------------------------------------------------------------------
(* The provider, and the client that holds its token.                       *)

Provider(c) ==
  /\ oauth[c] = "asked"
  /\ \E r \in {"issued", "refused"} : oauth' = [oauth EXCEPT ![c] = r]
  /\ UNCHANGED <<now, session, pc, saw, rpc, reply, out, accepted>>

\* getConnection gives a connection of a consumed session only for its claim.
IsConnection(c) == session.state = "consumed" /\ session.claim = c

UseToken(c) ==
  /\ oauth[c] = "issued"
  /\ IsConnection(c)
  /\ accepted' = accepted \cup {c}
  /\ UNCHANGED <<now, session, pc, saw, rpc, reply, oauth, out>>
-----------------------------------------------------------------------------
(* The repository.  A message is applied in one step.                       *)

Awaits(c, op) == /\ pc[c] = CASE op = "claim" -> "claiming" [] op = "consume" -> "consuming"
                                [] op = "release" -> "releasing"
                 /\ reply[c] = "none"

Respond(c, op, r) ==
  /\ rpc' = [rpc EXCEPT ![c] = @ \ {op}]
  /\ IF Awaits(c, op)
     THEN \E answer \in {r, "unavailable"} : reply' = [reply EXCEPT ![c] = answer]
     ELSE UNCHANGED reply
  /\ UNCHANGED <<now, pc, saw, oauth, out, accepted>>

\* claimMcpPairingSessionState: an open session, or one whose claim expired.
AnyUnconsumed(t) == session.state # "consumed"
MayClaim(t) == session.state # "consumed" /\ ~LiveAt(session, t)

claimMcpPairingSessionState(c) ==
  /\ "claim" \in rpc[c]
  /\ \/ /\ ChallengeExpires <= now
        /\ Respond(c, "claim", "expired")
        /\ UNCHANGED session
     \/ /\ ChallengeExpires > now /\ ~MayClaim(now)
        /\ Respond(c, "claim", "used")
        /\ UNCHANGED session
     \/ /\ ChallengeExpires > now /\ MayClaim(now)
        /\ session' = Claimed(c, Sooner(now + ClaimLifetime, ChallengeExpires))
        /\ Respond(c, "claim", "claimed")

\* The current claim may be consumed until it expires, and released at any time.
ConsumesAnyClaim(c, t) == LiveAt(session, t)
MayConsume(c, t) == LiveAt(session, t) /\ session.claim = c

consumeMcpPairingSessionState(c) ==
  /\ "consume" \in rpc[c]
  /\ \/ /\ MayConsume(c, now)
        /\ session' = Consumed(session, now)
        /\ Respond(c, "consume", "consumed")
     \/ /\ ~MayConsume(c, now)
        /\ Respond(c, "consume", "changed")
        /\ UNCHANGED session

MayRelease(c) == session.state = "claimed" /\ session.claim = c

releaseMcpPairingSessionState(c) ==
  /\ "release" \in rpc[c]
  /\ session' = IF MayRelease(c) THEN Released(session) ELSE session
  /\ Respond(c, "release", "released")

\* A message is lost on its way.
Undelivered(c) ==
  \E op \in rpc[c] :
    /\ rpc' = [rpc EXCEPT ![c] = @ \ {op}]
    /\ reply' = IF Awaits(c, op) THEN [reply EXCEPT ![c] = "unavailable"] ELSE reply
    /\ UNCHANGED <<now, session, pc, saw, oauth, out, accepted>>

\* The exchange breaks off while its message is still on its way.
BreaksOff(c) ==
  \E op \in rpc[c] :
    /\ Awaits(c, op)
    /\ reply' = [reply EXCEPT ![c] = "unavailable"]
    /\ UNCHANGED <<now, session, pc, saw, rpc, oauth, out, accepted>>

Tick == /\ now < MaxTime
        /\ now' = now + 1
        /\ UNCHANGED <<session, pc, saw, rpc, reply, oauth, out, accepted>>

StoreStep(c) == \/ claimMcpPairingSessionState(c) \/ consumeMcpPairingSessionState(c)
                \/ releaseMcpPairingSessionState(c) \/ Undelivered(c)
WorkerStep(c) == \/ Read(c) \/ Verify(c) \/ ClaimReturns(c) \/ Authorized(c)
                 \/ ConsumeReturns(c) \/ ReleaseReturns(c)

Next == \/ \E c \in Calls : \/ WorkerStep(c) \/ AuthorizationThrows(c) \/ Stop(c)
                            \/ Provider(c) \/ UseToken(c) \/ StoreStep(c) \/ BreaksOff(c)
        \/ Tick

Spec == Init /\ [][Next]_vars

\* Promises settle and messages are handled or fail.  The provider is another
\* service: nothing makes it answer.
Fairness == /\ \A c \in Calls : WF_vars(WorkerStep(c)) /\ WF_vars(StoreStep(c))
            /\ WF_vars(Tick)
FairSpec == Spec /\ Fairness
-----------------------------------------------------------------------------
(* Properties.                                                              *)

\* One challenge activates at most one connection, ever: concurrent approvals,
\* replays, expired claims and late messages included.
OneConnection == \A c, d \in accepted : c = d

\* Whoever is told that it paired has the active connection, and keeps it.
PairedIsActive == \A c \in Calls : out[c] = "paired" => IsConnection(c)

\* A connection is active only after the provider completed the authorization of
\* that very claim: an interrupted or refused one never becomes active.
ActiveWasAuthorized ==
  session.state = "consumed" => oauth[session.claim] = "issued"

\* A session is consumed before its claim expires on the repository's clock, and
\* no claim outlives the challenge, however long the provider took.
ConsumedInTime ==
  /\ session.state # "open" => session.until <= ChallengeExpires
  /\ session.state = "consumed" => session.consumedAt < session.until

\* A live claim ends only by its own consumption or release: a stale claimant
\* cannot end a replacement claim.
OnlyOwnerEndsClaim ==
  [][\A c \in Calls : LiveAt(session, now) /\ session.claim = c /\ session' # session =>
       \/ "consume" \in rpc[c] \ rpc'[c] /\ session' = Consumed(session, now)
       \/ "release" \in rpc[c] \ rpc'[c] /\ session' = Open]_vars

\* An activated connection stays: no release, claim or message undoes it.
ConnectionStays == [][session.state = "consumed" => session' = session]_vars

\* If the provider answers, every approval is answered unless its worker stops.
ProviderAnswers == \A c \in Calls : []<>(pc[c] # "authorizing")
EveryApprovalAnswered ==
  ProviderAnswers =>
    \A c \in Calls : (pc[c] # "idle") ~> (pc[c] \in {"done", "stopped"})
=============================================================================
