-------------------------- MODULE McpPairingProofs --------------------------
(***************************************************************************)
(* Proofs about McpPairing, for every set of approvals, clock offset and   *)
(* lifetime: type correctness, one connection per challenge, and the bond  *)
(* between what an approval is told, what the provider did and what the    *)
(* repository holds.                                                       *)
(***************************************************************************)
EXTENDS McpPairing, TLAPS

\* Until its claim is granted an approval has asked the provider for nothing.
Unasked == \A c \in Calls :
  pc[c] \in {"idle", "verifying", "claiming"} => oauth[c] = "none"

\* Only an approval whose token was issued asks for its session to be consumed.
ConsumesIssued == \A c \in Calls : "consume" \in rpc[c] => oauth[c] = "issued"

\* Whatever was taken for a connection is one: by a client, in an answer that is
\* on its way, by the caller.
ConnectionsKnown ==
  /\ \A c \in accepted : IsConnection(c)
  /\ \A c \in Calls : reply[c] = "consumed" => IsConnection(c)
  /\ PairedIsActive

AuthInv == Unasked /\ ConsumesIssued /\ ActiveWasAuthorized
-----------------------------------------------------------------------------
(* What a step does to the stored session.                                  *)

ClaimApplied(c) ==
  /\ ChallengeExpires > now /\ MayClaim(now)
  /\ session' = Claimed(c, Sooner(now + ClaimLifetime, ChallengeExpires))
ConsumeApplied(c) ==
  /\ "consume" \in rpc[c] \ rpc'[c]
  /\ MayConsume(c, now) /\ session' = Consumed(session, now)
ReleaseApplied(c) ==
  /\ "release" \in rpc[c] \ rpc'[c]
  /\ MayRelease(c) /\ session' = Open

\* The session changes only by an applied claim, consumption or release.
LEMMA SessionStep ==
  ASSUME TypeOK, [Next]_vars
  PROVE  \/ session' = session
         \/ \E c \in Calls : ClaimApplied(c) \/ ConsumeApplied(c) \/ ReleaseApplied(c)
<1>1. ASSUME NEW c \in Calls, StoreStep(c)
      PROVE  \/ session' = session
             \/ ClaimApplied(c) \/ ConsumeApplied(c) \/ ReleaseApplied(c)
  <2>1. CASE claimMcpPairingSessionState(c)
    BY <2>1 DEF claimMcpPairingSessionState, ClaimApplied
  <2>2. CASE consumeMcpPairingSessionState(c)
    BY <2>2 DEF consumeMcpPairingSessionState, Respond, ConsumeApplied, TypeOK
  <2>3. CASE releaseMcpPairingSessionState(c)
    BY <2>3 DEF releaseMcpPairingSessionState, Respond, ReleaseApplied, Released, TypeOK
  <2>4. CASE Undelivered(c)
    BY <2>4 DEF Undelivered
  <2> QED BY <1>1, <2>1, <2>2, <2>3, <2>4 DEF StoreStep
<1>2. ASSUME NEW c \in Calls,
             WorkerStep(c) \/ AuthorizationThrows(c) \/ Stop(c) \/ Provider(c)
               \/ UseToken(c) \/ BreaksOff(c)
      PROVE  session' = session
  BY <1>2 DEF WorkerStep, Read, Verify, Rejects, ClaimReturns, Authorized, ConsumeReturns,
              ReleaseReturns, AuthorizationThrows, Stop, Provider, UseToken, BreaksOff
<1>3. CASE Tick
  BY <1>3 DEF Tick
<1>4. CASE UNCHANGED vars
  BY <1>4 DEF vars
<1> QED BY <1>1, <1>2, <1>3, <1>4 DEF Next

-----------------------------------------------------------------------------
(* Type correctness.                                                        *)

\* An applied claim, consumption or release stores a consistent session.
LEMMA SessionType ==
  ASSUME TypeOK, [Next]_vars
  PROVE  session' \in Sessions
<1>1. CASE session' = session
  BY <1>1 DEF TypeOK
<1>2. ASSUME NEW c \in Calls, ClaimApplied(c) PROVE session' \in Sessions
  BY <1>2, PairingAssumption DEF ClaimApplied, Claimed, Sessions, Sooner, TypeOK
<1>3. ASSUME NEW c \in Calls, ConsumeApplied(c) PROVE session' \in Sessions
  <2>1. session \in [state : {"claimed"}, claim : Calls, until : Int, consumedAt : {0}]
    BY <1>3 DEF ConsumeApplied, MayConsume, LiveAt, TypeOK, Sessions
  <2>2. session' = [state |-> "consumed", claim |-> session.claim,
                    until |-> session.until, consumedAt |-> now]
    BY <1>3, <2>1 DEF ConsumeApplied, Consumed
  <2> QED BY <2>1, <2>2 DEF Sessions, TypeOK
<1>4. ASSUME NEW c \in Calls, ReleaseApplied(c) PROVE session' \in Sessions
  BY <1>4 DEF ReleaseApplied, Open, Sessions
<1> QED BY <1>1, <1>2, <1>3, <1>4, SessionStep

\* The answer to a message is an answer.
LEMMA RespondType ==
  ASSUME TypeOK, NEW c \in Calls, NEW op \in Ops, NEW r \in Replies, Respond(c, op, r)
  PROVE  /\ UNCHANGED <<now, pc, saw, oauth, out, accepted>>
         /\ rpc' \in [Calls -> SUBSET Ops]
         /\ reply' \in [Calls -> Replies]
  BY DEF Respond, TypeOK, Ops, Replies

\* Every step keeps the types.
LEMMA TypeStep == TypeOK /\ [Next]_vars => TypeOK'
<1> SUFFICES ASSUME TypeOK, [Next]_vars PROVE TypeOK'
  OBVIOUS
<1> session' \in Sessions
  BY SessionType
<1> USE DEF TypeOK
<1>1. ASSUME NEW c \in Calls, WorkerStep(c) PROVE TypeOK'
  <2>1. CASE Read(c)
    BY <2>1 DEF Read, Pcs
  <2>2. CASE Verify(c)
    BY <2>2 DEF Verify, Rejects, End, Send, Pcs, Outs, Ops
  <2>3. CASE ClaimReturns(c)
    BY <2>3 DEF ClaimReturns, End, Pcs, Outs, Replies
  <2>4. CASE Authorized(c)
    BY <2>4 DEF Authorized, Send, Pcs, Ops
  <2>5. CASE ConsumeReturns(c)
    BY <2>5 DEF ConsumeReturns, End, Send, Pcs, Outs, Ops, Replies
  <2>6. CASE ReleaseReturns(c)
    BY <2>6 DEF ReleaseReturns, End, Pcs, Outs, Replies
  <2> QED BY <1>1, <2>1, <2>2, <2>3, <2>4, <2>5, <2>6 DEF WorkerStep
<1>2. ASSUME NEW c \in Calls, StoreStep(c) PROVE TypeOK'
  <2>1. CASE claimMcpPairingSessionState(c)
    <3>1. PICK r \in Replies : Respond(c, "claim", r)
      BY <2>1 DEF claimMcpPairingSessionState, Replies
    <3> QED BY <3>1, RespondType DEF Ops
  <2>2. CASE consumeMcpPairingSessionState(c)
    <3>1. PICK r \in Replies : Respond(c, "consume", r)
      BY <2>2 DEF consumeMcpPairingSessionState, Replies
    <3> QED BY <3>1, RespondType DEF Ops
  <2>3. CASE releaseMcpPairingSessionState(c)
    <3>1. PICK r \in Replies : Respond(c, "release", r)
      BY <2>3 DEF releaseMcpPairingSessionState, Replies
    <3> QED BY <3>1, RespondType DEF Ops
  <2>4. CASE Undelivered(c)
    BY <2>4 DEF Undelivered, Replies
  <2> QED BY <1>2, <2>1, <2>2, <2>3, <2>4 DEF StoreStep
<1>3. ASSUME NEW c \in Calls, AuthorizationThrows(c) PROVE TypeOK'
  BY <1>3 DEF AuthorizationThrows, Send, Pcs, Ops
<1>4. ASSUME NEW c \in Calls, Stop(c) PROVE TypeOK'
  BY <1>4 DEF Stop, Pcs, Replies
<1>5. ASSUME NEW c \in Calls, Provider(c) PROVE TypeOK'
  BY <1>5 DEF Provider
<1>6. ASSUME NEW c \in Calls, UseToken(c) PROVE TypeOK'
  BY <1>6 DEF UseToken
<1>7. ASSUME NEW c \in Calls, BreaksOff(c) PROVE TypeOK'
  BY <1>7 DEF BreaksOff, Replies
<1>8. CASE Tick
  BY <1>8 DEF Tick
<1>9. CASE UNCHANGED vars
  BY <1>9 DEF vars
<1> QED BY <1>1, <1>2, <1>3, <1>4, <1>5, <1>6, <1>7, <1>8, <1>9 DEF Next

\* Type correctness, the consistency that normalizeMcpPairingSession checks on
\* every stored session included: no step stores what a later read rejects.
THEOREM TypeCorrect == Spec => []TypeOK
<1>1. Init => TypeOK
  BY PairingAssumption DEF Init, TypeOK, Open, Sessions, Pcs, Outs, Replies, Ops
<1> QED BY <1>1, TypeStep, PTL DEF Spec
-----------------------------------------------------------------------------
(* The session.                                                             *)

\* An activated connection stays (releaseMcpPairingSessionState and
\* claimMcpPairingSessionState leave a consumed session alone).
THEOREM Permanence == Spec => ConnectionStays
<1>1. TypeOK /\ [Next]_vars => [session.state = "consumed" => session' = session]_vars
  BY SessionStep DEF ClaimApplied, ConsumeApplied, ReleaseApplied, MayClaim, MayConsume,
                     MayRelease, LiveAt
<1> QED BY <1>1, TypeCorrect, PTL DEF Spec, ConnectionStays

\* A live claim ends only by its own consumption or release: a stale claimant's
\* message, however late, leaves a replacement claim alone.
THEOREM Ownership == Spec => OnlyOwnerEndsClaim
<1> DEFINE Owned == \A c \in Calls :
      LiveAt(session, now) /\ session.claim = c /\ session' # session =>
       \/ "consume" \in rpc[c] \ rpc'[c] /\ session' = Consumed(session, now)
       \/ "release" \in rpc[c] \ rpc'[c] /\ session' = Open
<1>1. TypeOK /\ [Next]_vars => [Owned]_vars
  BY SessionStep DEF ClaimApplied, ConsumeApplied, ReleaseApplied, MayClaim, MayConsume,
                     MayRelease
<1> QED BY <1>1, TypeCorrect, PTL DEF Spec, OnlyOwnerEndsClaim

\* A session is consumed before its claim expires, and no claim outlives the
\* challenge.
THEOREM Timeliness == Spec => []ConsumedInTime
<1>1. Init => ConsumedInTime
  BY DEF Init, Open, ConsumedInTime
<1>2. TypeOK /\ ConsumedInTime /\ [Next]_vars => ConsumedInTime'
  <2> SUFFICES ASSUME TypeOK, ConsumedInTime, [Next]_vars PROVE ConsumedInTime'
    OBVIOUS
  <2>1. CASE session' = session
    BY <2>1, PairingAssumption DEF ConsumedInTime
  <2>2. ASSUME NEW c \in Calls, ClaimApplied(c) PROVE ConsumedInTime'
    BY <2>2, PairingAssumption DEF ClaimApplied, Claimed, Sooner, ConsumedInTime, TypeOK
  <2>3. ASSUME NEW c \in Calls, ConsumeApplied(c) PROVE ConsumedInTime'
    <3>1. session \in [state : {"claimed"}, claim : Calls, until : Int, consumedAt : {0}]
      BY <2>3 DEF ConsumeApplied, MayConsume, LiveAt, TypeOK, Sessions
    <3>2. session' = [state |-> "consumed", claim |-> session.claim,
                      until |-> session.until, consumedAt |-> now]
      BY <2>3, <3>1 DEF ConsumeApplied, Consumed
    <3> QED BY <2>3, <3>1, <3>2 DEF ConsumeApplied, MayConsume, LiveAt, ConsumedInTime, TypeOK
  <2>4. ASSUME NEW c \in Calls, ReleaseApplied(c) PROVE ConsumedInTime'
    BY <2>4 DEF ReleaseApplied, Open, ConsumedInTime
  <2> QED BY <2>1, <2>2, <2>3, <2>4, SessionStep
<1> QED BY <1>1, <1>2, TypeCorrect, PTL DEF Spec

-----------------------------------------------------------------------------
(* The provider's authorization.                                            *)

\* Every step keeps Unasked: the provider is asked on leaving "claiming".
LEMMA UnaskedStep == TypeOK /\ Unasked /\ [Next]_vars => Unasked'
<1> SUFFICES ASSUME TypeOK, Unasked, [Next]_vars PROVE Unasked'
  OBVIOUS
<1> USE DEF Unasked
<1>1. ASSUME NEW c \in Calls, WorkerStep(c) PROVE Unasked'
  BY <1>1 DEF WorkerStep, Read, Verify, Rejects, ClaimReturns, Authorized, ConsumeReturns,
              ReleaseReturns, OAuthAnswered, ReleaseAnswered, End, Send, TypeOK
<1>2. ASSUME NEW c \in Calls, StoreStep(c) PROVE UNCHANGED <<pc, oauth>>
  BY <1>2 DEF StoreStep, claimMcpPairingSessionState, consumeMcpPairingSessionState,
              releaseMcpPairingSessionState, Respond, Undelivered
<1>3. ASSUME NEW c \in Calls, AuthorizationThrows(c) \/ Stop(c) PROVE Unasked'
  BY <1>3 DEF AuthorizationThrows, Stop, Send, TypeOK
<1>4. ASSUME NEW c \in Calls, Provider(c) PROVE Unasked'
  BY <1>4 DEF Provider, TypeOK
<1>5. ASSUME NEW c \in Calls, UseToken(c) \/ BreaksOff(c) PROVE UNCHANGED <<pc, oauth>>
  BY <1>5 DEF UseToken, BreaksOff
<1>6. CASE Tick \/ UNCHANGED vars
  BY <1>6 DEF Tick, vars
<1> QED BY <1>1, <1>2, <1>3, <1>4, <1>5, <1>6 DEF Next

\* An issued token stays issued.
LEMMA IssuedStays ==
  ASSUME TypeOK, Unasked, [Next]_vars, NEW d \in Calls, oauth[d] = "issued"
  PROVE  oauth'[d] = "issued"
<1>1. ASSUME NEW c \in Calls, WorkerStep(c) PROVE oauth'[d] = "issued"
  BY <1>1 DEF WorkerStep, Read, Verify, Rejects, ClaimReturns, Authorized, ConsumeReturns,
              ReleaseReturns, Unasked, TypeOK
<1>2. ASSUME NEW c \in Calls, Provider(c) PROVE oauth'[d] = "issued"
  BY <1>2 DEF Provider, TypeOK
<1>3. ASSUME NEW c \in Calls, StoreStep(c) PROVE UNCHANGED oauth
  BY <1>3 DEF StoreStep, claimMcpPairingSessionState, consumeMcpPairingSessionState,
              releaseMcpPairingSessionState, Respond, Undelivered
<1>4. ASSUME NEW c \in Calls,
             AuthorizationThrows(c) \/ Stop(c) \/ UseToken(c) \/ BreaksOff(c)
      PROVE  UNCHANGED oauth
  BY <1>4 DEF AuthorizationThrows, Stop, UseToken, BreaksOff
<1>5. CASE Tick \/ UNCHANGED vars
  BY <1>5 DEF Tick, vars
<1> QED BY <1>1, <1>2, <1>3, <1>4, <1>5 DEF Next

\* A message to consume is sent only by Authorized, after the token was issued.
LEMMA ConsumeSent ==
  ASSUME TypeOK, ConsumesIssued, [Next]_vars, NEW d \in Calls, "consume" \in rpc'[d]
  PROVE  oauth[d] = "issued"
<1>1. ASSUME NEW c \in Calls, WorkerStep(c) PROVE oauth[d] = "issued"
  BY <1>1 DEF WorkerStep, Read, Verify, Rejects, ClaimReturns, Authorized, ConsumeReturns,
              ReleaseReturns, OAuthAnswered, Send, End, ConsumesIssued, TypeOK
<1>2. ASSUME NEW c \in Calls, StoreStep(c) PROVE oauth[d] = "issued"
  BY <1>2 DEF StoreStep, claimMcpPairingSessionState, consumeMcpPairingSessionState,
              releaseMcpPairingSessionState, Respond, Undelivered, ConsumesIssued, TypeOK
<1>3. ASSUME NEW c \in Calls, AuthorizationThrows(c) PROVE oauth[d] = "issued"
  BY <1>3 DEF AuthorizationThrows, Send, ConsumesIssued, TypeOK
<1>4. ASSUME NEW c \in Calls, Stop(c) \/ Provider(c) \/ UseToken(c) \/ BreaksOff(c)
      PROVE  UNCHANGED rpc
  BY <1>4 DEF Stop, Provider, UseToken, BreaksOff
<1>5. CASE Tick \/ UNCHANGED vars
  BY <1>5 DEF Tick, vars, ConsumesIssued
<1> QED BY <1>1, <1>2, <1>3, <1>4, <1>5 DEF Next, ConsumesIssued

\* The invariant behind ActiveWasAuthorized.
LEMMA AuthStep == TypeOK /\ AuthInv /\ [Next]_vars => AuthInv'
<1> SUFFICES ASSUME TypeOK, Unasked, ConsumesIssued, ActiveWasAuthorized, [Next]_vars
             PROVE  AuthInv'
  BY DEF AuthInv
<1>1. Unasked'
  BY UnaskedStep
<1>2. ConsumesIssued'
  BY ConsumeSent, IssuedStays DEF ConsumesIssued
<1>3. ActiveWasAuthorized'
  <2>1. CASE session' = session
    <3> SUFFICES ASSUME session.state = "consumed" PROVE oauth'[session.claim] = "issued"
      BY <2>1 DEF ActiveWasAuthorized
    <3>1. session.claim \in Calls
      BY DEF TypeOK, Sessions
    <3> QED BY <3>1, IssuedStays DEF ActiveWasAuthorized
  <2>2. ASSUME NEW c \in Calls, ClaimApplied(c) PROVE ActiveWasAuthorized'
    BY <2>2 DEF ClaimApplied, Claimed, ActiveWasAuthorized
  <2>3. ASSUME NEW c \in Calls, ConsumeApplied(c) PROVE ActiveWasAuthorized'
    <3>1. session'.claim = c
      BY <2>3 DEF ConsumeApplied, MayConsume, Consumed, TypeOK, Sessions
    <3>2. oauth[c] = "issued"
      BY <2>3 DEF ConsumeApplied, ConsumesIssued
    <3> QED BY <3>1, <3>2, IssuedStays DEF ActiveWasAuthorized
  <2>4. ASSUME NEW c \in Calls, ReleaseApplied(c) PROVE ActiveWasAuthorized'
    BY <2>4 DEF ReleaseApplied, Open, ActiveWasAuthorized
  <2> QED BY <2>1, <2>2, <2>3, <2>4, SessionStep
<1> QED BY <1>1, <1>2, <1>3 DEF AuthInv

\* A connection is active only when the provider has issued the token of that
\* very claim (authorize awaits completeAuthorization before consumeSession).
THEOREM Authorization == Spec => []ActiveWasAuthorized
<1>1. Init => AuthInv
  BY DEF Init, Open, AuthInv, Unasked, ConsumesIssued, ActiveWasAuthorized
<1>2. AuthInv => ActiveWasAuthorized
  BY DEF AuthInv
<1> QED BY <1>1, <1>2, AuthStep, TypeCorrect, PTL DEF Spec
-----------------------------------------------------------------------------
(* The connections.                                                         *)

\* A connection stays one.
LEMMA ConnectionKept ==
  ASSUME TypeOK, [Next]_vars, NEW c \in Calls, IsConnection(c)
  PROVE  IsConnection(c)'
BY SessionStep DEF IsConnection, ClaimApplied, ConsumeApplied, ReleaseApplied, MayClaim,
                   MayConsume, MayRelease, LiveAt

\* "consumed" is answered by the step that consumes the session.
LEMMA ConsumedAnswer ==
  ASSUME TypeOK, [Next]_vars, NEW d \in Calls,
         reply'[d] = "consumed", reply[d] # "consumed"
  PROVE  IsConnection(d)'
<1>1. ASSUME NEW c \in Calls, StoreStep(c) PROVE IsConnection(d)'
  <2>1. CASE claimMcpPairingSessionState(c)
    BY <2>1 DEF claimMcpPairingSessionState, Respond, TypeOK
  <2>2. CASE releaseMcpPairingSessionState(c)
    BY <2>2 DEF releaseMcpPairingSessionState, Respond, TypeOK
  <2>3. CASE Undelivered(c)
    BY <2>3 DEF Undelivered, TypeOK
  <2>4. CASE consumeMcpPairingSessionState(c)
    <3>1. d = c /\ MayConsume(c, now) /\ session' = Consumed(session, now)
      BY <2>4 DEF consumeMcpPairingSessionState, Respond, TypeOK
    <3> QED BY <3>1 DEF MayConsume, Consumed, IsConnection, TypeOK, Sessions
  <2> QED BY <1>1, <2>1, <2>2, <2>3, <2>4 DEF StoreStep
<1>2. ASSUME NEW c \in Calls, WorkerStep(c) PROVE FALSE
  BY <1>2 DEF WorkerStep, Read, Verify, Rejects, ClaimReturns, Authorized, ConsumeReturns,
              ReleaseReturns, TypeOK
<1>3. ASSUME NEW c \in Calls, AuthorizationThrows(c) \/ Stop(c) \/ Provider(c)
               \/ UseToken(c) \/ BreaksOff(c)
      PROVE  FALSE
  BY <1>3 DEF AuthorizationThrows, Stop, Provider, UseToken, BreaksOff, TypeOK
<1>4. CASE Tick \/ UNCHANGED vars
  BY <1>4 DEF Tick, vars
<1> QED BY <1>1, <1>2, <1>3, <1>4 DEF Next

\* "paired" is what a call says that was answered "consumed".
LEMMA PairedAnswer ==
  ASSUME TypeOK, [Next]_vars, NEW d \in Calls, out'[d] = "paired", out[d] # "paired"
  PROVE  reply[d] = "consumed"
<1>1. ASSUME NEW c \in Calls, WorkerStep(c) PROVE reply[d] = "consumed"
  BY <1>1 DEF WorkerStep, Read, Verify, Rejects, ClaimReturns, Authorized, ConsumeReturns,
              ReleaseReturns, End, TypeOK
<1>2. ASSUME NEW c \in Calls, StoreStep(c) PROVE UNCHANGED out
  BY <1>2 DEF StoreStep, claimMcpPairingSessionState, consumeMcpPairingSessionState,
              releaseMcpPairingSessionState, Respond, Undelivered
<1>3. ASSUME NEW c \in Calls, AuthorizationThrows(c) \/ Stop(c) \/ Provider(c)
               \/ UseToken(c) \/ BreaksOff(c)
      PROVE  UNCHANGED out
  BY <1>3 DEF AuthorizationThrows, Stop, Provider, UseToken, BreaksOff
<1>4. CASE Tick \/ UNCHANGED vars
  BY <1>4 DEF Tick, vars
<1> QED BY <1>1, <1>2, <1>3, <1>4 DEF Next

\* A client is accepted only with a connection.
LEMMA AcceptedAnswer ==
  ASSUME TypeOK, [Next]_vars, NEW d \in accepted', d \notin accepted
  PROVE  IsConnection(d)
<1>1. ASSUME NEW c \in Calls, UseToken(c) PROVE IsConnection(d)
  BY <1>1 DEF UseToken
<1>2. ASSUME NEW c \in Calls, StoreStep(c) PROVE UNCHANGED accepted
  BY <1>2 DEF StoreStep, claimMcpPairingSessionState, consumeMcpPairingSessionState,
              releaseMcpPairingSessionState, Respond, Undelivered
<1>3. ASSUME NEW c \in Calls, WorkerStep(c) \/ AuthorizationThrows(c) \/ Stop(c)
               \/ Provider(c) \/ BreaksOff(c)
      PROVE  UNCHANGED accepted
  BY <1>3 DEF WorkerStep, Read, Verify, Rejects, ClaimReturns, Authorized, ConsumeReturns,
              ReleaseReturns, AuthorizationThrows, Stop, Provider, BreaksOff
<1>4. CASE Tick \/ UNCHANGED vars
  BY <1>4 DEF Tick, vars
<1> QED BY <1>1, <1>2, <1>3, <1>4 DEF Next

\* The invariant behind OneConnection and PairedIsActive.
LEMMA KnownStep == TypeOK /\ ConnectionsKnown /\ [Next]_vars => ConnectionsKnown'
<1> SUFFICES ASSUME TypeOK, ConnectionsKnown, [Next]_vars PROVE ConnectionsKnown'
  OBVIOUS
<1>1. ASSUME NEW c \in accepted' PROVE IsConnection(c)'
  <2>1. c \in Calls
    BY TypeStep DEF TypeOK
  <2> QED BY <2>1, AcceptedAnswer, ConnectionKept DEF ConnectionsKnown
<1>2. ASSUME NEW c \in Calls, reply'[c] = "consumed" PROVE IsConnection(c)'
  BY <1>2, ConsumedAnswer, ConnectionKept DEF ConnectionsKnown
<1>3. ASSUME NEW c \in Calls, out'[c] = "paired" PROVE IsConnection(c)'
  BY <1>3, PairedAnswer, ConnectionKept DEF ConnectionsKnown, PairedIsActive
<1> QED BY <1>1, <1>2, <1>3 DEF ConnectionsKnown, PairedIsActive

\* What every caller and client has taken for a connection is one.
THEOREM KnownInvariant == Spec => []ConnectionsKnown
<1>1. Init => ConnectionsKnown
  BY DEF Init, ConnectionsKnown, PairedIsActive
<1> QED BY <1>1, KnownStep, TypeCorrect, PTL DEF Spec

\* One challenge activates at most one connection (getConnection answers only
\* for the claim of a consumed session).
THEOREM Uniqueness == Spec => []OneConnection
<1>1. ConnectionsKnown => OneConnection
  BY DEF ConnectionsKnown, OneConnection, IsConnection
<1> QED BY <1>1, KnownInvariant, PTL

\* Whoever is told that it paired has the active connection.
THEOREM PairingHolds == Spec => []PairedIsActive
<1>1. ConnectionsKnown => PairedIsActive
  BY DEF ConnectionsKnown
<1> QED BY <1>1, KnownInvariant, PTL
=============================================================================
