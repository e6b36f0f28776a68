------------------------- MODULE McpRequestsProofs --------------------------
(***************************************************************************)
(* Proofs about McpRequests, for every set of calls, isolates, digests and *)
(* clock offsets: type correctness, agreement of the answers, the          *)
(* implementation of IdempotentResult, fencing of former claims, and       *)
(* claims that are kept until they expire.                                 *)
(***************************************************************************)
EXTENDS McpRequests, TLAPS

Active == {"claiming", "waiting", "executing", "completing", "releasing"}

\* A call that coordinates is the one its isolate remembers.
LeaderKnown == \A c \in Calls : pc[c] \in Active => inflight[GatewayOf[c]] = c

\* A joined call has joined a call of its own content.
JoinedAlike == \A c \in Calls : pc[c] = "joined" =>
  inflight[GatewayOf[c]] \in Calls /\ DigestOf[inflight[GatewayOf[c]]] = DigestOf[c]

\* An answer that carries a result carries the durable record.
RepliesTrue == \A c \in Calls : reply[c].tag = "completed" =>
  store.kind = "record" /\ store.digest = DigestOf[c] /\ store.claim = reply[c].claim

\* A call that coordinates has begun an attempt, and what names a claim names one.
Begun == \A c \in Calls : pc[c] \in Active => attempt[c] \in Attempts
Named == /\ store.kind # "none" => store.claim \in ClaimIds /\ store.digest \in Digests
         /\ \A c \in Calls : /\ rpc[c].op # "none" => rpc[c].id \in ClaimIds
                             /\ reply[c].tag \in {"pending", "completed"} =>
                                  reply[c].claim \in ClaimIds

TypeInv == TypeOK /\ Begun /\ Named

AnswerInv == LeaderKnown /\ JoinedAlike /\ RepliesTrue /\ AnswersAgree

-----------------------------------------------------------------------------
(* Types of what the actions build.                                         *)

\* A claim id of a call's attempt is a claim id; no claim id is Nil.
LEMMA IdTypes == /\ \A c \in Calls, n \in Attempts : <<c, n>> \in ClaimIds
                 /\ Nil \notin ClaimIds
  BY CallsAssumption DEF ClaimIds, Attempts

\* An isolate's clock is a number, and so is the expiry it proposes.
LEMMA ClockType ==
  ASSUME TypeOK, NEW c \in Calls
  PROVE  /\ Clock(c) \in Int
         /\ Sooner(Clock(c) + ClaimLifetime, ReqExpires) \in Int
  BY CallsAssumption, TimeAssumption DEF TypeOK, Clock, Sooner

\* Every error code makes an outcome.
LEMMA ErrType == \A code \in Codes : Err(code) \in Outcomes
  BY DEF Err, Outcomes

\* Every claim id makes a result.
LEMMA OkType == \A v \in ClaimIds \cup {Nil} : Ok(v) \in Outcomes
  BY DEF Ok, Outcomes, Codes

\* What a call sends is a message.
LEMMA RpcType ==
  /\ NoRpc \in Messages
  /\ \A op \in {"none", "claim", "complete", "release"}, id \in ClaimIds, e \in Int :
       Rpc(op, id, e) \in Messages
  BY DEF Rpc, NoRpc, Messages

\* What the store answers is a reply.
LEMMA ReplyType ==
  /\ NoReply \in Replies
  /\ \A tag \in Tags, id \in ClaimIds \cup {Nil}, e \in Int : Reply(tag, id, e) \in Replies
  BY DEF Reply, NoReply, Replies, Tags

\* The rows that the store writes are rows.
LEMMA RowType ==
  /\ EmptyRow \in Rows
  /\ \A d \in Digests, id \in ClaimIds, e \in Int : ClaimRow(d, id, e) \in Rows
  /\ \A d \in Digests, id \in ClaimIds : RecordRow(d, id) \in Rows
  BY DEF EmptyRow, ClaimRow, RecordRow, Rows

\* Ending a call keeps the types.
LEMMA FinishType ==
  ASSUME TypeOK, NEW c \in Calls, NEW o \in Outcomes, Finish(c, o)
  PROVE  /\ pc' \in [Calls -> Pcs]
         /\ inflight' \in [Gateways -> Calls \cup {Nil}]
         /\ out' \in [Calls -> Outcomes]
  BY DEF TypeOK, Finish, Pcs

\* So does the head of the loop.
LEMMA TryClaimType ==
  ASSUME TypeOK, NEW c \in Calls, NEW n \in Nat \ {0}, TryClaim(c, n)
  PROVE  /\ pc' \in [Calls -> Pcs]
         /\ inflight' \in [Gateways -> Calls \cup {Nil}]
         /\ out' \in [Calls -> Outcomes]
         /\ attempt' \in [Calls -> 0 .. MAX_REQUEST_CLAIM_ATTEMPTS]
         /\ claimUntil' \in [Calls -> Int]
         /\ rpc' \in [Calls -> Messages]
<1>1. CASE /\ ~MayTry(n)
           /\ Finish(c, Err("request-in-progress"))
           /\ UNCHANGED <<attempt, claimUntil, rpc>>
  <2>1. Err("request-in-progress") \in Outcomes
    BY ErrType DEF Codes
  <2> QED BY <1>1, <2>1, FinishType DEF TypeOK
<1>2. CASE /\ Finish(c, Err("expired-request"))
           /\ UNCHANGED <<attempt, claimUntil, rpc>>
  <2>1. Err("expired-request") \in Outcomes
    BY ErrType DEF Codes
  <2> QED BY <1>2, <2>1, FinishType DEF TypeOK
<1>3. CASE /\ MayTry(n)
           /\ pc' = [pc EXCEPT ![c] = "claiming"]
           /\ attempt' = [attempt EXCEPT ![c] = n]
           /\ claimUntil' = [claimUntil EXCEPT ![c] = Sooner(Clock(c) + ClaimLifetime, ReqExpires)]
           /\ rpc' = [rpc EXCEPT ![c] = Rpc("claim", <<c, n>>, claimUntil'[c])]
           /\ inflight' = [inflight EXCEPT ![GatewayOf[c]] = c]
           /\ UNCHANGED out
  <2>1. n \in Attempts
    BY <1>3 DEF MayTry, Attempts, MAX_REQUEST_CLAIM_ATTEMPTS
  <2>2. claimUntil' \in [Calls -> Int]
    BY <1>3, ClockType DEF TypeOK
  <2>3. Rpc("claim", <<c, n>>, claimUntil'[c]) \in Messages
    BY <2>1, <2>2, IdTypes, RpcType
  <2>4. rpc' \in [Calls -> Messages]
    BY <1>3, <2>3 DEF TypeOK
  <2>5. attempt' \in [Calls -> 0 .. MAX_REQUEST_CLAIM_ATTEMPTS]
    BY <1>3, <2>1 DEF TypeOK, Attempts, MAX_REQUEST_CLAIM_ATTEMPTS
  <2>6. pc' \in [Calls -> Pcs]
    BY <1>3 DEF TypeOK, Pcs
  <2>7. inflight' \in [Gateways -> Calls \cup {Nil}]
    BY <1>3 DEF TypeOK
  <2> QED BY <1>3, <2>2, <2>4, <2>5, <2>6, <2>7 DEF TypeOK
<1> QED BY <1>1, <1>2, <1>3 DEF TryClaim

\* An exchange with the store keeps the types.
LEMMA RespondType ==
  ASSUME TypeOK, NEW c \in Calls, NEW r \in Replies, Respond(c, r),
         store' \in Rows, fenced' \subseteq ClaimIds
  PROVE  TypeOK'
<1>1. Unavailable \in Replies
  BY DEF Unavailable, Reply, Replies, Tags
<1>2. rpc' \in [Calls -> Messages]
  BY RpcType DEF Respond, TypeOK
<1>3. reply' \in [Calls -> Replies]
  BY <1>1 DEF Respond, TypeOK
<1> QED BY <1>2, <1>3 DEF Respond, TypeOK

-----------------------------------------------------------------------------
\* The initial state and every step of the program have the types.
LEMMA TypeStep == TypeInv /\ [Next]_vars => TypeOK'
<1> SUFFICES ASSUME TypeOK, Begun, Named, [Next]_vars PROVE TypeOK'
  BY DEF TypeInv
<1> USE IdTypes
<1>1. ASSUME NEW c \in Calls, Begin(c) PROVE TypeOK'
  <2>1. Err("expired-request") \in Outcomes
    BY ErrType DEF Codes
  <2>2. pc' \in [Calls -> Pcs] /\ out' \in [Calls -> Outcomes]
    BY <1>1, <2>1 DEF Begin, Reject, TypeOK, Pcs
  <2> QED BY <1>1, <2>2 DEF Begin, TypeOK
<1>2. ASSUME NEW c \in Calls, Enter(c) PROVE TypeOK'
  <2>1. Err("request-id-collision") \in Outcomes
    BY ErrType DEF Codes
  <2>2. CASE pc' = [pc EXCEPT ![c] = "joined"]
             /\ UNCHANGED <<inflight, attempt, claimUntil, rpc, out>>
    <3>1. pc' \in [Calls -> Pcs]
      BY <2>2 DEF TypeOK, Pcs
    <3> QED BY <1>2, <2>2, <3>1 DEF Enter, TypeOK
  <2>3. CASE Reject(c, Err("request-id-collision"))
             /\ UNCHANGED <<inflight, attempt, claimUntil, rpc>>
    <3>1. pc' \in [Calls -> Pcs] /\ out' \in [Calls -> Outcomes]
      BY <2>1, <2>3 DEF Reject, TypeOK, Pcs
    <3> QED BY <1>2, <2>3, <3>1 DEF Enter, TypeOK
  <2>4. CASE TryClaim(c, 1)
    BY <1>2, <2>4, TryClaimType DEF Enter, TypeOK
  <2> QED BY <1>2, <2>2, <2>3, <2>4 DEF Enter
<1>3. ASSUME NEW c \in Calls, Acquired(c) PROVE TypeOK'
  <2>1. pc' \in [Calls -> Pcs] /\ reply' \in [Calls -> Replies]
    BY <1>3, ReplyType DEF Acquired, TypeOK, Pcs
  <2> QED BY <1>3, <2>1 DEF Acquired, TypeOK
<1>4. ASSUME NEW c \in Calls, Pending(c) PROVE TypeOK'
  <2> DEFINE until == Sooner(reply[c].expires, ReqExpires)
  <2>1. reply[c] \in Replies /\ reply' \in [Calls -> Replies]
    BY <1>4, ReplyType DEF Pending, TypeOK
  <2>u. UNCHANGED <<now, store, fenced>>
    BY <1>4, <2>1 DEF Pending, TypeOK, Named
  <2>2. until \in Int /\ reply[c].claim \in ClaimIds \cup {Nil}
    BY <2>1, TimeAssumption DEF Sooner, Replies
  <2>3. CASE TryClaim(c, attempt[c] + 1) /\ UNCHANGED <<awaited, deadline>>
    <3>1. attempt[c] + 1 \in Nat \ {0}
      BY DEF TypeOK
    <3> QED BY <2>1, <2>u, <2>3, <3>1, TryClaimType DEF TypeOK
  <2>4. CASE /\ pc' = [pc EXCEPT ![c] = "waiting"]
             /\ awaited' = [awaited EXCEPT ![c] = reply[c].claim]
             /\ deadline' = [deadline EXCEPT ![c] = until]
             /\ UNCHANGED <<inflight, attempt, claimUntil, rpc, out>>
    <3>1. pc' \in [Calls -> Pcs]
      BY <2>4 DEF TypeOK, Pcs
    <3>2. awaited' \in [Calls -> ClaimIds \cup {Nil}] /\ deadline' \in [Calls -> Int]
      BY <2>2, <2>4 DEF TypeOK
    <3> QED BY <2>1, <2>u, <2>4, <3>1, <3>2 DEF TypeOK
  <2> QED BY <1>4, <2>3, <2>4 DEF Pending
<1>5. ASSUME NEW c \in Calls, WaitInspect(c) PROVE TypeOK'
  <2>1. attempt[c] + 1 \in Nat \ {0}
    BY DEF TypeOK
  <2>2. Err("request-id-collision") \in Outcomes /\ Ok(store.claim) \in Outcomes
    BY ErrType, OkType DEF Codes, TypeOK, Rows
  <2> QED BY <1>5, <2>1, <2>2, TryClaimType, FinishType DEF WaitInspect, TypeOK
<1>6. ASSUME NEW c \in Calls, WaitTimeout(c) PROVE TypeOK'
  <2>1. attempt[c] + 1 \in Nat \ {0}
    BY DEF TypeOK
  <2> QED BY <1>6, <2>1, TryClaimType DEF WaitTimeout, TypeOK
<1>7. ASSUME NEW c \in Calls, WaitUnavailable(c) PROVE TypeOK'
  <2>1. Err("gateway-storage-unavailable") \in Outcomes
    BY ErrType DEF Codes
  <2> QED BY <1>7, <2>1, FinishType DEF WaitUnavailable, TypeOK
<1>8. ASSUME NEW c \in Calls, FreshResult(c) \/ FreshError(c) PROVE TypeOK'
  <2>1. CurrentClaim(c) \in ClaimIds
    BY <1>8 DEF FreshResult, FreshError, Begun, Active, CurrentClaim
  <2>2. pc' \in [Calls -> Pcs]
    BY <1>8 DEF FreshResult, FreshError, TypeOK, Pcs
  <2>3. rpc' \in [Calls -> Messages]
    BY <1>8, <2>1, RpcType DEF FreshResult, FreshError, TypeOK
  <2> QED BY <1>8, <2>2, <2>3 DEF FreshResult, FreshError, TypeOK
<1>9. ASSUME NEW c \in Calls, Ends(c) PROVE TypeOK'
  <2>1. Outcome(c) \in Outcomes
    BY ErrType, OkType DEF Outcome, Codes, TypeOK, Replies
  <2>2. reply' \in [Calls -> Replies]
    BY <1>9, ReplyType DEF Ends, TypeOK
  <2> QED BY <1>9, <2>1, <2>2, FinishType DEF Ends, TypeOK
<1>10. ASSUME NEW g \in Gateways, Stop(g) PROVE TypeOK'
  <2>1. pc' \in [Calls -> Pcs] /\ reply' \in [Calls -> Replies]
    BY <1>10, ReplyType DEF Stop, TypeOK, Pcs
  <2> QED BY <1>10, <2>1 DEF Stop, TypeOK
<1>11. ASSUME NEW c \in Calls, claimMcpRequestState(c) PROVE TypeOK'
  <2>1. /\ store.claim \in ClaimIds \cup {Nil} /\ store.expires \in Int
        /\ rpc[c].id \in ClaimIds /\ rpc[c].expires \in Int
    BY <1>11 DEF TypeOK, Rows, Messages, Named, claimMcpRequestState
  <2>2. store' \in Rows /\ fenced' \subseteq ClaimIds
    BY <1>11, <2>1, RowType, CallsAssumption DEF claimMcpRequestState, TypeOK
  <2>3. PICK r \in Replies : Respond(c, r)
    BY <1>11, <2>1, ReplyType DEF claimMcpRequestState, Tags
  <2> QED BY <2>2, <2>3, RespondType
<1>12. ASSUME NEW c \in Calls, completeMcpRequestState(c) PROVE TypeOK'
  <2>1. store.claim \in ClaimIds \cup {Nil} /\ rpc[c].id \in ClaimIds
    BY <1>12 DEF TypeOK, Rows, Named, completeMcpRequestState
  <2>2. store' \in Rows /\ fenced' \subseteq ClaimIds
    BY <1>12, <2>1, RowType, CallsAssumption DEF completeMcpRequestState, TypeOK
  <2>3. PICK r \in Replies : Respond(c, r)
    BY <1>12, <2>1, ReplyType DEF completeMcpRequestState, Tags
  <2> QED BY <2>2, <2>3, RespondType
<1>13. ASSUME NEW c \in Calls, releaseMcpRequestState(c) PROVE TypeOK'
  <2>1. rpc[c].id \in ClaimIds
    BY <1>13 DEF Named, releaseMcpRequestState
  <2>2. store' \in Rows /\ fenced' \subseteq ClaimIds
    BY <1>13, <2>1, RowType DEF releaseMcpRequestState, IsCurrentClaim, TypeOK
  <2>3. Reply("released", Nil, 0) \in Replies
    BY ReplyType DEF Tags
  <2> QED BY <1>13, <2>2, <2>3, RespondType DEF releaseMcpRequestState
<1>14. ASSUME NEW c \in Calls, Undelivered(c) \/ BreaksOff(c) PROVE TypeOK'
  <2>1. Unavailable \in Replies
    BY DEF Unavailable, Reply, Replies, Tags
  <2> QED BY <1>14, <2>1, RpcType DEF Undelivered, BreaksOff, TypeOK
<1>15. CASE Tick
  BY <1>15 DEF Tick, local, TypeOK
<1>16. CASE UNCHANGED vars
  BY <1>16 DEF vars, local, TypeOK
<1> QED BY <1>1, <1>2, <1>3, <1>4, <1>5, <1>6, <1>7, <1>8, <1>9, <1>10, <1>11, <1>12,
           <1>13, <1>14, <1>15, <1>16 DEF Next, CallStep, WaitStep, StoreStep

-----------------------------------------------------------------------------
(* What the shared parts of the actions do.                                 *)

\* Ending a call ends it and the calls that joined it, and nothing else.
LEMMA FinishEffect ==
  ASSUME TypeOK, NEW c \in Calls, NEW o \in Outcomes, Finish(c, o)
  PROVE  /\ \A x \in Calls : \/ pc'[x] = pc[x] /\ out'[x] = out[x] /\ x # c
                             \/ pc'[x] = "done" /\ out'[x] = o
                                /\ (x = c \/ (pc[x] = "joined" /\ GatewayOf[x] = GatewayOf[c]))
         /\ \A x \in Calls : GatewayOf[x] = GatewayOf[c] => pc'[x] # "joined"
         /\ \A x \in Calls : GatewayOf[x] # GatewayOf[c] =>
                               inflight'[GatewayOf[x]] = inflight[GatewayOf[x]]
  BY CallsAssumption DEF Finish, AnsweredWith, TypeOK

\* The two outcomes of the loop's head.
GivesUp(c) == \E o \in Outcomes : /\ o.kind = "error" /\ o.code # "request-claim-lost"
                                  /\ Finish(c, o)
                                  /\ UNCHANGED <<attempt, claimUntil, rpc>>
SendsClaim(c, n) ==
  /\ n \in Attempts
  /\ pc' = [pc EXCEPT ![c] = "claiming"]
  /\ attempt' = [attempt EXCEPT ![c] = n]
  /\ claimUntil' = [claimUntil EXCEPT ![c] = claimUntil'[c]]
  /\ claimUntil'[c] \in Int
  /\ rpc' = [rpc EXCEPT ![c] = Rpc("claim", <<c, n>>, claimUntil'[c])]
  /\ inflight' = [inflight EXCEPT ![GatewayOf[c]] = c]
  /\ UNCHANGED out

\* The loop's head either ends the call with an error or sends a fresh claim.
LEMMA TryClaimEffect ==
  ASSUME TypeOK, NEW c \in Calls, NEW n \in Nat \ {0}, TryClaim(c, n)
  PROVE  GivesUp(c) \/ SendsClaim(c, n)
<1>1. ASSUME NEW code \in Codes
      PROVE  Err(code) \in Outcomes /\ Err(code).kind = "error" /\ Err(code).code = code
  BY ErrType DEF Err
<1>2. claimUntil' \in [Calls -> Int]
  BY TryClaimType
<1>3. MayTry(n) => n \in Attempts
  BY DEF MayTry, Attempts, MAX_REQUEST_CLAIM_ATTEMPTS
<1>4. "request-in-progress" \in Codes /\ "expired-request" \in Codes
  BY DEF Codes
<1> QED BY <1>1, <1>2, <1>3, <1>4 DEF TryClaim, TypeOK, GivesUp, SendsClaim

\* An exchange empties the message and, at most, brings its answer or a failure.
LEMMA RespondEffect ==
  ASSUME TypeOK, NEW c \in Calls, NEW r, Respond(c, r)
  PROVE  /\ rpc' = [rpc EXCEPT ![c] = NoRpc]
         /\ \/ reply' = reply
            \/ Listening(c) /\ reply' = [reply EXCEPT ![c] = r]
            \/ Listening(c) /\ reply' = [reply EXCEPT ![c] = Unavailable]
         /\ UNCHANGED <<now, inflight, pc, attempt, claimUntil, awaited, deadline, out>>
  BY DEF Respond

-----------------------------------------------------------------------------
\* The program keeps Begun.
LEMMA BegunStep == TypeInv /\ [Next]_vars => Begun'
<1> SUFFICES ASSUME TypeOK, Begun, Named, [Next]_vars, NEW x \in Calls, pc'[x] \in Active
             PROVE  attempt'[x] \in Attempts
  BY DEF TypeInv, Begun
<1>0. ASSUME NEW c \in Calls, NEW n \in Nat \ {0}, TryClaim(c, n) PROVE attempt'[x] \in Attempts
  <2>1. CASE GivesUp(c)
    BY <2>1, FinishEffect DEF GivesUp, Begun, Active
  <2>2. CASE SendsClaim(c, n)
    BY <2>2 DEF SendsClaim, Begun, TypeOK
  <2> QED BY <1>0, <2>1, <2>2, TryClaimEffect
<1>1. ASSUME NEW c \in Calls, NEW o \in Outcomes, Finish(c, o), attempt' = attempt
      PROVE attempt'[x] \in Attempts
  BY <1>1, FinishEffect DEF Begun, Active
<1>2. ASSUME NEW c \in Calls, Begin(c) PROVE attempt'[x] \in Attempts
  BY <1>2 DEF Begin, Reject, TypeOK, Begun, Active
<1>3. ASSUME NEW c \in Calls, Enter(c) PROVE attempt'[x] \in Attempts
  <2>1. TryClaim(c, 1) => attempt'[x] \in Attempts
    BY <1>0
  <2> QED BY <1>3, <2>1 DEF Enter, Reject, TypeOK, Begun, Active
<1>4. ASSUME NEW c \in Calls, Acquired(c) \/ FreshResult(c) \/ FreshError(c)
      PROVE attempt'[x] \in Attempts
  BY <1>4 DEF Acquired, FreshResult, FreshError, TypeOK, Begun, Active
<1>5. ASSUME NEW c \in Calls, Pending(c) \/ WaitStep(c) PROVE attempt'[x] \in Attempts
  <2>1. attempt[c] + 1 \in Nat \ {0} /\ store.claim \in ClaimIds \cup {Nil}
    BY DEF TypeOK, Rows
  <2>2. TryClaim(c, attempt[c] + 1) => attempt'[x] \in Attempts
    BY <2>1, <1>0
  <2>3. CASE pc' = [pc EXCEPT ![c] = "waiting"] /\ attempt' = attempt /\ pc[c] = "claiming"
    BY <2>3 DEF TypeOK, Begun, Active
  <2>4. Ok(store.claim) \in Outcomes
    BY <2>1, OkType
  <2>5. /\ Err("request-id-collision") \in Outcomes
        /\ Err("gateway-storage-unavailable") \in Outcomes
    BY ErrType DEF Codes
  <2> QED BY <1>5, <1>1, <2>2, <2>3, <2>4, <2>5
          DEF Pending, WaitStep, WaitInspect, WaitTimeout, WaitUnavailable
<1>6. ASSUME NEW c \in Calls, Ends(c) PROVE attempt'[x] \in Attempts
  <2>1. Outcome(c) \in Outcomes
    BY ErrType, OkType DEF Outcome, Codes, TypeOK, Replies
  <2> QED BY <1>6, <1>1, <2>1 DEF Ends
<1>7. ASSUME NEW g \in Gateways, Stop(g) PROVE attempt'[x] \in Attempts
  BY <1>7 DEF Stop, TypeOK, Begun, Active
<1>8. ASSUME NEW c \in Calls, StoreStep(c) \/ BreaksOff(c) PROVE attempt'[x] \in Attempts
  BY <1>8 DEF StoreStep, BreaksOff, Undelivered, claimMcpRequestState, Respond,
              completeMcpRequestState, releaseMcpRequestState, Begun
<1>9. CASE Tick \/ UNCHANGED vars
  BY <1>9 DEF Tick, vars, local, Begun
<1> QED BY <1>2, <1>3, <1>4, <1>5, <1>6, <1>7, <1>8, <1>9 DEF Next, CallStep

\* The program keeps Named.
LEMMA NamedStep == TypeInv /\ [Next]_vars => Named'
<1> SUFFICES ASSUME TypeOK, Begun, Named, [Next]_vars PROVE Named'
  BY DEF TypeInv
<1> USE IdTypes
<1>0. ASSUME NEW c \in Calls, NEW n \in Nat \ {0}, TryClaim(c, n), store' = store,
             \/ reply' = reply
             \/ reply' = [reply EXCEPT ![c] = NoReply]
      PROVE Named'
  <2>1. rpc' = rpc \/ \E e \in Int : n \in Attempts /\ rpc' = [rpc EXCEPT ![c] = Rpc("claim", <<c, n>>, e)]
    BY <1>0, TryClaimEffect DEF GivesUp, SendsClaim
  <2> QED BY <1>0, <2>1 DEF Named, Rpc, NoReply, TypeOK
<1>1. ASSUME store' = store, rpc' = rpc,
             reply' = reply \/ \E c \in Calls : reply' = [reply EXCEPT ![c] = NoReply]
      PROVE Named'
  BY <1>1 DEF Named, NoReply, TypeOK
<1>2. ASSUME NEW c \in Calls, Begin(c) \/ Acquired(c) \/ Ends(c) PROVE Named'
  BY <1>1, <1>2 DEF Begin, Acquired, Ends
<1>3. ASSUME NEW c \in Calls, Enter(c) PROVE Named'
  BY <1>0, <1>1, <1>3 DEF Enter
<1>4. ASSUME NEW c \in Calls, FreshResult(c) \/ FreshError(c) PROVE Named'
  <2>1. CurrentClaim(c) \in ClaimIds
    BY <1>4 DEF FreshResult, FreshError, Begun, Active, CurrentClaim
  <2> QED BY <1>4, <2>1 DEF FreshResult, FreshError, Named, Rpc, TypeOK
<1>5. ASSUME NEW c \in Calls, Pending(c) \/ WaitStep(c) PROVE Named'
  <2>1. attempt[c] + 1 \in Nat \ {0}
    BY DEF TypeOK
  <2> QED BY <1>0, <1>1, <1>5, <2>1 DEF Pending, WaitStep, WaitInspect, WaitTimeout, WaitUnavailable
<1>6. ASSUME NEW g \in Gateways, Stop(g) PROVE Named'
  BY <1>6 DEF Stop, Named, NoReply, TypeOK
<1>7. ASSUME NEW c \in Calls, NEW r, Respond(c, r),
             store'.kind # "none" => store'.claim \in ClaimIds /\ store'.digest \in Digests,
             r.tag \in {"pending", "completed"} => r.claim \in ClaimIds
      PROVE Named'
  <2>1. /\ Unavailable.tag \notin {"pending", "completed"}
        /\ NoRpc.op = "none"
    BY DEF Unavailable, Reply, NoRpc
  <2> QED BY <1>7, <2>1, RespondEffect DEF Named, TypeOK
<1>8. ASSUME NEW c \in Calls, claimMcpRequestState(c) PROVE Named'
  <2>1. rpc[c].id \in ClaimIds
    BY <1>8 DEF Named, claimMcpRequestState
  <2> QED BY <1>7, <1>8, <2>1, CallsAssumption DEF claimMcpRequestState, Named, Reply, ClaimRow
<1>9. ASSUME NEW c \in Calls, completeMcpRequestState(c) PROVE Named'
  <2>1. rpc[c].id \in ClaimIds
    BY <1>9 DEF Named, completeMcpRequestState
  <2> QED BY <1>7, <1>9, <2>1, CallsAssumption DEF completeMcpRequestState, Named, Reply, RecordRow
<1>10. ASSUME NEW c \in Calls, releaseMcpRequestState(c) PROVE Named'
  <2>1. EmptyRow.kind = "none"
    BY DEF EmptyRow
  <2> QED BY <1>7, <1>10, <2>1 DEF releaseMcpRequestState, Named, Reply
<1>11. ASSUME NEW c \in Calls, Undelivered(c) \/ BreaksOff(c) PROVE Named'
  BY <1>11 DEF Undelivered, BreaksOff, Named, Unavailable, Reply, NoRpc, TypeOK
<1>12. CASE Tick \/ UNCHANGED vars
  BY <1>1, <1>12 DEF Tick, vars, local
<1> QED BY <1>2, <1>3, <1>4, <1>5, <1>6, <1>8, <1>9, <1>10, <1>11, <1>12
        DEF Next, CallStep, StoreStep

\* The initial state has the types.
LEMMA TypeInit == Init => TypeInv
<1> SUFFICES ASSUME Init PROVE TypeInv
  OBVIOUS
<1>1. NoOut \in Outcomes
  BY DEF NoOut, Outcomes, Codes
<1>2. TypeOK
  BY <1>1, RowType, RpcType, ReplyType DEF Init, TypeOK, Pcs, MAX_REQUEST_CLAIM_ATTEMPTS
<1>3. Begun /\ Named
  BY DEF Init, Begun, Named, Active, EmptyRow, NoRpc, NoReply
<1> QED BY <1>2, <1>3 DEF TypeInv

\* The types hold in every state, and so does what they rest on: a call that
\* coordinates has begun an attempt and every claim mentioned has a name.
THEOREM TypesInvariant == Spec => []TypeInv
<1>1. TypeInv /\ [Next]_vars => TypeInv'
  BY TypeStep, BegunStep, NamedStep DEF TypeInv
<1> QED BY TypeInit, <1>1, PTL DEF Spec

\* Every variable stays within its type (TypeOK of the runs).
THEOREM TypeCorrect == Spec => []TypeOK
<1>1. TypeInv => TypeOK
  BY DEF TypeInv
<1> QED BY TypesInvariant, <1>1, PTL

-----------------------------------------------------------------------------
(* Agreement.                                                               *)

RecordIs(d, v) == store.kind = "record" /\ store.digest = d /\ store.claim = v

\* What Finish keeps, when the outcome is an error or the durable record.
LEMMA FinishAgrees ==
  ASSUME TypeOK, AnswerInv, NEW c \in Calls, NEW o \in Outcomes, Finish(c, o), store' = store,
         inflight[GatewayOf[c]] \in {c, Nil},
         o.kind = "ok" => RecordIs(DigestOf[c], o.value),
         reply' = reply \/ reply' = [reply EXCEPT ![c] = NoReply]
  PROVE  AnswerInv'
<1>1. ASSUME NEW x \in Calls, pc[x] = "joined", GatewayOf[x] = GatewayOf[c]
      PROVE DigestOf[x] = DigestOf[c]
  BY <1>1, CallsAssumption DEF AnswerInv, JoinedAlike
<1>2. ASSUME NEW x \in Calls, GatewayOf[x] = GatewayOf[c], x # c PROVE pc[x] \notin Active
  BY <1>2, CallsAssumption DEF AnswerInv, LeaderKnown
<1>3. LeaderKnown'
  BY <1>2, FinishEffect DEF AnswerInv, LeaderKnown, Active
<1>4. JoinedAlike'
  BY FinishEffect DEF AnswerInv, JoinedAlike
<1>5. RepliesTrue'
  BY DEF AnswerInv, RepliesTrue, NoReply, TypeOK
<1>6. AnswersAgree'
  BY <1>1, FinishEffect DEF AnswerInv, AnswersAgree, RecordIs
<1> QED BY <1>3, <1>4, <1>5, <1>6 DEF AnswerInv

\* What the loop's head keeps.
LEMMA TryClaimAgrees ==
  ASSUME TypeOK, AnswerInv, NEW c \in Calls, NEW n \in Nat \ {0}, TryClaim(c, n), store' = store,
         inflight[GatewayOf[c]] \in {c, Nil},
         reply' = reply \/ reply' = [reply EXCEPT ![c] = NoReply]
  PROVE  AnswerInv'
<1>1. CASE GivesUp(c)
  BY <1>1, FinishAgrees DEF GivesUp
<1>2. CASE SendsClaim(c, n)
  <2>1. ASSUME NEW x \in Calls, GatewayOf[x] = GatewayOf[c], x # c PROVE pc[x] \notin Active
    BY <2>1, CallsAssumption DEF AnswerInv, LeaderKnown
  <2>2. LeaderKnown'
    BY <1>2, <2>1, CallsAssumption DEF SendsClaim, AnswerInv, LeaderKnown, TypeOK
  <2>3. JoinedAlike'
    BY <1>2, CallsAssumption DEF SendsClaim, AnswerInv, JoinedAlike, TypeOK
  <2>4. RepliesTrue' /\ AnswersAgree'
    BY <1>2 DEF SendsClaim, AnswerInv, RepliesTrue, AnswersAgree, NoReply, TypeOK
  <2> QED BY <2>2, <2>3, <2>4 DEF AnswerInv
<1> QED BY <1>1, <1>2, TryClaimEffect

\* What an exchange keeps: the record stays, and only the record is answered.
LEMMA RespondAgrees ==
  ASSUME TypeOK, AnswerInv, NEW c \in Calls, NEW r \in Replies, Respond(c, r),
         store.kind = "record" => store' = store,
         r.tag = "completed" =>
           store'.kind = "record" /\ store'.digest = DigestOf[c] /\ store'.claim = r.claim
  PROVE  AnswerInv'
<1>1. LeaderKnown' /\ JoinedAlike'
  BY RespondEffect DEF AnswerInv, LeaderKnown, JoinedAlike
<1>2. AnswersAgree'
  BY RespondEffect DEF AnswerInv, AnswersAgree
<1>3. Unavailable.tag # "completed"
  BY DEF Unavailable, Reply
<1>4. RepliesTrue'
  BY <1>3, RespondEffect DEF AnswerInv, RepliesTrue, RecordIs, TypeOK
<1> QED BY <1>1, <1>2, <1>4 DEF AnswerInv

\* The program keeps AnswerInv.
LEMMA AnswerStep == TypeInv /\ AnswerInv /\ [Next]_vars => AnswerInv'
<1> SUFFICES ASSUME TypeOK, Named, AnswerInv, [Next]_vars PROVE AnswerInv'
  BY DEF TypeInv
<1>1. ASSUME NEW c \in Calls, Begin(c) PROVE AnswerInv'
  BY <1>1 DEF Begin, Reject, Err, TypeOK, AnswerInv, LeaderKnown, JoinedAlike, RepliesTrue,
              AnswersAgree, Active
<1>2. ASSUME NEW c \in Calls, Enter(c) PROVE AnswerInv'
  <2>1. CASE TryClaim(c, 1) /\ inflight[GatewayOf[c]] = Nil
    BY <1>2, <2>1, TryClaimAgrees DEF Enter
  <2>2. CASE /\ inflight[GatewayOf[c]] # Nil
             /\ DigestOf[inflight[GatewayOf[c]]] = DigestOf[c]
             /\ pc' = [pc EXCEPT ![c] = "joined"]
             /\ UNCHANGED <<inflight, attempt, claimUntil, rpc, out>>
    <3>1. inflight[GatewayOf[c]] \in Calls
      BY <2>2, CallsAssumption DEF TypeOK
    <3> QED BY <1>2, <2>2, <3>1 DEF Enter, TypeOK, AnswerInv, LeaderKnown, JoinedAlike,
                                    RepliesTrue, AnswersAgree, Active
  <2>3. CASE Reject(c, Err("request-id-collision")) /\ UNCHANGED inflight
    BY <1>2, <2>3 DEF Enter, Reject, Err, TypeOK, AnswerInv, LeaderKnown, JoinedAlike,
                      RepliesTrue, AnswersAgree, Active
  <2> QED BY <1>2, <2>1, <2>2, <2>3 DEF Enter
<1>3. ASSUME NEW c \in Calls, Acquired(c) \/ FreshResult(c) \/ FreshError(c) PROVE AnswerInv'
  <2>1. LeaderKnown'
    BY <1>3 DEF Acquired, FreshResult, FreshError, TypeOK, AnswerInv, LeaderKnown, Active
  <2>2. JoinedAlike'
    BY <1>3 DEF Acquired, FreshResult, FreshError, TypeOK, AnswerInv, JoinedAlike
  <2>3. RepliesTrue' /\ AnswersAgree'
    BY <1>3 DEF Acquired, FreshResult, FreshError, TypeOK, NoReply, AnswerInv, RepliesTrue,
                AnswersAgree
  <2> QED BY <2>1, <2>2, <2>3 DEF AnswerInv
<1>4. ASSUME NEW c \in Calls, Pending(c) \/ WaitStep(c) PROVE AnswerInv'
  <2>1. attempt[c] + 1 \in Nat \ {0} /\ store.claim \in ClaimIds \cup {Nil}
    BY DEF TypeOK, Rows
  <2>2. inflight[GatewayOf[c]] = c
    BY <1>4 DEF AnswerInv, LeaderKnown, Active, Pending, WaitStep, WaitInspect, WaitTimeout,
                WaitUnavailable
  <2>3. CASE TryClaim(c, attempt[c] + 1)
    BY <1>4, <2>1, <2>2, <2>3, TryClaimAgrees
       DEF Pending, WaitStep, WaitInspect, WaitTimeout, WaitUnavailable
  <2>4. CASE Pending(c) /\ pc' = [pc EXCEPT ![c] = "waiting"]
                        /\ UNCHANGED <<inflight, attempt, claimUntil, rpc, out>>
    BY <2>4 DEF Pending, TypeOK, NoReply, AnswerInv, LeaderKnown, JoinedAlike, RepliesTrue,
                AnswersAgree, Active
  <2>5. ASSUME NEW code \in Codes, Finish(c, Err(code)), store' = store, reply' = reply
        PROVE AnswerInv'
    <3>1. Err(code) \in Outcomes /\ Err(code).kind # "ok"
      BY ErrType DEF Err
    <3> QED BY <2>2, <2>5, <3>1, FinishAgrees
  <2>6. ASSUME Finish(c, Ok(store.claim)), RecordIs(DigestOf[c], store.claim),
               store' = store, reply' = reply
        PROVE AnswerInv'
    <3>1. Ok(store.claim) \in Outcomes /\ Ok(store.claim).value = store.claim
      BY <2>1, OkType DEF Ok
    <3> QED BY <2>2, <2>6, <3>1, FinishAgrees
  <2>7. "request-id-collision" \in Codes /\ "gateway-storage-unavailable" \in Codes
    BY DEF Codes
  <2>8. CASE WaitStep(c)
    BY <2>3, <2>5, <2>6, <2>7, <2>8
       DEF WaitStep, WaitInspect, WaitTimeout, WaitUnavailable, RecordIs
  <2> QED BY <1>4, <2>3, <2>4, <2>8 DEF Pending
<1>5. ASSUME NEW c \in Calls, Ends(c) PROVE AnswerInv'
  <2>1. Outcome(c) \in Outcomes
    BY ErrType, OkType DEF Outcome, Codes, TypeOK, Replies
  <2>2. Outcome(c).kind = "ok" => RecordIs(DigestOf[c], Outcome(c).value)
    BY DEF Outcome, Ok, Err, RecordIs, AnswerInv, RepliesTrue
  <2>3. inflight[GatewayOf[c]] = c
    BY <1>5 DEF Ends, AnswerInv, LeaderKnown, Active
  <2> QED BY <1>5, <2>1, <2>2, <2>3, FinishAgrees DEF Ends
<1>6. ASSUME NEW g \in Gateways, Stop(g) PROVE AnswerInv'
  BY <1>6, CallsAssumption DEF Stop, TypeOK, NoReply, AnswerInv, LeaderKnown, JoinedAlike,
     RepliesTrue, AnswersAgree, Active
<1>7. ASSUME NEW c \in Calls, claimMcpRequestState(c) PROVE AnswerInv'
  <2>1. /\ store.claim \in ClaimIds \cup {Nil} /\ store.expires \in Int
        /\ rpc[c].id \in ClaimIds /\ rpc[c].expires \in Int
    BY <1>7 DEF TypeOK, Rows, Messages, Named, claimMcpRequestState
  <2>2. ASSUME NEW r \in Replies, Respond(c, r), r.tag # "completed", store.kind # "record"
        PROVE  AnswerInv'
    BY <2>2, RespondAgrees
  <2>3. ASSUME NEW r \in Replies, Respond(c, r), store' = store,
               r.tag = "completed" => RecordIs(DigestOf[c], r.claim)
        PROVE  AnswerInv'
    BY <2>3, RespondAgrees DEF RecordIs
  <2>4. ASSUME NEW tag \in Tags, NEW id \in ClaimIds \cup {Nil}, NEW e \in Int
        PROVE  /\ Reply(tag, id, e) \in Replies
               /\ Reply(tag, id, e).tag = tag /\ Reply(tag, id, e).claim = id
    BY ReplyType DEF Reply
  <2>5. {"collision", "completed", "pending", "acquired"} \subseteq Tags
    BY DEF Tags
  <2>6. CASE Collides(c) /\ Respond(c, Reply("collision", Nil, 0)) /\ UNCHANGED <<store, fenced>>
    BY <2>3, <2>4, <2>5, <2>6
  <2>7. CASE ~Collides(c) /\ store.kind = "record" /\ Respond(c, Reply("completed", store.claim, 0))
             /\ UNCHANGED <<store, fenced>>
    <3>1. RecordIs(DigestOf[c], store.claim)
      BY <2>7 DEF Collides, RecordIs
    <3> QED BY <2>1, <2>3, <2>4, <2>5, <2>7, <3>1
  <2>8. CASE Respond(c, Reply("pending", store.claim, store.expires)) /\ UNCHANGED <<store, fenced>>
    BY <2>1, <2>3, <2>4, <2>5, <2>8
  <2>9. CASE Respond(c, Reply("acquired", rpc[c].id, rpc[c].expires)) /\ store.kind # "record"
    BY <2>1, <2>2, <2>4, <2>5, <2>9
  <2> QED BY <1>7, <2>6, <2>7, <2>8, <2>9 DEF claimMcpRequestState
<1>8. ASSUME NEW c \in Calls, completeMcpRequestState(c) PROVE AnswerInv'
  <2>1. store.claim \in ClaimIds \cup {Nil} /\ rpc[c].id \in ClaimIds
    BY <1>8 DEF TypeOK, Rows, Named, completeMcpRequestState
  <2>2. ASSUME NEW tag \in Tags, NEW id \in ClaimIds \cup {Nil}
        PROVE  /\ Reply(tag, id, 0) \in Replies
               /\ Reply(tag, id, 0).tag = tag /\ Reply(tag, id, 0).claim = id
    BY ReplyType DEF Reply
  <2>3. {"collision", "completed", "stale"} \subseteq Tags
    BY DEF Tags
  <2>4. CASE /\ IsCurrentClaim(c)
             /\ store' = RecordRow(DigestOf[c], rpc[c].id)
             /\ Respond(c, Reply("completed", rpc[c].id, 0))
    <3>1. store'.kind = "record" /\ store'.digest = DigestOf[c] /\ store'.claim = rpc[c].id
      BY <2>4 DEF RecordRow
    <3> QED BY <2>1, <2>2, <2>3, <2>4, <3>1, RespondAgrees DEF IsCurrentClaim
  <2>5. ASSUME NEW r \in Replies, Respond(c, r), store' = store,
               r.tag = "completed" => RecordIs(DigestOf[c], r.claim)
        PROVE  AnswerInv'
    BY <2>5, RespondAgrees DEF RecordIs
  <2>6. CASE ~Collides(c) /\ store.kind = "record" /\ Respond(c, Reply("completed", store.claim, 0))
             /\ UNCHANGED store
    <3>1. RecordIs(DigestOf[c], store.claim)
      BY <2>6 DEF Collides, RecordIs
    <3> QED BY <2>1, <2>2, <2>3, <2>5, <2>6, <3>1
  <2>7. CASE /\ \/ Respond(c, Reply("collision", Nil, 0))
                \/ Respond(c, Reply("stale", Nil, 0))
             /\ UNCHANGED store
    BY <2>2, <2>3, <2>5, <2>7
  <2> QED BY <1>8, <2>4, <2>6, <2>7 DEF completeMcpRequestState
<1>9. ASSUME NEW c \in Calls, releaseMcpRequestState(c) PROVE AnswerInv'
  <2>1. Reply("released", Nil, 0) \in Replies /\ Reply("released", Nil, 0).tag = "released"
    BY ReplyType DEF Tags, Reply
  <2> QED BY <1>9, <2>1, RespondAgrees DEF releaseMcpRequestState, IsCurrentClaim
<1>10. ASSUME NEW c \in Calls, Undelivered(c) \/ BreaksOff(c) PROVE AnswerInv'
  BY <1>10 DEF Undelivered, BreaksOff, Unavailable, Reply, TypeOK, AnswerInv, LeaderKnown,
               JoinedAlike, RepliesTrue, AnswersAgree
<1>11. CASE Tick \/ UNCHANGED vars
  BY <1>11 DEF Tick, vars, local, AnswerInv, LeaderKnown, JoinedAlike, RepliesTrue, AnswersAgree
<1> QED BY <1>1, <1>2, <1>3, <1>4, <1>5, <1>6, <1>7, <1>8, <1>9, <1>10, <1>11
        DEF Next, CallStep, StoreStep

\* Every answered result is the one durable record (AnswersAgree of the runs).
THEOREM Agreement == Spec => []AnswersAgree
<1>1. Init => AnswerInv
  BY DEF Init, AnswerInv, LeaderKnown, JoinedAlike, RepliesTrue, AnswersAgree, Active, NoReply, NoOut
<1>2. AnswerInv => AnswersAgree
  BY DEF AnswerInv
<1>3. TypeInv /\ TypeInv' /\ AnswerInv /\ [Next]_vars => AnswerInv'
  BY AnswerStep
<1> QED BY <1>1, <1>2, <1>3, TypesInvariant, PTL DEF Spec

-----------------------------------------------------------------------------
(* Refinement: the calls of one id implement IdempotentResult.              *)

\* A call that has not ended has not been answered.
OpenUnanswered == \A c \in Calls : pc[c] # "done" => out[c] = NoOut

\* What a step may do to the answers and to the row.
AnswersOnce == \A x \in Calls :
  \/ out'[x] = out[x]
  \/ /\ pc[x] # "done" /\ pc'[x] = "done"
     /\ \/ \E code \in Codes : out'[x] = Err(code)
        \/ \E v \in ClaimIds \cup {Nil} : out'[x] = Ok(v)
RecordStays == store.kind = "record" => store' = store
RecordAlone == store.kind # "record" /\ store'.kind = "record" => out' = out

\* The coordinating calls and the store do no more than that.
LEMMA FinishOnce ==
  ASSUME TypeOK, NEW c \in Calls, NEW o, Finish(c, o), pc[c] # "done",
         \/ \E code \in Codes : o = Err(code)
         \/ \E v \in ClaimIds \cup {Nil} : o = Ok(v)
  PROVE  AnswersOnce
  BY DEF Finish, AnsweredWith, TypeOK, AnswersOnce

\* The head of the loop answers a call at most once.
LEMMA TryClaimOnce ==
  ASSUME TypeOK, NEW c \in Calls, NEW n \in Nat \ {0}, TryClaim(c, n), pc[c] # "done"
  PROVE  AnswersOnce
<1>1. "request-in-progress" \in Codes /\ "expired-request" \in Codes
  BY DEF Codes
<1>2. out' = out => AnswersOnce
  BY DEF AnswersOnce
<1> QED BY <1>1, <1>2, FinishOnce DEF TryClaim

\* Every step of the program answers once, and keeps a record or writes it alone.
LEMMA StepEffect == TypeInv /\ [Next]_vars => AnswersOnce /\ RecordStays /\ RecordAlone
<1> SUFFICES ASSUME TypeOK, Named, [Next]_vars
             PROVE  AnswersOnce /\ RecordStays /\ RecordAlone
  BY DEF TypeInv
<1>0. ASSUME out' = out PROVE AnswersOnce /\ RecordAlone
  BY <1>0 DEF AnswersOnce, RecordAlone
<1>1. ASSUME store' = store PROVE RecordStays /\ RecordAlone
  BY <1>1 DEF RecordStays, RecordAlone
<1>2. ASSUME NEW c \in Calls, Begin(c) PROVE AnswersOnce
  <2>1. "expired-request" \in Codes
    BY DEF Codes
  <2> QED BY <1>2, <2>1 DEF Begin, Reject, TypeOK, AnswersOnce
<1>3. ASSUME NEW c \in Calls, Enter(c) PROVE AnswersOnce
  <2>1. "request-id-collision" \in Codes
    BY DEF Codes
  <2>2. CASE TryClaim(c, 1)
    BY <1>3, <2>2, TryClaimOnce DEF Enter
  <2>3. CASE Reject(c, Err("request-id-collision"))
    BY <1>3, <2>1, <2>3 DEF Enter, Reject, TypeOK, AnswersOnce
  <2> QED BY <1>0, <1>3, <2>2, <2>3 DEF Enter
<1>4. ASSUME NEW c \in Calls, Pending(c) \/ WaitStep(c) PROVE AnswersOnce
  <2>1. attempt[c] + 1 \in Nat \ {0} /\ store.claim \in ClaimIds \cup {Nil}
    BY DEF TypeOK, Rows
  <2>2. "request-id-collision" \in Codes /\ "gateway-storage-unavailable" \in Codes
    BY DEF Codes
  <2>3. pc[c] # "done"
    BY <1>4 DEF Pending, WaitStep, WaitInspect, WaitTimeout, WaitUnavailable
  <2>4. CASE TryClaim(c, attempt[c] + 1)
    BY <2>1, <2>3, <2>4, TryClaimOnce
  <2> QED BY <1>0, <1>4, <2>1, <2>2, <2>3, <2>4, FinishOnce
          DEF Pending, WaitStep, WaitInspect, WaitTimeout, WaitUnavailable
<1>5. ASSUME NEW c \in Calls, Ends(c) PROVE AnswersOnce
  <2>1. \/ \E code \in Codes : Outcome(c) = Err(code)
        \/ \E v \in ClaimIds \cup {Nil} : Outcome(c) = Ok(v)
    <3>1. reply[c].claim \in ClaimIds \cup {Nil}
      BY DEF TypeOK, Replies
    <3> QED BY <3>1 DEF Outcome, Codes
  <2>2. pc[c] # "done" /\ Finish(c, Outcome(c))
    BY <1>5 DEF Ends
  <2> QED BY <2>1, <2>2, FinishOnce
<1>6. ASSUME NEW c \in Calls, StoreStep(c)
      PROVE  AnswersOnce /\ RecordStays /\ RecordAlone
  <2>1. out' = out
    BY <1>6 DEF StoreStep, Undelivered, claimMcpRequestState, completeMcpRequestState,
                releaseMcpRequestState, Respond
  <2>2. RecordStays
    BY <1>6 DEF StoreStep, Undelivered, claimMcpRequestState, completeMcpRequestState,
                releaseMcpRequestState, IsCurrentClaim, RecordStays
  <2> QED BY <1>0, <2>1, <2>2
<1>7. ASSUME NEW c \in Calls,
             Acquired(c) \/ FreshResult(c) \/ FreshError(c) \/ BreaksOff(c)
      PROVE  out' = out /\ store' = store
  BY <1>7 DEF Acquired, FreshResult, FreshError, BreaksOff
<1>8. ASSUME NEW c \in Calls, CallStep(c) PROVE store' = store
  BY <1>8 DEF CallStep, Begin, Enter, Acquired, Pending, WaitStep, WaitInspect, WaitTimeout,
              WaitUnavailable, Ends
<1>9. ASSUME \/ \E g \in Gateways : Stop(g)
             \/ Tick
             \/ UNCHANGED vars
      PROVE  out' = out /\ store' = store
  BY <1>9 DEF Stop, Tick, vars
<1> QED BY <1>0, <1>1, <1>2, <1>3, <1>4, <1>5, <1>6, <1>7, <1>8, <1>9 DEF Next, CallStep

\* A call that has ended stays ended.
LEMMA DoneStays ==
  ASSUME TypeInv, [Next]_vars, NEW x \in Calls, pc[x] = "done"
  PROVE  pc'[x] = "done"
<1> USE DEF TypeInv, TypeOK
<1>1. ASSUME NEW c \in Calls, NEW o, Finish(c, o) PROVE pc'[x] = "done"
  BY <1>1 DEF Finish
<1>2. ASSUME NEW c \in Calls, NEW n, TryClaim(c, n), pc[c] # "done" PROVE pc'[x] = "done"
  BY <1>1, <1>2 DEF TryClaim
<1>3. ASSUME NEW c \in Calls, Begin(c) \/ Enter(c) PROVE pc'[x] = "done"
  BY <1>2, <1>3 DEF Begin, Enter, Reject
<1>4. ASSUME NEW c \in Calls, Pending(c) \/ WaitStep(c) \/ Ends(c) PROVE pc'[x] = "done"
  BY <1>1, <1>2, <1>4 DEF Pending, WaitStep, WaitInspect, WaitTimeout, WaitUnavailable, Ends
<1>5. ASSUME NEW c \in Calls, Acquired(c) \/ FreshResult(c) \/ FreshError(c) PROVE pc'[x] = "done"
  BY <1>5 DEF Acquired, FreshResult, FreshError
<1>6. ASSUME NEW c \in Calls, StoreStep(c) \/ BreaksOff(c) PROVE pc'[x] = "done"
  BY <1>6 DEF StoreStep, BreaksOff, Undelivered, claimMcpRequestState, completeMcpRequestState,
              releaseMcpRequestState, Respond
<1>7. ASSUME NEW g \in Gateways, Stop(g) PROVE pc'[x] = "done"
  BY <1>7 DEF Stop
<1>8. CASE Tick \/ UNCHANGED vars
  BY <1>8 DEF Tick, vars, local
<1> QED BY <1>3, <1>4, <1>5, <1>6, <1>7, <1>8 DEF Next, CallStep

\* The program keeps OpenUnanswered.
LEMMA OpenStep == TypeInv /\ OpenUnanswered /\ [Next]_vars => OpenUnanswered'
<1> SUFFICES ASSUME TypeInv, OpenUnanswered, [Next]_vars, NEW c \in Calls, pc'[c] # "done"
             PROVE  out'[c] = NoOut
  BY DEF OpenUnanswered
<1>1. out'[c] = out[c]
  BY StepEffect DEF AnswersOnce
<1>2. pc[c] # "done"
  BY DoneStays
<1> QED BY <1>1, <1>2 DEF OpenUnanswered

\* The initial state is an abstract one.
LEMMA ResultInit == Init => OneResult!AInit
  BY DEF Init, OneResult!AInit, OneResult!NoAnswer, EmptyRow, NoOut

\* Every step is an abstract step or changes nothing the abstraction sees.
LEMMA ResultStep ==
  TypeInv /\ TypeInv' /\ AnswersAgree' /\ OpenUnanswered /\ [Next]_vars
    => [OneResult!ANext]_OneResult!avars
<1> SUFFICES ASSUME TypeInv, TypeInv', AnswersAgree', OpenUnanswered, [Next]_vars
             PROVE  [OneResult!ANext]_OneResult!avars
  OBVIOUS
<1> DEFINE Result(row) == IF row.kind = "record"
                          THEN [digest |-> row.digest, value |-> row.claim] ELSE Nil
           Shown(o) == [c \in Calls |-> [kind |-> o[c].kind, value |-> o[c].value]]
<1>1. AnswersOnce /\ RecordStays /\ RecordAlone
  BY StepEffect
<1>4. store'.kind = "record" => store'.digest \in Digests /\ store'.claim \in ClaimIds
  BY DEF TypeInv, Named
<1>2. CASE store.kind # "record" /\ store'.kind = "record"
  <2>1. store'.digest \in Digests /\ store'.claim \in ClaimIds
    BY <1>2, <1>4
  <2>2. Result(store) = Nil /\ Result(store') = OneResult!Settled(store'.digest, store'.claim)
    BY <1>2 DEF OneResult!Settled
  <2>3. Shown(out') = Shown(out)
    BY <1>1, <1>2 DEF RecordAlone
  <2> QED BY <2>1, <2>2, <2>3 DEF OneResult!ANext, OneResult!Settle
<1>3. CASE store.kind = "record" \/ store'.kind # "record"
  <2>1. Result(store') = Result(store)
    BY <1>1, <1>3 DEF RecordStays
  <2>2. ASSUME NEW c \in Calls, out'[c] # out[c]
        PROVE  /\ Shown(out)[c] = OneResult!NoAnswer
               /\ \/ Shown(out')[c] = OneResult!ErrorAnswer
                  \/ /\ Result(store) # Nil
                     /\ Result(store).digest = DigestOf[c]
                     /\ Shown(out')[c] = OneResult!OkAnswer(Result(store).value)
    <3>1. out[c] = NoOut
      BY <1>1, <2>2 DEF AnswersOnce, OpenUnanswered
    <3>2. Shown(out)[c] = OneResult!NoAnswer
      BY <3>1 DEF NoOut, OneResult!NoAnswer
    <3>3. CASE \E code \in Codes : out'[c] = Err(code)
      BY <3>2, <3>3 DEF Err, OneResult!ErrorAnswer
    <3>4. CASE \E v \in ClaimIds \cup {Nil} : out'[c] = Ok(v)
      <4>1. out'[c].kind = "ok"
        BY <3>4 DEF Ok
      <4>2. /\ store'.kind = "record" /\ store'.digest = DigestOf[c]
            /\ store'.claim = out'[c].value
        BY <4>1 DEF AnswersAgree
      <4>3. store' = store
        BY <1>1, <1>3, <4>2 DEF RecordStays
      <4>4. Result(store) = [digest |-> DigestOf[c], value |-> out'[c].value]
        BY <4>2, <4>3
      <4>5. DigestOf[c] \in Digests /\ store.claim \in ClaimIds
        BY <4>2, <4>3, <1>4, CallsAssumption
      <4>6. Result(store) \in [digest : Digests, value : ClaimIds]
        BY <4>2, <4>3, <4>4, <4>5
      <4>7. Result(store) # Nil
        BY <4>6, CallsAssumption DEF ClaimIds, Attempts
      <4> QED BY <3>2, <4>1, <4>4, <4>7 DEF OneResult!OkAnswer
    <3> QED BY <1>1, <2>2, <3>3, <3>4 DEF AnswersOnce
  <2>3. OneResult!Answer
    BY <2>1, <2>2 DEF OneResult!Answer, OneResult!MayAnswer
  <2> QED BY <2>3 DEF OneResult!ANext
<1> QED BY <1>2, <1>3

\* The coordination of one id implements IdempotentResult (ImplementsOneResult
\* of the runs): one result, settled once, and no other answer than that one.
THEOREM ImplementsIdempotentResult == Spec => ImplementsOneResult
<1>1. Init => OpenUnanswered
  BY DEF Init, OpenUnanswered
<1>2. Spec => []OpenUnanswered
  BY <1>1, OpenStep, TypesInvariant, PTL DEF Spec
<1> QED BY <1>2, ResultInit, ResultStep, TypesInvariant, Agreement, PTL
        DEF Spec, ImplementsOneResult, OneResult!ASpec

-----------------------------------------------------------------------------
(* The claims: a former claim stays fenced, a granted claim is kept until    *)
(* it expires, and request-claim-lost is only answered after that.           *)

\* A message names the claim of its sender's current attempt.
OwnMessages == \A c \in Calls : rpc[c].op # "none" => rpc[c].id = <<c, attempt[c]>>

\* A claim that the store has seen belongs to an attempt that was made, and
\* whose claim message was delivered.
UsedClaims == \A c \in Calls, n \in Attempts :
  <<c, n>> \in fenced \/ store.claim = <<c, n>> =>
    n <= attempt[c] /\ (rpc[c].op = "claim" => n < attempt[c])

\* A call that has not coordinated yet has proposed nothing.
NotYet == \A c \in Calls : pc[c] \in {"idle", "hashing", "joined"} =>
  attempt[c] = 0 /\ claimUntil[c] = 0

\* Answers come to calls that wait for one, and messages suit their senders.
Quiet == \A c \in Calls :
  pc[c] \notin {"claiming", "completing", "releasing"} => reply[c] = NoReply
MessagesFit == \A c \in Calls :
  /\ rpc[c].op = "claim" => rpc[c].expires = claimUntil[c]
  /\ rpc[c].op = "complete" => pc[c] \in {"completing", "done", "stopped"}
  /\ rpc[c].op = "release" => pc[c] \in {"releasing", "done", "stopped"}

\* A call that was granted its claim, and whose result is not stored yet, has the
\* store's claim until it expires.
Holding(c) == \/ pc[c] = "claiming" /\ reply[c].tag = "acquired"
              \/ pc[c] = "executing"
              \/ pc[c] = "completing" /\ rpc[c].op = "complete"
HeldClaims == \A c \in Calls : Holding(c) /\ claimUntil[c] > now =>
  store.kind = "claim" /\ store.claim = <<c, attempt[c]>> /\ store.expires = claimUntil[c]

\* A refusal as stale is true.
StaleTrue == \A c \in Calls : reply[c].tag = "stale" => claimUntil[c] <= now

CallInv == OwnMessages /\ NotYet /\ Quiet /\ MessagesFit
FenceInv == UsedClaims /\ FormerClaimFenced
HeldInv == HeldClaims /\ StaleTrue /\ LostClaimHadExpired

-----------------------------------------------------------------------------
(* The calls and their messages.                                            *)

\* The loop's head and the end of a call keep CallInv.
LEMMA TryClaimCalls ==
  ASSUME TypeOK, CallInv, NEW c \in Calls, NEW n \in Nat \ {0}, TryClaim(c, n),
         pc[c] \in {"hashing", "claiming", "waiting"}, reply' = [reply EXCEPT ![c] = NoReply]
  PROVE  CallInv'
<1>1. CASE GivesUp(c)
  BY <1>1, FinishEffect DEF GivesUp, CallInv, OwnMessages, NotYet, Quiet, MessagesFit, TypeOK
<1>2. CASE SendsClaim(c, n)
  <2>1. OwnMessages'
    BY <1>2 DEF SendsClaim, CallInv, OwnMessages, Rpc, TypeOK
  <2>2. NotYet' /\ Quiet'
    BY <1>2 DEF SendsClaim, CallInv, NotYet, Quiet, TypeOK
  <2>3. MessagesFit'
    BY <1>2 DEF SendsClaim, CallInv, MessagesFit, Rpc, TypeOK
  <2> QED BY <2>1, <2>2, <2>3 DEF CallInv
<1> QED BY <1>1, <1>2, TryClaimEffect

\* A call that ends, with its answer taken, leaves the others' exchanges in order.
LEMMA FinishCalls ==
  ASSUME TypeOK, CallInv, NEW c \in Calls, NEW o \in Outcomes, Finish(c, o),
         reply' = [reply EXCEPT ![c] = NoReply], UNCHANGED <<attempt, claimUntil, rpc>>
  PROVE  CallInv'
  BY FinishEffect DEF CallInv, OwnMessages, NotYet, Quiet, MessagesFit, TypeOK

\* The program keeps CallInv.
LEMMA CallInvStep == TypeInv /\ CallInv /\ [Next]_vars => CallInv'
<1> SUFFICES ASSUME TypeOK, CallInv, [Next]_vars PROVE CallInv'
  BY DEF TypeInv
<1>1. ASSUME NEW c \in Calls, Begin(c) PROVE CallInv'
  BY <1>1 DEF Begin, Reject, CallInv, OwnMessages, NotYet, Quiet, MessagesFit, TypeOK
<1>2. ASSUME NEW c \in Calls, Enter(c) PROVE CallInv'
  <2>1. pc[c] = "hashing" /\ reply' = [reply EXCEPT ![c] = NoReply] /\ 1 \in Nat \ {0}
    BY <1>2 DEF Enter, CallInv, Quiet, TypeOK
  <2>2. CASE TryClaim(c, 1)
    BY <2>1, <2>2, TryClaimCalls
  <2>3. CASE pc' = [pc EXCEPT ![c] = "joined"] /\ UNCHANGED <<attempt, claimUntil, rpc>>
    BY <1>2, <2>3 DEF Enter, CallInv, OwnMessages, NotYet, Quiet, MessagesFit, TypeOK
  <2>4. CASE pc' = [pc EXCEPT ![c] = "done"] /\ UNCHANGED <<attempt, claimUntil, rpc>>
    BY <1>2, <2>4 DEF Enter, CallInv, OwnMessages, NotYet, Quiet, MessagesFit, TypeOK
  <2> QED BY <1>2, <2>2, <2>3, <2>4 DEF Enter, Reject
<1>3. ASSUME NEW c \in Calls, Acquired(c) PROVE CallInv'
  BY <1>3 DEF Acquired, CallInv, OwnMessages, NotYet, Quiet, MessagesFit, TypeOK
<1>4. ASSUME NEW c \in Calls, FreshResult(c) \/ FreshError(c) PROVE CallInv'
  <2>1. OwnMessages'
    BY <1>4 DEF FreshResult, FreshError, CallInv, OwnMessages, CurrentClaim, Rpc, TypeOK
  <2>2. NotYet' /\ Quiet'
    BY <1>4 DEF FreshResult, FreshError, CallInv, NotYet, Quiet, TypeOK
  <2>3. MessagesFit'
    BY <1>4 DEF FreshResult, FreshError, CallInv, MessagesFit, Rpc, TypeOK
  <2> QED BY <2>1, <2>2, <2>3 DEF CallInv
<1>5. ASSUME NEW c \in Calls, Pending(c) PROVE CallInv'
  <2>1. attempt[c] + 1 \in Nat \ {0} /\ reply' = [reply EXCEPT ![c] = NoReply]
    BY <1>5 DEF TypeOK, Pending
  <2>2. CASE TryClaim(c, attempt[c] + 1)
    BY <1>5, <2>1, <2>2, TryClaimCalls DEF Pending
  <2>3. CASE pc' = [pc EXCEPT ![c] = "waiting"] /\ UNCHANGED <<attempt, claimUntil, rpc>>
    <3>1. pc[c] = "claiming"
      BY <1>5 DEF Pending
    <3> QED BY <2>1, <2>3, <3>1 DEF CallInv, OwnMessages, NotYet, Quiet, MessagesFit, TypeOK
  <2> QED BY <1>5, <2>2, <2>3 DEF Pending
<1>6. ASSUME NEW c \in Calls, WaitStep(c) PROVE CallInv'
  <2>1. pc[c] = "waiting" /\ reply' = reply /\ attempt[c] + 1 \in Nat \ {0}
    BY <1>6 DEF WaitStep, WaitInspect, WaitTimeout, WaitUnavailable, TypeOK
  <2>2. reply' = [reply EXCEPT ![c] = NoReply]
    BY <2>1 DEF CallInv, Quiet, TypeOK
  <2>3. /\ Err("request-id-collision") \in Outcomes
        /\ Err("gateway-storage-unavailable") \in Outcomes
        /\ Ok(store.claim) \in Outcomes
    BY ErrType, OkType DEF Codes, TypeOK, Rows
  <2> QED BY <1>6, <2>1, <2>2, <2>3, TryClaimCalls, FinishCalls
          DEF WaitStep, WaitInspect, WaitTimeout, WaitUnavailable
<1>7. ASSUME NEW c \in Calls, Ends(c) PROVE CallInv'
  <2>1. Outcome(c) \in Outcomes
    BY ErrType, OkType DEF Outcome, Codes, TypeOK, Replies
  <2> QED BY <1>7, <2>1, FinishCalls DEF Ends
<1>8. ASSUME NEW g \in Gateways, Stop(g) PROVE CallInv'
  BY <1>8 DEF Stop, CallInv, OwnMessages, NotYet, Quiet, MessagesFit, TypeOK
<1>9. ASSUME NEW c \in Calls, NEW r, Respond(c, r) PROVE CallInv'
  <2>1. NoRpc.op = "none"
    BY DEF NoRpc
  <2>2. OwnMessages' /\ MessagesFit' /\ NotYet'
    BY <1>9, <2>1, RespondEffect DEF CallInv, OwnMessages, MessagesFit, NotYet, TypeOK
  <2>3. Quiet'
    BY <1>9, RespondEffect DEF CallInv, Quiet, Listening, TypeOK
  <2> QED BY <2>2, <2>3 DEF CallInv
<1>10. ASSUME NEW c \in Calls, StoreStep(c) \/ BreaksOff(c) PROVE CallInv'
  <2>1. CASE Undelivered(c) \/ BreaksOff(c)
    BY <2>1 DEF Undelivered, BreaksOff, CallInv, OwnMessages, NotYet, Quiet, MessagesFit,
                Listening, NoRpc, TypeOK
  <2> QED BY <1>9, <1>10, <2>1 DEF StoreStep, claimMcpRequestState, completeMcpRequestState,
                                   releaseMcpRequestState
<1>11. CASE Tick \/ UNCHANGED vars
  BY <1>11 DEF Tick, vars, local, CallInv, OwnMessages, NotYet, Quiet, MessagesFit
<1> QED BY <1>1, <1>2, <1>3, <1>4, <1>5, <1>6, <1>7, <1>8, <1>10, <1>11 DEF Next, CallStep

-----------------------------------------------------------------------------
(* Fencing.                                                                 *)

\* A step that leaves the store alone and begins at most a later attempt keeps
\* FenceInv.
LEMMA TryClaimFence ==
  ASSUME TypeOK, FenceInv, NEW c \in Calls, NEW n \in Nat \ {0}, TryClaim(c, n),
         n > attempt[c], UNCHANGED <<store, fenced>>
  PROVE  FenceInv'
<1>1. CASE GivesUp(c)
  BY <1>1 DEF GivesUp, FenceInv, UsedClaims, FormerClaimFenced
<1>2. CASE SendsClaim(c, n)
  <2>1. ASSUME NEW x \in Calls, NEW m \in Attempts, <<x, m>> \in fenced \/ store.claim = <<x, m>>
        PROVE  m <= attempt'[x] /\ (rpc'[x].op = "claim" => m < attempt'[x])
    <3>1. m <= attempt[x] /\ (rpc[x].op = "claim" => m < attempt[x]) /\ m \in Nat
      BY <2>1 DEF FenceInv, UsedClaims, Attempts
    <3>2. attempt[x] \in Nat
      BY DEF TypeOK
    <3>3. CASE x = c
      <4>1. attempt'[c] = n /\ n \in Nat /\ m < n
        BY <1>2, <3>1, <3>2, <3>3 DEF SendsClaim, TypeOK
      <4> QED BY <3>3, <4>1, <3>1
    <3>4. CASE x # c
      BY <1>2, <3>1, <3>4 DEF SendsClaim, TypeOK
    <3> QED BY <3>3, <3>4
  <2> QED BY <2>1 DEF FenceInv, UsedClaims, FormerClaimFenced
<1> QED BY <1>1, <1>2, TryClaimEffect

\* A step that leaves the store and the attempts alone and sends no claim.
LEMMA NoClaimFence ==
  ASSUME FenceInv, UNCHANGED <<store, fenced, attempt>>,
         \A x \in Calls : rpc'[x].op = "claim" => rpc[x].op = "claim"
  PROVE  FenceInv'
  BY DEF FenceInv, UsedClaims, FormerClaimFenced

\* The program keeps FenceInv.
LEMMA FenceStep == TypeInv /\ CallInv /\ FenceInv /\ [Next]_vars => FenceInv'
<1> SUFFICES ASSUME TypeOK, Named, CallInv, FenceInv, [Next]_vars PROVE FenceInv'
  BY DEF TypeInv
<1>1. ASSUME NEW c \in Calls, Enter(c) PROVE FenceInv'
  <2>1. attempt[c] = 0 /\ 1 \in Nat \ {0} /\ UNCHANGED <<store, fenced>>
    BY <1>1 DEF Enter, CallInv, NotYet
  <2>2. CASE TryClaim(c, 1)
    BY <2>1, <2>2, TryClaimFence
  <2>3. CASE UNCHANGED <<attempt, rpc>>
    BY <2>1, <2>3, NoClaimFence
  <2> QED BY <1>1, <2>2, <2>3 DEF Enter
<1>2. ASSUME NEW c \in Calls, Pending(c) \/ WaitStep(c) PROVE FenceInv'
  <2>1. /\ attempt[c] + 1 \in Nat \ {0} /\ attempt[c] + 1 > attempt[c]
        /\ UNCHANGED <<store, fenced>>
    BY <1>2 DEF TypeOK, Pending, WaitStep, WaitInspect, WaitTimeout, WaitUnavailable
  <2>2. CASE TryClaim(c, attempt[c] + 1)
    BY <2>1, <2>2, TryClaimFence
  <2>3. CASE UNCHANGED <<attempt, rpc>>
    BY <2>1, <2>3, NoClaimFence
  <2> QED BY <1>2, <2>2, <2>3 DEF Pending, WaitStep, WaitInspect, WaitTimeout, WaitUnavailable
<1>3. ASSUME NEW c \in Calls, FreshResult(c) \/ FreshError(c) PROVE FenceInv'
  BY <1>3, NoClaimFence DEF FreshResult, FreshError, Rpc, TypeOK
<1>4. ASSUME NEW c \in Calls, Begin(c) \/ Acquired(c) \/ Ends(c) PROVE FenceInv'
  BY <1>4, NoClaimFence DEF Begin, Acquired, Ends
<1>5. ASSUME NEW g \in Gateways, Stop(g) PROVE FenceInv'
  BY <1>5, NoClaimFence DEF Stop
<1>6. ASSUME NEW c \in Calls, NEW r, Respond(c, r), UNCHANGED <<store, fenced>> PROVE FenceInv'
  <2>1. attempt' = attempt /\ \A x \in Calls : rpc'[x].op = "claim" => rpc[x].op = "claim"
    BY <1>6, RespondEffect DEF NoRpc, TypeOK
  <2> QED BY <1>6, <2>1, NoClaimFence
<1>7. ASSUME NEW c \in Calls, Undelivered(c) \/ BreaksOff(c) PROVE FenceInv'
  BY <1>7, NoClaimFence DEF Undelivered, BreaksOff, NoRpc, TypeOK
<1>8. ASSUME NEW c \in Calls, rpc[c].op = "claim", NEW r, Respond(c, r),
             store' = ClaimRow(DigestOf[c], rpc[c].id, rpc[c].expires),
             fenced' = fenced \cup ({store.claim} \ {Nil})
      PROVE  FenceInv'
  <2>1. store'.claim = <<c, attempt[c]>> /\ attempt' = attempt /\ attempt[c] \in Nat
    BY <1>8, RespondEffect DEF ClaimRow, CallInv, OwnMessages, TypeOK
  <2>2. \A x \in Calls : rpc'[x].op = "claim" => rpc[x].op = "claim" /\ x # c
    BY <1>8, RespondEffect DEF NoRpc, TypeOK
  <2>3. rpc[c].id \in ClaimIds /\ rpc[c].id = <<c, attempt[c]>>
    BY <1>8 DEF Named, CallInv, OwnMessages
  <2>4. attempt[c] \in Attempts
    BY <2>3 DEF ClaimIds
  <2>5. <<c, attempt[c]>> \notin fenced /\ store.claim # <<c, attempt[c]>>
    BY <1>8, <2>1, <2>4 DEF FenceInv, UsedClaims
  <2>6. FormerClaimFenced'
    BY <1>8, <2>1, <2>5 DEF FormerClaimFenced
  <2>7. UsedClaims'
    <3> SUFFICES ASSUME NEW x \in Calls, NEW m \in Attempts,
                        <<x, m>> \in fenced' \/ store'.claim = <<x, m>>
                 PROVE  m <= attempt'[x] /\ (rpc'[x].op = "claim" => m < attempt'[x])
      BY DEF UsedClaims
    <3>1. CASE <<x, m>> \in fenced \/ store.claim = <<x, m>>
      BY <2>1, <2>2, <3>1 DEF FenceInv, UsedClaims
    <3>2. CASE x = c /\ m = attempt[c]
      BY <2>1, <2>2, <3>2
    <3> QED BY <1>8, <2>1, <3>1, <3>2
  <2> QED BY <2>6, <2>7 DEF FenceInv
<1>9. ASSUME NEW c \in Calls, claimMcpRequestState(c) PROVE FenceInv'
  BY <1>6, <1>8, <1>9 DEF claimMcpRequestState
<1>10. ASSUME NEW c \in Calls, completeMcpRequestState(c) PROVE FenceInv'
  <2>1. CASE UNCHANGED store
    BY <1>6, <1>10, <2>1 DEF completeMcpRequestState
  <2>2. CASE IsCurrentClaim(c) /\ store' = RecordRow(DigestOf[c], rpc[c].id)
    <3>1. store'.claim = store.claim /\ fenced' = fenced
      BY <1>10, <2>2 DEF IsCurrentClaim, RecordRow, completeMcpRequestState
    <3>2. attempt' = attempt /\ \A x \in Calls : rpc'[x].op = "claim" => rpc[x].op = "claim"
      BY <1>10, RespondEffect DEF completeMcpRequestState, NoRpc, TypeOK
    <3> QED BY <3>1, <3>2 DEF FenceInv, UsedClaims, FormerClaimFenced
  <2> QED BY <1>10, <2>1, <2>2 DEF completeMcpRequestState
<1>11. ASSUME NEW c \in Calls, releaseMcpRequestState(c) PROVE FenceInv'
  <2>1. CASE UNCHANGED <<store, fenced>>
    BY <1>6, <1>11, <2>1 DEF releaseMcpRequestState
  <2>2. CASE store' = EmptyRow /\ fenced' = fenced \cup {store.claim} /\ IsCurrentClaim(c)
    <3>1. store'.claim = Nil /\ Nil \notin fenced' /\ Nil \notin ClaimIds
      BY <1>11, <2>2, IdTypes DEF EmptyRow, IsCurrentClaim, Named, releaseMcpRequestState, TypeOK
    <3>2. attempt' = attempt /\ \A x \in Calls : rpc'[x].op = "claim" => rpc[x].op = "claim"
      BY <1>11, RespondEffect DEF releaseMcpRequestState, NoRpc, TypeOK
    <3> QED BY <2>2, <3>1, <3>2, IdTypes DEF FenceInv, UsedClaims, FormerClaimFenced
  <2> QED BY <1>11, <2>1, <2>2 DEF releaseMcpRequestState
<1>12. CASE Tick \/ UNCHANGED vars
  BY <1>12, NoClaimFence DEF Tick, vars, local
<1> QED BY <1>1, <1>2, <1>3, <1>4, <1>5, <1>7, <1>9, <1>10, <1>11, <1>12
        DEF Next, CallStep, StoreStep

\* The initial state has the invariants.
LEMMA ClaimInit == Init => CallInv /\ FenceInv /\ HeldInv
<1> SUFFICES ASSUME Init PROVE CallInv /\ FenceInv /\ HeldInv
  OBVIOUS
<1>1. CallInv
  BY DEF Init, CallInv, OwnMessages, NotYet, Quiet, MessagesFit, NoRpc
<1>2. FenceInv
  BY IdTypes DEF Init, FenceInv, UsedClaims, FormerClaimFenced, EmptyRow
<1>3. HeldInv
  BY DEF Init, HeldInv, HeldClaims, Holding, StaleTrue, LostClaimHadExpired, NoReply, NoOut
<1> QED BY <1>1, <1>2, <1>3

\* However late it comes, the result of a claim that was replaced or released is
\* never stored (FormerClaimFenced of the runs).
THEOREM Fencing == Spec => []FormerClaimFenced
<1>1. Spec => []CallInv
  BY ClaimInit, CallInvStep, TypesInvariant, PTL DEF Spec
<1>2. Spec => []FenceInv
  BY <1>1, ClaimInit, FenceStep, TypesInvariant, PTL DEF Spec
<1>3. FenceInv => FormerClaimFenced
  BY DEF FenceInv
<1> QED BY <1>2, <1>3, PTL

-----------------------------------------------------------------------------
(* A granted claim is kept until it expires.                                *)

\* A call ends, the store and the clock standing still.
LEMMA FinishHeld ==
  ASSUME TypeOK, HeldInv, CallInv, NEW c \in Calls, NEW o \in Outcomes, Finish(c, o),
         UNCHANGED <<now, store, attempt, claimUntil, rpc>>,
         reply' = [reply EXCEPT ![c] = NoReply],
         o.code = "request-claim-lost" => claimUntil[c] <= now
  PROVE  HeldInv'
<1>1. HeldClaims' /\ StaleTrue'
  BY FinishEffect DEF HeldInv, HeldClaims, Holding, StaleTrue, NoReply, TypeOK
<1>2. ASSUME NEW x \in Calls, out'[x].code = "request-claim-lost" PROVE claimUntil'[x] <= now'
  <2>1. CASE out'[x] = out[x]
    BY <1>2, <2>1 DEF HeldInv, LostClaimHadExpired
  <2>2. CASE out'[x] = o /\ x = c
    BY <1>2, <2>2
  <2>3. CASE pc[x] = "joined"
    BY <2>3 DEF CallInv, NotYet, TypeOK
  <2> QED BY <2>1, <2>2, <2>3, FinishEffect
<1> QED BY <1>1, <1>2 DEF HeldInv, LostClaimHadExpired

\* The head of the loop, likewise.
LEMMA TryClaimHeld ==
  ASSUME TypeOK, HeldInv, CallInv, NEW c \in Calls, NEW n \in Nat \ {0}, TryClaim(c, n),
         UNCHANGED <<now, store>>, reply' = [reply EXCEPT ![c] = NoReply],
         pc[c] # "done", OpenUnanswered
  PROVE  HeldInv'
<1>1. CASE GivesUp(c)
  BY <1>1, FinishHeld DEF GivesUp
<1>2. CASE SendsClaim(c, n)
  <2>1. HeldClaims'
    BY <1>2 DEF SendsClaim, HeldInv, HeldClaims, Holding, NoReply, Rpc, TypeOK
  <2>2. StaleTrue'
    BY <1>2 DEF SendsClaim, HeldInv, StaleTrue, NoReply, TypeOK
  <2>3. LostClaimHadExpired'
    <3>1. out[c].code # "request-claim-lost"
      BY DEF OpenUnanswered, NoOut
    <3> QED BY <1>2, <3>1 DEF SendsClaim, HeldInv, LostClaimHadExpired, TypeOK
  <2> QED BY <2>1, <2>2, <2>3 DEF HeldInv
<1> QED BY <1>1, <1>2, TryClaimEffect

\* The store answers c with r; whoever else holds a claim still does.
LEMMA RespondHeld ==
  ASSUME TypeOK, HeldInv, CallInv, NEW c \in Calls, NEW r, Respond(c, r),
         \A x \in Calls : x # c /\ Holding(x) /\ claimUntil[x] > now => store' = store,
         Holding(c) /\ rpc[c].op # "complete" /\ claimUntil[c] > now => store' = store,
         r.tag = "acquired" => /\ store'.kind = "claim" /\ store'.claim = <<c, attempt[c]>>
                               /\ store'.expires = claimUntil[c],
         r.tag = "stale" => claimUntil[c] <= now
  PROVE  HeldInv'
<1>1. /\ UNCHANGED <<now, pc, attempt, claimUntil, out>>
      /\ rpc' = [rpc EXCEPT ![c] = NoRpc]
      /\ reply' = reply \/ reply' = [reply EXCEPT ![c] = r] \/ reply' = [reply EXCEPT ![c] = Unavailable]
  BY RespondEffect
<1>2. Unavailable.tag = "unavailable" /\ NoRpc.op = "none"
  BY DEF Unavailable, Reply, NoRpc
<1>3. StaleTrue' /\ LostClaimHadExpired'
  BY <1>1, <1>2 DEF HeldInv, StaleTrue, LostClaimHadExpired, TypeOK
<1>4. ASSUME NEW x \in Calls, Holding(x)', claimUntil[x] > now
      PROVE  /\ store'.kind = "claim" /\ store'.claim = <<x, attempt[x]>>
             /\ store'.expires = claimUntil[x]
  <2>1. CASE x = c /\ reply'[x].tag = "acquired" /\ reply' = [reply EXCEPT ![c] = r]
    BY <2>1 DEF TypeOK
  <2>2. CASE Holding(x) /\ (x = c => rpc[c].op # "complete")
    BY <1>4, <2>2 DEF HeldInv, HeldClaims
  <2>3. Holding(x) \/ (x = c /\ reply'[x].tag = "acquired" /\ reply' = [reply EXCEPT ![c] = r])
    BY <1>1, <1>2, <1>4 DEF Holding, TypeOK
  <2>4. x = c /\ rpc[c].op = "complete" => pc[c] # "executing" /\ pc[c] # "claiming"
    BY DEF CallInv, MessagesFit
  <2>5. x = c => rpc'[c].op = "none"
    BY <1>1, <1>2 DEF TypeOK
  <2> QED BY <1>1, <1>4, <2>1, <2>2, <2>3, <2>4, <2>5 DEF Holding
<1>5. HeldClaims'
  BY <1>1, <1>4 DEF HeldClaims
<1> QED BY <1>3, <1>5 DEF HeldInv

\* The program keeps HeldInv.
LEMMA HeldStep ==
  TypeInv /\ CallInv /\ OpenUnanswered /\ HeldInv /\ [Next]_vars => HeldInv'
<1> SUFFICES ASSUME TypeOK, Named, CallInv, OpenUnanswered, HeldInv, [Next]_vars PROVE HeldInv'
  BY DEF TypeInv
<1>1. ASSUME NEW c \in Calls, Begin(c) \/ Enter(c) PROVE HeldInv'
  <2>1. /\ pc[c] \in {"idle", "hashing"} /\ UNCHANGED <<now, store, reply>>
        /\ reply' = [reply EXCEPT ![c] = NoReply] /\ 1 \in Nat \ {0}
    BY <1>1 DEF Begin, Enter, CallInv, Quiet, TypeOK
  <2>2. CASE TryClaim(c, 1)
    BY <2>1, <2>2, TryClaimHeld
  <2>3. CASE /\ UNCHANGED <<attempt, claimUntil, rpc, out>>
             /\ \E p \in {"hashing", "joined"} : pc' = [pc EXCEPT ![c] = p]
    BY <2>1, <2>3 DEF HeldInv, HeldClaims, Holding, StaleTrue, LostClaimHadExpired, TypeOK
  <2>4. CASE /\ UNCHANGED <<attempt, claimUntil, rpc>>
             /\ \E code \in {"expired-request", "request-id-collision"} : Reject(c, Err(code))
    BY <2>1, <2>4 DEF Reject, Err, HeldInv, HeldClaims, Holding, StaleTrue, LostClaimHadExpired,
                      TypeOK
  <2> QED BY <1>1, <2>2, <2>3, <2>4 DEF Begin, Enter
<1>2. ASSUME NEW c \in Calls, Acquired(c) \/ FreshResult(c) \/ FreshError(c) PROVE HeldInv'
  <2>1. HeldClaims'
    BY <1>2 DEF Acquired, FreshResult, FreshError, HeldInv, HeldClaims, Holding, NoReply, Rpc, TypeOK
  <2>2. StaleTrue' /\ LostClaimHadExpired'
    BY <1>2 DEF Acquired, FreshResult, FreshError, HeldInv, StaleTrue, LostClaimHadExpired,
                NoReply, TypeOK
  <2> QED BY <2>1, <2>2 DEF HeldInv
<1>3. ASSUME NEW c \in Calls, Pending(c) \/ WaitStep(c) PROVE HeldInv'
  <2>1. /\ UNCHANGED <<now, store>> /\ pc[c] \in {"claiming", "waiting"}
        /\ attempt[c] + 1 \in Nat \ {0} /\ store.claim \in ClaimIds \cup {Nil}
    BY <1>3 DEF Pending, WaitStep, WaitInspect, WaitTimeout, WaitUnavailable, TypeOK, Rows
  <2>2. reply' = [reply EXCEPT ![c] = NoReply]
    BY <1>3 DEF Pending, WaitStep, WaitInspect, WaitTimeout, WaitUnavailable, CallInv, Quiet, TypeOK
  <2>3. CASE TryClaim(c, attempt[c] + 1)
    BY <2>1, <2>2, <2>3, TryClaimHeld
  <2>4. CASE pc' = [pc EXCEPT ![c] = "waiting"] /\ UNCHANGED <<attempt, claimUntil, rpc, out>>
    BY <2>1, <2>2, <2>4 DEF HeldInv, HeldClaims, Holding, StaleTrue, LostClaimHadExpired, NoReply,
                            TypeOK
  <2>5. ASSUME NEW o \in Outcomes, o.code # "request-claim-lost", Finish(c, o),
               UNCHANGED <<attempt, claimUntil, rpc>>
        PROVE  HeldInv'
    BY <2>1, <2>2, <2>5, FinishHeld
  <2>6. \A code \in Codes : Err(code) \in Outcomes /\ Err(code).code = code
    BY ErrType DEF Err
  <2>7. Ok(store.claim) \in Outcomes /\ Ok(store.claim).code = "none"
    BY <2>1, OkType DEF Ok
  <2>8. {"request-id-collision", "gateway-storage-unavailable"} \subseteq Codes
    BY DEF Codes
  <2> QED BY <1>3, <2>3, <2>4, <2>5, <2>6, <2>7, <2>8
          DEF Pending, WaitStep, WaitInspect, WaitTimeout, WaitUnavailable
<1>4. ASSUME NEW c \in Calls, Ends(c) PROVE HeldInv'
  <2>1. Outcome(c) \in Outcomes
    BY ErrType, OkType DEF Outcome, Codes, TypeOK, Replies
  <2>2. Outcome(c).code = "request-claim-lost" => claimUntil[c] <= now
    BY DEF Outcome, Err, Ok, HeldInv, StaleTrue
  <2> QED BY <1>4, <2>1, <2>2, FinishHeld DEF Ends
<1>5. ASSUME NEW g \in Gateways, Stop(g) PROVE HeldInv'
  BY <1>5 DEF Stop, HeldInv, HeldClaims, Holding, StaleTrue, LostClaimHadExpired, NoReply, TypeOK
<1>6. ASSUME NEW c \in Calls, claimMcpRequestState(c) PROVE HeldInv'
  <2>1. rpc[c].expires = claimUntil[c] /\ rpc[c].id = <<c, attempt[c]>> /\ rpc[c].op = "claim"
    BY <1>6 DEF claimMcpRequestState, CallInv, MessagesFit, OwnMessages
  <2>2. CASE /\ store' = ClaimRow(DigestOf[c], rpc[c].id, rpc[c].expires)
             /\ Respond(c, Reply("acquired", rpc[c].id, rpc[c].expires))
             /\ store.kind = "none" \/ (store.kind = "claim" /\ ClaimOver(store))
    <3>1. \A x \in Calls : Holding(x) => ~(claimUntil[x] > now)
      BY <2>2 DEF HeldInv, HeldClaims, ClaimOver, TypeOK
    <3>2. /\ store'.kind = "claim" /\ store'.claim = <<c, attempt[c]>>
          /\ store'.expires = claimUntil[c]
      BY <2>1, <2>2 DEF ClaimRow
    <3>3. Reply("acquired", rpc[c].id, rpc[c].expires).tag = "acquired"
      BY DEF Reply
    <3> QED BY <2>2, <3>1, <3>2, <3>3, RespondHeld
  <2>3. ASSUME NEW r, Respond(c, r), r.tag \notin {"acquired", "stale"}, UNCHANGED store
        PROVE  HeldInv'
    BY <2>3, RespondHeld
  <2>4. \A tag, id, e : Reply(tag, id, e).tag = tag
    BY DEF Reply
  <2> QED BY <1>6, <2>2, <2>3, <2>4 DEF claimMcpRequestState
<1>7. ASSUME NEW c \in Calls, NEW x \in Calls, x # c, IsCurrentClaim(c), Holding(x),
             claimUntil[x] > now, rpc[c].op # "none"
      PROVE  FALSE
  BY <1>7 DEF IsCurrentClaim, HeldInv, HeldClaims, CallInv, OwnMessages
<1>8. ASSUME NEW c \in Calls, completeMcpRequestState(c) PROVE HeldInv'
  <2>1. \A tag, id, e : Reply(tag, id, e).tag = tag
    BY DEF Reply
  <2>2. ASSUME NEW r, Respond(c, r), r.tag \notin {"acquired", "stale"}, UNCHANGED store
        PROVE  HeldInv'
    BY <2>2, RespondHeld
  <2>3. CASE IsCurrentClaim(c) /\ Respond(c, Reply("completed", rpc[c].id, 0))
    BY <1>7, <1>8, <2>1, <2>3, RespondHeld DEF completeMcpRequestState
  <2>4. CASE /\ ~IsCurrentClaim(c) /\ ~Collides(c) /\ store.kind # "record"
             /\ Respond(c, Reply("stale", Nil, 0)) /\ UNCHANGED store
    <3>1. ~(pc[c] = "completing" /\ claimUntil[c] > now)
      BY <1>8, <2>4 DEF completeMcpRequestState, HeldInv, HeldClaims, Holding, IsCurrentClaim,
                        CallInv, OwnMessages
    <3>2. pc[c] = "completing" => claimUntil[c] <= now
      BY <3>1 DEF TypeOK
    <3>3. CASE pc[c] = "completing"
      BY <2>1, <2>4, <3>2, <3>3, RespondHeld
    <3>4. CASE pc[c] # "completing"
      <4>1. reply' = reply /\ rpc' = [rpc EXCEPT ![c] = NoRpc]
            /\ UNCHANGED <<now, store, pc, attempt, claimUntil, out>>
        BY <1>8, <2>4, <3>4 DEF completeMcpRequestState, CallInv, MessagesFit, Respond, Listening
      <4> QED BY <4>1 DEF HeldInv, HeldClaims, Holding, StaleTrue, LostClaimHadExpired, NoRpc, TypeOK
    <3> QED BY <3>3, <3>4
  <2> QED BY <1>8, <2>1, <2>2, <2>3, <2>4 DEF completeMcpRequestState
<1>9. ASSUME NEW c \in Calls, releaseMcpRequestState(c) PROVE HeldInv'
  <2>1. Reply("released", Nil, 0).tag = "released"
    BY DEF Reply
  <2>2. ~Holding(c)
    BY <1>9 DEF releaseMcpRequestState, Holding, CallInv, MessagesFit
  <2>3. rpc[c].op = "release" /\ Respond(c, Reply("released", Nil, 0))
        /\ (IsCurrentClaim(c) \/ store' = store)
    BY <1>9 DEF releaseMcpRequestState
  <2> QED BY <1>7, <2>1, <2>2, <2>3, RespondHeld
<1>10. ASSUME NEW c \in Calls, Undelivered(c) \/ BreaksOff(c) PROVE HeldInv'
  BY <1>10 DEF Undelivered, BreaksOff, Unavailable, Reply, NoRpc, HeldInv, HeldClaims, Holding,
               StaleTrue, LostClaimHadExpired, TypeOK
<1>11. CASE Tick
  BY <1>11 DEF Tick, local, HeldInv, HeldClaims, Holding, StaleTrue, LostClaimHadExpired, TypeOK
<1>12. CASE UNCHANGED vars
  BY <1>12 DEF vars, local, HeldInv, HeldClaims, Holding, StaleTrue, LostClaimHadExpired
<1> QED BY <1>1, <1>2, <1>3, <1>4, <1>5, <1>6, <1>8, <1>9, <1>10, <1>11, <1>12
        DEF Next, CallStep, StoreStep

\* All of it together.
THEOREM ClaimsInvariant == Spec => []HeldInv
<1>1. Spec => []CallInv
  BY ClaimInit, CallInvStep, TypesInvariant, PTL DEF Spec
<1>2. Init => OpenUnanswered
  BY DEF Init, OpenUnanswered
<1>3. Spec => []OpenUnanswered
  BY <1>2, OpenStep, TypesInvariant, PTL DEF Spec
<1> QED BY <1>1, <1>3, ClaimInit, HeldStep, TypesInvariant, PTL DEF Spec

\* A call executes under the store's own claim until that expires on the store's
\* clock (ClaimKeptUntilExpiry of the runs).
THEOREM Exclusion == Spec => []ClaimKeptUntilExpiry
<1>1. HeldInv => ClaimKeptUntilExpiry
  BY DEF HeldInv, HeldClaims, Holding, ClaimKeptUntilExpiry, CurrentClaim
<1> QED BY <1>1, ClaimsInvariant, PTL

\* request-claim-lost is answered only after the claim expired
\* (LostClaimHadExpired of the runs).
THEOREM LossIsExpiry == Spec => []LostClaimHadExpired
<1>1. HeldInv => LostClaimHadExpired
  BY DEF HeldInv
<1> QED BY <1>1, ClaimsInvariant, PTL
=============================================================================
