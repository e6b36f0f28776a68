-------------------------- MODULE IdempotentResult --------------------------
(***************************************************************************)
(* What the MCP gateway promises the callers of one request id, whatever   *)
(* isolate they reach: at most one result is ever settled for the id, it   *)
(* never changes, and every caller that is answered at all is answered     *)
(* either with that result (when its request has the settled digest) or    *)
(* with an error.                                                          *)
(***************************************************************************)
CONSTANTS Calls,      \* the calls of execute() made with this request id
          Digests,    \* the contents those calls carry
          DigestOf,   \* the content of each call
          Values,     \* what an execution may yield
          Nil         \* no value

VARIABLES settled,    \* Nil, or the digest and the value settled for the id
          answer      \* for each call: "none", "error", or the settled value

avars == <<settled, answer>>

NoAnswer == [kind |-> "none", value |-> Nil]
ErrorAnswer == [kind |-> "error", value |-> Nil]
OkAnswer(v) == [kind |-> "ok", value |-> v]
Settled(d, v) == [digest |-> d, value |-> v]

AInit == /\ settled = Nil
         /\ answer = [c \in Calls |-> NoAnswer]

\* One execution's result becomes the result of the id.
Settle == /\ settled = Nil
          /\ \E d \in Digests, v \in Values : settled' = Settled(d, v)
          /\ UNCHANGED answer

\* Some calls are answered: with the settled value, or with an error.
MayAnswer(c) == {ErrorAnswer} \cup
  (IF settled # Nil /\ settled.digest = DigestOf[c]
   THEN {OkAnswer(settled.value)} ELSE {})

Answer == /\ \A c \in Calls : \/ answer'[c] = answer[c]
                              \/ /\ answer[c] = NoAnswer
                                 /\ answer'[c] \in MayAnswer(c)
          /\ DOMAIN answer' = Calls
          /\ UNCHANGED settled

ANext == Settle \/ Answer

ASpec == AInit /\ [][ANext]_avars
=============================================================================
