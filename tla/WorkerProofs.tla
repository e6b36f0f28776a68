----------------------------- MODULE WorkerProofs -----------------------------
(*****************************************************************************)
(* Theorems about the two services that the service worker of the extension  *)
(* runs for its pages: the kernel host (KernelHost) and the AI service       *)
(* (AiService), without their bounds.                                        *)
(*                                                                           *)
(* Kernel host: the queue lets one dispatch run at a time, so what it has    *)
(* read stays current (RunInv).  A request is prepared before its effect, one *)
(* per id, and its id has no receipt (DiskInv); so an effect that happened is *)
(* found again, prepared or receipted, by whoever uses its id (EffectInv).   *)
(*                                                                           *)
(* AI service: what has been observed of an assistant turn, wherever it is by *)
(* now, was observed under one session, and of the last turn under no other  *)
(* than the one on the card (TurnsInv); so a record holds only what was      *)
(* observed under its own session (RecordInv).                               *)
(*****************************************************************************)
EXTENDS KernelHost, AiService, FiniteSetTheorems, SequenceTheorems, TLAPS

-----------------------------------------------------------------------------
(* Kernel host.                                                             *)

Started == {"loaded", "prepared", "asked", "effected", "failing", "committed"}
Attempted == {"prepared", "asked", "effected", "failing"}

\* The queue holds the dispatches that are neither joined nor settled, each once,
\* and only the first has started.
QueueInv ==
  /\ \A n \in DOMAIN queue : pc[queue[n]] = "queued" \/ (n = 1 /\ pc[queue[n]] \in Started)
  /\ \A m, n \in DOMAIN queue : queue[m] = queue[n] => m = n
  /\ \A c \in Calls : pc[c] \in Started => queue # <<>> /\ queue[1] = c

\* An id is prepared once or receipted once, never both; receipts are of committed
\* requests, and whoever prepared one runs with it or has stopped.
DiskInv ==
  /\ \A c, d \in prepared : IdOf[c] = IdOf[d] => c = d
  /\ \A c, d \in Receipts(global) : IdOf[c] = IdOf[d] => c = d
  /\ \A c \in prepared, d \in Receipts(global) : IdOf[c] # IdOf[d]
  /\ \A c \in prepared : pc[c] \in Attempted \cup {"done"}
  /\ Receipts(global) \subseteq committed

\* What a running dispatch has read is what is stored; its id has no receipt, and
\* it is prepared once it is past the transition.
RunInv ==
  /\ \A c \in Calls : pc[c] \in Attempted \cup {"loaded"} =>
       /\ base[c] = [global |-> global, context |-> context[ClientOf[c]]]
       /\ WithId(Receipts(global), IdOf[c]) = {}
       /\ global.current
  /\ \A c \in Calls : pc[c] = "loaded" => WithId(prepared, IdOf[c]) = {}
  /\ \A c \in Calls : pc[c] \in Attempted => c \in prepared

\* An effect that happened, or may happen in a page, is on record.
EffectInv ==
  /\ \A c \in performed : c \in prepared \/ c \in Receipts(global)
  /\ \A c \in performed : plan[c] \in NON_REPLAYABLE_EFFECTS
  /\ \A c \in asks : c \in prepared /\ pc[c] \in {"asked", "done"}

\* The histories and the records agree.
CommitInv ==
  /\ IsFiniteSet(committed)
  /\ \A c \in committed : pc[c] \in {"committed", "done"}
  /\ \A c \in Calls : pc[c] = "committed" => c \in committed
  /\ CommitsKept

\* A dispatch is answered by its own promise or by one of its id that it joined.
AnswerInv ==
  /\ \A i \in Ids : inflight[i] # Nil => IdOf[inflight[i]] = i
  /\ \A c \in Calls : IdOf[leader[c]] = IdOf[c]
  /\ \A c \in Calls : pc[c] \notin {"joined", "done"} => leader[c] = c
  /\ \A c \in Calls : answer[c] # "none" => pc[c] = "done"
  /\ AnswerIsDurable
  /\ \A c \in Calls : answer[c] = "unknown" =>
       \E x \in prepared : IdOf[x] = IdOf[c] /\ pc[x] = "done"

\* A gate only holds a record that was out of date.
GateInv == \A g \in Gates : seen[g] # Nil => ~seen[g].current

IInv ==
  /\ TypeOK /\ QueueInv /\ GateInv /\ Intact
  /\ DiskInv /\ RunInv /\ EffectInv /\ CommitInv /\ AnswerInv

\* After a gate has overwritten a commit only the types and the queue are in order.
HostInv == TypeOK /\ QueueInv /\ GateInv /\ (Intact => IInv)
-----------------------------------------------------------------------------
(* The operators.                                                           *)

\* The newest receipts are a bounded suffix that has the last one (kernel-host.js:920).
LEMMA NewestKept ==
  ASSUME NEW s \in Seq(Calls), NEW c \in Calls
  PROVE  LET k == Newest(Append(s, c)) IN
         /\ k \in Seq(Calls) /\ Len(k) <= MaxReceipts
         /\ \E n \in DOMAIN k : k[n] = c
         /\ \A n \in DOMAIN k : k[n] = c \/ \E m \in DOMAIN s : k[n] = s[m]
<1> DEFINE t == Append(s, c)
           k == Newest(t)
<1>1. t \in Seq(Calls) /\ Len(t) = Len(s) + 1 /\ Len(s) \in Nat
  OBVIOUS
<1>2. \A n \in 1..Len(t) : t[n] = IF n = Len(t) THEN c ELSE s[n]
  OBVIOUS
<1>3. MaxReceipts \in Nat \ {0}
  BY KernelAssumption
<1>4. CASE Len(t) > MaxReceipts
  <2> DEFINE b == Len(t) - MaxReceipts + 1
  <2>1. k = SubSeq(t, b, Len(t)) /\ b \in 1..Len(t)
    BY <1>1, <1>3, <1>4 DEF Newest
  <2>2. k \in Seq(Calls) /\ Len(k) = MaxReceipts /\ \A n \in 1..MaxReceipts : k[n] = t[b + n - 1]
    <3>1. \A i \in b..Len(t) : t[i] \in Calls
      BY <1>1, <2>1
    <3>2. b \in Int /\ Len(t) \in Int /\ b <= Len(t) /\ Len(t) - b + 1 = MaxReceipts
      BY <1>1, <1>3, <2>1
    <3> HIDE DEF b, t
    <3>3. /\ SubSeq(t, b, Len(t)) \in Seq(Calls)
          /\ Len(SubSeq(t, b, Len(t))) = Len(t) - b + 1
          /\ \A n \in 1..(Len(t) - b + 1) : SubSeq(t, b, Len(t))[n] = t[b + n - 1]
      BY <3>1, <3>2, SubSeqProperties
    <3> QED
      BY <2>1, <3>2, <3>3
  <2>3. k[MaxReceipts] = c
    BY <1>1, <1>2, <1>3, <2>1, <2>2
  <2>4. ASSUME NEW n \in 1..MaxReceipts
        PROVE  k[n] = c \/ \E m \in DOMAIN s : k[n] = s[m]
    <3>1. b + n - 1 \in 1..Len(t)
      BY <1>1, <1>3, <2>1
    <3> QED
      BY <1>1, <1>2, <2>2, <3>1
  <2> QED
    BY <1>3, <2>2, <2>3, <2>4
<1>5. CASE ~(Len(t) > MaxReceipts)
  BY <1>1, <1>2, <1>3, <1>5 DEF Newest
<1> QED
  BY <1>4, <1>5

\* What settling a promise does to the types of the worker's state.
LEMMA SettleTypes ==
  ASSUME TypeOK, NEW c \in Calls, NEW a \in Answers, Settle(c, a), queue # <<>>
  PROVE  /\ pc' \in [Calls -> Pcs] /\ answer' \in [Calls -> Answers]
         /\ inflight' \in [Ids -> Calls \cup {Nil}] /\ queue' \in Seq(Calls)
<1>1. queue \in Seq(Calls) /\ pc \in [Calls -> Pcs] /\ answer \in [Calls -> Answers]
  BY DEF TypeOK
<1>2. pc' \in [Calls -> Pcs] /\ answer' \in [Calls -> Answers]
  BY <1>1 DEF Settle, Pcs
<1>3. inflight' \in [Ids -> Calls \cup {Nil}]
  BY DEF Settle, TypeOK
<1>4. queue' \in Seq(Calls)
  BY <1>1, HeadTailProperties DEF Settle, Rest
<1> QED
  BY <1>2, <1>3, <1>4

\* A running dispatch is at the head of the queue.
LEMMA RunsFirst ==
  ASSUME TypeOK, QueueInv, NEW c \in Calls, pc[c] \in Started \/ Turn(c)
  PROVE  queue # <<>> /\ queue[1] = c
BY DEF QueueInv, Turn, TypeOK

LEMMA TypeInit == Init => TypeOK
<1> SUFFICES ASSUME Init PROVE TypeOK
  OBVIOUS
<1>1. NewGlobal \in Globals /\ Len(NewGlobal.receipts) = 0 /\ NewContext \in ContextRecords
  BY DEF NewGlobal, Globals, NewContext, ContextRecords
<1>2. NothingRead \in [global : Globals, context : ContextRecords]
  BY <1>1 DEF NothingRead
<1>3. "unsent" \in Pcs /\ "none" \in Effects /\ "none" \in Answers /\ MaxReceipts >= 0
  BY KernelAssumption DEF Pcs, Effects, Answers
<1>4. Init => seen \in [Gates -> {Nil} \cup {g \in Globals : Len(g.receipts) <= MaxReceipts}]
  BY DEF Init
<1>5. Init => queue \in Seq(Calls)
  BY DEF Init
<1> QED
  BY <1>1, <1>2, <1>3, <1>4, <1>5 DEF Init, TypeOK

LEMMA TypeStep == TypeOK /\ QueueInv /\ [Next]_vars => TypeOK'
<1> SUFFICES ASSUME TypeOK, QueueInv, [Next]_vars PROVE TypeOK'
  OBVIOUS
<1>1. ASSUME NEW c \in Calls, Dispatch(c) PROVE TypeOK'
  <2>1. IdOf[c] \in Ids /\ Nil \notin Calls
    BY KernelAssumption
  <2>2. pc' \in [Calls -> Pcs] /\ leader' \in [Calls -> Calls] /\ queue' \in Seq(Calls)
        /\ inflight' \in [Ids -> Calls \cup {Nil}]
    <3>1. pc' \in [Calls -> Pcs]
      BY <1>1 DEF Dispatch, Move, TypeOK, Pcs
    <3>2. queue' \in Seq(Calls)
      <4>1. queue \in Seq(Calls) /\ queue' \in {queue, Append(queue, c)}
        BY <1>1 DEF Dispatch, TypeOK
      <4> QED
        BY <4>1
    <3>3. leader' \in [Calls -> Calls] /\ inflight' \in [Ids -> Calls \cup {Nil}]
      BY <1>1, <2>1 DEF Dispatch, TypeOK
    <3> QED
      BY <3>1, <3>2, <3>3
  <2> QED
    BY <1>1, <2>2 DEF Dispatch, TypeOK, disk, gates
<1>2. ASSUME NEW c \in Calls, Load(c) PROVE TypeOK'
  <2>1. queue # <<>>
    BY <1>2 DEF Load, Turn
  <2>2. /\ pc' \in [Calls -> Pcs] /\ answer' \in [Calls -> Answers]
        /\ inflight' \in [Ids -> Calls \cup {Nil}] /\ queue' \in Seq(Calls)
        /\ base' \in [Calls -> [global : Globals, context : ContextRecords]]
    <3>1. ASSUME NEW a \in Answers, Settle(c, a), UNCHANGED base PROVE <2>2
      BY <2>1, <3>1, SettleTypes DEF TypeOK
    <3>2. CASE /\ Move(c, "loaded")
               /\ base' = [base EXCEPT ![c] = [global |-> global, context |-> context[ClientOf[c]]]]
               /\ UNCHANGED <<answer, inflight, queue>>
      BY <3>2, KernelAssumption DEF Move, TypeOK, Pcs
    <3>3. {"replayed", "reuse", "unknown", "refused"} \subseteq Answers
      BY DEF Answers
    <3> QED
      BY <1>2, <3>1, <3>2, <3>3 DEF Load
  <2> QED
    BY <1>2, <2>2 DEF Load, TypeOK, disk, gates
<1>3. ASSUME NEW c \in Calls, Prepare(c) PROVE TypeOK'
  <2>1. queue # <<>>
    BY <1>3, RunsFirst DEF Prepare, Started
  <2>2. CASE Settle(c, "refused") /\ UNCHANGED <<prepared, plan>>
    BY <1>3, <2>1, <2>2, SettleTypes DEF Prepare, TypeOK, Answers, gates
  <2>3. CASE /\ \E e \in PlansOf[ContentOf[c]] : plan' = [plan EXCEPT ![c] = e]
             /\ prepared' = (prepared \ WithId(prepared, IdOf[c])) \cup {c}
             /\ Move(c, "prepared")
             /\ UNCHANGED <<answer, inflight, queue>>
    <3>1. PlansOf[ContentOf[c]] \subseteq Effects
      BY KernelAssumption
    <3>2. plan' \in [Calls -> Effects] /\ pc' \in [Calls -> Pcs] /\ prepared' \subseteq Calls
      BY <2>3, <3>1 DEF Move, Pcs, TypeOK
    <3> QED
      BY <1>3, <2>3, <3>2 DEF Prepare, TypeOK, gates
  <2> QED
    BY <1>3, <2>2, <2>3 DEF Prepare
<1>4. ASSUME NEW c \in Calls, OpenTab(c) PROVE TypeOK'
  BY <1>4 DEF OpenTab, Move, TypeOK, Pcs, disk, worker, gates
<1>5. ASSUME NEW c \in Calls, Ask(c) PROVE TypeOK'
  BY <1>5 DEF Ask, Move, TypeOK, Pcs, disk, worker, gates
<1>6. ASSUME NEW c \in Calls, PageAnswers(c) PROVE TypeOK'
  <2>1. pc' \in [Calls -> Pcs]
    BY <1>6 DEF PageAnswers, Move, TypeOK, Pcs
  <2>2. performed' \subseteq Calls /\ asks' \subseteq Calls
    BY <1>6 DEF PageAnswers, TypeOK
  <2> QED
    BY <1>6, <2>1, <2>2 DEF PageAnswers, TypeOK, disk, worker, gates
<1>7. ASSUME NEW c \in Calls, Commit(c) PROVE TypeOK'
  <2>1. CASE Move(c, "failing") /\ UNCHANGED <<disk, committed, performed>>
    BY <1>7, <2>1 DEF Commit, Move, TypeOK, Pcs, disk, worker, gates
  <2>2. CASE ~(UNCHANGED <<disk, committed, performed>> /\ Move(c, "failing"))
    <3> DEFINE g == base[c].global
               k == base[c].context
               change == IF ContentOf[c] \in Changes THEN {c} ELSE {}
               kept == Newest(Append(g.receipts, c))
    <3>1. g \in Globals /\ k \in ContextRecords
      BY DEF TypeOK
    <3>2. Cardinality(change) \in Nat
      BY FS_EmptySet, FS_Singleton
    <3>3. kept \in Seq(Calls) /\ Len(kept) <= MaxReceipts
      BY <3>1, NewestKept DEF Globals
    <3>4. /\ global' = [g EXCEPT !.rev = @ + Cardinality(change), !.state = @ \cup change,
                                   !.receipts = kept]
          /\ context' = [context EXCEPT ![ClientOf[c]] = [rev |-> k.rev + 1, state |-> k.state \cup {c}]]
          /\ prepared' \subseteq prepared /\ committed' = committed \cup {c}
          /\ performed' \subseteq performed /\ Move(c, "committed") /\ UNCHANGED <<worker, asks, answer, gates>>
      BY <1>7, <2>2 DEF Commit
    <3> HIDE DEF g, k, kept, change
    <3>5. global' \in Globals /\ Len(global'.receipts) <= MaxReceipts
      <4>1. g.rev + Cardinality(change) \in Nat /\ g.state \cup change \subseteq Calls
        BY <3>1, <3>2 DEF Globals, change
      <4> QED
        BY <3>1, <3>3, <3>4, <4>1 DEF Globals
    <3>6. context' \in [Clients -> ContextRecords]
      <4>1. [rev |-> k.rev + 1, state |-> k.state \cup {c}] \in ContextRecords
        BY <3>1 DEF ContextRecords
      <4> QED
        BY <3>4, <4>1 DEF TypeOK
    <3>7. pc' \in [Calls -> Pcs]
      BY <3>4 DEF Move, TypeOK, Pcs
    <3> QED
      BY <3>4, <3>5, <3>6, <3>7 DEF TypeOK, worker, gates
  <2> QED
    BY <2>1, <2>2
<1>8. ASSUME NEW c \in Calls, Answer(c) PROVE TypeOK'
  <2>1. queue # <<>> /\ Settle(c, "ok") /\ "ok" \in Answers
    BY <1>8, RunsFirst DEF Answer, Started, Answers
  <2> QED
    BY <1>8, <2>1, SettleTypes DEF Answer, TypeOK, disk, gates
<1>9. ASSUME NEW c \in Calls, Abort(c) PROVE TypeOK'
  <2>1. queue # <<>> /\ \E a \in Answers : Settle(c, a)
    BY <1>9, RunsFirst DEF Abort, Started, Answers
  <2>2. prepared' \subseteq Calls
    BY <1>9 DEF Abort, TypeOK
  <2> QED
    BY <1>9, <2>1, <2>2, SettleTypes DEF Abort, TypeOK, gates
<1>10. ASSUME Stop PROVE TypeOK'
  BY <1>10 DEF Stop, TypeOK, Pcs, Answers, disk
<1>11. ASSUME NEW g \in Globals, Len(g.receipts) <= MaxReceipts
       PROVE  Upgraded(g) \in Globals /\ Len(Upgraded(g).receipts) <= MaxReceipts
  <2>1. g.rev + 1 \in Nat /\ Upgraded(g).receipts = g.receipts
    BY <1>11 DEF Upgraded, Globals
  <2> QED
    BY <1>11, <2>1 DEF Upgraded, Globals
<1>12. ASSUME NEW c \in Calls, Upgrade(c) PROVE TypeOK'
  BY <1>11, <1>12 DEF Upgrade, TypeOK, worker, gates
<1>13. ASSUME NEW g \in Gates, GateReads(g) PROVE TypeOK'
  BY <1>13 DEF GateReads, TypeOK, worker, disk
<1>14. ASSUME NEW g \in Gates, GateWrites(g) PROVE TypeOK'
  <2>1. seen[g] \in Globals /\ Len(seen[g].receipts) <= MaxReceipts
    BY <1>14 DEF GateWrites, TypeOK
  <2> QED
    BY <1>11, <1>14, <2>1 DEF GateWrites, TypeOK, worker
<1>15. ASSUME UNCHANGED vars PROVE TypeOK'
  BY <1>15 DEF vars, disk, worker, gates, TypeOK
<1> QED
  BY <1>1, <1>2, <1>3, <1>4, <1>5, <1>6, <1>7, <1>8, <1>9, <1>10, <1>12, <1>13, <1>14, <1>15
     DEF Next, HostStep, GateStep
-----------------------------------------------------------------------------
(* The queue.                                                               *)

LEMMA OneRuns ==
  ASSUME TypeOK, QueueInv, NEW c \in Calls, pc[c] \in Started \/ Turn(c),
         NEW x \in Calls, pc[x] \in Started
  PROVE  x = c
BY RunsFirst

\* Settling the running promise ends it and what joined it, and the next one is first.
LEMMA SettleQueue ==
  ASSUME TypeOK, QueueInv, NEW c \in Calls, NEW a \in Answers,
         pc[c] \in Started \/ Turn(c), Settle(c, a)
  PROVE  /\ QueueInv'
         /\ pc'[c] = "done"
         /\ \A x \in Calls : pc'[x] = pc[x] \/ (pc'[x] = "done" /\ (x = c \/ pc[x] = "joined"))
<1>1. queue # <<>> /\ queue[1] = c
  BY RunsFirst
<1>2. /\ queue \in Seq(Calls) /\ queue' = Tail(queue) /\ Len(queue') = Len(queue) - 1
      /\ \A n \in DOMAIN queue' : n + 1 \in DOMAIN queue /\ queue'[n] = queue[n + 1]
  BY <1>1, HeadTailProperties DEF TypeOK, Settle, Rest
<1>3. \A x \in Calls : pc'[x] = IF x = c \/ (pc[x] = "joined" /\ leader[x] = c) THEN "done" ELSE pc[x]
  BY DEF Settle, AnsweredWith
<1>4. \A n \in DOMAIN queue' : queue'[n] \in Calls /\ queue'[n] # c /\ pc[queue'[n]] = "queued"
  <2> SUFFICES ASSUME NEW n \in DOMAIN queue'
               PROVE  queue'[n] \in Calls /\ queue'[n] # c /\ pc[queue'[n]] = "queued"
    OBVIOUS
  <2>1. n + 1 \in DOMAIN queue /\ 1 \in DOMAIN queue /\ n + 1 # 1 /\ queue'[n] = queue[n + 1]
    BY <1>1, <1>2
  <2> QED
    BY <1>1, <1>2, <2>1 DEF QueueInv
<1>5. \A n \in DOMAIN queue' : pc'[queue'[n]] = "queued"
  BY <1>3, <1>4
<1>6. \A m, n \in DOMAIN queue' : queue'[m] = queue'[n] => m = n
  <2> SUFFICES ASSUME NEW m \in DOMAIN queue', NEW n \in DOMAIN queue', queue'[m] = queue'[n]
               PROVE  m = n
    OBVIOUS
  <2>1. m + 1 \in DOMAIN queue /\ n + 1 \in DOMAIN queue /\ queue[m + 1] = queue[n + 1]
    BY <1>2
  <2>2. m + 1 = n + 1
    BY <2>1 DEF QueueInv
  <2> QED
    BY <1>2, <2>2
<1>7. \A x \in Calls : pc'[x] \notin Started
  BY <1>3, OneRuns DEF Started
<1> QED
  BY <1>3, <1>5, <1>6, <1>7 DEF QueueInv

\* A running dispatch may move on.
LEMMA MoveQueue ==
  ASSUME TypeOK, QueueInv, NEW c \in Calls, NEW p \in Started,
         pc[c] \in Started \/ Turn(c), Move(c, p), UNCHANGED queue
  PROVE  QueueInv' /\ \A x \in Calls : pc'[x] = IF x = c THEN p ELSE pc[x]
<1>1. queue # <<>> /\ queue[1] = c /\ 1 \in DOMAIN queue /\ queue \in Seq(Calls)
  BY RunsFirst DEF TypeOK
<1>2. \A x \in Calls : pc'[x] = IF x = c THEN p ELSE pc[x]
  BY DEF Move, TypeOK
<1>3. \A n \in DOMAIN queue : queue[n] = c => n = 1
  BY <1>1 DEF QueueInv
<1>4. \A n \in DOMAIN queue : pc'[queue[n]] = "queued" \/ (n = 1 /\ pc'[queue[n]] \in Started)
  BY <1>1, <1>2, <1>3 DEF QueueInv
<1> QED
  BY <1>1, <1>2, <1>4 DEF QueueInv

\* A step moves dispatches along their path only.
Moved(x) ==
  \/ pc'[x] = pc[x]
  \/ pc'[x] = "done" /\ pc[x] # "unsent"
  \/ pc[x] = "unsent" /\ pc'[x] \in {"joined", "queued"}
  \/ pc[x] = "queued" /\ pc'[x] = "loaded" /\ Load(x)
  \/ pc[x] = "loaded" /\ pc'[x] = "prepared" /\ Prepare(x)
  \/ pc[x] \in Attempted /\ pc'[x] \in Attempted
  \/ pc[x] \in Attempted /\ pc'[x] = "committed" /\ Commit(x)

LEMMA QueueStep ==
  TypeOK /\ QueueInv /\ [Next]_vars => QueueInv' /\ \A x \in Calls : Moved(x)
<1> SUFFICES ASSUME TypeOK, QueueInv, [Next]_vars
             PROVE  QueueInv' /\ \A x \in Calls : Moved(x)
  OBVIOUS
<1> DEFINE Goal == QueueInv' /\ \A x \in Calls : Moved(x)
<1>0. ASSUME NEW c \in Calls, NEW a \in Answers, pc[c] \in Started \/ Turn(c), Settle(c, a)
      PROVE  Goal
  BY <1>0, SettleQueue DEF Moved, Started, Turn
<1>1. ASSUME NEW c \in Calls, Dispatch(c) PROVE Goal
  <2>1. /\ pc[c] = "unsent" /\ pc'[c] \in {"joined", "queued"}
        /\ \A x \in Calls : x # c => pc'[x] = pc[x]
    BY <1>1 DEF Dispatch, Move, TypeOK
  <2>2. \A n \in DOMAIN queue : queue[n] \in Calls /\ queue[n] # c
    BY <2>1 DEF QueueInv, TypeOK, Started
  <2>3. \A x \in Calls : pc'[x] \in Started => pc[x] \in Started
    BY <2>1 DEF Started
  <2>4. CASE queue' = queue
    BY <2>1, <2>2, <2>3, <2>4 DEF QueueInv, Moved
  <2>5. CASE queue' = Append(queue, c) /\ pc'[c] = "queued"
    <3>1. /\ queue \in Seq(Calls) /\ Len(queue') = Len(queue) + 1 /\ queue' # <<>>
          /\ \A n \in DOMAIN queue' : queue'[n] = IF n = Len(queue) + 1 THEN c ELSE queue[n]
          /\ \A n \in DOMAIN queue' : n # Len(queue) + 1 => n \in DOMAIN queue
      BY <2>5, AppendProperties DEF TypeOK
    <3>2. \A n \in DOMAIN queue' :
             pc'[queue'[n]] = "queued" \/ (n = 1 /\ pc'[queue'[n]] \in Started)
      BY <2>1, <2>2, <2>5, <3>1 DEF QueueInv
    <3>3. \A m, n \in DOMAIN queue' : queue'[m] = queue'[n] => m = n
      BY <2>2, <3>1 DEF QueueInv
    <3>4. \A x \in Calls : pc'[x] \in Started => queue'[1] = x
      BY <2>3, <3>1 DEF QueueInv
    <3> QED
      BY <2>1, <3>1, <3>2, <3>3, <3>4 DEF QueueInv, Moved
  <2> QED
    BY <1>1, <2>1, <2>4, <2>5 DEF Dispatch, Move, TypeOK
<1>2. ASSUME NEW c \in Calls, Load(c) PROVE Goal
  <2>1. CASE Move(c, "loaded") /\ UNCHANGED queue
    BY <1>2, <2>1, MoveQueue DEF Load, Turn, Moved, Started
  <2> QED
    BY <1>0, <1>2, <2>1 DEF Load, Answers
<1>3. ASSUME NEW c \in Calls, Prepare(c) PROVE Goal
  <2>1. CASE Move(c, "prepared") /\ UNCHANGED queue
    BY <1>3, <2>1, MoveQueue DEF Prepare, Moved, Started
  <2> QED
    BY <1>0, <1>3, <2>1 DEF Prepare, Answers, Started
<1>4. ASSUME NEW c \in Calls, NEW p \in Attempted \cup {"committed"}, pc[c] \in Attempted,
             Move(c, p), UNCHANGED queue, p = "committed" => Commit(c)
      PROVE  Goal
  BY <1>4, MoveQueue DEF Moved, Started, Attempted
<1>5. ASSUME NEW c \in Calls, OpenTab(c) \/ Ask(c) \/ Commit(c) PROVE Goal
  BY <1>4, <1>5 DEF OpenTab, Ask, Commit, worker, Attempted
<1>6. ASSUME NEW c \in Calls, PageAnswers(c) PROVE Goal
  <2>1. CASE UNCHANGED <<pc, queue>>
    BY <2>1 DEF QueueInv, Moved
  <2> QED
    BY <1>4, <1>6, <2>1 DEF PageAnswers, worker, Attempted
<1>7. ASSUME NEW c \in Calls, Answer(c) \/ Abort(c) PROVE Goal
  BY <1>0, <1>7 DEF Answer, Abort, Started, Answers
<1>8. ASSUME Stop PROVE Goal
  BY <1>8 DEF Stop, Running, QueueInv, Moved, Started, TypeOK
<1>9. ASSUME UNCHANGED <<queue, pc>> PROVE Goal
  BY <1>9 DEF QueueInv, Moved
<1> QED
  BY <1>1, <1>2, <1>3, <1>5, <1>6, <1>7, <1>8, <1>9
     DEF Next, HostStep, GateStep, Upgrade, GateReads, GateWrites, vars, worker
\* Only the read of the records changes what a dispatch has read.
LEMMA BaseKept ==
  ASSUME TypeOK, [Next]_vars, NEW x \in Calls
  PROVE  base'[x] = base[x] \/ (Load(x) /\ pc'[x] = "loaded")
<1>1. ASSUME NEW c \in Calls, Load(c), ~(UNCHANGED base)
      PROVE  pc'[c] = "loaded" /\ \A d \in Calls : d # c => base'[d] = base[d]
  BY <1>1 DEF Load, Move, TypeOK
<1>2. CASE UNCHANGED base
  BY <1>2
<1>3. CASE ~(UNCHANGED base)
  <2>1. \E c \in Calls : Load(c)
    BY <1>3 DEF Next, HostStep, Dispatch, Prepare, OpenTab, Ask, PageAnswers, Commit, Answer, Abort,
               Stop, Upgrade, GateStep, GateReads, GateWrites, vars, worker
  <2> QED
    BY <1>1, <1>3, <2>1
<1> QED
  BY <1>2, <1>3
-----------------------------------------------------------------------------
(* What is stored.                                                          *)

\* A commit that succeeds, in one formula.
LEMMA CommitParts ==
  ASSUME IInv, NEW c \in Calls, Commit(c), ~(UNCHANGED <<disk, committed, performed>>)
  PROVE  /\ pc[c] \in Attempted /\ c \in prepared /\ pc'[c] = "committed"
         /\ \A x \in Calls : x # c => pc'[x] = pc[x] /\ pc[x] \notin Started
         /\ Receipts(global') \subseteq Receipts(global) \cup {c} /\ c \in Receipts(global')
         /\ \A d \in Receipts(global) : IdOf[d] # IdOf[c]
         /\ global'.state = global.state \cup (IF ContentOf[c] \in Changes THEN {c} ELSE {})
         /\ global'.rev = global.rev + Cardinality(IF ContentOf[c] \in Changes THEN {c} ELSE {})
         /\ global'.current = global.current
         /\ context' = [context EXCEPT ![ClientOf[c]] =
                          [rev |-> context[ClientOf[c]].rev + 1, state |-> context[ClientOf[c]].state \cup {c}]]
         /\ prepared' = prepared \ {c}
         /\ committed' = committed \cup {c}
         /\ performed' \subseteq performed
         /\ \A x \in performed' : x \in Receipts(global) => x \in Receipts(global')
         /\ UNCHANGED <<plan, asks, answer, leader, inflight>>
<1>1. pc[c] \in Attempted /\ pc[c] \in Started
  BY DEF Commit, Attempted, Started
<1>2. base[c].global = global /\ base[c].context = context[ClientOf[c]] /\ c \in prepared
  <2>1. base[c] = [global |-> global, context |-> context[ClientOf[c]]]
    BY <1>1 DEF IInv, RunInv
  <2>2. c \in prepared
    BY <1>1 DEF IInv, RunInv
  <2> QED
    BY <2>1, <2>2
<1> DEFINE kept == Newest(Append(global.receipts, c))
           change == IF ContentOf[c] \in Changes THEN {c} ELSE {}
           dropped == {IdOf[x] : x \in Receipts(global) \ {kept[n] : n \in DOMAIN kept}}
<1>3. /\ global' = [global EXCEPT !.rev = @ + Cardinality(change), !.state = @ \cup change,
                                  !.receipts = kept]
      /\ context' = [context EXCEPT ![ClientOf[c]] =
                       [rev |-> context[ClientOf[c]].rev + 1, state |-> context[ClientOf[c]].state \cup {c}]]
      /\ prepared' = prepared \ WithId(prepared, IdOf[c])
      /\ committed' = committed \cup {c}
      /\ performed' = {x \in performed : IdOf[x] \notin dropped}
      /\ Move(c, "committed")
      /\ UNCHANGED <<worker, asks, answer>>
  BY <1>2 DEF Commit
<1>4. global \in Globals /\ global.receipts \in Seq(Calls)
  BY DEF IInv, TypeOK, Globals
<1>5. Receipts(global') = {kept[n] : n \in DOMAIN kept}
  BY <1>3, <1>4 DEF Receipts, Globals
<1>6. /\ \E n \in DOMAIN kept : kept[n] = c
      /\ \A n \in DOMAIN kept : kept[n] = c \/ \E m \in DOMAIN global.receipts : kept[n] = global.receipts[m]
  BY <1>4, NewestKept
<1> HIDE DEF kept, change
<1>7. Receipts(global') \subseteq Receipts(global) \cup {c} /\ c \in Receipts(global')
  BY <1>5, <1>6 DEF Receipts
<1>8. WithId(prepared, IdOf[c]) = {c}
  BY <1>2 DEF IInv, DiskInv, WithId
<1>9. \A x \in performed' : x \in Receipts(global) => x \in Receipts(global')
  BY <1>3, <1>5
<1>10. \A d \in Receipts(global) : IdOf[d] # IdOf[c]
  BY <1>1 DEF IInv, RunInv, WithId
<1>11. \A x \in Calls : x # c => pc'[x] = pc[x] /\ pc[x] \notin Started
  BY <1>1, <1>3, OneRuns DEF IInv, Move, TypeOK
<1>12. pc'[c] = "committed"
  BY <1>3 DEF IInv, Move, TypeOK
<1>13. UNCHANGED <<plan, asks, answer, leader, inflight>>
  BY <1>3 DEF worker
<1>14. global'.state = global.state \cup change /\ global'.rev = global.rev + Cardinality(change)
  BY <1>3, <1>4 DEF Globals
<1>15. global'.current = global.current
  BY <1>3, <1>4 DEF Globals
<1> QED
  BY <1>1, <1>2, <1>3, <1>7, <1>8, <1>9, <1>10, <1>11, <1>12, <1>13, <1>14, <1>15 DEF change

\* An upgrade changes nothing but the revision, and meets no running dispatch.
UpgradedOnly ==
  /\ ~global.current /\ global'.current
  /\ global'.rev = global.rev + 1 /\ global'.state = global.state
  /\ global'.receipts = global.receipts
  /\ UNCHANGED <<context, prepared, worker, pc, asks, answer, performed, committed>>

LEMMA UpgradeParts ==
  ASSUME IInv, Intact', (\E c \in Calls : Upgrade(c)) \/ (\E g \in Gates : GateWrites(g)),
         ~(UNCHANGED global)
  PROVE  UpgradedOnly
<1>1. global' = Upgraded(global) /\ ~global.current
      /\ UNCHANGED <<context, prepared, worker, pc, asks, answer, performed, committed>>
  <2>1. ASSUME NEW c \in Calls, Upgrade(c) PROVE <1>1
    BY <2>1 DEF Upgrade
  <2>2. ASSUME NEW g \in Gates, GateWrites(g) PROVE <1>1
    BY <2>2 DEF GateWrites, Intact, IInv, GateInv
  <2> QED
    BY <2>1, <2>2
<1>2. global \in Globals
  BY DEF IInv, TypeOK
<1> QED
  BY <1>1, <1>2 DEF UpgradedOnly, Upgraded, Globals

LEMMA GateStepInv == TypeOK /\ GateInv /\ [Next]_vars => GateInv'
<1> SUFFICES ASSUME TypeOK, GateInv, [Next]_vars PROVE GateInv'
  OBVIOUS
<1>1. ASSUME NEW g \in Gates, GateReads(g) \/ GateWrites(g) PROVE GateInv'
  BY <1>1 DEF GateReads, GateWrites, GateInv, TypeOK
<1>2. CASE Stop
  BY <1>2 DEF Stop, GateInv
<1>3. CASE UNCHANGED seen
  BY <1>3 DEF GateInv
<1> QED
  BY <1>1, <1>2, <1>3
     DEF Next, HostStep, GateStep, Upgrade, Dispatch, Load, Prepare, OpenTab, Ask, PageAnswers, Commit,
         Answer, Abort, vars, gates

\* The other steps change at most what is prepared, by the running dispatch.
LEMMA OtherParts ==
  ASSUME IInv, [Next]_vars, Intact'
  PROVE  \/ UNCHANGED <<disk, committed>>
         \/ UpgradedOnly
         \/ \E c \in Calls : Commit(c) /\ ~(UNCHANGED <<disk, committed, performed>>)
         \/ /\ UNCHANGED <<global, context, committed, base, asks, performed>>
            /\ \E c \in Calls :
                 /\ pc[c] = "loaded" /\ pc'[c] = "prepared" /\ prepared' = prepared \cup {c}
                 /\ \A x \in Calls : x # c => pc'[x] = pc[x] /\ plan'[x] = plan[x]
         \/ /\ UNCHANGED <<global, context, committed, base, plan, asks, performed>>
            /\ \E c \in Calls :
                 /\ pc[c] = "failing" /\ c \in prepared /\ pc'[c] = "done" /\ prepared' = prepared \ {c}
                 /\ plan[c] \notin NON_REPLAYABLE_EFFECTS /\ Settle(c, "failed")
<1>1. ASSUME NEW c \in Calls, Prepare(c), ~(UNCHANGED <<disk, committed>>)
      PROVE  /\ UNCHANGED <<global, context, committed, base, asks, performed>>
             /\ pc[c] = "loaded" /\ pc'[c] = "prepared" /\ prepared' = prepared \cup {c}
             /\ \A x \in Calls : x # c => pc'[x] = pc[x] /\ plan'[x] = plan[x]
  <2>1. WithId(prepared, IdOf[c]) = {} /\ pc \in [Calls -> Pcs] /\ plan \in [Calls -> Effects]
    BY <1>1 DEF Prepare, IInv, RunInv, TypeOK
  <2> QED
    BY <1>1, <2>1 DEF Prepare, Move, disk
<1>2. ASSUME NEW c \in Calls, Abort(c), ~(UNCHANGED <<disk, committed>>)
      PROVE  /\ UNCHANGED <<global, context, committed, base, plan, asks, performed>>
             /\ pc[c] = "failing" /\ c \in prepared /\ pc'[c] = "done" /\ prepared' = prepared \ {c}
             /\ plan[c] \notin NON_REPLAYABLE_EFFECTS /\ Settle(c, "failed")
  <2>1. pc[c] = "failing" /\ c \in prepared
    BY <1>2 DEF Abort, IInv, RunInv, Attempted
  <2>2. WithId(prepared, IdOf[c]) = {c}
    BY <2>1 DEF IInv, DiskInv, WithId
  <2>3. Settle(c, "failed") /\ ~Retained(c) /\ prepared' = prepared \ {c}
    BY <1>2, <2>2 DEF Abort, disk
  <2>4. pc'[c] = "done"
    BY <2>1, <2>3, SettleQueue DEF IInv, Started, Answers
  <2> QED
    BY <1>2, <2>1, <2>3, <2>4 DEF Abort, Retained
<1>3. ASSUME (\E c \in Calls : Upgrade(c)) \/ (\E g \in Gates : GateWrites(g)),
             ~(UNCHANGED <<disk, committed>>)
      PROVE  UpgradedOnly
  BY <1>3, UpgradeParts DEF Upgrade, GateWrites, disk
<1>4. ASSUME NEW c \in Calls, Dispatch(c) \/ Load(c) \/ OpenTab(c) \/ Ask(c)
      PROVE  UNCHANGED <<disk, committed>>
  <2>1. CASE Dispatch(c)
    BY <2>1 DEF Dispatch
  <2>2. CASE Load(c)
    BY <2>2 DEF Load
  <2>3. CASE OpenTab(c)
    BY <2>3 DEF OpenTab
  <2>4. CASE Ask(c)
    BY <2>4 DEF Ask
  <2> QED
    BY <1>4, <2>1, <2>2, <2>3, <2>4
<1>5. ASSUME NEW c \in Calls, PageAnswers(c) \/ Answer(c)
      PROVE  UNCHANGED <<disk, committed>>
  <2>1. CASE PageAnswers(c)
    BY <2>1 DEF PageAnswers
  <2>2. CASE Answer(c)
    BY <2>2 DEF Answer
  <2> QED
    BY <1>5, <2>1, <2>2
<1>6. ASSUME NEW g \in Gates, GateReads(g)
      PROVE  UNCHANGED <<disk, committed>>
  BY <1>6 DEF GateReads
<1>7. ASSUME Stop \/ UNCHANGED vars
      PROVE  UNCHANGED <<disk, committed>>
  BY <1>7 DEF Stop, vars, disk
<1> SUFFICES ASSUME ~(UNCHANGED <<disk, committed>>)
             PROVE  \/ UpgradedOnly
                    \/ \E c \in Calls : Prepare(c) \/ Abort(c) \/ Commit(c)
  BY <1>1, <1>2
<1>8. (\E c \in Calls : Upgrade(c)) \/ (\E g \in Gates : GateWrites(g)) => UpgradedOnly
  BY <1>3
<1> QED
  BY <1>4, <1>5, <1>6, <1>7, <1>8 DEF Next, HostStep, GateStep

LEMMA DiskStep == IInv /\ [Next]_vars /\ Intact' => DiskInv'
<1> SUFFICES ASSUME IInv, [Next]_vars, Intact' PROVE DiskInv'
  OBVIOUS
<1>1. \A x \in Calls : Moved(x)
  BY QueueStep DEF IInv
<1>2. prepared \subseteq Calls
  BY DEF IInv, TypeOK
<1>3. \A x \in prepared : pc'[x] \in Attempted \cup {"committed", "done"}
  BY <1>1, <1>2 DEF IInv, DiskInv, Moved, Attempted
<1>4. CASE UNCHANGED <<disk, committed>>
  <2>1. \A x \in prepared : pc'[x] # "committed"
    <3>1. ASSUME NEW x \in prepared, pc'[x] = "committed" PROVE Commit(x) /\ pc[x] # "committed"
      <4>1. pc[x] \in Attempted
        BY <1>1, <1>2, <3>1 DEF Moved, IInv, DiskInv, Attempted
      <4> QED
        BY <1>1, <1>2, <3>1, <4>1 DEF Moved, Attempted
    <3>2. ASSUME NEW x \in prepared, Commit(x), pc'[x] = "committed" PROVE x \notin prepared'
      BY <1>2, <3>2 DEF Commit, Move, WithId, IInv, TypeOK
    <3> QED
      BY <1>4, <3>1, <3>2 DEF disk
  <2> QED
    BY <1>3, <1>4, <2>1 DEF IInv, DiskInv, disk, Receipts
<1>5. ASSUME NEW c \in Calls, Commit(c), ~(UNCHANGED <<disk, committed, performed>>)
      PROVE  DiskInv'
  <2>1. /\ Receipts(global') \subseteq Receipts(global) \cup {c}
        /\ \A d \in Receipts(global) : IdOf[d] # IdOf[c]
        /\ prepared' = prepared \ {c} /\ committed' = committed \cup {c} /\ c \in prepared
        /\ \A x \in Calls : x # c => pc'[x] = pc[x]
    BY <1>5, CommitParts
  <2> QED
    BY <1>2, <2>1 DEF IInv, DiskInv
<1>6. ASSUME NEW c \in Calls, UNCHANGED <<global, committed>>,
             pc[c] = "loaded", pc'[c] = "prepared", prepared' = prepared \cup {c},
             \A x \in Calls : x # c => pc'[x] = pc[x]
      PROVE  DiskInv'
  <2>1. WithId(prepared, IdOf[c]) = {} /\ WithId(Receipts(global), IdOf[c]) = {}
    BY <1>6 DEF IInv, RunInv
  <2>2. Receipts(global)' = Receipts(global)
    BY <1>6 DEF Receipts
  <2> QED
    BY <1>2, <1>6, <2>1, <2>2 DEF IInv, DiskInv, WithId, Attempted
<1>7. ASSUME NEW c \in Calls, UNCHANGED <<global, committed>>, prepared' = prepared \ {c},
             pc[c] = "failing", Settle(c, "failed")
      PROVE  DiskInv'
  <2>1. \A x \in Calls : pc'[x] = pc[x] \/ pc'[x] = "done"
    BY <1>7, SettleQueue DEF IInv, Started, Answers
  <2>2. Receipts(global)' = Receipts(global)
    BY <1>7 DEF Receipts
  <2> QED
    BY <1>2, <1>7, <2>1, <2>2 DEF IInv, DiskInv
<1>8. CASE UpgradedOnly
  BY <1>8 DEF UpgradedOnly, IInv, DiskInv, Receipts
<1> QED
  BY <1>4, <1>5, <1>6, <1>7, <1>8, OtherParts

LEMMA RunStep == IInv /\ [Next]_vars /\ Intact' => RunInv'
<1> SUFFICES ASSUME IInv, [Next]_vars, Intact' PROVE RunInv'
  OBVIOUS
<1>1. \A x \in Calls : Moved(x)
  BY QueueStep DEF IInv
<1>2. CASE UNCHANGED <<disk, committed>>
  <2>1. ASSUME NEW c \in Calls, Load(c), pc'[c] = "loaded" PROVE RunInv'
    <3>1. /\ WithId(Receipts(global), IdOf[c]) = {} /\ WithId(prepared, IdOf[c]) = {}
          /\ global.current
          /\ base' = [base EXCEPT ![c] = [global |-> global, context |-> context[ClientOf[c]]]]
          /\ Move(c, "loaded") /\ UNCHANGED disk
      BY <2>1 DEF Load, Turn, Settle, Attempts, AnsweredWith, IInv, TypeOK
    <3>2. base'[c] = [global |-> global, context |-> context[ClientOf[c]]] /\ pc'[c] = "loaded"
      BY <3>1 DEF Move, IInv, TypeOK
    <3>3. \A x \in Calls : x # c => pc'[x] \notin Started
      BY <2>1, <3>1, OneRuns DEF Load, Move, IInv, TypeOK
    <3>4. Receipts(global)' = Receipts(global)
      BY <3>1 DEF Receipts, disk
    <3> QED
      BY <3>1, <3>2, <3>3, <3>4 DEF RunInv, Attempted, Started, disk, WithId
  <2>2. CASE ~ \E c \in Calls : Load(c) /\ pc'[c] = "loaded"
    <3>1. ASSUME NEW x \in Calls, pc[x] = "queued" PROVE pc'[x] # "loaded"
      BY <1>1, <2>2, <3>1 DEF Moved, Attempted
    <3>2. ASSUME NEW x \in Calls, pc[x] = "loaded" PROVE pc'[x] # "prepared"
      <4>1. SUFFICES ASSUME pc'[x] = "prepared", Prepare(x) PROVE FALSE
        BY <1>1, <3>2 DEF Moved, Attempted
      <4>2. WithId(prepared, IdOf[x]) = {}
        BY <3>2 DEF IInv, RunInv
      <4>3. ~Settle(x, "refused")
        BY <4>1 DEF Settle, AnsweredWith
      <4> QED
        BY <1>2, <4>1, <4>2, <4>3 DEF Prepare, WithId, disk
    <3>3. \A x \in Calls : /\ pc'[x] \in Attempted => pc[x] \in Attempted
                           /\ pc'[x] = "loaded" => pc[x] = "loaded"
      BY <1>1, <3>1, <3>2 DEF Moved, Attempted
    <3>4. \A x \in Calls : pc'[x] \in Attempted \cup {"loaded"} => base'[x] = base[x]
      BY <2>2, BaseKept DEF IInv
    <3>5. Receipts(global)' = Receipts(global)
      BY <1>2 DEF Receipts, disk
    <3> QED
      BY <1>2, <3>3, <3>4, <3>5 DEF IInv, RunInv, disk, WithId
  <2> QED
    BY <2>1, <2>2
<1>3. ASSUME NEW c \in Calls, pc[c] \in Started,
             \A x \in Calls : pc'[x] # pc[x] => pc'[x] \in {"committed", "done"},
             pc'[c] \in {"committed", "done"}
      PROVE  RunInv'
  <2>1. \A x \in Calls : pc'[x] \notin Attempted \cup {"loaded"}
    BY <1>3, OneRuns DEF IInv, Attempted, Started
  <2> QED
    BY <2>1 DEF RunInv
<1>4. ASSUME NEW c \in Calls, Commit(c), ~(UNCHANGED <<disk, committed, performed>>)
      PROVE  RunInv'
  BY <1>3, <1>4, CommitParts DEF Attempted, Started
<1>5. ASSUME NEW c \in Calls, UNCHANGED <<global, context, base>>,
             pc[c] = "loaded", pc'[c] = "prepared", prepared' = prepared \cup {c},
             \A x \in Calls : x # c => pc'[x] = pc[x]
      PROVE  RunInv'
  <2>1. \A x \in Calls : x # c => pc'[x] \notin Started
    BY <1>5, OneRuns DEF IInv, Started
  <2>2. Receipts(global)' = Receipts(global)
    BY <1>5 DEF Receipts
  <2> QED
    BY <1>5, <2>1, <2>2 DEF IInv, RunInv, Attempted, Started, WithId
<1>6. ASSUME NEW c \in Calls, pc[c] = "failing", Settle(c, "failed")
      PROVE  RunInv'
  <2>1. pc'[c] = "done" /\ \A x \in Calls : pc'[x] # pc[x] => pc'[x] = "done"
    BY <1>6, SettleQueue DEF IInv, Started, Answers
  <2> QED
    BY <1>3, <1>6, <2>1 DEF Started
<1>7. CASE UpgradedOnly
  <2>1. \A x \in Calls : pc[x] \notin Attempted \cup {"loaded"}
    BY <1>7 DEF UpgradedOnly, IInv, RunInv
  <2> QED
    BY <1>7, <2>1 DEF UpgradedOnly, RunInv
<1> QED
  BY <1>2, <1>4, <1>5, <1>6, <1>7, OtherParts
-----------------------------------------------------------------------------
(* Effects.                                                                 *)

\* Only an effect that is in progress, of a prepared dispatch, is added.
LEMMA NewlyPerformed ==
  ASSUME IInv, [Next]_vars, NEW x \in performed', x \notin performed
  PROVE  x \in prepared /\ plan[x] \in NON_REPLAYABLE_EFFECTS /\ UNCHANGED <<disk, plan>>
<1>1. ASSUME NEW c \in Calls, OpenTab(c) PROVE x = c /\ pc[c] \in Attempted /\ plan[c] = "tab"
  BY <1>1 DEF OpenTab, Attempted
<1>2. ASSUME NEW c \in Calls, PageAnswers(c) PROVE x = c /\ plan[c] = "export" /\ c \in asks
  BY <1>2 DEF PageAnswers
<1>3. \E c \in Calls : OpenTab(c) \/ PageAnswers(c)
  BY DEF Next, HostStep, Dispatch, Load, Prepare, Ask, Commit, Answer, Abort, Stop, Upgrade, GateStep, GateReads, GateWrites, vars
<1>4. x \in prepared
  BY <1>1, <1>2, <1>3 DEF IInv, RunInv, EffectInv
<1>5. UNCHANGED <<disk, plan>>
  BY <1>3 DEF OpenTab, PageAnswers, worker
<1> QED
  BY <1>1, <1>2, <1>3, <1>4, <1>5 DEF NON_REPLAYABLE_EFFECTS

LEMMA EffectStep == IInv /\ [Next]_vars /\ Intact' => EffectInv'
<1> SUFFICES ASSUME IInv, [Next]_vars, Intact' PROVE EffectInv'
  OBVIOUS
<1>1. \A x \in Calls : Moved(x)
  BY QueueStep DEF IInv
<1>2. performed \subseteq Calls /\ asks \subseteq Calls /\ prepared \subseteq Calls
  BY DEF IInv, TypeOK
<1>3. performed' \subseteq Calls /\ asks' \subseteq Calls
  BY TypeStep DEF IInv, TypeOK
\* The record of an effect stays.
<1>4. ASSUME NEW x \in performed'
      PROVE  x \in prepared' \/ x \in Receipts(global')
  <2>1. CASE x \notin performed
    BY <2>1, NewlyPerformed DEF disk
  <2>2. CASE x \in performed
    <3>1. x \in prepared \/ x \in Receipts(global)
      BY <2>2 DEF IInv, EffectInv
    <3>2. CASE UNCHANGED <<disk, committed>>
      BY <3>1, <3>2 DEF disk
    <3>3. ASSUME NEW c \in Calls, Commit(c), ~(UNCHANGED <<disk, committed, performed>>)
          PROVE  x \in prepared' \/ x \in Receipts(global')
      BY <3>1, <3>3, CommitParts
    <3>4. ASSUME NEW c \in Calls, UNCHANGED global, prepared' = prepared \cup {c}
          PROVE  x \in prepared' \/ x \in Receipts(global')
      BY <3>1, <3>4
    <3>5. ASSUME NEW c \in Calls, UNCHANGED global, prepared' = prepared \ {c},
                 plan[c] \notin NON_REPLAYABLE_EFFECTS
          PROVE  x \in prepared' \/ x \in Receipts(global')
      BY <2>2, <3>1, <3>5 DEF IInv, EffectInv
    <3>6. CASE UpgradedOnly
      BY <3>1, <3>6 DEF UpgradedOnly, Receipts
    <3> QED
      BY <3>2, <3>3, <3>4, <3>5, <3>6, OtherParts
  <2> QED
    BY <2>1, <2>2
\* A plan is made once.
<1>5. ASSUME NEW c \in Calls, Prepare(c), ~(UNCHANGED plan)
      PROVE  /\ c \notin prepared /\ c \notin Receipts(global)
             /\ \A x \in Calls : x # c => plan'[x] = plan[x]
  <2>1. WithId(prepared, IdOf[c]) = {} /\ WithId(Receipts(global), IdOf[c]) = {}
    BY <1>5 DEF Prepare, IInv, RunInv
  <2> QED
    BY <1>5, <2>1 DEF Prepare, WithId, IInv, TypeOK
<1>6. ASSUME NEW x \in Calls, x \in prepared \/ x \in Receipts(global)
      PROVE  plan'[x] = plan[x]
  <2>1. CASE UNCHANGED plan
    BY <2>1
  <2>2. CASE ~(UNCHANGED plan)
    <3>1. \E c \in Calls : Prepare(c)
      BY <2>2 DEF Next, HostStep, GateStep, Upgrade, GateReads, GateWrites, Dispatch, Load, OpenTab,
                 Ask, PageAnswers, Commit, Answer, Abort,
                 Stop, vars, worker
    <3> QED
      BY <1>5, <1>6, <2>2, <3>1
  <2> QED
    BY <2>1, <2>2
<1>7. ASSUME NEW x \in performed'
      PROVE  plan'[x] \in NON_REPLAYABLE_EFFECTS
  <2>1. CASE x \notin performed
    BY <2>1, NewlyPerformed
  <2>2. CASE x \in performed
    BY <1>2, <1>6, <2>2 DEF IInv, EffectInv
  <2> QED
    BY <2>1, <2>2
\* What a page was asked stays prepared while the page may still do it.
<1>8. ASSUME NEW x \in asks' PROVE x \in prepared' /\ pc'[x] \in {"asked", "done"}
  <2>1. ASSUME x \notin asks PROVE x \in prepared /\ pc'[x] = "asked" /\ UNCHANGED disk
    <3>1. Ask(x)
      BY <1>8, <2>1 DEF Next, HostStep, Dispatch, Load, Prepare, OpenTab, Ask, PageAnswers, Commit,
                       Answer, Abort, Stop, Upgrade, GateStep, GateReads, GateWrites, vars, worker
    <3> QED
      BY <1>3, <1>8, <3>1 DEF Ask, Move, IInv, RunInv, Attempted, TypeOK
  <2>2. ASSUME x \in asks PROVE x \in prepared /\ pc[x] \in {"asked", "done"} /\ pc'[x] \in {"asked", "done"}
    <3>1. x \in prepared /\ pc[x] \in {"asked", "done"}
      BY <2>2 DEF IInv, EffectInv
    <3>2. pc'[x] # pc[x] => pc'[x] \in {"asked", "done"}
      <4>1. ASSUME NEW c \in Calls, OpenTab(c) \/ Commit(c) PROVE pc'[x] = pc[x]
        BY <1>2, <2>2, <3>1, <4>1 DEF OpenTab, Commit, Move, IInv, TypeOK
      <4>2. ASSUME NEW c \in Calls, PageAnswers(c) PROVE pc'[x] = pc[x]
        BY <1>2, <1>8, <2>2, <4>2 DEF PageAnswers, Move, IInv, TypeOK
      <4>3. ASSUME NEW c \in Calls, Ask(c) PROVE pc'[x] = pc[x]
        BY <1>2, <2>2, <3>1, <4>3 DEF Ask, Move, IInv, TypeOK
      <4>4. ASSUME NEW c \in Calls, Dispatch(c) \/ Load(c) \/ Prepare(c) \/ Answer(c) \/ Abort(c),
                   pc'[x] # pc[x]
            PROVE  pc'[x] = "done"
        BY <1>2, <2>2, <3>1, <4>4
           DEF Dispatch, Load, Turn, Prepare, Answer, Abort, Settle, Move, IInv, TypeOK
      <4>5. ASSUME Stop PROVE pc'[x] \in {"done", pc[x]}
        BY <1>2, <2>2, <4>5 DEF Stop
      <4> QED
        BY <4>1, <4>2, <4>3, <4>4, <4>5
           DEF Next, HostStep, GateStep, Upgrade, GateReads, GateWrites, vars
    <3> QED
      BY <3>1, <3>2
  <2>3. ASSUME x \in asks PROVE x \in prepared'
    <3>1. CASE UNCHANGED <<disk, committed>>
      BY <2>2, <2>3, <3>1 DEF disk
    <3>2. ASSUME NEW c \in Calls, Commit(c), ~(UNCHANGED <<disk, committed, performed>>)
          PROVE  x \in prepared'
      <4>1. prepared' = prepared \ {c} /\ pc[c] \in {"prepared", "effected"}
        BY <3>2, CommitParts DEF Commit
      <4> QED
        BY <2>2, <2>3, <4>1
    <3>5. CASE UpgradedOnly
      BY <2>2, <2>3, <3>5 DEF UpgradedOnly
    <3>3. ASSUME NEW c \in Calls, prepared' = prepared \cup {c} PROVE x \in prepared'
      BY <2>2, <2>3, <3>3
    <3>4. ASSUME NEW c \in Calls, prepared' = prepared \ {c}, pc[c] = "failing" PROVE x \in prepared'
      BY <2>2, <2>3, <3>4
    <3> QED
      BY <3>1, <3>2, <3>3, <3>4, <3>5, OtherParts
  <2> QED
    BY <2>1, <2>2, <2>3 DEF disk
<1> QED
  BY <1>4, <1>7, <1>8 DEF EffectInv
-----------------------------------------------------------------------------
(* Commits and answers.                                                     *)

LEMMA CommitStep == IInv /\ [Next]_vars /\ Intact' => CommitInv'
<1> SUFFICES ASSUME IInv, [Next]_vars, Intact' PROVE CommitInv'
  OBVIOUS
<1>1. \A x \in Calls : Moved(x)
  BY QueueStep DEF IInv
<1>2. committed \subseteq Calls /\ context \in [Clients -> ContextRecords]
  BY DEF IInv, TypeOK
<1>3. CASE UNCHANGED <<global, context, committed>>
  <2>1. \A x \in committed : pc'[x] \in {"committed", "done"}
    BY <1>1, <1>2 DEF Moved, IInv, CommitInv, Attempted
  <2>2. ASSUME NEW x \in Calls, pc'[x] = "committed" PROVE x \in committed
    <3>1. CASE pc[x] = "committed"
      BY <3>1 DEF IInv, CommitInv
    <3>2. CASE pc[x] # "committed"
      <4>1. Commit(x)
        BY <1>1, <2>2, <3>2 DEF Moved, Attempted
      <4> QED
        BY <1>3, <2>2, <4>1 DEF Commit, Move, IInv, TypeOK
    <3> QED
      BY <3>1, <3>2
  <2> QED
    BY <1>3, <2>1, <2>2 DEF IInv, CommitInv, CommitsKept
<1>4. ASSUME NEW c \in Calls, Commit(c), ~(UNCHANGED <<disk, committed, performed>>)
      PROVE  CommitInv'
  <2> DEFINE change == IF ContentOf[c] \in Changes THEN {c} ELSE {}
             k == context[ClientOf[c]]
  <2>1. /\ pc[c] \in Attempted /\ pc'[c] = "committed"
        /\ \A x \in Calls : x # c => pc'[x] = pc[x] /\ pc[x] \notin Started
        /\ global'.state = global.state \cup change
        /\ global'.rev = global.rev + Cardinality(change) /\ global'.current = global.current
        /\ context' = [context EXCEPT ![ClientOf[c]] = [rev |-> k.rev + 1, state |-> k.state \cup {c}]]
        /\ committed' = committed \cup {c}
    BY <1>4, CommitParts
  <2>2. c \notin committed
    BY <2>1 DEF IInv, CommitInv, Attempted
  <2>3. IsFiniteSet(committed')
    BY <2>1, FS_AddElement DEF IInv, CommitInv
  <2>4. \A x \in committed' : pc'[x] \in {"committed", "done"}
    BY <1>2, <2>1 DEF IInv, CommitInv
  <2>5. \A x \in Calls : pc'[x] = "committed" => x \in committed'
    BY <2>1 DEF IInv, CommitInv
  <2>6. global'.state = {x \in committed' : ContentOf[x] \in Changes}
    BY <2>1 DEF IInv, CommitInv, CommitsKept
  <2>7. ASSUME NEW p \in Clients PROVE context'[p].state = {x \in committed' : ClientOf[x] = p}
    BY <1>2, <2>1 DEF IInv, CommitInv, CommitsKept
  <2>8. global'.rev = Cardinality(global'.state) + (IF global'.current THEN 1 ELSE 0)
    <3>1. /\ IsFiniteSet(global.state) /\ c \notin global.state
          /\ global.rev = Cardinality(global.state) + (IF global.current THEN 1 ELSE 0)
          /\ Cardinality(global.state) \in Nat
      <4>1. global.state \subseteq committed /\ IsFiniteSet(committed)
        BY DEF IInv, CommitInv, CommitsKept
      <4> QED
        BY <2>2, <4>1, FS_Subset, FS_CardinalityType DEF IInv, CommitInv, CommitsKept
    <3>2. CASE ContentOf[c] \in Changes
      <4>1. Cardinality({c}) = 1 /\ Cardinality(global.state \cup {c}) = Cardinality(global.state) + 1
        BY <3>1, FS_AddElement, FS_Singleton
      <4> QED
        BY <2>1, <3>1, <3>2, <4>1
    <3>3. CASE ContentOf[c] \notin Changes
      BY <2>1, <3>1, <3>3, FS_EmptySet
    <3> QED
      BY <3>2, <3>3
  <2>9. ASSUME NEW p \in Clients PROVE context'[p].rev = Cardinality(context'[p].state)
    <3>1. CASE p # ClientOf[c]
      BY <1>2, <2>1, <3>1 DEF IInv, CommitInv, CommitsKept
    <3>2. CASE p = ClientOf[c]
      <4>1. k.state \subseteq committed /\ IsFiniteSet(committed) /\ k.rev = Cardinality(k.state)
        BY <3>2 DEF IInv, CommitInv, CommitsKept
      <4>2. Cardinality(k.state \cup {c}) = Cardinality(k.state) + 1
        BY <2>2, <4>1, FS_Subset, FS_AddElement
      <4> QED
        BY <1>2, <2>1, <3>2, <4>1, <4>2
    <3> QED
      BY <3>1, <3>2
  <2> QED
    BY <2>3, <2>4, <2>5, <2>6, <2>7, <2>8, <2>9 DEF CommitInv, CommitsKept
<1>5. CASE UpgradedOnly
  <2>1. global.rev = Cardinality(global.state)
    <3>1. global.state \subseteq committed /\ IsFiniteSet(committed)
      BY DEF IInv, CommitInv, CommitsKept
    <3>2. Cardinality(global.state) \in Nat
      BY <3>1, FS_Subset, FS_CardinalityType
    <3>3. global.rev = Cardinality(global.state) + (IF global.current THEN 1 ELSE 0)
      BY DEF IInv, CommitInv, CommitsKept
    <3>4. ~global.current
      BY <1>5 DEF UpgradedOnly
    <3> QED
      BY <3>2, <3>3, <3>4
  <2>2. CommitsKept'
    <3>1. /\ global'.state = {c \in committed' : ContentOf[c] \in Changes}
          /\ \A p \in Clients : context'[p].state = {c \in committed' : ClientOf[c] = p}
          /\ \A p \in Clients : context'[p].rev = Cardinality(context'[p].state)
      BY <1>5 DEF UpgradedOnly, IInv, CommitInv, CommitsKept
    <3>2. global'.rev = Cardinality(global'.state) + 1 /\ global'.current
      BY <1>5, <2>1 DEF UpgradedOnly
    <3> QED
      BY <3>1, <3>2 DEF CommitsKept
  <2>3. IsFiniteSet(committed') /\ \A c \in committed' : pc'[c] \in {"committed", "done"}
    BY <1>5 DEF UpgradedOnly, IInv, CommitInv
  <2>4. \A c \in Calls : pc'[c] = "committed" => c \in committed'
    BY <1>5 DEF UpgradedOnly, IInv, CommitInv
  <2> QED
    BY <2>2, <2>3, <2>4 DEF CommitInv
<1> QED
  BY <1>3, <1>4, <1>5, OtherParts DEF disk

\* An answer is given once, to the dispatches of one promise.
LEMMA Settled ==
  ASSUME IInv, [Next]_vars, NEW x \in Calls, answer'[x] # answer[x]
  PROVE  /\ answer[x] = "none" /\ pc'[x] = "done" /\ leader' = leader
         /\ \/ answer'[x] = "lost"
            \/ \E c \in Calls : /\ Load(c) \/ Prepare(c) \/ Answer(c) \/ Abort(c)
                                /\ leader[x] = c /\ pc'[c] = "done" /\ Settle(c, answer'[x])
<1>1. CASE Stop
  BY <1>1 DEF Stop, Running, IInv, AnswerInv, TypeOK
<1>2. ASSUME NEW c \in Calls, NEW a \in Answers, Settle(c, a), UNCHANGED leader,
             pc[c] \notin {"joined", "done", "unsent"}
      PROVE  /\ answer[x] = "none" /\ pc'[x] = "done" /\ leader' = leader
             /\ leader[x] = c /\ pc'[c] = "done" /\ Settle(c, answer'[x])
  <2>1. x \in AnsweredWith(c) /\ answer'[x] = a
    BY <1>2 DEF Settle
  <2>2. leader[x] = c /\ answer[x] = "none"
    BY <1>2, <2>1 DEF AnsweredWith, IInv, AnswerInv
  <2>3. pc'[x] = "done" /\ pc'[c] = "done"
    BY <1>2, <2>1 DEF Settle, AnsweredWith
  <2> QED
    BY <1>2, <2>1, <2>2, <2>3
<1>3. ASSUME NEW c \in Calls, Load(c)
      PROVE  UNCHANGED leader /\ pc[c] = "queued" /\ \E a \in Answers : Settle(c, a)
  BY <1>3 DEF Load, Turn, Answers
<1>4. ASSUME NEW c \in Calls, Prepare(c) \/ Answer(c) \/ Abort(c)
      PROVE  /\ UNCHANGED leader /\ pc[c] \in {"loaded", "committed", "failing"}
             /\ \E a \in Answers : Settle(c, a)
  BY <1>4 DEF Prepare, Answer, Abort, Answers
<1> QED
  BY <1>1, <1>2, <1>3, <1>4
     DEF Next, HostStep, GateStep, Upgrade, GateReads, GateWrites, Dispatch, OpenTab, Ask, PageAnswers,
         Commit, vars

LEMMA AnswerStep == IInv /\ [Next]_vars /\ Intact' => AnswerInv'
<1> SUFFICES ASSUME IInv, [Next]_vars, Intact' PROVE AnswerInv'
  OBVIOUS
<1>1. \A x \in Calls : Moved(x)
  BY QueueStep DEF IInv
<1>2. /\ inflight \in [Ids -> Calls \cup {Nil}] /\ leader \in [Calls -> Calls] /\ IdOf \in [Calls -> Ids]
      /\ prepared \subseteq Calls /\ Nil \notin Calls
  BY KernelAssumption DEF IInv, TypeOK
<1>3. ASSUME ~(UNCHANGED leader)
      PROVE  \E c \in Calls : /\ Dispatch(c) /\ pc'[c] = "joined" /\ pc[c] = "unsent"
                              /\ leader' = [leader EXCEPT ![c] = inflight[IdOf[c]]]
                              /\ inflight[IdOf[c]] # Nil
  BY <1>3 DEF Next, HostStep, Dispatch, Move, Load, Prepare, OpenTab, Ask, PageAnswers, Commit, Answer,
              Abort, Stop, Upgrade, GateStep, GateReads, GateWrites, vars, worker, IInv, TypeOK
<1> DEFINE Keyed == \A i \in Ids : inflight'[i] # Nil => IdOf[inflight'[i]] = i
<1>4. Keyed
  <2>1. ASSUME NEW c \in Calls, NEW a, Settle(c, a) PROVE Keyed
    BY <1>2, <2>1 DEF Settle, IInv, AnswerInv
  <2>2. ASSUME NEW c \in Calls, Dispatch(c) PROVE Keyed
    BY <1>2, <2>2 DEF Dispatch, IInv, AnswerInv
  <2>3. CASE Stop
    BY <2>3 DEF Stop
  <2>4. CASE UNCHANGED inflight
    BY <2>4 DEF IInv, AnswerInv
  <2> QED
    BY <2>1, <2>2, <2>3, <2>4
       DEF Next, HostStep, GateStep, Upgrade, GateReads, GateWrites, Load, Prepare, OpenTab, Ask,
           PageAnswers, Commit, Answer, Abort, vars, worker
<1>5. \A x \in Calls : IdOf[leader'[x]] = IdOf[x]
  BY <1>2, <1>3 DEF IInv, AnswerInv
<1>6. \A x \in Calls : pc'[x] \notin {"joined", "done"} => leader'[x] = x
  BY <1>1, <1>2, <1>3 DEF Moved, IInv, AnswerInv, Attempted
<1>7. \A x \in Calls : answer'[x] # "none" => pc'[x] = "done"
  BY <1>1, Settled DEF Moved, IInv, AnswerInv, Attempted
<1>8. AnswerIsDurable'
  <2> SUFFICES ASSUME NEW x \in Calls, answer'[x] \in {"ok", "replayed"}
               PROVE  \E y \in committed' : IdOf[y] = IdOf[leader'[x]] /\ ContentOf[y] = ContentOf[leader'[x]]
    BY DEF AnswerIsDurable
  <2>1. committed \subseteq committed'
    BY CommitParts, OtherParts DEF disk, UpgradedOnly
  <2>2. CASE answer'[x] = answer[x]
    <3>1. leader'[x] = leader[x]
      <4>1. pc[x] = "done"
        BY <2>2 DEF IInv, AnswerInv
      <4> QED
        BY <1>2, <1>3, <4>1
    <3> QED
      BY <2>1, <2>2, <3>1 DEF IInv, AnswerInv, AnswerIsDurable
  <2>3. CASE answer'[x] # answer[x]
    <3>1. PICK c \in Calls : /\ Load(c) \/ Prepare(c) \/ Answer(c) \/ Abort(c)
                             /\ leader[x] = c /\ Settle(c, answer'[x])
      BY <2>3, Settled
    <3>2. leader' = leader /\ answer'[x] # "none"
      BY <2>3, Settled
    <3>3. answer'[c] = answer'[x]
      BY <3>1 DEF Settle, AnsweredWith
    <3>4. ASSUME Load(c)
          PROVE  \E y \in Receipts(global) : IdOf[y] = IdOf[c] /\ ContentOf[y] = ContentOf[c]
      <4>1. ASSUME NEW a, Settle(c, a) PROVE a = answer'[c]
        BY <4>1 DEF Settle, AnsweredWith
      <4>2. answer[c] = "none"
        BY <3>4 DEF Load, Turn, IInv, AnswerInv
      <4> QED
        BY <3>3, <3>4, <4>1, <4>2 DEF Load, WithId, SameContent
    <3>5. ASSUME Prepare(c) \/ Abort(c) PROVE FALSE
      <4>1. ASSUME NEW a, Settle(c, a) PROVE a = answer'[c]
        BY <4>1 DEF Settle, AnsweredWith
      <4>2. answer[c] = "none"
        BY <3>5 DEF Prepare, Abort, IInv, AnswerInv
      <4> QED
        BY <3>3, <3>5, <4>1, <4>2 DEF Prepare, Abort
    <3>6. ASSUME Answer(c) PROVE c \in committed
      BY <3>6 DEF Answer, IInv, CommitInv
    <3> QED
      BY <2>1, <3>1, <3>2, <3>4, <3>5, <3>6 DEF IInv, DiskInv
  <2> QED
    BY <2>2, <2>3
<1>9. ASSUME NEW y \in prepared, pc[y] = "done" PROVE y \in prepared' /\ pc'[y] = "done"
  <2>1. pc'[y] = "done"
    BY <1>1, <1>2, <1>9 DEF Moved, Attempted
  <2>2. y \in prepared'
    <3>1. ASSUME NEW c \in Calls, Commit(c), ~(UNCHANGED <<disk, committed, performed>>)
          PROVE  y \in prepared'
      BY <1>9, <3>1, CommitParts DEF Attempted
    <3> QED
      BY <1>9, <3>1, OtherParts DEF disk, UpgradedOnly
  <2> QED
    BY <2>1, <2>2
<1>10. ASSUME NEW x \in Calls, answer'[x] = "unknown"
       PROVE  \E y \in prepared' : IdOf[y] = IdOf[x] /\ pc'[y] = "done"
  <2>1. CASE answer'[x] = answer[x]
    BY <1>9, <1>10, <2>1 DEF IInv, AnswerInv
  <2>2. CASE answer'[x] # answer[x]
    <3>1. PICK c \in Calls : /\ Load(c) \/ Prepare(c) \/ Answer(c) \/ Abort(c)
                             /\ leader[x] = c /\ pc'[c] = "done" /\ Settle(c, "unknown")
      BY <1>10, <2>2, Settled
    <3>2. IdOf[x] = IdOf[c]
      BY <3>1 DEF IInv, AnswerInv
    <3>3. ASSUME NEW a, Settle(c, a) PROVE a = "unknown"
      BY <3>1, <3>3 DEF Settle, AnsweredWith
    <3>4. ASSUME Load(c) PROVE \E y \in prepared : IdOf[y] = IdOf[c] /\ pc[y] = "done"
      <4>1. answer[c] = "none" /\ answer'[c] = "unknown"
        BY <3>1, <3>4 DEF Load, Turn, Settle, AnsweredWith, IInv, AnswerInv
      <4>2. PICK y \in prepared : IdOf[y] = IdOf[c]
        BY <3>3, <3>4, <4>1 DEF Load, Attempts, WithId
      <4>3. pc[y] \notin Started
        BY <1>2, <3>4, OneRuns DEF Load, Turn, IInv, Started
      <4> QED
        BY <4>2, <4>3 DEF IInv, DiskInv, Attempted, Started
    <3>5. ASSUME Abort(c) PROVE c \in prepared'
      BY <3>3, <3>5 DEF Abort, IInv, RunInv, Attempted
    <3>6. ASSUME Prepare(c) \/ Answer(c) PROVE FALSE
      <4>1. answer[c] = "none" /\ answer'[c] = "unknown"
        BY <3>1, <3>6 DEF Prepare, Answer, Settle, AnsweredWith, IInv, AnswerInv
      <4> QED
        BY <3>3, <3>6, <4>1 DEF Prepare, Answer
    <3> QED
      BY <1>2, <1>9, <3>1, <3>2, <3>4, <3>5, <3>6
  <2> QED
    BY <2>1, <2>2
<1> QED
  BY <1>4, <1>5, <1>6, <1>7, <1>8, <1>10 DEF AnswerInv
-----------------------------------------------------------------------------
(* The theorems.                                                            *)

LEMMA InductiveInit == Init => HostInv
<1> SUFFICES ASSUME Init PROVE IInv
  BY DEF HostInv, IInv
<1>1. TypeOK /\ GateInv /\ Intact
  BY TypeInit DEF Init, GateInv, Intact
<1>2. Receipts(global) = {} /\ global.state = {} /\ global.rev = 0 /\ ~global.current
  BY DEF Init, NewGlobal, Receipts
<1>3. \A p \in Clients : context[p].state = {} /\ context[p].rev = 0
  BY DEF Init, NewContext
<1>4. QueueInv /\ DiskInv /\ RunInv /\ EffectInv
  BY <1>2 DEF Init, QueueInv, DiskInv, RunInv, EffectInv, Started, Attempted
<1>5. CommitInv
  <2>1. committed = {} /\ IsFiniteSet({}) /\ Cardinality({}) = 0
    BY FS_EmptySet DEF Init
  <2>2. \A c \in Calls : pc[c] = "unsent"
    BY DEF Init
  <2>3. CommitsKept
    <3>1. global.rev = Cardinality(global.state) + (IF global.current THEN 1 ELSE 0)
      BY <1>2, <2>1
    <3>2. \A p \in Clients : /\ context[p].rev = Cardinality(context[p].state)
                            /\ context[p].state = {c \in committed : ClientOf[c] = p}
      BY <1>3, <2>1
    <3>3. global.state = {c \in committed : ContentOf[c] \in Changes}
      BY <1>2, <2>1
    <3> QED
      BY <3>1, <3>2, <3>3 DEF CommitsKept
  <2> QED
    BY <2>1, <2>2, <2>3 DEF CommitInv
<1>6. AnswerInv
  BY DEF Init, AnswerInv, AnswerIsDurable
<1> QED
  BY <1>1, <1>4, <1>5, <1>6 DEF IInv

LEMMA InductiveStep == HostInv /\ [Next]_vars => HostInv'
<1> SUFFICES ASSUME HostInv, [Next]_vars PROVE HostInv'
  OBVIOUS
<1>1. TypeOK' /\ QueueInv' /\ GateInv'
  BY TypeStep, QueueStep, GateStepInv DEF HostInv
<1>2. Intact' => Intact
  BY DEF Intact, Next, HostStep, GateStep, Upgrade, GateReads, GateWrites, Dispatch, Load, Prepare,
         OpenTab, Ask, PageAnswers, Commit, Answer, Abort, Stop, vars, gates
<1>3. Intact' => IInv'
  BY <1>1, <1>2, DiskStep, RunStep, EffectStep, CommitStep, AnswerStep DEF HostInv, IInv
<1> QED
  BY <1>1, <1>3 DEF HostInv

\* The inductive invariant of the kernel host: one dispatch runs, and until a gate has
\* overwritten a commit it runs on current records and what happened is on record.
THEOREM HostInvariant == Spec => []HostInv
BY InductiveInit, InductiveStep, PTL DEF Spec

\* Type correctness, with at most MAX_RECEIPTS receipts in the profile record
\* (kernel-host.js:920).
THEOREM TypeCorrect == Spec => []TypeOK
<1>1. HostInv => TypeOK
  BY DEF HostInv
<1> QED
  BY <1>1, HostInvariant, PTL

\* A tab is not opened and an export is not made twice for one id, while its receipt is
\* kept (runDispatch's look-ups, prepareRequest and the catch block).
THEOREM EffectsOnce == Spec => []EffectOnce
<1>1. HostInv => EffectOnce
  <2> SUFFICES ASSUME IInv, NEW c \in performed, NEW d \in performed, IdOf[c] = IdOf[d]
               PROVE  c = d
    BY DEF EffectOnce, HostInv
  <2>1. /\ c \in prepared \/ c \in Receipts(global)
        /\ d \in prepared \/ d \in Receipts(global)
    BY DEF IInv, EffectInv
  <2> QED
    BY <2>1 DEF IInv, DiskInv
<1> QED
  BY <1>1, HostInvariant, PTL

\* The records hold exactly what was committed, and revisions count it (enqueue, and the
\* records that runDispatch writes back).
THEOREM NothingLost == Spec => []CommitsKept
<1>1. HostInv => CommitsKept
  BY DEF HostInv, IInv, CommitInv, CommitsKept
<1> QED
  BY <1>1, HostInvariant, PTL

\* An answer with a snapshot stands for a committed request of the id and content of the
\* promise that gave it (the receipt look-up and the commit before the answer).
THEOREM AnswersDurable == Spec => []AnswerIsDurable
<1>1. HostInv => AnswerIsDurable
  BY DEF HostInv, IInv, AnswerInv, AnswerIsDurable
<1> QED
  BY <1>1, HostInvariant, PTL

\* An id that was answered outcome-unknown stays prepared and is never receipted (the
\* catch block, and the look-up of prepared requests).
THEOREM UnknownKept == Spec => []UnknownStays
<1>1. HostInv => UnknownStays
  <2> SUFFICES ASSUME IInv, NEW c \in Calls, answer[c] = "unknown"
               PROVE  WithId(prepared, IdOf[c]) # {} /\ WithId(Receipts(global), IdOf[c]) = {}
    BY DEF UnknownStays, HostInv
  <2>1. PICK x \in prepared : IdOf[x] = IdOf[c]
    BY DEF IInv, AnswerInv
  <2> QED
    BY <2>1 DEF IInv, DiskInv, WithId
<1> QED
  BY <1>1, HostInvariant, PTL

-----------------------------------------------------------------------------
(* The AI service.                                                          *)

\* The tab t still has the observation x somewhere: on its page, in a request on its
\* way, in a stored session, or in what a handler has read.
Held(t, x) ==
  \/ page[t].cand = x
  \/ \E e \in Slots : arg[e] \in PageRequests /\ arg[e].tab = t /\ arg[e].ans = x
  \/ \E s \in Sessions : store[s] # None /\ store[s].tab = t /\ store[s].cand = x
  \/ \E p \in Procs, s \in Sessions :
       snapshot[p][s] # None /\ snapshot[p][s].tab = t /\ snapshot[p][s].cand = x

\* No turn is observed before it is shown; each is observed under one session
\* only, and the last one, if it is new, under no other than the one on the card.
TurnsInv ==
  \A t \in Tabs : \A x \in Observations : Held(t, x) =>
    /\ x.turn <= turns[t]
    /\ \A y \in Observations : Held(t, y) /\ y.turn = x.turn => y.of = x.of
    /\ page[t].sid # None /\ page[t].base < turns[t] /\ x.turn = turns[t] => x.of = page[t].sid

\* A session has candidates and an output of its own.
GoodRec(s, r) ==
  /\ r \in SessionRecords /\ ValidSession(r)
  /\ r.cand # None => r.cand.of = s
  /\ r.out # None => r.out.of = s
RecordInv ==
  /\ \A s \in Sessions : store[s] # None => GoodRec(s, store[s])
  /\ \A p \in Procs, s \in Sessions : snapshot[p][s] # None => GoodRec(s, snapshot[p][s])

\* A page reports what it has observed; it returns what was once a candidate.
GoodRequest(m) ==
  /\ m.op # "hello" => m.sid \in Sessions
  /\ m.op = "ready" => m.ans \in Observations /\ m.ans.of = m.sid
  /\ m.op = "returned" => m.ans \in Observations
RequestInv ==
  \A e \in Slots : /\ arg[e] \in PageRequests => GoodRequest(arg[e])
                   /\ at[e] # "idle" => arg[e] \in PageRequests

\* What a handler keeps: a page request, the call to cancel, or, of a call, what it
\* needs between its reads and its writes.
Args == PageRequests \cup Callers \cup {None} \cup [expires : Nat]
          \cup [expires : Nat, tab : Tabs] \cup [tab : Tabs, sid : Sessions]
CallHas(a, v) ==
  /\ a = "looked" => v \in [expires : Nat]
  /\ a = "picked" => v \in [expires : Nat, tab : Tabs]
  /\ a = "staging" => v \in [tab : Tabs, sid : Sessions]
CallInv == arg \in [Procs -> Args] /\ \A c \in Callers : CallHas(at[c], arg[c])

ServiceInv == ServiceTypeOK /\ TurnsInv /\ RecordInv /\ RequestInv /\ CallInv

-----------------------------------------------------------------------------
(* What a step may write: observations that the tab has already.            *)

Known(t, x) == x = None \/ (x \in Observations /\ Held(t, x))
RecordOk(s, r) == r = None \/ (GoodRec(s, r) /\ Known(r.tab, r.cand))
RequestOk(m) == m \in PageRequests => GoodRequest(m) /\ Known(m.tab, m.ans)
AdapterOk(t, q) ==
  /\ q \in Adapters /\ Known(t, q.cand)
  /\ q.sid = None \/ q.base = turns[t] \/ (q.sid = page[t].sid /\ q.base = page[t].base)

Stores == [Sessions -> SessionRecords \cup {None}]
StoreFine == store' \in Stores /\ \A s \in Sessions : RecordOk(s, store'[s])
SnapshotFine == /\ snapshot' \in [Procs -> Stores]
                /\ \A p \in Procs, s \in Sessions : RecordOk(s, snapshot'[p][s])
PagesFine == page' \in [Tabs -> Adapters] /\ \A t \in Tabs : AdapterOk(t, page'[t])
HandlersFine ==
  /\ at' \in [Procs -> HandlerSteps] /\ arg' \in [Procs -> Args]
  /\ \A e \in Slots : /\ arg'[e] \in PageRequests \cup {None} /\ RequestOk(arg'[e])
                      /\ (at'[e] # "idle" => arg'[e] \in PageRequests)
  /\ \A c \in Callers : CallHas(at'[c], arg'[c])
OthersFine ==
  /\ turns' = turns /\ asked' = asked
  /\ now' \in 0 .. MaxTime /\ enabled' \in BOOLEAN /\ open' \subseteq Tabs
  /\ registered' \in [RequestIds -> Callers \cup {None}]
  /\ aborted' \in [Callers -> {"no", "timeout", "cancelled"}]
  /\ upsets' \in 0 .. MaxUpsets

\* What is in the state is known.
LEMMA StateIsFine ==
  ASSUME ServiceInv
  PROVE  /\ store \in Stores /\ \A s \in Sessions : RecordOk(s, store[s])
         /\ snapshot \in [Procs -> Stores]
         /\ \A p \in Procs, s \in Sessions : RecordOk(s, snapshot[p][s])
         /\ page \in [Tabs -> Adapters] /\ \A t \in Tabs : AdapterOk(t, page[t])
         /\ \A e \in Slots : RequestOk(arg[e])
         /\ at \in [Procs -> HandlerSteps] /\ arg \in [Procs -> Args]
<1> USE DEF ServiceInv
<1>1. store \in Stores /\ snapshot \in [Procs -> Stores] /\ page \in [Tabs -> Adapters]
      /\ at \in [Procs -> HandlerSteps] /\ arg \in [Procs -> Args]
  BY DEF ServiceTypeOK, CallInv, Stores
<1>2. ASSUME NEW s \in Sessions PROVE RecordOk(s, store[s])
  <2>1. SUFFICES ASSUME store[s] # None PROVE RecordOk(s, store[s])
    BY DEF RecordOk
  <2>2. GoodRec(s, store[s]) /\ store[s] \in SessionRecords
    BY <1>1, <2>1 DEF RecordInv, Stores
  <2>3. Known(store[s].tab, store[s].cand)
    BY <2>1, <2>2 DEF Known, Held, SessionRecords
  <2> QED BY <2>2, <2>3 DEF RecordOk
<1>3. ASSUME NEW p \in Procs, NEW s \in Sessions PROVE RecordOk(s, snapshot[p][s])
  <2>1. SUFFICES ASSUME snapshot[p][s] # None PROVE RecordOk(s, snapshot[p][s])
    BY DEF RecordOk
  <2>2. GoodRec(s, snapshot[p][s]) /\ snapshot[p][s] \in SessionRecords
    BY <1>1, <2>1 DEF RecordInv, Stores
  <2>3. Known(snapshot[p][s].tab, snapshot[p][s].cand)
    BY <2>1, <2>2 DEF Known, Held, SessionRecords
  <2> QED BY <2>2, <2>3 DEF RecordOk
<1>4. \A t \in Tabs : AdapterOk(t, page[t])
  BY <1>1 DEF AdapterOk, Known, Held, Adapters
<1>5. \A e \in Slots : RequestOk(arg[e])
  BY DEF RequestOk, RequestInv, Known, Held, PageRequests
<1> QED BY <1>1, <1>2, <1>3, <1>4, <1>5

\* A step that only writes what is known keeps the invariant.
LEMMA Carries ==
  ASSUME ServiceInv, OthersFine, StoreFine, SnapshotFine, PagesFine, HandlersFine
  PROVE  ServiceInv'
<1>1. ASSUME NEW t \in Tabs, NEW x \in Observations, Held(t, x)' PROVE Held(t, x)
  <2>1. x # None
    BY ServiceAssumption DEF Observations
  <2>2. CASE page'[t].cand = x
    BY <2>1, <2>2 DEF PagesFine, AdapterOk, Known
  <2>3. CASE \E e \in Slots : arg'[e] \in PageRequests /\ arg'[e].tab = t /\ arg'[e].ans = x
    BY <2>1, <2>3 DEF HandlersFine, RequestOk, Known
  <2>4. CASE \E s \in Sessions : store'[s] # None /\ store'[s].tab = t /\ store'[s].cand = x
    BY <2>1, <2>4 DEF StoreFine, RecordOk, Known
  <2>5. CASE \E p \in Procs, s \in Sessions :
               snapshot'[p][s] # None /\ snapshot'[p][s].tab = t /\ snapshot'[p][s].cand = x
    BY <2>1, <2>5 DEF SnapshotFine, RecordOk, Known
  <2> QED BY <1>1, <2>2, <2>3, <2>4, <2>5 DEF Held
<1>2. TurnsInv'
  <2>1. SUFFICES ASSUME NEW t \in Tabs, NEW x \in Observations, Held(t, x)'
                 PROVE  /\ x.turn <= turns[t]
                        /\ \A y \in Observations : Held(t, y)' /\ y.turn = x.turn => y.of = x.of
                        /\ page'[t].sid # None /\ page'[t].base < turns[t] /\ x.turn = turns[t]
                             => x.of = page'[t].sid
    BY DEF TurnsInv, OthersFine
  <2>2. Held(t, x) /\ \A y \in Observations : Held(t, y)' => Held(t, y)
    BY <1>1, <2>1
  <2>3. /\ x.turn <= turns[t]
        /\ \A y \in Observations : Held(t, y) /\ y.turn = x.turn => y.of = x.of
        /\ page[t].sid # None /\ page[t].base < turns[t] /\ x.turn = turns[t] => x.of = page[t].sid
    BY <2>2 DEF ServiceInv, TurnsInv
  <2>4. page'[t].sid = None \/ page'[t].base = turns[t]
          \/ (page'[t].sid = page[t].sid /\ page'[t].base = page[t].base)
    BY DEF PagesFine, AdapterOk
  <2>5. turns[t] \in Nat
    BY DEF ServiceInv, ServiceTypeOK
  <2> QED BY <2>2, <2>3, <2>4, <2>5
<1>3. RecordInv'
  BY DEF RecordInv, StoreFine, SnapshotFine, RecordOk
<1>4. RequestInv' /\ CallInv'
  BY DEF RequestInv, CallInv, HandlersFine, RequestOk
<1>5. ServiceTypeOK'
  <2>1. \A s \in Sessions : store'[s] # None => ValidSession(store'[s])
    BY <1>3 DEF RecordInv, GoodRec
  <2>2. asked' \in [Callers -> Asked] /\ turns' \in [Tabs -> 0 .. MaxTurns]
    BY DEF OthersFine, ServiceInv, ServiceTypeOK
  <2> QED BY <2>1, <2>2 DEF ServiceTypeOK, OthersFine, StoreFine, SnapshotFine, PagesFine, HandlersFine, Stores
<1> QED BY <1>2, <1>3, <1>4, <1>5 DEF ServiceInv
-----------------------------------------------------------------------------
(* The parts of a step.                                                     *)

\* One handler moves.
LEMMA OneMoves ==
  ASSUME ServiceInv, NEW p \in Procs, NEW a \in HandlerSteps, NEW v \in Args,
         at' = [at EXCEPT ![p] = a], arg' = [arg EXCEPT ![p] = v],
         p \in Slots => /\ v \in PageRequests \cup {None} /\ RequestOk(v)
                        /\ a # "idle" => v \in PageRequests,
         p \in Callers => CallHas(a, v)
  PROVE  HandlersFine
<1>1. at \in [Procs -> HandlerSteps] /\ arg \in [Procs -> Args]
  BY DEF ServiceInv, ServiceTypeOK, CallInv
<1>2. at' \in [Procs -> HandlerSteps] /\ arg' \in [Procs -> Args]
  BY <1>1
<1>3. at'[p] = a /\ arg'[p] = v /\ \A q \in Procs \ {p} : at'[q] = at[q] /\ arg'[q] = arg[q]
  BY <1>1
<1>4. \A e \in Slots : /\ arg[e] \in PageRequests \cup {None} /\ RequestOk(arg[e])
                       /\ at[e] # "idle" => arg[e] \in PageRequests
  BY StateIsFine DEF ServiceInv, ServiceTypeOK, RequestInv
<1>5. \A c \in Callers : CallHas(at[c], arg[c])
  BY DEF ServiceInv, CallInv
<1>6. Slots \subseteq Procs /\ Callers \subseteq Procs
  BY DEF Procs
<1> QED BY <1>2, <1>3, <1>4, <1>5, <1>6 DEF HandlersFine

LEMMA NoneMoves == ASSUME ServiceInv, UNCHANGED <<at, arg>> PROVE HandlersFine
BY StateIsFine DEF ServiceInv, ServiceTypeOK, RequestInv, CallInv, HandlersFine

\* A handler reads the sessions, forgets them, or notes what it has saved.
LEMMA SnapshotKept ==
  ASSUME ServiceInv, snapshot' = snapshot
  PROVE  SnapshotFine
BY StateIsFine DEF SnapshotFine

LEMMA SnapshotRead ==
  ASSUME ServiceInv, NEW p \in Procs, NEW S \in {store, Nothing},
         snapshot' = [snapshot EXCEPT ![p] = S]
  PROVE  SnapshotFine
<1>1. S \in Stores /\ \A s \in Sessions : RecordOk(s, S[s])
  BY StateIsFine DEF Nothing, Stores, RecordOk
<1> QED BY <1>1, StateIsFine DEF SnapshotFine

LEMMA SnapshotNotes ==
  ASSUME ServiceInv, NEW p \in Procs, NEW s \in Sessions, NEW r \in SessionRecords \cup {None},
         RecordOk(s, r), snapshot' = [snapshot EXCEPT ![p][s] = r]
  PROVE  SnapshotFine
<1>1. /\ snapshot \in [Procs -> Stores] /\ snapshot[p] \in Stores
      /\ \A q \in Procs, x \in Sessions : RecordOk(x, snapshot[q][x])
  BY StateIsFine
<1>2. PICK S : S = [snapshot[p] EXCEPT ![s] = r]
  OBVIOUS
<1>3. S \in Stores /\ \A x \in Sessions : RecordOk(x, S[x])
  BY <1>1, <1>2 DEF Stores
<1>4. snapshot' = [snapshot EXCEPT ![p] = S]
  BY <1>2
<1> QED BY <1>1, <1>3, <1>4 DEF SnapshotFine

\* The store as it is, or with one more record of the kind.
LEMMA StoreKept == ASSUME ServiceInv, store' = store PROVE StoreFine
BY StateIsFine DEF StoreFine

LEMMA StoreSaves ==
  ASSUME ServiceInv, NEW s \in Sessions, NEW r \in SessionRecords, RecordOk(s, r), Saves(s, r)
  PROVE  StoreFine
BY StateIsFine DEF StoreFine, Saves, Stores

\* The pages as they are, or one with another card.
LEMMA PagesKept == ASSUME ServiceInv, page' = page PROVE PagesFine
BY StateIsFine DEF PagesFine

LEMMA PageShows ==
  ASSUME ServiceInv, NEW t \in Tabs, NEW q, AdapterOk(t, q), page' = [page EXCEPT ![t] = q]
  PROVE  PagesFine
BY StateIsFine DEF PagesFine, AdapterOk

\* A new card knows no candidate and no turn but those that are shown.
LEMMA CardOk ==
  ASSUME ServiceInv, NEW t \in Tabs, NEW q \in Adapters, NEW s \in Sessions
  PROVE  AdapterOk(t, Card(q, t, s)) /\ Card(q, t, s) \in Adapters
<1>1. turns[t] \in 0 .. MaxTurns
  BY DEF ServiceInv, ServiceTypeOK
<1>2. /\ Card(q, t, s) \in Adapters /\ Card(q, t, s).cand = None
      /\ Card(q, t, s).base = turns[t]
  BY <1>1 DEF Card, Adapters
<1> QED BY <1>2 DEF AdapterOk, Known

LEMMA ClearedOk ==
  ASSUME NEW t \in Tabs, NEW q \in Adapters
  PROVE  /\ AdapterOk(t, Cleared(q)) /\ AdapterOk(t, [Cleared(q) EXCEPT !.wipe = FALSE])
<1>1. Cleared(q) \in Adapters /\ Cleared(q).cand = None /\ Cleared(q).sid = None
  BY DEF Cleared, Adapters
<1>2. PICK w : w = [Cleared(q) EXCEPT !.wipe = FALSE]
  OBVIOUS
<1>3. w \in Adapters /\ w.cand = None /\ w.sid = None
  BY <1>1, <1>2 DEF Adapters
<1> QED BY <1>1, <1>2, <1>3 DEF AdapterOk, Known

LEMMA PageClears ==
  ASSUME ServiceInv, NEW t \in Tabs, NEW s, Clears(t, s)
  PROVE  PagesFine
<1>1. page[t] \in Adapters
  BY StateIsFine
<1>2. CASE page' = page
  BY <1>2, PagesKept
<1>3. CASE page' = [page EXCEPT ![t] = Cleared(@)]
  <2>1. page' = [page EXCEPT ![t] = Cleared(page[t])]
    BY <1>3
  <2> QED BY <1>1, <2>1, ClearedOk, PageShows
<1> QED BY <1>2, <1>3 DEF Clears

LEMMA PageStages ==
  ASSUME ServiceInv, NEW t \in Tabs, NEW s \in Sessions, Stages(t, s)
  PROVE  PagesFine
<1>1. page[t] \in Adapters
  BY StateIsFine
<1>2. CASE page' = page
  BY <1>2, PagesKept
<1>3. CASE page' = [page EXCEPT ![t] = Card(@, t, s)]
  <2>1. page' = [page EXCEPT ![t] = Card(page[t], t, s)]
    BY <1>3
  <2> QED BY <1>1, <2>1, CardOk, PageShows
<1> QED BY <1>2, <1>3 DEF Stages

\* A record that ends without an output: expired or cancelled.
LEMMA EndedOk ==
  ASSUME NEW s \in Sessions, NEW r, RecordOk(s, r), r # None, Active(r),
         NEW state \in {"expired", "cancelled"}
  PROVE  /\ Ended(r, state) \in SessionRecords /\ RecordOk(s, Ended(r, state))
         /\ Ended(r, state).tab = r.tab /\ r.tab \in Tabs
<1>1. r \in SessionRecords /\ GoodRec(s, r)
  BY DEF RecordOk, GoodRec
<1>2. PICK q : q = Ended(r, state)
  OBVIOUS
<1>3. /\ q \in SessionRecords /\ q.tab = r.tab /\ q.cand = None /\ q.out = r.out /\ q.state = state
  BY <1>1, <1>2 DEF Ended, SessionRecords, SESSION_STATES, Terminal
<1>4. ValidSession(q)
  BY <1>3 DEF ValidSession, SESSION_STATES, Terminal
<1>5. GoodRec(s, q) /\ Known(q.tab, q.cand)
  BY <1>1, <1>3, <1>4 DEF GoodRec, Known
<1>6. r.tab \in Tabs
  BY <1>1 DEF SessionRecords
<1> QED BY <1>2, <1>3, <1>5, <1>6 DEF RecordOk

\* Counting only compares.
LEMMA CrowdNat == Crowd \in Nat /\ Crowd' \in Nat
<1>1. \A n \in Nat : Beyond(n) \in Nat
  BY DEF Beyond
<1>2. /\ Cardinality({c \in Callers : at[c] # "idle"}) \in Nat
      /\ Cardinality({e \in Slots : at[e] # "idle"}) \in Nat
  <2>1. /\ IsFiniteSet({c \in Callers : at[c] # "idle"})
        /\ IsFiniteSet({e \in Slots : at[e] # "idle"})
    BY FS_Subset, ServiceAssumption
  <2> QED BY <2>1, FS_CardinalityType
<1>3. /\ Cardinality({c \in Callers : at'[c] # "idle"}) \in Nat
      /\ Cardinality({e \in Slots : at'[e] # "idle"}) \in Nat
  <2>1. /\ IsFiniteSet({c \in Callers : at'[c] # "idle"})
        /\ IsFiniteSet({e \in Slots : at'[e] # "idle"})
    BY FS_Subset, ServiceAssumption
  <2> QED BY <2>1, FS_CardinalityType
<1> QED BY <1>1, <1>2, <1>3 DEF Crowd

LEMMA Counted == ASSUME ServiceInv, NEW n \in {0, 1}, Counts(n) PROVE upsets' \in 0 .. MaxUpsets
<1>1. MaxUpsets \in Nat
  BY ServiceAssumption
<1>2. upsets \in 0 .. MaxUpsets
  BY DEF ServiceInv, ServiceTypeOK
<1>3. PICK more : more = IF Crowd' > Crowd THEN Crowd' - Crowd ELSE 0
  OBVIOUS
<1>4. more \in Nat
  <2>1. PICK before, after \in Nat : before = Crowd /\ after = Crowd'
    BY CrowdNat
  <2>2. more = IF after > before THEN after - before ELSE 0
    BY <1>3, <2>1
  <2>3. before \in Nat /\ after \in Nat
    OBVIOUS
  <2> QED BY <2>2, <2>3
<1>5. upsets' = upsets + n + more /\ upsets' <= MaxUpsets
  BY <1>3 DEF Counts
<1> QED BY <1>1, <1>2, <1>4, <1>5

-----------------------------------------------------------------------------
(* Steps of a call, of a cancel operation and of the switch.                *)

\* A handler of the worker leaves the tabs, the clock and the grants alone.
LEMMA WorkerSteps ==
  ASSUME ServiceInv, ElsewhereUnchanged, upsets' \in 0 .. MaxUpsets,
         registered' \in [RequestIds -> Callers \cup {None}],
         aborted' \in [Callers -> {"no", "timeout", "cancelled"}],
         StoreFine, PagesFine, SnapshotFine, HandlersFine
  PROVE  ServiceInv'
<1>1. OthersFine
  BY DEF OthersFine, ElsewhereUnchanged, ServiceInv, ServiceTypeOK
<1> QED BY <1>1, Carries

LEMMA QuietSteps ==
  ASSUME ServiceInv, OnlyMoves, upsets' \in 0 .. MaxUpsets,
         registered' \in [RequestIds -> Callers \cup {None}],
         aborted' \in [Callers -> {"no", "timeout", "cancelled"}],
         SnapshotFine, HandlersFine
  PROVE  ServiceInv'
<1>1. ElsewhereUnchanged /\ StoreFine /\ PagesFine
  BY StoreKept, PagesKept DEF OnlyMoves
<1> QED BY <1>1, WorkerSteps

LEMMA Registry ==
  ASSUME ServiceInv
  PROVE  /\ registered \in [RequestIds -> Callers \cup {None}]
         /\ aborted \in [Callers -> {"no", "timeout", "cancelled"}]
         /\ asked \in [Callers -> Asked]
         /\ \A c \in Callers : asked[c].id \in RequestIds
BY DEF ServiceInv, ServiceTypeOK, Asked

\* A handler that is not a page request moves on, or drops what it has kept.
LEMMA WorkerMoves ==
  ASSUME ServiceInv, NEW p \in Callers \cup Cancels \cup Switches,
         NEW a \in HandlerSteps, a \notin {"looked", "picked", "staging"},
         Goes(p, a), arg' = arg \/ arg' = [arg EXCEPT ![p] = None]
  PROVE  HandlersFine
<1>1. p \in Procs /\ p \notin Slots /\ CallHas(a, None) /\ CallHas(a, arg[p])
  BY ServiceAssumption DEF Procs, CallHas
<1>2. arg \in [Procs -> Args] /\ None \in Args
  BY StateIsFine DEF Args
<1>3. CASE arg' = arg
  <2>1. arg[p] \in Args /\ arg' = [arg EXCEPT ![p] = arg[p]]
    BY <1>1, <1>2, <1>3
  <2> QED BY <1>1, <2>1, OneMoves DEF Goes
<1>4. CASE arg' = [arg EXCEPT ![p] = None]
  BY <1>1, <1>2, <1>4, OneMoves DEF Goes
<1> QED BY <1>3, <1>4

LEMMA EndsFine ==
  ASSUME ServiceInv, NEW c \in Callers, NEW told, Ends(c, told)
  PROVE  HandlersFine /\ SnapshotFine
         /\ registered' = registered /\ aborted' = aborted
<1>1. /\ Goes(c, "done") /\ Forgets(c) /\ arg' = [arg EXCEPT ![c] = None]
      /\ registered' = registered /\ aborted' = aborted
  BY DEF Ends
<1>2. SnapshotFine
  <2>1. c \in Procs /\ snapshot' = [snapshot EXCEPT ![c] = Nothing]
    BY <1>1 DEF Forgets, Procs
  <2> QED BY <2>1, SnapshotRead
<1>3. HandlersFine
  BY <1>1, WorkerMoves DEF HandlerSteps
<1> QED BY <1>1, <1>2, <1>3

LEMMA EndsKeeps ==
  ASSUME ServiceInv, NEW c \in Callers, NEW told, Ends(c, told), OnlyMoves,
         upsets' \in 0 .. MaxUpsets
  PROVE  ServiceInv'
BY EndsFine, Registry, QuietSteps

LEMMA RefuseKeeps ==
  ASSUME ServiceInv, upsets' \in 0 .. MaxUpsets, NEW c \in Callers, Refuse(c)
  PROVE  ServiceInv'
BY EndsKeeps DEF Refuse

LEMMA DenyKeeps ==
  ASSUME ServiceInv, upsets' \in 0 .. MaxUpsets, NEW c \in Callers, Deny(c)
  PROVE  ServiceInv'
BY EndsKeeps DEF Deny

LEMMA NoTabKeeps ==
  ASSUME ServiceInv, upsets' \in 0 .. MaxUpsets, NEW c \in Callers, NoTab(c)
  PROVE  ServiceInv'
BY EndsKeeps DEF NoTab

LEMMA GenerateKeeps ==
  ASSUME ServiceInv, upsets' \in 0 .. MaxUpsets, NEW c \in Callers, Generate(c)
  PROVE  ServiceInv'
<1>1. OnlyMoves
  BY DEF Generate
<1>2. CASE Ends(c, "reuse")
  BY <1>1, <1>2, EndsKeeps
<1>3. CASE Goes(c, "profile") /\ UNCHANGED <<snapshot, arg, reply, registered, aborted>>
  <2>1. HandlersFine /\ SnapshotFine
    BY <1>3, WorkerMoves, SnapshotKept DEF HandlerSteps
  <2>2. /\ registered' \in [RequestIds -> Callers \cup {None}]
        /\ aborted' \in [Callers -> {"no", "timeout", "cancelled"}]
    BY <1>3, Registry
  <2> QED BY <1>1, <2>1, <2>2, QuietSteps
<1> QED BY <1>2, <1>3 DEF Generate

LEMMA RegisterKeeps ==
  ASSUME ServiceInv, upsets' \in 0 .. MaxUpsets, NEW c \in Callers, Register(c)
  PROVE  ServiceInv'
<1>1. /\ OnlyMoves /\ Goes(c, "fetching") /\ snapshot' = snapshot /\ arg' = arg
      /\ registered' = [registered EXCEPT ![asked[c].id] = c] /\ aborted' = aborted
  BY DEF Register
<1>2. HandlersFine /\ SnapshotFine
  BY <1>1, WorkerMoves, SnapshotKept DEF HandlerSteps
<1>3. /\ registered' \in [RequestIds -> Callers \cup {None}]
      /\ aborted' \in [Callers -> {"no", "timeout", "cancelled"}]
  BY <1>1, Registry
<1> QED BY <1>1, <1>2, <1>3, QuietSteps

LEMMA TimesOutKeeps ==
  ASSUME ServiceInv, upsets' \in 0 .. MaxUpsets, NEW c \in Callers, TimesOut(c)
  PROVE  ServiceInv'
<1>1. /\ OnlyMoves /\ UNCHANGED <<at, arg>> /\ snapshot' = snapshot
      /\ registered' = registered /\ aborted' = [aborted EXCEPT ![c] = "timeout"]
  BY DEF TimesOut, TimerFires
<1>2. HandlersFine /\ SnapshotFine
  BY <1>1, NoneMoves, SnapshotKept
<1>3. /\ registered' \in [RequestIds -> Callers \cup {None}]
      /\ aborted' \in [Callers -> {"no", "timeout", "cancelled"}]
  BY <1>1, Registry
<1> QED BY <1>1, <1>2, <1>3, QuietSteps

LEMMA FetchedKeeps ==
  ASSUME ServiceInv, upsets' \in 0 .. MaxUpsets, NEW c \in Callers, Fetched(c)
  PROVE  ServiceInv'
<1>1. /\ OnlyMoves /\ Goes(c, "done") /\ snapshot' = snapshot /\ arg' = arg
      /\ registered' = [registered EXCEPT ![asked[c].id] = None] /\ aborted' = aborted
  BY DEF Fetched
<1>2. HandlersFine /\ SnapshotFine
  BY <1>1, WorkerMoves, SnapshotKept DEF HandlerSteps
<1>3. /\ registered' \in [RequestIds -> Callers \cup {None}]
      /\ aborted' \in [Callers -> {"no", "timeout", "cancelled"}]
  BY <1>1, Registry
<1> QED BY <1>1, <1>2, <1>3, QuietSteps

LEMMA LookKeeps ==
  ASSUME ServiceInv, upsets' \in 0 .. MaxUpsets, NEW c \in Callers, Look(c)
  PROVE  ServiceInv'
<1> DEFINE v == [expires |-> now + Timeout]
<1>1. /\ OnlyMoves /\ Goes(c, "looked") /\ Reads(c) /\ registered' = registered
      /\ aborted' = aborted /\ arg' = [arg EXCEPT ![c] = v]
  BY DEF Look
<1>2. c \in Procs /\ c \notin Slots /\ "looked" \in HandlerSteps
  BY ServiceAssumption DEF Procs, HandlerSteps
<1>3. v \in [expires : Nat]
  BY ServiceAssumption DEF ServiceInv, ServiceTypeOK
<1>4. CallHas("looked", v) /\ v \in Args
  BY <1>3 DEF CallHas, Args
<1>5. HandlersFine
  <2> HIDE DEF v
  <2> QED BY <1>1, <1>2, <1>4, OneMoves DEF Goes
<1>6. SnapshotFine
  BY <1>1, <1>2, SnapshotRead DEF Reads
<1>7. /\ registered' \in [RequestIds -> Callers \cup {None}]
      /\ aborted' \in [Callers -> {"no", "timeout", "cancelled"}]
  BY <1>1, Registry
<1> QED BY <1>1, <1>5, <1>6, <1>7, QuietSteps

LEMMA ReplayKeeps ==
  ASSUME ServiceInv, upsets' \in 0 .. MaxUpsets, NEW c \in Callers, Replay(c)
  PROVE  ServiceInv'
<1>1. OnlyMoves
  BY DEF Replay
<1>2. CASE Ends(c, "reuse")
  BY <1>1, <1>2, EndsKeeps
<1>3. CASE /\ Goes(c, "waiting") /\ Forgets(c) /\ arg' = [arg EXCEPT ![c] = None]
           /\ UNCHANGED <<registered, aborted>>
  <2>1. HandlersFine
    BY <1>3, WorkerMoves DEF HandlerSteps
  <2>2. c \in Procs /\ snapshot' = [snapshot EXCEPT ![c] = Nothing]
    BY <1>3 DEF Forgets, Procs
  <2>3. SnapshotFine
    BY <2>2, SnapshotRead
  <2>4. /\ registered' \in [RequestIds -> Callers \cup {None}]
        /\ aborted' \in [Callers -> {"no", "timeout", "cancelled"}]
    BY <1>3, Registry
  <2> QED BY <1>1, <2>1, <2>3, <2>4, QuietSteps
<1> QED BY <1>2, <1>3 DEF Replay

LEMMA PickTabKeeps ==
  ASSUME ServiceInv, upsets' \in 0 .. MaxUpsets, NEW c \in Callers, PickTab(c)
  PROVE  ServiceInv'
<1>1. PICK t \in IF open \ Busy(c) # {} THEN open \ Busy(c) ELSE Tabs \ open :
         /\ open' = open \cup {t}
         /\ arg' = [arg EXCEPT ![c] = [expires |-> @.expires, tab |-> t]]
  BY DEF PickTab
<1>2. open \subseteq Tabs /\ now \in 0 .. MaxTime /\ enabled \in BOOLEAN
  BY DEF ServiceInv, ServiceTypeOK
<1>3. t \in Tabs
  BY <1>1, <1>2
<1>4. c \in Procs /\ c \notin Slots /\ "picked" \in HandlerSteps
  BY ServiceAssumption DEF Procs, HandlerSteps
<1>5. PICK v : v = [expires |-> arg[c].expires, tab |-> t]
  OBVIOUS
<1>6. arg[c] \in [expires : Nat]
  BY DEF PickTab, ServiceInv, CallInv, CallHas
<1>7. v \in [expires : Nat, tab : Tabs]
  BY <1>3, <1>5, <1>6
<1>8. CallHas("picked", v) /\ v \in Args
  BY <1>7 DEF CallHas, Args
<1>9. at' = [at EXCEPT ![c] = "picked"] /\ arg' = [arg EXCEPT ![c] = v]
  BY <1>1, <1>5 DEF PickTab, Goes
<1>10. HandlersFine
  BY <1>4, <1>8, <1>9, OneMoves
<1>11. snapshot' = [snapshot EXCEPT ![c] = Nothing]
  BY DEF PickTab, Forgets
<1>12. SnapshotFine /\ StoreFine /\ PagesFine
  BY <1>4, <1>11, SnapshotRead, StoreKept, PagesKept DEF PickTab
<1>13. OthersFine
  BY <1>1, <1>2, <1>3, Registry DEF PickTab, OthersFine
<1> QED BY <1>10, <1>12, <1>13, Carries

LEMMA CreateKeeps ==
  ASSUME ServiceInv, upsets' \in 0 .. MaxUpsets, NEW c \in Callers, Create(c)
  PROVE  ServiceInv'
<1>1. PICK s \in Sessions :
         /\ Saves(s, NewSession(c))
         /\ arg' = [arg EXCEPT ![c] = [tab |-> @.tab, sid |-> s]]
  BY DEF Create
<1>2. arg[c] \in [expires : Nat, tab : Tabs]
  BY DEF Create, ServiceInv, CallInv, CallHas
<1>3. c \in Procs /\ c \notin Slots /\ "staging" \in HandlerSteps
  BY ServiceAssumption DEF Procs, HandlerSteps
<1>4. PICK v : v = [tab |-> arg[c].tab, sid |-> s]
  OBVIOUS
<1>5. v \in [tab : Tabs, sid : Sessions]
  BY <1>2, <1>4
<1>6. CallHas("staging", v) /\ v \in Args
  BY <1>5 DEF CallHas, Args
<1>7. at' = [at EXCEPT ![c] = "staging"] /\ arg' = [arg EXCEPT ![c] = v]
  BY <1>1, <1>4 DEF Create, Goes
<1>8. HandlersFine
  BY <1>3, <1>6, <1>7, OneMoves
<1>9. PICK r : r = NewSession(c)
  OBVIOUS
<1>10. /\ r \in SessionRecords /\ r.cand = None /\ r.out = None /\ r.state = "created"
  BY <1>2, <1>9, Registry DEF NewSession, SessionRecords, SESSION_STATES, ACTIVE_STATES
<1>11. RecordOk(s, r)
  BY <1>10 DEF RecordOk, GoodRec, ValidSession, Known, SESSION_STATES, ACTIVE_STATES
<1>12. StoreFine
  BY <1>1, <1>9, <1>10, <1>11, StoreSaves
<1>13. PagesFine /\ SnapshotFine /\ ElsewhereUnchanged
  BY PagesKept, SnapshotKept DEF Create
<1>14. /\ registered' \in [RequestIds -> Callers \cup {None}]
       /\ aborted' \in [Callers -> {"no", "timeout", "cancelled"}]
  BY Registry DEF Create
<1> QED BY <1>8, <1>12, <1>13, <1>14, WorkerSteps

LEMMA StageKeeps ==
  ASSUME ServiceInv, upsets' \in 0 .. MaxUpsets, NEW c \in Callers, Stage(c)
  PROVE  ServiceInv'
<1>1. /\ Stages(arg[c].tab, arg[c].sid) /\ Goes(c, "waiting") /\ ElsewhereUnchanged
      /\ arg' = [arg EXCEPT ![c] = None] /\ store' = store /\ snapshot' = snapshot
      /\ registered' = registered /\ aborted' = aborted
  BY DEF Stage
<1>2. arg[c] \in [tab : Tabs, sid : Sessions]
  BY DEF Stage, ServiceInv, CallInv, CallHas
<1>3. arg[c].tab \in Tabs /\ arg[c].sid \in Sessions
  BY <1>2
<1>4. PagesFine
  BY <1>1, <1>3, PageStages
<1>5. StoreFine /\ SnapshotFine /\ HandlersFine
  BY <1>1, StoreKept, SnapshotKept, WorkerMoves DEF HandlerSteps
<1>6. /\ registered' \in [RequestIds -> Callers \cup {None}]
      /\ aborted' \in [Callers -> {"no", "timeout", "cancelled"}]
  BY <1>1, Registry
<1> QED BY <1>1, <1>4, <1>5, <1>6, WorkerSteps

\* A handler that moves on and reads the sessions, forgets them, or keeps them.
LEMMA ReaderKeeps ==
  ASSUME ServiceInv, upsets' \in 0 .. MaxUpsets, NEW p \in Callers \cup Cancels \cup Switches,
         NEW a \in HandlerSteps, a \notin {"looked", "picked", "staging"},
         Goes(p, a), Reads(p) \/ Forgets(p) \/ snapshot' = snapshot,
         UNCHANGED <<arg, registered, aborted>>
  PROVE  /\ SnapshotFine /\ HandlersFine
         /\ registered' \in [RequestIds -> Callers \cup {None}]
         /\ aborted' \in [Callers -> {"no", "timeout", "cancelled"}]
<1>1. p \in Procs
  BY DEF Procs
<1>2. SnapshotFine
  <2>1. CASE snapshot' = [snapshot EXCEPT ![p] = store]
    BY <1>1, <2>1, SnapshotRead
  <2>2. CASE snapshot' = [snapshot EXCEPT ![p] = Nothing]
    BY <1>1, <2>2, SnapshotRead
  <2> QED BY <2>1, <2>2, SnapshotKept DEF Reads, Forgets
<1>3. HandlersFine
  BY WorkerMoves
<1> QED BY <1>2, <1>3, Registry

LEMMA PollKeeps ==
  ASSUME ServiceInv, upsets' \in 0 .. MaxUpsets, NEW c \in Callers, Poll(c) \/ PollAnswered(c)
  PROVE  ServiceInv'
<1>1. OnlyMoves /\ UNCHANGED <<arg, registered, aborted>>
  BY DEF Poll, PollAnswered
<1>2. \/ Goes(c, "waiting") /\ Forgets(c)
      \/ Goes(c, "polled") /\ Reads(c)
  BY DEF Poll, PollAnswered, PollTold
<1>3. "waiting" \in HandlerSteps /\ "polled" \in HandlerSteps
  BY DEF HandlerSteps
<1>4. CASE Goes(c, "waiting") /\ Forgets(c)
  BY <1>1, <1>3, <1>4, ReaderKeeps, QuietSteps
<1>5. CASE Goes(c, "polled") /\ Reads(c)
  BY <1>1, <1>3, <1>5, ReaderKeeps, QuietSteps
<1> QED BY <1>2, <1>4, <1>5

LEMMA CancelKeeps ==
  ASSUME ServiceInv, upsets' \in 0 .. MaxUpsets, NEW k \in Cancels, Cancel(k)
  PROVE  ServiceInv'
<1>1. PICK c \in Callers :
        /\ arg' = [arg EXCEPT ![k] = c]
        /\ \/ /\ registered[asked[c].id] # None
              /\ aborted' = [aborted EXCEPT ![registered[asked[c].id]] =
                               IF @ = "no" THEN "cancelled" ELSE @]
              /\ Goes(k, "done") /\ snapshot' = snapshot
           \/ Goes(k, "got") /\ Reads(k) /\ aborted' = aborted
  BY DEF Cancel
<1>2. k \in Procs /\ k \notin Slots /\ k \notin Callers
  BY ServiceAssumption DEF Procs
<1>3. c \in Args /\ "done" \in HandlerSteps /\ "got" \in HandlerSteps
  BY DEF Args, HandlerSteps
<1>4. HandlersFine
  <2>1. CASE Goes(k, "done")
    BY <1>1, <1>2, <1>3, <2>1, OneMoves DEF Goes
  <2>2. CASE Goes(k, "got")
    BY <1>1, <1>2, <1>3, <2>2, OneMoves DEF Goes
  <2> QED BY <1>1, <2>1, <2>2
<1>5. SnapshotFine
  <2>1. CASE snapshot' = [snapshot EXCEPT ![k] = store]
    BY <1>2, <2>1, SnapshotRead
  <2> QED BY <1>1, <2>1, SnapshotKept DEF Reads
<1>6. aborted' \in [Callers -> {"no", "timeout", "cancelled"}]
  BY <1>1, Registry
<1>7. OnlyMoves /\ registered' \in [RequestIds -> Callers \cup {None}]
  BY Registry DEF Cancel
<1> QED BY <1>4, <1>5, <1>6, <1>7, QuietSteps

LEMMA CancelRequestKeeps ==
  ASSUME ServiceInv, upsets' \in 0 .. MaxUpsets, NEW k \in Cancels, CancelRequest(k)
  PROVE  ServiceInv'
<1>1. OnlyMoves /\ UNCHANGED <<arg, registered, aborted>>
  BY DEF CancelRequest
<1>2. "done" \in HandlerSteps /\ "again" \in HandlerSteps
  BY DEF HandlerSteps
<1>3. CASE Goes(k, "done") /\ Forgets(k)
  BY <1>1, <1>2, <1>3, ReaderKeeps, QuietSteps
<1>4. CASE Goes(k, "again") /\ Reads(k)
  BY <1>1, <1>2, <1>4, ReaderKeeps, QuietSteps
<1> QED BY <1>3, <1>4 DEF CancelRequest

LEMMA DisabledKeeps ==
  ASSUME ServiceInv, upsets' \in 0 .. MaxUpsets, NEW w \in Switches, Disabled(w)
  PROVE  ServiceInv'
<1>1. OnlyMoves /\ UNCHANGED <<arg, registered, aborted>> /\ Goes(w, "done") /\ Forgets(w)
  BY DEF Disabled
<1>2. "done" \in HandlerSteps
  BY DEF HandlerSteps
<1> QED BY <1>1, <1>2, ReaderKeeps, QuietSteps

LEMMA SetEnabledKeeps ==
  ASSUME ServiceInv, upsets' \in 0 .. MaxUpsets, NEW w \in Switches, SetEnabled(w)
  PROVE  ServiceInv'
<1>1. /\ \/ enabled' = FALSE /\ Goes(w, "disabling") /\ Reads(w)
         \/ enabled' = TRUE /\ Goes(w, "done") /\ snapshot' = snapshot
      /\ UNCHANGED <<now, asked, store, pages, arg, reply, registered, aborted>>
  BY DEF SetEnabled
<1>2. "done" \in HandlerSteps /\ "disabling" \in HandlerSteps
  BY DEF HandlerSteps
<1>3. SnapshotFine /\ HandlersFine
  <2>1. CASE Goes(w, "disabling") /\ Reads(w)
    BY <1>1, <1>2, <2>1, ReaderKeeps
  <2>2. CASE Goes(w, "done") /\ snapshot' = snapshot
    BY <1>1, <1>2, <2>2, ReaderKeeps
  <2> QED BY <1>1, <2>1, <2>2
<1>4. StoreFine /\ PagesFine
  BY <1>1, StoreKept, PagesKept DEF pages
<1>5. OthersFine
  BY <1>1, Registry DEF OthersFine, pages, ServiceInv, ServiceTypeOK
<1> QED BY <1>3, <1>4, <1>5, Carries

\* A session that a handler has read as active is ended, on its card too.
LEMMA EndsSession ==
  ASSUME ServiceInv, NEW p \in Procs, NEW s \in Sessions, Active(snapshot[p][s]),
         NEW state \in {"expired", "cancelled"},
         Saves(s, Ended(snapshot[p][s], state)), Clears(snapshot[p][s].tab, s)
  PROVE  /\ StoreFine /\ PagesFine
         /\ Ended(snapshot[p][s], state) \in SessionRecords
         /\ RecordOk(s, Ended(snapshot[p][s], state))
<1>1. RecordOk(s, snapshot[p][s]) /\ snapshot[p][s] # None
  BY StateIsFine DEF Active
<1>2. PICK r : r = snapshot[p][s]
  OBVIOUS
<1>3. /\ Ended(r, state) \in SessionRecords /\ RecordOk(s, Ended(r, state)) /\ r.tab \in Tabs
  BY <1>1, <1>2, EndedOk
<1>4. StoreFine
  BY <1>2, <1>3, StoreSaves
<1>5. PagesFine
  BY <1>2, <1>3, PageClears
<1> QED BY <1>2, <1>3, <1>4, <1>5

LEMMA CancelCurrentKeeps ==
  ASSUME ServiceInv, upsets' \in 0 .. MaxUpsets, NEW k \in Cancels, CancelCurrent(k)
  PROVE  ServiceInv'
<1>1. PICK s \in Sessions :
        IF Active(snapshot[k][s])
        THEN /\ Saves(s, Ended(snapshot[k][s], "cancelled"))
             /\ Clears(snapshot[k][s].tab, s)
        ELSE UNCHANGED <<store, page>>
  BY DEF CancelCurrent, SessionsOf
<1>2. ElsewhereUnchanged /\ UNCHANGED <<arg, registered, aborted>> /\ Goes(k, "done") /\ Forgets(k)
  BY DEF CancelCurrent
<1>3. k \in Procs /\ "done" \in HandlerSteps
  BY DEF HandlerSteps, Procs
<1>4. StoreFine /\ PagesFine
  BY <1>1, <1>3, EndsSession, StoreKept, PagesKept
<1> QED BY <1>2, <1>3, <1>4, ReaderKeeps, WorkerSteps

LEMMA DisableCancelsKeeps ==
  ASSUME ServiceInv, upsets' \in 0 .. MaxUpsets, NEW w \in Switches, DisableCancels(w)
  PROVE  ServiceInv'
<1>1. PICK s \in Sessions :
        /\ Active(snapshot[w][s])
        /\ Saves(s, Ended(snapshot[w][s], "cancelled")) /\ Clears(snapshot[w][s].tab, s)
        /\ snapshot' = [snapshot EXCEPT ![w][s] = None]
  BY DEF DisableCancels
<1>2. ElsewhereUnchanged /\ UNCHANGED <<at, arg, registered, aborted>>
  BY DEF DisableCancels
<1>3. w \in Procs
  BY DEF Procs
<1>4. StoreFine /\ PagesFine
  BY <1>1, <1>3, EndsSession
<1>5. SnapshotFine
  BY <1>1, <1>3, SnapshotNotes DEF RecordOk
<1>6. HandlersFine
  BY <1>2, NoneMoves
<1> QED BY <1>2, <1>4, <1>5, <1>6, Registry, WorkerSteps

LEMMA ExpireKeeps ==
  ASSUME ServiceInv, upsets' \in 0 .. MaxUpsets, NEW p \in Procs, Expire(p)
  PROVE  ServiceInv'
<1>1. PICK s \in Sessions :
        /\ Active(snapshot[p][s])
        /\ Saves(s, Ended(snapshot[p][s], "expired"))
        /\ Clears(Ended(snapshot[p][s], "expired").tab, s)
        /\ snapshot' = [snapshot EXCEPT ![p][s] = Ended(snapshot[p][s], "expired")]
  BY DEF Expire, Due
<1>2. ElsewhereUnchanged /\ UNCHANGED <<at, arg, registered, aborted>>
  BY DEF Expire
<1>3. Ended(snapshot[p][s], "expired").tab = snapshot[p][s].tab
  BY <1>1, StateIsFine, EndedOk DEF Active
<1>4. /\ StoreFine /\ PagesFine
      /\ Ended(snapshot[p][s], "expired") \in SessionRecords
      /\ RecordOk(s, Ended(snapshot[p][s], "expired"))
  BY <1>1, <1>3, EndsSession
<1>5. SnapshotFine
  BY <1>1, <1>4, SnapshotNotes
<1>6. HandlersFine
  BY <1>2, NoneMoves
<1> QED BY <1>2, <1>4, <1>5, <1>6, Registry, WorkerSteps

-----------------------------------------------------------------------------
(* Page requests at the worker.                                             *)

LEMMA Request ==
  ASSUME ServiceInv, NEW e \in Slots, at[e] # "idle"
  PROVE  /\ arg[e] \in PageRequests /\ GoodRequest(arg[e]) /\ Known(arg[e].tab, arg[e].ans)
         /\ e \in Procs /\ e \notin Callers
<1>1. arg[e] \in PageRequests
  BY DEF ServiceInv, RequestInv
<1>2. RequestOk(arg[e])
  BY StateIsFine
<1> QED BY <1>1, <1>2, ServiceAssumption DEF RequestOk, Procs

LEMMA PageReadKeeps ==
  ASSUME ServiceInv, upsets' \in 0 .. MaxUpsets, NEW e \in Slots, PageRead(e)
  PROVE  ServiceInv'
<1>1. OnlyMoves /\ UNCHANGED <<arg, registered, aborted>> /\ Goes(e, "read")
  BY DEF PageRead
<1>2. arg[e] \in PageRequests /\ GoodRequest(arg[e]) /\ e \in Procs /\ e \notin Callers
  BY Request DEF PageRead
<1>3. HandlersFine
  <2>1. arg[e] \in Args /\ "read" \in HandlerSteps /\ RequestOk(arg[e])
    BY <1>2, StateIsFine DEF Args, HandlerSteps
  <2>2. arg' = [arg EXCEPT ![e] = arg[e]]
    BY <1>1, StateIsFine
  <2> QED BY <1>1, <1>2, <2>1, <2>2, OneMoves DEF Goes
<1>4. SnapshotFine
  <2>1. CASE snapshot' = [snapshot EXCEPT ![e] = store]
    BY <1>2, <2>1, SnapshotRead
  <2>2. CASE arg[e].op # "hello" /\ snapshot' = [snapshot EXCEPT ![e][arg[e].sid] = store[arg[e].sid]]
    <3>1. PICK s \in Sessions : s = arg[e].sid
      BY <1>2, <2>2 DEF GoodRequest
    <3>2. store[s] \in SessionRecords \cup {None} /\ RecordOk(s, store[s])
      BY StateIsFine DEF Stores
    <3>3. PICK r : r = store[s]
      OBVIOUS
    <3>4. snapshot' = [snapshot EXCEPT ![e][s] = r]
      BY <2>2, <3>1, <3>3
    <3> QED BY <1>2, <3>2, <3>3, <3>4, SnapshotNotes
  <2> QED BY <2>1, <2>2 DEF PageRead, Reads
<1> QED BY <1>1, <1>3, <1>4, Registry, QuietSteps

\* The worker answers a page request: with its own session, or a hello with any.
LEMMA RepliesFine ==
  ASSUME ServiceInv, NEW e \in Slots, at[e] # "idle", NEW ok \in BOOLEAN,
         NEW s \in Sessions \cup {None}, arg[e].op = "hello" \/ s = arg[e].sid,
         Replies(e, ok, s)
  PROVE  /\ HandlersFine /\ SnapshotFine
         /\ registered' = registered /\ aborted' = aborted
<1>1. /\ arg[e] \in PageRequests /\ GoodRequest(arg[e]) /\ Known(arg[e].tab, arg[e].ans)
      /\ e \in Procs /\ e \notin Callers
  BY Request
<1>2. PICK v : v = [arg[e] EXCEPT !.ok = ok, !.sid = s]
  OBVIOUS
<1>3. /\ v \in PageRequests /\ v.op = arg[e].op /\ v.sid = s /\ v.ans = arg[e].ans
      /\ v.tab = arg[e].tab
  BY <1>1, <1>2 DEF PageRequests
<1>4. GoodRequest(v) /\ Known(v.tab, v.ans)
  BY <1>1, <1>3 DEF GoodRequest
<1>5. v \in Args /\ "answering" \in HandlerSteps /\ RequestOk(v)
  BY <1>3, <1>4 DEF Args, HandlerSteps, RequestOk
<1>6. at' = [at EXCEPT ![e] = "answering"] /\ arg' = [arg EXCEPT ![e] = v]
  BY <1>2 DEF Replies, Goes
<1>7. HandlersFine
  BY <1>1, <1>3, <1>5, <1>6, OneMoves
<1>8. snapshot' = [snapshot EXCEPT ![e] = Nothing]
  BY DEF Replies, Forgets
<1>9. SnapshotFine
  BY <1>1, <1>8, SnapshotRead
<1> QED BY <1>7, <1>9 DEF Replies

\* The record a page event leaves: the candidate of an event is of its session, and
\* the answer of a return has the turn of the candidate that was recorded, so it is of
\* that session too.
LEMMA AppliedOk ==
  ASSUME ServiceInv, NEW m \in PageRequests, GoodRequest(m), Known(m.tab, m.ans),
         m.op # "hello", NEW r, RecordOk(m.sid, r), MayApply(m, r)
  PROVE  Applied(m, r) \in SessionRecords /\ RecordOk(m.sid, Applied(m, r))
<1>1. /\ m.sid \in Sessions /\ m.doc \in Nat /\ m.conv \in Nat /\ m.tab \in Tabs
      /\ m.ans \in Observations \cup {None}
  BY DEF GoodRequest, PageRequests
<1>2. /\ r # None /\ r \in SessionRecords /\ GoodRec(m.sid, r) /\ Known(m.tab, r.cand)
      /\ r.tab = m.tab
  BY DEF MayApply, RecordOk, GoodRec, Bound
<1>3. PICK common : common = [r EXCEPT !.doc = m.doc, !.conv = IF m.conv = 0 THEN @ ELSE m.conv]
  OBVIOUS
<1>4. /\ common \in SessionRecords /\ common.tab = m.tab /\ common.cand = r.cand
      /\ common.out = r.out /\ common.state = r.state
  BY <1>1, <1>2, <1>3 DEF SessionRecords
<1>5. PICK q : q = Applied(m, r)
  OBVIOUS
<1>6. /\ q \in SessionRecords /\ q.tab = m.tab /\ ValidSession(q)
      /\ Known(m.tab, q.cand) /\ (q.cand # None => q.cand.of = m.sid)
      /\ (q.out # None => q.out.of = m.sid)
  <2>1. CASE m.op = "staged"
    <3>1. q = [common EXCEPT !.state = "staged"]
      BY <1>3, <1>5, <2>1 DEF Applied
    <3>2. /\ q \in SessionRecords /\ q.tab = m.tab /\ q.cand = r.cand /\ q.out = r.out
          /\ q.state = "staged"
      BY <1>4, <3>1 DEF SessionRecords, SESSION_STATES, ACTIVE_STATES
    <3> QED BY <1>2, <3>2 DEF GoodRec, ValidSession, SESSION_STATES, ACTIVE_STATES
  <2>2. CASE m.op = "ready"
    <3>1. q = [common EXCEPT !.state = "ready", !.cand = m.ans]
      BY <1>3, <1>5, <2>2 DEF Applied
    <3>2. /\ q \in SessionRecords /\ q.tab = m.tab /\ q.cand = m.ans /\ q.out = r.out
          /\ q.state = "ready"
      BY <1>1, <1>4, <3>1 DEF SessionRecords, SESSION_STATES, ACTIVE_STATES
    <3>3. m.ans \in Observations /\ m.ans.of = m.sid /\ m.ans # None
      BY <2>2, ServiceAssumption DEF GoodRequest, Observations
    <3> QED BY <1>2, <3>2, <3>3 DEF GoodRec, ValidSession, SESSION_STATES, ACTIVE_STATES
  <2>3. CASE m.op = "returned"
    <3>1. q = [Ended(common, "returned") EXCEPT !.out = m.ans]
      BY <1>3, <1>5, <2>3 DEF Applied
    <3>2. /\ q \in SessionRecords /\ q.tab = m.tab /\ q.cand = None /\ q.out = m.ans
          /\ q.state = "returned"
      BY <1>1, <1>4, <3>1 DEF SessionRecords, SESSION_STATES, Terminal, Ended
    <3>3. m.ans \in Observations /\ m.ans # None /\ Held(m.tab, m.ans)
      BY <2>3, ServiceAssumption DEF GoodRequest, Observations, Known
    <3>4. r.state = "ready" /\ r.cand.turn = m.ans.turn
      BY <2>3 DEF MayApply, Reviewed
    <3>5. r.cand # None /\ r.cand \in Observations /\ Held(m.tab, r.cand) /\ r.cand.of = m.sid
      BY <1>2, <3>4 DEF GoodRec, ValidSession, Known
    <3>6. m.ans.of = m.sid
      BY <1>1, <3>3, <3>4, <3>5 DEF ServiceInv, TurnsInv
    <3> QED BY <3>2, <3>3, <3>6 DEF ValidSession, SESSION_STATES, Terminal, Known
  <2>4. CASE m.op = "dismissed"
    <3>1. q = Ended(common, "cancelled")
      BY <1>3, <1>5, <2>4 DEF Applied
    <3>2. /\ q \in SessionRecords /\ q.tab = m.tab /\ q.cand = None /\ q.out = r.out
          /\ q.state = "cancelled"
      BY <1>1, <1>4, <3>1 DEF SessionRecords, SESSION_STATES, Terminal, Ended
    <3> QED BY <1>2, <3>2 DEF GoodRec, ValidSession, SESSION_STATES, Terminal, Known
  <2> QED BY <2>1, <2>2, <2>3, <2>4 DEF PageRequests
<1> QED BY <1>1, <1>5, <1>6 DEF RecordOk, GoodRec

LEMMA PageApplyKeeps ==
  ASSUME ServiceInv, upsets' \in 0 .. MaxUpsets, NEW e \in Slots, PageApply(e)
  PROVE  ServiceInv'
<1>1. PICK m : m = arg[e]
  OBVIOUS
<1>2. /\ at[e] = "read" /\ m.op # "hello" /\ page' = page /\ ElsewhereUnchanged
      /\ \/ /\ MayApply(m, snapshot[e][m.sid]) /\ Saves(m.sid, Applied(m, snapshot[e][m.sid]))
            /\ Replies(e, TRUE, m.sid)
         \/ Replies(e, FALSE, m.sid) /\ store' = store
  BY <1>1 DEF PageApply
<1>3. /\ m \in PageRequests /\ GoodRequest(m) /\ Known(m.tab, m.ans) /\ e \in Procs
      /\ m.sid \in Sessions
  BY <1>1, <1>2, Request DEF GoodRequest
<1>4. StoreFine
  <2>1. CASE MayApply(m, snapshot[e][m.sid]) /\ Saves(m.sid, Applied(m, snapshot[e][m.sid]))
    <3>1. RecordOk(m.sid, snapshot[e][m.sid])
      BY <1>3, StateIsFine
    <3>2. /\ Applied(m, snapshot[e][m.sid]) \in SessionRecords
          /\ RecordOk(m.sid, Applied(m, snapshot[e][m.sid]))
      BY <1>2, <1>3, <2>1, <3>1, AppliedOk
    <3> QED BY <1>3, <2>1, <3>2, StoreSaves
  <2> QED BY <1>2, <2>1, StoreKept
<1>5. /\ HandlersFine /\ SnapshotFine
      /\ registered' = registered /\ aborted' = aborted
  <2>1. CASE Replies(e, TRUE, m.sid)
    BY <1>1, <1>2, <1>3, <2>1, RepliesFine
  <2>2. CASE Replies(e, FALSE, m.sid)
    BY <1>1, <1>2, <1>3, <2>2, RepliesFine
  <2> QED BY <1>2, <2>1, <2>2
<1> QED BY <1>2, <1>4, <1>5, PagesKept, Registry, WorkerSteps

LEMMA PageHelloKeeps ==
  ASSUME ServiceInv, upsets' \in 0 .. MaxUpsets, NEW e \in Slots, PageHello(e)
  PROVE  ServiceInv'
<1>1. /\ at[e] = "read" /\ arg[e].op = "hello" /\ page' = page /\ ElsewhereUnchanged
      /\ \/ Replies(e, TRUE, None) /\ store' = store
         \/ \E s \in PendingForTab(e) :
              /\ Saves(s, [snapshot[e][s] EXCEPT
                             !.state = IF @ = "created" THEN "attached" ELSE @,
                             !.doc = arg[e].doc, !.conv = arg[e].conv])
              /\ Replies(e, TRUE, s)
  BY DEF PageHello
<1>2. arg[e] \in PageRequests /\ e \in Procs
  BY <1>1, Request
<1>3. CASE Replies(e, TRUE, None) /\ store' = store
  <2>1. HandlersFine /\ SnapshotFine /\ registered' = registered /\ aborted' = aborted
    BY <1>1, <1>3, RepliesFine
  <2> QED BY <1>1, <1>3, <2>1, PagesKept, StoreKept, Registry, WorkerSteps
<1>4. ASSUME NEW s \in PendingForTab(e),
             Saves(s, [snapshot[e][s] EXCEPT
                         !.state = IF @ = "created" THEN "attached" ELSE @,
                         !.doc = arg[e].doc, !.conv = arg[e].conv]),
             Replies(e, TRUE, s)
      PROVE  ServiceInv'
  <2>1. s \in Sessions /\ Active(snapshot[e][s])
    BY <1>4 DEF PendingForTab
  <2>2. HandlersFine /\ SnapshotFine /\ registered' = registered /\ aborted' = aborted
    BY <1>1, <1>4, <2>1, RepliesFine
  <2>3. PICK r : r = snapshot[e][s]
    OBVIOUS
  <2>4. /\ r \in SessionRecords /\ RecordOk(s, r) /\ GoodRec(s, r) /\ Known(r.tab, r.cand)
        /\ r.state \in ACTIVE_STATES /\ r # None
    BY <1>2, <2>1, <2>3, StateIsFine DEF Active, RecordOk, GoodRec
  <2>5. PICK q : q = [r EXCEPT !.state = IF @ = "created" THEN "attached" ELSE @,
                               !.doc = arg[e].doc, !.conv = arg[e].conv]
    OBVIOUS
  <2>6. /\ q \in SessionRecords /\ q.tab = r.tab /\ q.cand = r.cand /\ q.out = r.out
        /\ q.state = (IF r.state = "created" THEN "attached" ELSE r.state)
    BY <1>2, <2>4, <2>5 DEF SessionRecords, SESSION_STATES, ACTIVE_STATES, PageRequests
  <2>7. RecordOk(s, q)
    BY <2>4, <2>6 DEF RecordOk, GoodRec, ValidSession, SESSION_STATES, ACTIVE_STATES, Terminal
  <2>8. StoreFine
    BY <1>4, <2>1, <2>3, <2>5, <2>6, <2>7, StoreSaves
  <2> QED BY <1>1, <2>2, <2>8, PagesKept, Registry, WorkerSteps
<1> QED BY <1>1, <1>3, <1>4

-----------------------------------------------------------------------------
(* The page adapter of a tab.                                               *)

\* A step of a page leaves the worker alone.
LEMMA PageSteps ==
  ASSUME ServiceInv, upsets' \in 0 .. MaxUpsets, WorkerUnchanged, UNCHANGED <<turns, open>>,
         PagesFine, HandlersFine
  PROVE  ServiceInv'
<1>1. StoreFine /\ SnapshotFine
  BY StoreKept, SnapshotKept DEF WorkerUnchanged
<1>2. OthersFine
  BY Registry DEF OthersFine, WorkerUnchanged, ServiceInv, ServiceTypeOK
<1> QED BY <1>1, <1>2, Carries

Operations == {"hello", "staged", "ready", "returned", "dismissed"}

\* A request takes a free handler of the worker and holds what the page has.
LEMMA RequestMade ==
  ASSUME ServiceInv, NEW t \in Tabs, NEW q \in Adapters, NEW operation \in Operations,
         Requests(t, q, operation)
  PROVE  \E e \in Slots, v \in PageRequests :
           /\ at' = [at EXCEPT ![e] = "sent"] /\ arg' = [arg EXCEPT ![e] = v]
           /\ v.op = operation /\ v.sid = q.sid /\ v.ans = q.cand /\ v.tab = t
<1>1. PICK e : e = CHOOSE x \in Slots : at[x] = "idle"
  OBVIOUS
<1>2. e \in Slots
  BY <1>1 DEF Requests
<1>3. PICK v : v = [op |-> operation, sid |-> q.sid, ans |-> q.cand, tab |-> t,
                    doc |-> q.doc, conv |-> q.conv, ok |-> FALSE]
  OBVIOUS
<1>4. /\ v \in PageRequests /\ v.op = operation /\ v.sid = q.sid /\ v.ans = q.cand
      /\ v.tab = t
  BY <1>3 DEF PageRequests, Adapters, Operations
<1>5. at' = [at EXCEPT ![e] = "sent"] /\ arg' = [arg EXCEPT ![e] = v]
  BY <1>1, <1>3 DEF Requests, Goes
<1> QED BY <1>2, <1>4, <1>5

LEMMA RequestsFine ==
  ASSUME ServiceInv, NEW t \in Tabs, NEW q \in Adapters, NEW operation \in Operations,
         Requests(t, q, operation), Known(t, q.cand), operation # "ready",
         operation # "hello" => q.sid \in Sessions,
         operation = "returned" => q.cand \in Observations
  PROVE  HandlersFine
<1>1. PICK e \in Slots, v \in PageRequests :
        /\ at' = [at EXCEPT ![e] = "sent"] /\ arg' = [arg EXCEPT ![e] = v]
        /\ v.op = operation /\ v.sid = q.sid /\ v.ans = q.cand /\ v.tab = t
  BY RequestMade
<1>2. RequestOk(v)
  BY <1>1 DEF RequestOk, GoodRequest
<1>3. e \in Procs /\ e \notin Callers /\ v \in Args /\ "sent" \in HandlerSteps
  BY ServiceAssumption DEF Procs, Args, HandlerSteps
<1> QED BY <1>1, <1>2, <1>3, OneMoves

LEMMA PageHas ==
  ASSUME ServiceInv, NEW t \in Tabs
  PROVE  page[t] \in Adapters /\ AdapterOk(t, page[t]) /\ Known(t, page[t].cand)
         /\ turns[t] \in 0 .. MaxTurns
BY StateIsFine DEF AdapterOk, ServiceInv, ServiceTypeOK

LEMMA LoadPageKeeps ==
  ASSUME ServiceInv, upsets' \in 0 .. MaxUpsets, NEW t \in Tabs, LoadPage(t)
  PROVE  ServiceInv'
<1>1. PICK p : p = [NewPage(t) EXCEPT !.doc = page[t].doc + 1, !.conv = page[t].conv]
  OBVIOUS
<1>2. /\ Shows(t, p) /\ Requests(t, p, "hello") /\ WorkerUnchanged
      /\ UNCHANGED <<turns, open>>
  BY <1>1 DEF LoadPage
<1>3. p \in Adapters /\ p.sid = None /\ p.cand = None
  <2>1. PICK n : n = NewPage(t)
    OBVIOUS
  <2>2. \A b \in BOOLEAN :
          LET w == [doc |-> 0, conv |-> 0, sid |-> None, phase |-> "idle",
                    cand |-> None, base |-> 0, wipe |-> b] IN
          w \in Adapters /\ w.sid = None /\ w.cand = None
    BY ServiceAssumption DEF Adapters
  <2>3. n \in Adapters /\ n.sid = None /\ n.cand = None
    BY <2>1, <2>2, Zenon DEF NewPage
  <2>4. page[t].doc \in Nat /\ page[t].conv \in Nat
    BY PageHas DEF Adapters
  <2>5. PICK d, v : d = page[t].doc + 1 /\ v = page[t].conv
    OBVIOUS
  <2>6. d \in Nat /\ v \in Nat /\ p = [n EXCEPT !.doc = d, !.conv = v]
    BY <1>1, <2>1, <2>4, <2>5
  <2> QED BY <2>3, <2>6 DEF Adapters
<1>4. AdapterOk(t, p) /\ Known(t, p.cand)
  BY <1>3 DEF AdapterOk, Known
<1>5. PagesFine
  BY <1>2, <1>4, PageShows DEF Shows
<1>6. HandlersFine
  BY <1>2, <1>3, <1>4, RequestsFine DEF Operations
<1> QED BY <1>2, <1>5, <1>6, PageSteps

LEMMA UrlChangesKeeps ==
  ASSUME ServiceInv, upsets' \in 0 .. MaxUpsets, NEW t \in Tabs, UrlChanges(t)
  PROVE  ServiceInv'
<1>1. PICK p : p = [page[t] EXCEPT !.conv = @ + 1]
  OBVIOUS
<1>2. /\ Shows(t, p) /\ Requests(t, p, "hello") /\ WorkerUnchanged
      /\ UNCHANGED <<turns, open>>
  BY <1>1 DEF UrlChanges
<1>3. /\ p \in Adapters /\ p.sid = page[t].sid /\ p.cand = page[t].cand
      /\ p.base = page[t].base
  BY <1>1, PageHas DEF Adapters
<1>4. AdapterOk(t, p) /\ Known(t, p.cand)
  BY <1>3, PageHas DEF AdapterOk
<1>5. PagesFine
  BY <1>2, <1>4, PageShows DEF Shows
<1>6. HandlersFine
  BY <1>2, <1>3, <1>4, RequestsFine DEF Operations
<1> QED BY <1>2, <1>5, <1>6, PageSteps

LEMMA PlacePromptKeeps ==
  ASSUME ServiceInv, upsets' \in 0 .. MaxUpsets, NEW t \in Tabs, PlacePrompt(t)
  PROVE  ServiceInv'
<1>1. PICK p : p = [page[t] EXCEPT !.phase = "staged"]
  OBVIOUS
<1>2. /\ Shows(t, p) /\ Requests(t, page[t], "staged") /\ WorkerUnchanged
      /\ UNCHANGED <<turns, open>> /\ page[t].sid # None
  BY <1>1 DEF PlacePrompt, Buttons
<1>3. /\ p \in Adapters /\ p.sid = page[t].sid /\ p.cand = page[t].cand
      /\ p.base = page[t].base /\ page[t].sid \in Sessions
  BY <1>1, <1>2, PageHas DEF Adapters
<1>4. AdapterOk(t, p)
  BY <1>3, PageHas DEF AdapterOk
<1>5. PagesFine
  BY <1>2, <1>4, PageShows DEF Shows
<1>6. HandlersFine
  BY <1>2, <1>3, PageHas, RequestsFine DEF Operations
<1> QED BY <1>2, <1>5, <1>6, PageSteps

LEMMA DismissKeeps ==
  ASSUME ServiceInv, upsets' \in 0 .. MaxUpsets, NEW t \in Tabs, Dismiss(t)
  PROVE  ServiceInv'
<1>1. /\ Shows(t, Cleared(page[t])) /\ Requests(t, page[t], "dismissed") /\ WorkerUnchanged
      /\ UNCHANGED <<turns, open>> /\ page[t].sid # None
  BY DEF Dismiss, Buttons
<1>2. page[t].sid \in Sessions
  BY <1>1, PageHas DEF Adapters
<1>3. AdapterOk(t, Cleared(page[t]))
  BY PageHas, ClearedOk
<1>4. PagesFine
  BY <1>1, <1>3, PageShows DEF Shows
<1>5. HandlersFine
  BY <1>1, <1>2, PageHas, RequestsFine DEF Operations
<1> QED BY <1>1, <1>4, <1>5, PageSteps

LEMMA ReturnResponseKeeps ==
  ASSUME ServiceInv, upsets' \in 0 .. MaxUpsets, NEW t \in Tabs, ReturnResponse(t)
  PROVE  ServiceInv'
<1>1. /\ Requests(t, page[t], "returned") /\ WorkerUnchanged /\ UNCHANGED pages
      /\ page[t].sid # None /\ page[t].cand # None
  BY DEF ReturnResponse, Buttons
<1>2. page[t].sid \in Sessions /\ page[t].cand \in Observations
  BY <1>1, PageHas DEF Adapters
<1>3. HandlersFine
  BY <1>1, <1>2, PageHas, RequestsFine DEF Operations
<1>4. PagesFine
  BY <1>1, PagesKept DEF pages
<1> QED BY <1>1, <1>3, <1>4, PageSteps DEF pages

LEMMA WipeKeeps ==
  ASSUME ServiceInv, upsets' \in 0 .. MaxUpsets, NEW t \in Tabs, Wipe(t)
  PROVE  ServiceInv'
<1>1. /\ Shows(t, [Cleared(page[t]) EXCEPT !.wipe = FALSE]) /\ WorkerUnchanged
      /\ UNCHANGED <<turns, open>> /\ UNCHANGED <<at, arg>>
  BY DEF Wipe
<1>2. AdapterOk(t, [Cleared(page[t]) EXCEPT !.wipe = FALSE])
  BY PageHas, ClearedOk
<1>3. PICK q : q = [Cleared(page[t]) EXCEPT !.wipe = FALSE]
  OBVIOUS
<1>4. PagesFine
  BY <1>1, <1>2, <1>3, PageShows DEF Shows
<1> QED BY <1>1, <1>4, NoneMoves, PageSteps

\* An answer changes no baseline, but with a new card.
LEMMA AnsweredOk ==
  ASSUME ServiceInv, NEW m \in PageRequests, RequestOk(m)
  PROVE  AdapterOk(m.tab, Answered(page[m.tab], m.tab, m))
<1>1. PICK t \in Tabs : t = m.tab
  BY DEF PageRequests
<1>2. PICK p : p = page[t]
  OBVIOUS
<1>3. p \in Adapters /\ AdapterOk(t, p)
  BY <1>2, PageHas
<1>4. PICK q : q = Answered(p, t, m)
  OBVIOUS
<1>5. CASE m.op = "hello" /\ m.sid # None
  <2>1. m.sid \in Sessions /\ q = Card(p, t, m.sid)
    BY <1>4, <1>5 DEF Answered, PageRequests
  <2> QED BY <1>1, <1>2, <1>3, <1>4, <2>1, CardOk
<1>6. CASE m.op = "ready"
  <2>1. q = [p EXCEPT !.cand = m.ans, !.phase = "ready"]
    BY <1>4, <1>6 DEF Answered
  <2>2. /\ q \in Adapters /\ q.cand = m.ans /\ q.sid = p.sid /\ q.base = p.base
    BY <1>3, <2>1 DEF Adapters, PageRequests
  <2>3. Known(t, q.cand)
    BY <1>1, <2>2 DEF RequestOk
  <2> QED BY <1>1, <1>2, <1>3, <1>4, <2>2, <2>3 DEF AdapterOk
<1>7. CASE m.op = "returned"
  <2>1. \A b \in BOOLEAN :
          LET w == [p EXCEPT !.phase = "returned", !.wipe = b] IN
          /\ w \in Adapters /\ w.cand = p.cand /\ w.sid = p.sid /\ w.base = p.base
    BY <1>3 DEF Adapters
  <2>2. q = [p EXCEPT !.phase = "returned", !.wipe = TRUE]
    BY <1>4, <1>7 DEF Answered
  <2>3. /\ q \in Adapters /\ q.cand = p.cand /\ q.sid = p.sid /\ q.base = p.base
    BY <2>1, <2>2, Zenon
  <2> QED BY <1>1, <1>2, <1>3, <1>4, <2>3 DEF AdapterOk
<1>8. CASE m.op # "ready" /\ m.op # "returned" /\ ~ (m.op = "hello" /\ m.sid # None)
  <2>1. q = p
    BY <1>4, <1>8 DEF Answered
  <2> QED BY <1>1, <1>2, <1>3, <1>4, <2>1
<1> QED BY <1>5, <1>6, <1>7, <1>8

LEMMA PageAnsweredKeeps ==
  ASSUME ServiceInv, upsets' \in 0 .. MaxUpsets, NEW e \in Slots, PageAnswered(e)
  PROVE  ServiceInv'
<1>1. PICK m : m = arg[e]
  OBVIOUS
<1>2. PICK t : t = m.tab
  OBVIOUS
<1>3. PICK q : q = IF m.ok /\ page[t].doc = m.doc THEN Answered(page[t], t, m) ELSE page[t]
  OBVIOUS
<1>4. /\ at[e] = "answering" /\ Shows(t, q) /\ Goes(e, "idle")
      /\ arg' = [arg EXCEPT ![e] = None] /\ UNCHANGED <<turns, open>> /\ WorkerUnchanged
  BY <1>1, <1>2, <1>3 DEF PageAnswered
<1>5. /\ m \in PageRequests /\ RequestOk(m) /\ t \in Tabs /\ e \in Procs /\ e \notin Callers
  BY <1>1, <1>2, <1>4, Request, StateIsFine DEF PageRequests
<1>6. AdapterOk(t, q)
  BY <1>2, <1>3, <1>5, AnsweredOk, PageHas
<1>7. PagesFine
  BY <1>4, <1>5, <1>6, PageShows DEF Shows
<1>8. None \in Args /\ "idle" \in HandlerSteps /\ RequestOk(None)
  BY ServiceAssumption DEF Args, HandlerSteps, RequestOk
<1>9. HandlersFine
  BY <1>4, <1>5, <1>8, OneMoves DEF Goes
<1> QED BY <1>4, <1>7, <1>9, PageSteps

\* ChatGPT has responded: the new turn has not been observed yet.
LEMMA RespondsKeeps ==
  ASSUME ServiceInv, upsets' \in 0 .. MaxUpsets, NEW t \in Tabs, Responds(t)
  PROVE  ServiceInv'
<1>1. /\ turns[t] < MaxTurns /\ turns' = [turns EXCEPT ![t] = turns[t] + 1]
      /\ UNCHANGED <<page, open, at, arg, now, asked, store, enabled, snapshot, reply,
                     registered, aborted>>
  BY DEF Responds, WorkerUnchanged
<1>2. turns \in [Tabs -> 0 .. MaxTurns] /\ MaxTurns \in Nat
  BY ServiceAssumption DEF ServiceInv, ServiceTypeOK
<1>3. turns' \in [Tabs -> 0 .. MaxTurns] /\ \A u \in Tabs : turns'[u] = turns[u] \/
        (turns'[u] = turns[u] + 1)
  BY <1>1, <1>2
<1>4. \A u \in Tabs, x \in Observations : Held(u, x)' <=> Held(u, x)
  BY <1>1 DEF Held
<1>5. TurnsInv'
  <2>1. SUFFICES ASSUME NEW u \in Tabs, NEW x \in Observations, Held(u, x)'
                 PROVE  /\ x.turn <= turns'[u]
                        /\ \A y \in Observations : Held(u, y)' /\ y.turn = x.turn => y.of = x.of
                        /\ page[u].sid # None /\ page[u].base < turns'[u] /\ x.turn = turns'[u]
                             => x.of = page[u].sid
    BY <1>1 DEF TurnsInv
  <2>2. Held(u, x) /\ \A y \in Observations : Held(u, y)' => Held(u, y)
    BY <1>4, <2>1
  <2>3. /\ x.turn <= turns[u]
        /\ \A y \in Observations : Held(u, y) /\ y.turn = x.turn => y.of = x.of
        /\ page[u].sid # None /\ page[u].base < turns[u] /\ x.turn = turns[u] => x.of = page[u].sid
    BY <2>2 DEF ServiceInv, TurnsInv
  <2>4. turns[u] \in Nat /\ x.turn \in Nat /\ (turns'[u] = turns[u] \/ turns'[u] = turns[u] + 1)
    BY <1>2, <1>3 DEF Observations
  <2> QED BY <2>2, <2>3, <2>4
<1>6. ServiceTypeOK' /\ RecordInv' /\ RequestInv' /\ CallInv'
  BY <1>1, <1>3 DEF ServiceInv, ServiceTypeOK, RecordInv, RequestInv, CallInv
<1> QED BY <1>5, <1>6 DEF ServiceInv

\* A page reports a turn it has not reported before: it is the last one and came after
\* the card, and what was observed of it before was observed under this card.
LEMMA DetectResponseKeeps ==
  ASSUME ServiceInv, upsets' \in 0 .. MaxUpsets, NEW t \in Tabs, DetectResponse(t)
  PROVE  ServiceInv'
<1>1. PICK X : X = [turn |-> turns[t], of |-> page[t].sid]
  OBVIOUS
<1>2. PICK q : q = [page[t] EXCEPT !.cand = X]
  OBVIOUS
<1>3. /\ page[t].sid # None /\ turns[t] > page[t].base /\ Requests(t, q, "ready")
      /\ UNCHANGED <<page, turns, open, now, asked, store, enabled, snapshot, reply,
                     registered, aborted>>
  BY <1>1, <1>2 DEF DetectResponse, HasNewTurn, pages, WorkerUnchanged
<1>4. /\ page[t] \in Adapters /\ turns[t] \in 0 .. MaxTurns /\ MaxTurns \in Nat
  BY PageHas, ServiceAssumption
<1>5. X \in Observations /\ X.turn = turns[t] /\ X.of = page[t].sid /\ page[t].sid \in Sessions
  BY <1>1, <1>3, <1>4 DEF Observations, Adapters
<1>6. q \in Adapters /\ q.cand = X /\ q.sid = page[t].sid
  BY <1>2, <1>4, <1>5 DEF Adapters
<1>7. PICK e \in Slots, v \in PageRequests :
        /\ at' = [at EXCEPT ![e] = "sent"] /\ arg' = [arg EXCEPT ![e] = v]
        /\ v.op = "ready" /\ v.sid = page[t].sid /\ v.ans = X /\ v.tab = t
  BY <1>3, <1>6, RequestMade DEF Operations
<1>8. GoodRequest(v) /\ v \in Args /\ "sent" \in HandlerSteps /\ e \in Procs /\ e \notin Callers
  BY <1>5, <1>7, ServiceAssumption DEF GoodRequest, Args, HandlerSteps, Procs
<1>9. /\ at \in [Procs -> HandlerSteps] /\ arg \in [Procs -> Args]
      /\ at' \in [Procs -> HandlerSteps] /\ arg' \in [Procs -> Args]
  BY <1>7, <1>8, StateIsFine
<1>10. /\ at'[e] = "sent" /\ arg'[e] = v
       /\ \A p \in Procs \ {e} : at'[p] = at[p] /\ arg'[p] = arg[p]
  BY <1>7, <1>8, <1>9
<1>11. Slots \subseteq Procs /\ Callers \subseteq Procs
  BY DEF Procs
<1>12. ASSUME NEW u \in Tabs, NEW x \in Observations, Held(u, x)'
       PROVE  Held(u, x) \/ (u = t /\ x = X)
  <2>1. CASE \E f \in Slots : arg'[f] \in PageRequests /\ arg'[f].tab = u /\ arg'[f].ans = x
    BY <1>7, <1>10, <1>11, <2>1 DEF Held
  <2> QED BY <1>3, <1>12, <2>1 DEF Held
<1>13. TurnsInv'
  <2>1. SUFFICES ASSUME NEW u \in Tabs, NEW x \in Observations, Held(u, x)'
                 PROVE  /\ x.turn <= turns[u]
                        /\ \A y \in Observations : Held(u, y)' /\ y.turn = x.turn => y.of = x.of
                        /\ page[u].sid # None /\ page[u].base < turns[u] /\ x.turn = turns[u]
                             => x.of = page[u].sid
    BY <1>3 DEF TurnsInv
  <2>2. \A y \in Observations : Held(u, y) =>
          /\ y.turn <= turns[u]
          /\ \A z \in Observations : Held(u, z) /\ z.turn = y.turn => z.of = y.of
          /\ page[u].sid # None /\ page[u].base < turns[u] /\ y.turn = turns[u] => y.of = page[u].sid
    BY DEF ServiceInv, TurnsInv
  <2>3. \A y \in Observations : Held(u, y)' => Held(u, y) \/ (u = t /\ y = X)
    BY <1>12
  <2>4. CASE u # t
    BY <2>1, <2>2, <2>3, <2>4
  <2>5. CASE u = t
    <3>1. \A y \in Observations : Held(t, y)' => y.turn <= turns[t]
            /\ (y.turn = turns[t] => y.of = page[t].sid)
      BY <1>3, <1>4, <1>5, <2>2, <2>3, <2>5
    <3>2. \A y, z \in Observations : Held(t, y)' /\ Held(t, z)' /\ y.turn = z.turn => y.of = z.of
      BY <1>5, <2>2, <2>3, <2>5, <3>1
    <3> QED BY <2>1, <2>5, <3>1, <3>2
  <2> QED BY <2>4, <2>5
<1>14. RecordInv'
  BY <1>3 DEF ServiceInv, RecordInv
<1>15. RequestInv'
  BY <1>7, <1>8, <1>10, <1>11 DEF ServiceInv, RequestInv
<1>16. CallInv'
  BY <1>8, <1>9, <1>10, <1>11 DEF ServiceInv, CallInv
<1>17. ServiceTypeOK'
  BY <1>3, <1>7, <1>9, <1>10, <1>11 DEF ServiceInv, ServiceTypeOK
<1> QED BY <1>13, <1>14, <1>15, <1>16, <1>17 DEF ServiceInv

-----------------------------------------------------------------------------
(* Every step.                                                              *)

LEMMA TickKeeps ==
  ASSUME ServiceInv, upsets' \in 0 .. MaxUpsets, Tick
  PROVE  ServiceInv'
<1>1. /\ now < MaxTime /\ now' = now + 1
      /\ UNCHANGED <<asked, store, enabled, page, turns, open, at, snapshot, arg, reply,
                     registered, aborted>>
  BY DEF Tick, pages, workerState
<1>2. now' \in 0 .. MaxTime
  BY <1>1, ServiceAssumption DEF ServiceInv, ServiceTypeOK
<1>3. OthersFine
  BY <1>1, <1>2, Registry DEF OthersFine, ServiceInv, ServiceTypeOK
<1>4. StoreFine /\ PagesFine /\ SnapshotFine /\ HandlersFine
  BY <1>1, StoreKept, PagesKept, SnapshotKept, NoneMoves
<1> QED BY <1>3, <1>4, Carries

\* The worker stops: page requests in hand are answered, whatever they hold.
LEMMA WorkerStopsKeeps ==
  ASSUME ServiceInv, upsets' \in 0 .. MaxUpsets, WorkerStops
  PROVE  ServiceInv'
<1>1. /\ at' = [p \in Procs |-> IF ~ InHand(p) THEN at[p]
                                ELSE IF p \in Slots THEN "answering" ELSE "done"]
      /\ snapshot' = [p \in Procs |-> Nothing]
      /\ registered' = [i \in RequestIds |-> None]
      /\ UNCHANGED <<now, asked, store, enabled, page, turns, open, arg, aborted>>
  BY DEF WorkerStops, pages
<1>2. at \in [Procs -> HandlerSteps] /\ arg \in [Procs -> Args]
  BY StateIsFine
<1>3. \A p \in Procs : InHand(p) => at[p] # "idle"
  BY DEF InHand
<1>4. at' \in [Procs -> HandlerSteps]
  BY <1>1, <1>2 DEF HandlerSteps
<1>5. Slots \subseteq Procs /\ Callers \subseteq Procs
  BY DEF Procs
<1>6. \A e \in Slots : at'[e] # "idle" => at[e] # "idle"
  BY <1>1, <1>3, <1>5
<1>7. \A c \in Callers : at'[c] \in {at[c], "done"}
  BY <1>1, <1>5, ServiceAssumption
<1>8. HandlersFine
  <2>1. \A e \in Slots : /\ arg[e] \in PageRequests \cup {None} /\ RequestOk(arg[e])
                         /\ at'[e] # "idle" => arg[e] \in PageRequests
    BY <1>6, StateIsFine DEF ServiceInv, ServiceTypeOK, RequestInv
  <2>2. \A c \in Callers : CallHas(at'[c], arg[c])
    BY <1>7 DEF ServiceInv, CallInv, CallHas
  <2> QED BY <1>1, <1>2, <1>4, <2>1, <2>2 DEF HandlersFine
<1>9. SnapshotFine
  BY <1>1 DEF SnapshotFine, Stores, Nothing, RecordOk
<1>10. OthersFine
  BY <1>1, Registry DEF OthersFine, ServiceInv, ServiceTypeOK
<1> QED BY <1>1, <1>8, <1>9, <1>10, StoreKept, PagesKept, Carries

LEMMA CallStepKeeps ==
  ASSUME ServiceInv, upsets' \in 0 .. MaxUpsets, NEW c \in Callers, CallStep(c)
  PROVE  ServiceInv'
<1>1. c \in Procs
  BY DEF Procs
<1> QED BY <1>1, RegisterKeeps, TimesOutKeeps, FetchedKeeps, ReplayKeeps, PickTabKeeps,
           NoTabKeeps, CreateKeeps, StageKeeps, PollKeeps, ExpireKeeps DEF CallStep

LEMMA WorkerStepKeeps ==
  ASSUME ServiceInv, upsets' \in 0 .. MaxUpsets
  PROVE  /\ \A k \in Cancels : CancelStep(k) => ServiceInv'
         /\ \A w \in Switches : SwitchStep(w) => ServiceInv'
         /\ \A e \in Slots : SlotStep(e) => ServiceInv'
<1>1. Cancels \subseteq Procs /\ Slots \subseteq Procs
  BY DEF Procs
<1> QED BY <1>1, CancelRequestKeeps, CancelCurrentKeeps, ExpireKeeps, DisableCancelsKeeps,
           DisabledKeeps, PageReadKeeps, PageApplyKeeps, PageHelloKeeps, PageAnsweredKeeps
        DEF CancelStep, SwitchStep, SlotStep

LEMMA PageStepKeeps ==
  ASSUME ServiceInv, upsets' \in 0 .. MaxUpsets, NEW t \in Tabs, PageStep(t)
  PROVE  ServiceInv'
BY LoadPageKeeps, PlacePromptKeeps, DetectResponseKeeps, ReturnResponseKeeps, WipeKeeps,
   RespondsKeeps DEF PageStep

LEMMA UpsetKeeps ==
  ASSUME ServiceInv, upsets' \in 0 .. MaxUpsets, Upset
  PROVE  ServiceInv'
BY DenyKeeps, CancelKeeps, SetEnabledKeeps, LoadPageKeeps, UrlChangesKeeps, DismissKeeps,
   WorkerStopsKeeps DEF Upset

LEMMA ServiceSteps == ASSUME ServiceInv, [ServiceNext]_serviceVars PROVE ServiceInv'
<1>1. CASE \E c \in Callers :
             (CallStep(c) \/ Generate(c) \/ Look(c) \/ Fetched(c) \/ Refuse(c)) /\ Counts(0)
  BY <1>1, Counted, CallStepKeeps, GenerateKeeps, LookKeeps, FetchedKeeps, RefuseKeeps
<1>2. CASE \/ \E k \in Cancels : CancelStep(k) /\ Counts(0)
           \/ \E w \in Switches : SwitchStep(w) /\ Counts(0)
           \/ \E e \in Slots : SlotStep(e) /\ Counts(0)
  BY <1>2, Counted, WorkerStepKeeps
<1>3. CASE \E t \in Tabs : PageStep(t) /\ Counts(0)
  BY <1>3, Counted, PageStepKeeps
<1>4. CASE Tick /\ Counts(0)
  BY <1>4, Counted, TickKeeps
<1>5. CASE Upset /\ Counts(1)
  BY <1>5, Counted, UpsetKeeps
<1>6. CASE UNCHANGED serviceVars
  <2>1. upsets' \in 0 .. MaxUpsets /\ OthersFine
    BY <1>6, Registry DEF serviceVars, pages, workerState, OthersFine, ServiceInv, ServiceTypeOK
  <2>2. StoreFine /\ PagesFine /\ SnapshotFine /\ HandlersFine
    BY <1>6, StoreKept, PagesKept, SnapshotKept, NoneMoves DEF serviceVars, pages, workerState
  <2> QED BY <2>1, <2>2, Carries
<1> QED BY <1>1, <1>2, <1>3, <1>4, <1>5, <1>6 DEF ServiceNext

LEMMA ServiceStarts == ASSUME ServiceInit PROVE ServiceInv
<1>1. \A t \in Tabs : page[t].cand = None /\ page[t].sid = None
  BY DEF ServiceInit, NewPage
<1>2. \A p \in Procs : at[p] = "idle" /\ arg[p] = None
  BY DEF ServiceInit
<1>3. \A p \in Procs, s \in Sessions : snapshot[p][s] = None /\ store[s] = None
  BY DEF ServiceInit, Nothing
<1>4. \A s \in Sessions : store[s] = None
  BY DEF ServiceInit, Nothing
<1>5. Slots \subseteq Procs /\ Callers \subseteq Procs
  BY DEF Procs
<1>6. TurnsInv
  <2>1. \A x \in Observations : x # None
    BY ServiceAssumption
  <2>2. \A e \in Slots : arg[e] \notin PageRequests
    BY <1>2, <1>5, ServiceAssumption
  <2> QED BY <1>1, <1>3, <1>4, <2>1, <2>2 DEF TurnsInv, Held
<1>7. RecordInv
  BY <1>3, <1>4 DEF RecordInv
<1>8. RequestInv
  BY <1>2, <1>5, ServiceAssumption DEF RequestInv
<1>9. CallInv
  BY <1>2, <1>5 DEF ServiceInit, CallInv, CallHas, Args
<1>10. page \in [Tabs -> Adapters]
  <2>1. \A b \in BOOLEAN :
          [doc |-> 0, conv |-> 0, sid |-> None, phase |-> "idle",
           cand |-> None, base |-> 0, wipe |-> b] \in Adapters
    BY ServiceAssumption DEF Adapters
  <2>2. \A t \in Tabs : NewPage(t) \in Adapters
    BY <2>1, Zenon DEF NewPage
  <2> QED BY <2>2 DEF ServiceInit
<1>11. ServiceTypeOK
  <2>1. now \in 0 .. MaxTime /\ upsets \in 0 .. MaxUpsets /\ enabled \in BOOLEAN
    BY ServiceAssumption DEF ServiceInit
  <2>2. open \subseteq Tabs /\ asked \in [Callers -> Asked] /\ turns \in [Tabs -> 0 .. MaxTurns]
    BY ServiceAssumption DEF ServiceInit
  <2>3. /\ store \in [Sessions -> SessionRecords \cup {None}]
        /\ snapshot \in [Procs -> [Sessions -> SessionRecords \cup {None}]]
    BY DEF ServiceInit, Nothing
  <2>4. /\ at \in [Procs -> HandlerSteps]
        /\ registered \in [RequestIds -> Callers \cup {None}]
        /\ aborted \in [Callers -> {"no", "timeout", "cancelled"}]
    BY DEF ServiceInit, HandlerSteps
  <2> QED BY <1>2, <1>4, <1>5, <1>10, <2>1, <2>2, <2>3, <2>4 DEF ServiceTypeOK
<1> QED BY <1>6, <1>7, <1>8, <1>9, <1>11 DEF ServiceInv

\* The invariant of the AI service: what a page has observed of an assistant turn,
\* wherever it is by now, was observed under one session, and a record only holds what was
\* observed under its own (ai-service.js, chatgpt-provider-runtime.js and
\* chatgpt-provider-bridge.js, for any number of calls, tabs and page requests).
THEOREM ServiceInvariant == ServiceSpec => []ServiceInv
<1>1. ServiceInit => ServiceInv
  BY ServiceStarts
<1>2. ServiceInv /\ [ServiceNext]_serviceVars => ServiceInv'
  BY ServiceSteps
<1> QED BY <1>1, <1>2, PTL DEF ServiceSpec

\* A session returns the answer that was observed while it was on the card itself, never
\* one of an earlier request in the same tab: dismissed, reloaded and overlapping page
\* requests, expiries and restarts of the worker included.
THEOREM AnswersAreOwn == ServiceSpec => []ReturnsOwnAnswer
<1>1. ServiceInv => ReturnsOwnAnswer
  BY DEF ServiceInv, RecordInv, GoodRec, ReturnsOwnAnswer
<1> QED BY <1>1, ServiceInvariant, PTL

\* Every stored session is valid for validateSession(), and every handler has what it
\* needs for its next write.
THEOREM ServiceTypes == ServiceSpec => []ServiceTypeOK
<1>1. ServiceInv => ServiceTypeOK
  BY DEF ServiceInv
<1> QED BY <1>1, ServiceInvariant, PTL
=============================================================================
