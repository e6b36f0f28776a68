----------------------------- MODULE KernelHost -----------------------------
(***************************************************************************)
(* Dispatch in the browser kernel host, extension/src/kernel-host.js over  *)
(* the IndexedDB transactions of extension/src/storage.js.                 *)
(*                                                                         *)
(* Pages send dispatches to the service worker.  The worker runs them one  *)
(* at a time: it reads the profile and the page's context, runs the Hara   *)
(* transition, prepares a durable request, performs the effects, and       *)
(* commits both records with a receipt in one transaction.  A dispatch     *)
(* whose id is running joins it.  Chrome may stop the worker at any await, *)
(* with effect messages still on their way to a page; the next message     *)
(* starts it again from the database.                                      *)
(*                                                                         *)
(* The profile record is older than the bundled apps, as after an update   *)
(* of the extension, and whoever reads it first writes the upgraded one.   *)
(* Gates are the authority checks for messages of content scripts: they    *)
(* read it outside the queue.                                              *)
(*                                                                         *)
(* The state a record holds is named by the dispatches it has taken in.    *)
(***************************************************************************)
EXTENDS Naturals, Sequences, FiniteSets

CONSTANTS Calls,       \* dispatches that pages send, repeated ones included
          Gates,       \* authority checks that do not go through the queue
          Clients,     \* document contexts
          Ids,         \* request ids
          Contents,    \* what is hashed: client, kind, method, arguments
          IdOf,        \* the id of each dispatch,
          ContentOf,   \* its content,
          ClientOf,    \* and the page that sends it
          PlansOf,     \* the effects that Hara may plan for a content
          Changes,     \* contents that change the installed apps or the grants
          MaxReceipts, \* MAX_RECEIPTS
          Nil

\* The effect of a plan.  A plan holds at most one besides the storage intents,
\* which the commit carries out.
Effects == {"none", "tab", "export", "surface"}
NON_REPLAYABLE_EFFECTS == {"tab", "export"}

ASSUME KernelAssumption ==
  /\ IdOf \in [Calls -> Ids]
  /\ ContentOf \in [Calls -> Contents]
  /\ ClientOf \in [Calls -> Clients]
  /\ \A c, d \in Calls : ContentOf[c] = ContentOf[d] => ClientOf[c] = ClientOf[d]
  /\ PlansOf \in [Contents -> SUBSET Effects]
  /\ Changes \subseteq Contents
  /\ MaxReceipts \in Nat \ {0}
  /\ Nil \notin Calls

VARIABLES
  global,    \* the profile record: revision, state, receipts
  context,   \* the record of each page
  prepared,  \* the prepared requests, by the dispatch that prepared them
  queue,     \* dispatches in the worker's queue, the running one first
  inflight,  \* per id: the dispatch whose promise is in the map
  pc,        \* where each dispatch is
  leader,    \* the dispatch whose promise answers each one
  base,      \* the records a dispatch has read
  plan,      \* its effect
  seen,      \* the record that a gate has read and is about to upgrade
  asks,      \* effect messages on their way to a page, or running there
  answer,    \* what each dispatch was answered
  performed, \* history: dispatches whose effect happened and cannot be repeated
  committed, \* history: dispatches that were committed
  overwritten \* history: an upgrade was written over a record that had gone on

disk == <<global, context, prepared>>
worker == <<queue, inflight, leader, base, plan>>
gates == <<seen, overwritten>>
vars == <<disk, worker, gates, pc, asks, answer, performed, committed>>
-----------------------------------------------------------------------------
Globals == [rev : Nat, state : SUBSET Calls, receipts : Seq(Calls), current : BOOLEAN]
ContextRecords == [rev : Nat, state : SUBSET Calls]
NewGlobal == [rev |-> 0, state |-> {}, receipts |-> <<>>, current |-> FALSE]
NewContext == [rev |-> 0, state |-> {}]
NothingRead == [global |-> NewGlobal, context |-> NewContext]

Pcs == {"unsent", "joined", "queued", "loaded", "prepared", "asked", "effected",
        "failing", "committed", "done"}
Answers == {"none", "ok", "replayed", "reuse", "unknown", "refused", "failed", "lost"}

TypeOK ==
  /\ global \in Globals /\ Len(global.receipts) <= MaxReceipts
  /\ context \in [Clients -> ContextRecords]
  /\ prepared \subseteq Calls
  /\ queue \in Seq(Calls)
  /\ inflight \in [Ids -> Calls \cup {Nil}]
  /\ pc \in [Calls -> Pcs]
  /\ leader \in [Calls -> Calls]
  /\ base \in [Calls -> [global : Globals, context : ContextRecords]]
  /\ plan \in [Calls -> Effects]
  /\ asks \subseteq Calls
  /\ answer \in [Calls -> Answers]
  /\ performed \subseteq Calls /\ committed \subseteq Calls
  /\ seen \in [Gates -> {Nil} \cup {g \in Globals : Len(g.receipts) <= MaxReceipts}]
  /\ overwritten \in BOOLEAN

Init ==
  /\ global = NewGlobal
  /\ context = [p \in Clients |-> NewContext]
  /\ prepared = {}
  /\ queue = <<>>
  /\ inflight = [i \in Ids |-> Nil]
  /\ pc = [c \in Calls |-> "unsent"]
  /\ leader = [c \in Calls |-> c]
  /\ base = [c \in Calls |-> NothingRead]
  /\ plan = [c \in Calls |-> "none"]
  /\ asks = {}
  /\ answer = [c \in Calls |-> "none"]
  /\ performed = {} /\ committed = {}
  /\ seen = [g \in Gates |-> Nil]
  /\ overwritten = FALSE
-----------------------------------------------------------------------------
(* The queue and the promises.                                              *)

Move(c, p) == pc' = [pc EXCEPT ![c] = p]

\* dispatch(): join the running promise of the id, whatever its content, or
\* enqueue.
Dispatch(c) ==
  LET i == IdOf[c] IN
  /\ pc[c] = "unsent"
  /\ \/ /\ inflight[i] # Nil
        /\ Move(c, "joined")
        /\ leader' = [leader EXCEPT ![c] = inflight[i]]
        /\ UNCHANGED <<queue, inflight>>
     \/ /\ inflight[i] = Nil
        /\ Move(c, "queued")
        /\ queue' = Append(queue, c)
        /\ inflight' = [inflight EXCEPT ![i] = c]
        /\ UNCHANGED leader
  /\ UNCHANGED <<disk, base, plan, asks, answer, performed, committed, gates>>

\* enqueue(): an operation starts when the ones before it have settled.
AtOnce(c) == pc[c] = "queued"
Turn(c) == pc[c] = "queued" /\ queue # <<>> /\ Head(queue) = c

\* The promise settles: it answers the dispatches that joined it, leaves the map,
\* and the queue goes on whether it was fulfilled or rejected.
StopsAtFailure(a) == IF a \in {"ok", "replayed"} THEN Tail(queue) ELSE queue
Rest(a) == Tail(queue)
AnsweredWith(c) == {x \in Calls : x = c \/ (pc[x] = "joined" /\ leader[x] = c)}

Settle(c, a) ==
  /\ pc' = [x \in Calls |-> IF x \in AnsweredWith(c) THEN "done" ELSE pc[x]]
  /\ answer' = [x \in Calls |-> IF x \in AnsweredWith(c) THEN a ELSE answer[x]]
  /\ inflight' = [inflight EXCEPT ![IdOf[c]] = Nil]
  /\ queue' = Rest(a)
-----------------------------------------------------------------------------
(* globalState(): a record that is out of date is upgraded and written back. *)

Upgraded(g) == [g EXCEPT !.rev = @ + 1, !.current = TRUE]

\* In the queue, before anything else of a dispatch.
Upgrade(c) ==
  /\ Turn(c) /\ ~global.current
  /\ global' = Upgraded(global)
  /\ UNCHANGED <<context, prepared, worker, gates, pc, asks, answer, performed, committed>>

\* Outside the queue: a gate reads the record and writes the upgrade of what it read.
GateReads(g) ==
  /\ seen[g] = Nil /\ ~global.current
  /\ seen' = [seen EXCEPT ![g] = global]
  /\ UNCHANGED <<disk, worker, overwritten, pc, asks, answer, performed, committed>>

GateWrites(g) ==
  /\ seen[g] # Nil
  /\ global' = Upgraded(seen[g])
  /\ seen' = [seen EXCEPT ![g] = Nil]
  /\ overwritten' = (overwritten \/ global \notin {seen[g], Upgraded(seen[g])})
  /\ UNCHANGED <<context, prepared, worker, pc, asks, answer, performed, committed>>
-----------------------------------------------------------------------------
(* runDispatch().                                                           *)

WithId(S, i) == {x \in S : IdOf[x] = i}
Receipts(g) == {g.receipts[k] : k \in DOMAIN g.receipts}
AnyContent(c, x) == TRUE
SameContent(c, x) == ContentOf[x] = ContentOf[c]

\* A prepared request of the id, by whoever prepared it.
Attempts(c) == WithId(prepared, IdOf[c])

\* The records are read.  A receipt of this request is replayed, a prepared one
\* is not tried again, and neither serves other content.
Load(c) ==
  LET receipts == WithId(Receipts(global), IdOf[c])
      attempts == Attempts(c)
  IN
  /\ Turn(c) /\ global.current
  /\ \/ /\ \E x \in receipts : Settle(c, IF SameContent(c, x) THEN "replayed" ELSE "reuse")
        /\ UNCHANGED base
     \/ /\ receipts = {}
        /\ \E x \in attempts : Settle(c, IF SameContent(c, x) THEN "unknown" ELSE "reuse")
        /\ UNCHANGED base
     \/ /\ Settle(c, "refused")  \* the method or a revision it expects
        /\ UNCHANGED base
     \/ /\ receipts = {} /\ attempts = {}
        /\ Move(c, "loaded")
        /\ base' = [base EXCEPT ![c] = [global |-> global, context |-> context[ClientOf[c]]]]
        /\ UNCHANGED <<answer, inflight, queue>>
  /\ UNCHANGED <<disk, leader, plan, asks, performed, committed, gates>>

\* The transition yields a valid plan and the request is prepared; or the
\* transition, its validation or the write fails and nothing is left behind.
Prepare(c) ==
  /\ pc[c] = "loaded"
  /\ \/ /\ \E e \in PlansOf[ContentOf[c]] : plan' = [plan EXCEPT ![c] = e]
        /\ prepared' = (prepared \ WithId(prepared, IdOf[c])) \cup {c}
        /\ Move(c, "prepared")
        /\ UNCHANGED <<answer, inflight, queue>>
     \/ /\ Settle(c, "refused")
        /\ UNCHANGED <<prepared, plan>>
  /\ UNCHANGED <<global, context, leader, base, asks, performed, committed, gates>>

\* executeEffect() in the worker: a tab is opened, is not, or may have been.
OpenTab(c) ==
  /\ pc[c] = "prepared" /\ plan[c] = "tab"
  /\ \/ Move(c, "effected") /\ performed' = performed \cup {c}
     \/ Move(c, "failing") /\ performed' \in {performed, performed \cup {c}}
  /\ UNCHANGED <<disk, worker, asks, answer, committed, gates>>

\* executeEffect() in the initiating page.
Ask(c) ==
  /\ pc[c] = "prepared" /\ plan[c] \in {"export", "surface"}
  /\ asks' = asks \cup {c}
  /\ Move(c, "asked")
  /\ UNCHANGED <<disk, worker, answer, performed, committed, gates>>

\* The page performs the effect, fails before or after it did, or is gone; the
\* worker hears of it if it still waits.
PageAnswers(c) ==
  /\ c \in asks
  /\ asks' = asks \ {c}
  /\ \/ /\ pc[c] = "asked" /\ Move(c, "effected")
        /\ performed' = performed \cup (IF plan[c] = "export" THEN {c} ELSE {})
     \/ /\ IF pc[c] = "asked" THEN Move(c, "failing") ELSE UNCHANGED pc
        /\ performed' \in {performed, performed \cup (IF plan[c] = "export" THEN {c} ELSE {})}
  /\ UNCHANGED <<disk, worker, answer, committed, gates>>

\* The last MAX_RECEIPTS receipts.
Newest(s) == IF Len(s) > MaxReceipts THEN SubSeq(s, Len(s) - MaxReceipts + 1, Len(s)) ELSE s

\* commit(): one transaction over both records and the prepared request, made
\* from the records that were read.
Commit(c) ==
  LET g == base[c].global
      k == base[c].context
      change == IF ContentOf[c] \in Changes THEN {c} ELSE {}
      kept == Newest(Append(g.receipts, c))
      dropped == {IdOf[x] : x \in Receipts(global) \ {kept[n] : n \in DOMAIN kept}}
  IN
  /\ pc[c] = "effected" \/ (pc[c] = "prepared" /\ plan[c] = "none")
  /\ \/ /\ global' = [g EXCEPT !.rev = @ + Cardinality(change), !.state = @ \cup change,
                                 !.receipts = kept]
        /\ context' = [context EXCEPT ![ClientOf[c]] = [rev |-> k.rev + 1, state |-> k.state \cup {c}]]
        /\ prepared' = prepared \ WithId(prepared, IdOf[c])
        /\ committed' = committed \cup {c}
        /\ performed' = {x \in performed : IdOf[x] \notin dropped}
        /\ Move(c, "committed")
     \/ /\ Move(c, "failing")
        /\ UNCHANGED <<disk, committed, performed>>
  /\ UNCHANGED <<worker, asks, answer, gates>>

\* The snapshot is broadcast and the dispatch answered.
Answer(c) ==
  /\ pc[c] = "committed"
  /\ Settle(c, "ok")
  /\ UNCHANGED <<disk, leader, base, plan, asks, performed, committed, gates>>

\* The catch block: after a non-replayable effect was attempted the prepared
\* request stays; otherwise it is deleted, and whether that works is ignored.
NeverRetained(c) == FALSE
Retained(c) == plan[c] \in NON_REPLAYABLE_EFFECTS
Abort(c) ==
  /\ pc[c] = "failing"
  /\ \/ /\ Retained(c)
        /\ Settle(c, "unknown")
        /\ UNCHANGED prepared
     \/ /\ ~Retained(c)
        /\ prepared' \in {prepared, prepared \ WithId(prepared, IdOf[c])}
        /\ Settle(c, "failed")
  /\ UNCHANGED <<global, context, leader, base, plan, asks, performed, committed, gates>>

\* Chrome stops the worker: nothing that ran in it is left, and the pages'
\* messages to it fail.
Running(c) == pc[c] \notin {"unsent", "done"}
Stop ==
  /\ \E c \in Calls : Running(c)
  /\ pc' = [c \in Calls |-> IF Running(c) THEN "done" ELSE pc[c]]
  /\ answer' = [c \in Calls |-> IF Running(c) THEN "lost" ELSE answer[c]]
  /\ queue' = <<>>
  /\ inflight' = [i \in Ids |-> Nil]
  /\ seen' = [g \in Gates |-> Nil]
  /\ UNCHANGED <<disk, leader, base, plan, asks, performed, committed, overwritten>>

HostStep(c) == \/ Upgrade(c) \/ Load(c) \/ Prepare(c) \/ OpenTab(c) \/ Ask(c) \/ Commit(c)
               \/ Answer(c) \/ Abort(c)
GateStep(g) == GateReads(g) \/ GateWrites(g)

Next == \/ \E c \in Calls : Dispatch(c) \/ HostStep(c) \/ PageAnswers(c)
        \/ \E g \in Gates : GateStep(g)
        \/ Stop

Spec == Init /\ [][Next]_vars

\* The worker's promises settle.  A page may never answer.
Fairness == \A c \in Calls : WF_vars(HostStep(c))
FairSpec == Spec /\ Fairness
-----------------------------------------------------------------------------
(* Properties.  Those about the records hold while Intact: no gate has       *)
(* written an upgrade over a commit it had not read.                         *)

Intact == ~overwritten

\* A tab is not opened and an export is not made twice for one request id, however
\* often it is dispatched and whenever the worker stops, until the receipt of the
\* id has left the bounded history (prepareRequest before executeEffect, the
\* retained request in the catch block, and the two look-ups of runDispatch).
EffectOnce ==
  Intact => \A c, d \in performed : IdOf[c] = IdOf[d] => c = d

\* No committed transition is lost: the records hold exactly what was committed,
\* although each commit writes what an earlier read found (enqueue); and revisions
\* count what was taken in and the upgrade, so that one of them names one state.
CommitsKept == Intact =>
  /\ global.state = {c \in committed : ContentOf[c] \in Changes}
  /\ \A p \in Clients : context[p].state = {c \in committed : ClientOf[c] = p}
  /\ global.rev = Cardinality(global.state) + (IF global.current THEN 1 ELSE 0)
  /\ \A p \in Clients : context[p].rev = Cardinality(context[p].state)

\* A dispatch that is answered with a snapshot, or joined one that is, stands for
\* a committed request of the same id and content, replays after a stop included.
AnswerIsDurable ==
  Intact => \A c \in Calls : answer[c] \in {"ok", "replayed"} =>
    \E x \in committed : IdOf[x] = IdOf[leader[c]] /\ ContentOf[x] = ContentOf[leader[c]]

\* A request that was answered outcome-unknown is never executed afterwards: its
\* id stays prepared, and no receipt of it appears.
UnknownStays ==
  Intact => \A c \in Calls : answer[c] = "unknown" =>
    /\ WithId(prepared, IdOf[c]) # {}
    /\ WithId(Receipts(global), IdOf[c]) = {}

\* If pages answer their effects, every dispatch is answered, the ones that joined
\* and the ones behind a failed one included.
PagesAnswer == \A c \in Calls : []<>(c \notin asks)
EveryDispatchAnswered == PagesAnswer => \A c \in Calls : Running(c) ~> pc[c] = "done"

\* protocol/kernel.md:16, "every committed transition can be rehydrated": violated, a
\* gate overwrites a commit with the upgrade of the record it read before.
CommittedRehydrates == {c \in committed : ContentOf[c] \in Changes} \subseteq global.state

\* protocol/kernel.md:53, "Reusing that ID with different content is invalid":
\* violated, a dispatch joins the running one of its id without comparing.
ReuseRefused ==
  \A c, d \in Calls :
    /\ IdOf[c] = IdOf[d] /\ ContentOf[c] # ContentOf[d]
    /\ answer[c] \in {"ok", "replayed"}
    => answer[d] \notin {"ok", "replayed"}
=============================================================================
