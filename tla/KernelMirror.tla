---------------------------- MODULE KernelMirror ----------------------------
(***************************************************************************)
(* What pages show of the browser kernel: KernelClient of                  *)
(* extension/src/kernel-client.js against the host of                      *)
(* extension/src/kernel-host.js.                                           *)
(*                                                                         *)
(* The worker runs one operation at a time.  It asks the page of a         *)
(* dispatch to perform a page effect on a tentative state, commits,        *)
(* broadcasts the snapshot and answers.  A page takes its own snapshots    *)
(* whole and, of those of other pages, the installed apps.  The answer to  *)
(* a request may arrive after later broadcasts; a broadcast is awaited     *)
(* until every page has handled it.  Chrome may stop the worker at any     *)
(* await, which fails the requests that it had not answered, while a page  *)
(* goes on with the effect it was asked for.                               *)
(*                                                                         *)
(* Grants are left out: broadcasts carry them to the own page only.  How   *)
(* requests are made durable is in KernelHost.                             *)
(***************************************************************************)
EXTENDS Naturals, Sequences, FiniteSets

CONSTANTS Pages,       \* documents, each with a context of its own
          Apps,        \* optional apps, which may be installed and removed
          Fresh,       \* pages that are opened while the others run
          MaxCommits,  \* bound on committed dispatches
          MaxUpsets,   \* bound on stops, failures and closed pages
          None

ASSUME MirrorAssumption ==
  Fresh \subseteq Pages /\ None \notin Apps /\ {MaxCommits, MaxUpsets} \subseteq Nat

VARIABLES
  past,     \* the installed apps at each revision of the profile record
  own,      \* per page: the active app at each revision of its context record
  op,       \* the dispatch the worker is running
  page,     \* what each page holds
  request,  \* per page and kind: where its request is, and its answer
  effects,  \* per page: the effects that run in it
  adrift,   \* pages whose tentative state no worker will replace
  upsets

vars == <<past, own, op, page, request, effects, adrift, upsets>>
-----------------------------------------------------------------------------
Kinds == {"attach", "dispatch"}
States == [installed : SUBSET Apps, active : Apps \cup {None}]
Snapshots == [state : States, globalRevision : Nat, contextRevision : Nat]
Idle == [at |-> "idle"]
Sent == [at |-> "sent"]
NoState == [installed |-> {}, active |-> None]

TypeOK ==
  /\ past \in Seq(SUBSET Apps) /\ past # <<>>
  /\ own \in [Pages -> Seq(Apps \cup {None})]
  /\ op = Idle \/ /\ op.page \in Pages /\ op.base \in Snapshots /\ op.next \in States
                  /\ op.at \in {"prepared", "asked", "effected", "failing", "committed", "announced"}
  /\ \A p \in Pages :
       /\ page[p].at \in {"new", "open", "gone"}
       /\ [state |-> page[p].state, globalRevision |-> page[p].globalRevision,
           contextRevision |-> page[p].contextRevision] \in Snapshots
       /\ effects[p] \subseteq [previous : States, asker : BOOLEAN]
  /\ adrift \subseteq Pages
  /\ upsets \in 0..MaxUpsets

GlobalRevision == Len(past) - 1
Installed == past[Len(past)]
ContextRevision(p) == Len(own[p]) - 1

\* compose(): an active app that is not approved is not shown.
Shown(installed, active) ==
  [installed |-> installed, active |-> IF active \in installed THEN active ELSE None]
Composed(p) == Shown(Installed, own[p][Len(own[p])])
Snapshot(p) == [state |-> Composed(p), globalRevision |-> GlobalRevision,
                contextRevision |-> ContextRevision(p)]

\* What a page holds when it has attached.
Attached(s) == [at |-> "open", state |-> s.state, globalRevision |-> s.globalRevision,
                contextRevision |-> s.contextRevision]
New == [at |-> "new", state |-> NoState, globalRevision |-> 0, contextRevision |-> 0]

Init ==
  /\ past \in {<<S>> : S \in SUBSET Apps}
  /\ own = [p \in Pages |-> <<None>>]
  /\ op = Idle
  /\ page = [p \in Pages |-> IF p \in Fresh THEN New ELSE Attached(Snapshot(p))]
  /\ request = [p \in Pages |-> [k \in Kinds |-> Idle]]
  /\ effects = [p \in Pages |-> {}]
  /\ adrift = {}
  /\ upsets = 0

Upset == upsets < MaxUpsets /\ upsets' = upsets + 1
Reply(p, k, r) == request' = [request EXCEPT ![p][k] = r]
-----------------------------------------------------------------------------
(* The page.                                                                *)

\* acceptSnapshot(): neither revision may fall, and a snapshot at the revisions
\* that are shown is taken only if it was asked for by an attach.
OlderContext(s, q) == s.contextRevision < q.contextRevision
Older(s, q) ==
  s.globalRevision < q.globalRevision \/ s.contextRevision < q.contextRevision
Same(s, q) ==
  s.globalRevision = q.globalRevision /\ s.contextRevision = q.contextRevision
Accepts(q, s, authoritative) ==
  ~Older(s, q) /\ (q.at = "new" \/ authoritative \/ ~Same(s, q))

\* The installed apps of another page's snapshot; the active app goes if it was
\* removed.
Patched(q, s) ==
  [q EXCEPT !.state = Shown(s.state.installed, @.active), !.globalRevision = s.globalRevision]

\* handleRuntimeMessage(), an update of the context c.  A rollback is always taken.
OnlyNews(q, s, rollback) == Accepts(q, s, FALSE)
Takes(q, s, rollback) == rollback \/ Accepts(q, s, FALSE)
Updated(p, c, s, rollback) ==
  LET q == page[p] IN
  IF q.at # "open" THEN q
  ELSE CASE p = c /\ Takes(q, s, rollback) -> Attached(s)
         [] p # c /\ s.globalRevision > q.globalRevision -> Patched(q, s)
         [] OTHER -> q

\* A page that takes a whole snapshot while no effect runs in it is settled again.
Settled(p, taken) == IF taken /\ effects[p] = {} THEN adrift \ {p} ELSE adrift

\* start() and refresh() ask for a snapshot, dispatch() for a transition.
Ask(p, k) ==
  /\ request[p][k] = Idle
  /\ k = "dispatch" => page[p].at = "open"
  /\ page[p].at # "gone"
  /\ Reply(p, k, Sent)
  /\ UNCHANGED <<past, own, op, page, effects, adrift, upsets>>

\* A snapshot arrives.  (A refusal changes nothing and ends the request at once.)
Receive(p, k) ==
  LET r == request[p][k] IN
  /\ r.at = "answered"
  /\ Reply(p, k, Idle)
  /\ IF Accepts(page[p], r.snapshot, k = "attach")
     THEN /\ page' = [page EXCEPT ![p] = Attached(r.snapshot)]
          /\ adrift' = Settled(p, TRUE)
     ELSE UNCHANGED <<page, adrift>>
  /\ UNCHANGED <<past, own, op, effects, upsets>>

\* The promise of an effect settles; a failed one puts back the state that it found.
\* The worker hears of it if it still waits.
EffectEnds(p, e, ok) ==
  /\ e \in effects[p]
  /\ effects' = [effects EXCEPT ![p] = @ \ {e}]
  /\ op' = IF e.asker THEN [op EXCEPT !.at = IF ok THEN "effected" ELSE "failing"] ELSE op
  /\ page' = IF ok THEN page ELSE [page EXCEPT ![p].state = e.previous]
  /\ IF ok THEN UNCHANGED upsets ELSE Upset
  /\ UNCHANGED <<past, own, request, adrift>>

\* destroy(), when the document goes.  An effect that ran in it is not acknowledged.
Destroy(p) ==
  /\ page[p].at = "open" /\ Upset
  /\ page' = [page EXCEPT ![p] = [New EXCEPT !.at = "gone"]]
  /\ request' = [request EXCEPT ![p] = [k \in Kinds |->
       IF request[p][k].at = "running" THEN request[p][k] ELSE Idle]]
  /\ effects' = [effects EXCEPT ![p] = {}]
  /\ op' = IF op.at = "asked" /\ op.page = p THEN [op EXCEPT !.at = "failing"] ELSE op
  /\ UNCHANGED <<past, own, adrift>>
-----------------------------------------------------------------------------
(* The worker.                                                              *)

Answered(s) == [at |-> "answered", snapshot |-> s]

\* attach() only reads.
Attach(p) ==
  /\ op = Idle /\ request[p]["attach"] = Sent
  /\ Reply(p, "attach", Answered(Snapshot(p)))
  /\ UNCHANGED <<past, own, op, page, effects, adrift, upsets>>

\* What Hara makes of a dispatch (apps/install, apps/remove, apps/open), and whether
\* the page performs an effect for it: it opens a surface, or closes one.
Transitions(s) ==
  {[next |-> Shown(s.installed \cup {a}, s.active), asks |-> FALSE] : a \in Apps \ s.installed}
  \cup {[next |-> Shown(s.installed \ {a}, s.active), asks |-> b] : a \in s.installed, b \in BOOLEAN}
  \cup {[next |-> Shown(s.installed, a), asks |-> TRUE] : a \in s.installed}

Commits == {c \in Pages \X (1..MaxCommits) : c[2] <= ContextRevision(c[1])}

\* runDispatch() up to the prepared request, or its refusal.
Begin(p) ==
  /\ op = Idle /\ request[p]["dispatch"] = Sent
  /\ \/ \E t \in Transitions(Composed(p)) :
          /\ Cardinality(Commits) < MaxCommits
          /\ op' = [at |-> "prepared", page |-> p, base |-> Snapshot(p), next |-> t.next, asks |-> t.asks]
          /\ Reply(p, "dispatch", [at |-> "running"])
     \/ /\ Reply(p, "dispatch", Idle)
        /\ UNCHANGED op
  /\ UNCHANGED <<past, own, page, effects, adrift, upsets>>

\* executeEffect(): the page shows the tentative state while it performs the effect.
Effect ==
  /\ op.at = "prepared" /\ op.asks
  /\ IF page[op.page].at = "open"
     THEN /\ op' = [op EXCEPT !.at = "asked"]
          /\ effects' = [effects EXCEPT ![op.page] = @ \cup
               {[previous |-> page[op.page].state, asker |-> TRUE]}]
          /\ page' = [page EXCEPT ![op.page].state = op.next]
     ELSE /\ op' = [op EXCEPT !.at = "failing"]
          /\ UNCHANGED <<effects, page>>
  /\ UNCHANGED <<past, own, request, adrift, upsets>>

\* commit(), which writes the profile record anew if the apps changed.
Commit ==
  /\ op.at = "effected" \/ (op.at = "prepared" /\ ~op.asks)
  /\ \/ /\ past' = IF op.next.installed = Installed THEN past ELSE Append(past, op.next.installed)
        /\ own' = [own EXCEPT ![op.page] = Append(@, op.next.active)]
        /\ op' = [op EXCEPT !.at = "committed"]
        /\ UNCHANGED upsets
     \/ /\ op' = [op EXCEPT !.at = "failing"]
        /\ Upset
        /\ UNCHANGED <<past, own>>
  /\ UNCHANGED <<page, request, effects, adrift>>

\* The broadcast of a committed snapshot, and then the answer.
Committed == [state |-> op.next, globalRevision |-> GlobalRevision,
              contextRevision |-> ContextRevision(op.page)]

Broadcast ==
  /\ op.at = "committed"
  /\ page' = [p \in Pages |-> Updated(p, op.page, Committed, FALSE)]
  /\ adrift' = Settled(op.page, TRUE)
  /\ op' = [op EXCEPT !.at = "announced"]
  /\ UNCHANGED <<past, own, request, effects, upsets>>

AtOnce(o) == o.at \in {"committed", "announced"}
Announced(o) == o.at = "announced"
Answer ==
  /\ op # Idle /\ Announced(op)
  /\ Reply(op.page, "dispatch", IF page[op.page].at = "gone" THEN Idle ELSE Answered(Committed))
  /\ op' = Idle
  /\ UNCHANGED <<past, own, page, effects, adrift, upsets>>

\* The catch block: every page is sent the state before the dispatch.
Fail ==
  /\ op.at = "failing"
  /\ page' = [p \in Pages |-> Updated(p, op.page, op.base, TRUE)]
  /\ adrift' = Settled(op.page, TRUE)
  /\ Reply(op.page, "dispatch", Idle)
  /\ op' = Idle
  /\ UNCHANGED <<past, own, effects, upsets>>

\* Chrome stops the worker.
Stop ==
  /\ Upset
  /\ op' = Idle
  /\ request' = [p \in Pages |-> [k \in Kinds |->
       IF request[p][k].at \in {"sent", "running"} THEN Idle ELSE request[p][k]]]
  /\ effects' = [p \in Pages |-> {[e EXCEPT !.asker = FALSE] : e \in effects[p]}]
  /\ adrift' = IF op # Idle /\ op.at \notin {"prepared", "announced"} /\ op.asks
               THEN adrift \cup {op.page} ELSE adrift
  /\ UNCHANGED <<past, own, page>>

EffectStep(p) == \E e \in effects[p], ok \in BOOLEAN : EffectEnds(p, e, ok)

Next ==
  \/ \E p \in Pages : Attach(p) \/ Begin(p) \/ EffectStep(p) \/ Destroy(p)
  \/ \E p \in Pages, k \in Kinds : Ask(p, k) \/ Receive(p, k)
  \/ Effect \/ Commit \/ Broadcast \/ Answer \/ Fail \/ Stop

Spec == Init /\ [][Next]_vars
-----------------------------------------------------------------------------
\* A page whose dispatch the worker runs, or in which an effect goes on.
Tentative(p) == effects[p] # {} \/ (op # Idle /\ op.page = p)

\* A page that is not at a transition shows the committed state that its revisions
\* name, with an app active only if it is installed, whatever answers, broadcasts and
\* rollbacks arrived in which order (acceptSnapshot and handleRuntimeMessage).  Exempt
\* is a page whose worker stopped during its effect, until it takes another snapshot.
ShowsCommitted ==
  \A p \in Pages : page[p].at = "open" /\ ~Tentative(p) /\ p \notin adrift =>
    /\ page[p].globalRevision <= GlobalRevision
    /\ page[p].contextRevision <= ContextRevision(p)
    /\ page[p].state.installed = past[page[p].globalRevision + 1]
    /\ page[p].state.active \in {None, own[p][page[p].contextRevision + 1]}
    /\ page[p].state.active \in page[p].state.installed \cup {None}

\* What a page shows never goes back to older revisions, although the answer to a
\* refresh or a dispatch may come after the broadcasts of later ones.
NeverBack ==
  [][\A p \in Pages : page[p].at = "open" /\ page'[p].at = "open" =>
       /\ page'[p].globalRevision >= page[p].globalRevision
       /\ page'[p].contextRevision >= page[p].contextRevision]_vars

\* When dispatch() returns, its page shows the transition or a later one: no
\* broadcast of another page has made it refuse the answer (runDispatch broadcasts
\* before it answers).
AnswerIsShown ==
  [][\A p \in Pages :
       request[p]["dispatch"].at = "answered" /\ request'[p]["dispatch"] = Idle
         /\ page'[p].at = "open"
       => page'[p].contextRevision >= request[p]["dispatch"].snapshot.contextRevision]_vars
=============================================================================
