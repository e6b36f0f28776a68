--------------------------- MODULE ExtensionProofs ---------------------------
(***************************************************************************)
(* Proofs about the two clients of the extension.  KernelMirror, for every *)
(* set of pages and apps and every number of dispatches, stops and         *)
(* failures: a page that is not at a transition shows the committed state  *)
(* that its revisions name, what it shows never goes back, and an answered *)
(* dispatch is shown.  RemoteHost, for every set of requests that fits its *)
(* histories and every number of sessions and faults: within a session no  *)
(* request is executed twice, a request whose cancel was taken is never    *)
(* answered as if it had run to its end, and no runtime outlives its       *)
(* execution.                                                              *)
(***************************************************************************)
EXTENDS KernelMirror, RemoteHost, FiniteSetTheorems, TLAPS

-----------------------------------------------------------------------------
(* Types.                                                                   *)

Ops == [at : {"prepared", "asked", "effected", "failing", "committed", "announced"},
        page : Pages, base : Snapshots, next : States, asks : BOOLEAN]
Held == [at : {"new", "open", "gone"}, state : States, globalRevision : Nat, contextRevision : Nat]
Replies == {Idle, Sent, [at |-> "running"]} \cup [at : {"answered"}, snapshot : Snapshots]
Effects == [previous : States, asker : BOOLEAN]

TypeInv ==
  /\ past \in Seq(SUBSET Apps) /\ past # <<>>
  /\ own \in [Pages -> Seq(Apps \cup {None})] /\ \A p \in Pages : own[p] # <<>>
  /\ op \in Ops \cup {Idle}
  /\ page \in [Pages -> Held]
  /\ request \in [Pages -> [Kinds -> Replies]]
  /\ effects \in [Pages -> SUBSET Effects]
  /\ adrift \subseteq Pages
  /\ upsets \in 0..MaxUpsets

-----------------------------------------------------------------------------
(* The invariants.                                                          *)

\* A snapshot, or what a page holds, is the committed state that its revisions name in
\* the profile record P and the context record o.
Named(s, P, o) ==
  /\ s.globalRevision + 1 \in DOMAIN P /\ s.contextRevision + 1 \in DOMAIN o
  /\ s.state.installed = P[s.globalRevision + 1]
  /\ s.state.active \in {None, o[s.contextRevision + 1]}
  /\ s.state.active \in s.state.installed \cup {None}

\* No page is ahead of the records.
Within == \A p \in Pages :
  page[p].globalRevision + 1 \in DOMAIN past /\ page[p].contextRevision + 1 \in DOMAIN own[p]

\* Every answer was a committed state, and a page that is gone gets none.
AnswersNamed == \A p \in Pages, k \in Kinds :
  request[p][k].at = "answered" =>
    Named(request[p][k].snapshot, past, own[p]) /\ page[p].at # "gone"

\* The dispatch of the worker: what it started from is still the committed state, until
\* what it makes of it is.
OpHolds ==
  /\ op.at \in {"prepared", "asked", "effected", "failing"} => op.base = Snapshot(op.page)
  /\ op # Idle => op.next.active \in op.next.installed \cup {None}
  /\ op.at \in {"committed", "announced"} =>
       op.next.installed = Installed /\ op.next.active = own[op.page][Len(own[op.page])]
  /\ op.at \in {"asked", "effected"} => op.asks

\* Its page waits for it.
PageWaits ==
  /\ op # Idle => request[op.page]["dispatch"].at = "running"
  /\ \A p \in Pages : request[p]["dispatch"] # Idle => page[p].at # "new"
  /\ \A p \in Pages : page[p].at = "gone" => \A k \in Kinds : request[p][k].at # "sent"

\* Nobody has a revision before the broadcast, and the page has it after.
Fronted ==
  /\ op.at = "committed" =>
       /\ page[op.page].contextRevision < ContextRevision(op.page)
       /\ \A k \in Kinds : request[op.page][k].at = "answered" =>
            request[op.page][k].snapshot.contextRevision < ContextRevision(op.page)
  /\ op.at = "announced" /\ page[op.page].at = "open" =>
       page[op.page].contextRevision = ContextRevision(op.page)
  /\ \A p \in Pages : request[p]["dispatch"].at = "answered" /\ page[p].at = "open" =>
       request[p]["dispatch"].snapshot.contextRevision <= page[p].contextRevision

\* The worker waits for one effect; the page of any other is adrift.
EffectsKnown == \A p \in Pages : \A e \in effects[p] :
  IF e.asker THEN op.at = "asked" /\ op.page = p /\ \A f \in effects[p] : f.asker => f = e
  ELSE p \in adrift

\* A page may show a tentative state only while an effect runs in it, or until the
\* worker has told it how its dispatch ended.
Unsettled(p) ==
  \/ effects[p] # {}
  \/ op # Idle /\ op.page = p /\ op.asks /\ op.at \notin {"prepared", "announced"}
Shows == \A p \in Pages :
  page[p].at = "open" /\ ~Unsettled(p) /\ p \notin adrift => Named(page[p], past, own[p])

IInv == TypeInv /\ Within /\ AnswersNamed /\ OpHolds /\ PageWaits /\ Fronted /\ EffectsKnown /\ Shows

-----------------------------------------------------------------------------
(* The operators.                                                           *)

LEMMA AppendKeeps ==
  ASSUME NEW S, NEW s \in Seq(S), NEW e \in S
  PROVE  /\ Append(s, e) \in Seq(S) /\ Append(s, e) # <<>> /\ Len(Append(s, e)) = Len(s) + 1
         /\ \A i \in DOMAIN s : i \in DOMAIN Append(s, e) /\ Append(s, e)[i] = s[i]
         /\ Append(s, e)[Len(s) + 1] = e /\ Len(s) + 1 \in DOMAIN Append(s, e)
OBVIOUS

LEMMA LastOf ==
  ASSUME NEW S, NEW s \in Seq(S), s # <<>>
  PROVE  /\ Len(s) \in Nat \ {0} /\ Len(s) \in DOMAIN s /\ s[Len(s)] \in S
         /\ \A n \in Nat : n + 1 \in DOMAIN s <=> n <= Len(s) - 1
OBVIOUS

\* compose() shows an app only if it is installed.
LEMMA ShownType ==
  ASSUME NEW S \in SUBSET Apps, NEW a \in Apps \cup {None}
  PROVE  /\ Shown(S, a) \in States /\ Shown(S, a).installed = S
         /\ Shown(S, a).active \in {a, None} /\ Shown(S, a).active \in S \cup {None}
BY DEF Shown, States

LEMMA RecordTypes ==
  ASSUME TypeInv, NEW p \in Pages
  PROVE  /\ Len(past) \in Nat \ {0} /\ Len(past) \in DOMAIN past /\ Installed \in SUBSET Apps
         /\ own[p] \in Seq(Apps \cup {None}) /\ own[p] # <<>>
         /\ Len(own[p]) \in Nat \ {0} /\ Len(own[p]) \in DOMAIN own[p]
         /\ own[p][Len(own[p])] \in Apps \cup {None}
         /\ GlobalRevision \in Nat /\ ContextRevision(p) \in Nat
         /\ GlobalRevision + 1 = Len(past) /\ ContextRevision(p) + 1 = Len(own[p])
         /\ \A n \in Nat : n + 1 \in DOMAIN past <=> n <= GlobalRevision
         /\ \A n \in Nat : n + 1 \in DOMAIN own[p] <=> n <= ContextRevision(p)
<1>1. past \in Seq(SUBSET Apps) /\ past # <<>> /\ own[p] \in Seq(Apps \cup {None}) /\ own[p] # <<>>
  BY DEF TypeInv
<1>2. /\ Len(past) \in Nat \ {0} /\ Len(past) \in DOMAIN past /\ Installed \in SUBSET Apps
      /\ \A n \in Nat : n + 1 \in DOMAIN past <=> n <= GlobalRevision
  BY <1>1, LastOf DEF Installed, GlobalRevision
<1>3. /\ Len(own[p]) \in Nat \ {0} /\ Len(own[p]) \in DOMAIN own[p]
      /\ own[p][Len(own[p])] \in Apps \cup {None}
      /\ \A n \in Nat : n + 1 \in DOMAIN own[p] <=> n <= ContextRevision(p)
  BY <1>1, LastOf DEF ContextRevision
<1> QED
  BY <1>1, <1>2, <1>3 DEF GlobalRevision, ContextRevision

\* A snapshot of the worker is the committed state.
LEMMA SnapshotNamed ==
  ASSUME TypeInv, NEW p \in Pages
  PROVE  /\ Snapshot(p) \in Snapshots /\ Composed(p) \in States
         /\ Named(Snapshot(p), past, own[p])
         /\ Snapshot(p).globalRevision = GlobalRevision
         /\ Snapshot(p).contextRevision = ContextRevision(p)
<1>1. /\ Composed(p) \in States /\ Composed(p).installed = Installed
      /\ Composed(p).active \in {own[p][Len(own[p])], None}
      /\ Composed(p).active \in Installed \cup {None}
  BY RecordTypes, ShownType DEF Composed
<1> QED
  BY <1>1, RecordTypes DEF Snapshot, Snapshots, Named, Installed

LEMMA AttachedType ==
  ASSUME NEW s \in Snapshots
  PROVE  /\ Attached(s) \in Held /\ Attached(s).at = "open" /\ Attached(s).state = s.state
         /\ Attached(s).globalRevision = s.globalRevision
         /\ Attached(s).contextRevision = s.contextRevision
BY DEF Attached, Held, Snapshots

LEMMA PatchedType ==
  ASSUME NEW q \in Held, NEW s \in Snapshots
  PROVE  /\ Patched(q, s) \in Held /\ Patched(q, s).at = q.at
         /\ Patched(q, s).globalRevision = s.globalRevision
         /\ Patched(q, s).contextRevision = q.contextRevision
         /\ Patched(q, s).state.installed = s.state.installed
         /\ Patched(q, s).state.active \in {q.state.active, None}
         /\ Patched(q, s).state.active \in s.state.installed \cup {None}
<1>1. /\ s.state.installed \in SUBSET Apps /\ q.state.active \in Apps \cup {None}
      /\ s.globalRevision \in Nat
  BY DEF Held, Snapshots, States
<1> DEFINE x == Shown(s.state.installed, q.state.active)
<1>2. /\ x \in States /\ x.installed = s.state.installed
      /\ x.active \in {q.state.active, None} /\ x.active \in s.state.installed \cup {None}
  BY <1>1, ShownType
<1>3. Patched(q, s) = [q EXCEPT !.state = x, !.globalRevision = s.globalRevision]
  BY DEF Patched
<1> HIDE DEF x
<1> QED
  BY <1>1, <1>2, <1>3 DEF Held

\* What is committed stays committed when the records grow.
LEMMA NamedKept ==
  ASSUME NEW P, NEW Q, NEW o, NEW r, NEW s, Named(s, P, o),
         \A i \in DOMAIN P : i \in DOMAIN Q /\ Q[i] = P[i],
         \A i \in DOMAIN o : i \in DOMAIN r /\ r[i] = o[i]
  PROVE  Named(s, Q, r)
BY DEF Named

\* A patched page shows the installed apps of the newer snapshot.
LEMMA PatchedNamed ==
  ASSUME NEW q \in Held, NEW s \in Snapshots, NEW P, NEW o, Named(q, P, o),
         s.globalRevision + 1 \in DOMAIN P, s.state.installed = P[s.globalRevision + 1]
  PROVE  Named(Patched(q, s), P, o)
BY PatchedType DEF Named

LEMMA AttachedNamed ==
  ASSUME NEW s \in Snapshots, NEW P, NEW o, Named(s, P, o)
  PROVE  Named(Attached(s), P, o)
BY AttachedType DEF Named

-----------------------------------------------------------------------------
(* The steps keep the types.                                                *)

LEMMA ReplyStep ==
  ASSUME TypeInv, NEW p \in Pages, NEW k \in Kinds, NEW r \in Replies, Reply(p, k, r)
  PROVE  /\ request' \in [Pages -> [Kinds -> Replies]]
         /\ \A q \in Pages, l \in Kinds :
              request'[q][l] = IF q = p /\ l = k THEN r ELSE request[q][l]
BY DEF Reply, TypeInv

LEMMA OpTypes ==
  ASSUME TypeInv, op # Idle
  PROVE  /\ op \in Ops /\ op.page \in Pages /\ op.base \in Snapshots /\ op.next \in States
         /\ op.asks \in BOOLEAN
         /\ op.at \in {"prepared", "asked", "effected", "failing", "committed", "announced"}
BY DEF TypeInv, Ops

LEMMA OpAt == op.at # "idle" => op # Idle
BY DEF Idle

LEMMA MovedType ==
  ASSUME TypeInv, op # Idle,
         NEW x \in {"prepared", "asked", "effected", "failing", "committed", "announced"}
  PROVE  [op EXCEPT !.at = x] \in Ops
BY OpTypes DEF Ops

LEMMA PageType ==
  ASSUME TypeInv, NEW p \in Pages
  PROVE  /\ page[p] \in Held /\ page[p].state \in States /\ page[p].globalRevision \in Nat
         /\ page[p].contextRevision \in Nat /\ page[p].at \in {"new", "open", "gone"}
         /\ \A x \in States : [page[p] EXCEPT !.state = x] \in Held
<1>1. page[p] \in Held
  BY DEF TypeInv
<1> QED
  BY <1>1 DEF Held

LEMMA UpdatedType ==
  ASSUME TypeInv, NEW p \in Pages, NEW c \in Pages, NEW s \in Snapshots, NEW b \in BOOLEAN
  PROVE  Updated(p, c, s, b) \in Held
<1>1. page[p] \in Held /\ Attached(s) \in Held /\ Patched(page[p], s) \in Held
  BY PageType, AttachedType, PatchedType
<1> QED
  BY <1>1 DEF Updated

LEMMA CommittedType ==
  ASSUME TypeInv, op # Idle
  PROVE  /\ Committed \in Snapshots /\ Committed.state = op.next
         /\ Committed.globalRevision = GlobalRevision
         /\ Committed.contextRevision = ContextRevision(op.page)
BY OpTypes, RecordTypes DEF Committed, Snapshots

LEMMA TransitionType ==
  ASSUME NEW s \in States, NEW t \in Transitions(s)
  PROVE  /\ t.next \in States /\ t.asks \in BOOLEAN
         /\ t.next.active \in t.next.installed \cup {None}
<1>1. s.installed \in SUBSET Apps /\ s.active \in Apps \cup {None}
  BY DEF States
<1>2. PICK S \in SUBSET Apps, a \in Apps \cup {None}, b \in BOOLEAN :
         t = [next |-> Shown(S, a), asks |-> b]
  <2>1. CASE \E a \in Apps \ s.installed :
               t = [next |-> Shown(s.installed \cup {a}, s.active), asks |-> FALSE]
    <3>1. PICK a \in Apps \ s.installed :
            t = [next |-> Shown(s.installed \cup {a}, s.active), asks |-> FALSE]
      BY <2>1
    <3>2. s.installed \cup {a} \in SUBSET Apps
      BY <1>1
    <3> QED
      BY <1>1, <3>1, <3>2
  <2>2. CASE \E a \in s.installed, b \in BOOLEAN :
               t = [next |-> Shown(s.installed \ {a}, s.active), asks |-> b]
    <3>1. PICK a \in s.installed, b \in BOOLEAN :
            t = [next |-> Shown(s.installed \ {a}, s.active), asks |-> b]
      BY <2>2
    <3>2. s.installed \ {a} \in SUBSET Apps
      BY <1>1
    <3> QED
      BY <1>1, <3>1, <3>2
  <2>3. CASE \E a \in s.installed : t = [next |-> Shown(s.installed, a), asks |-> TRUE]
    BY <1>1, <2>3
  <2> QED
    BY <2>1, <2>2, <2>3 DEF Transitions
<1>3. /\ Shown(S, a) \in States /\ Shown(S, a).installed = S
      /\ Shown(S, a).active \in S \cup {None}
  BY ShownType
<1> QED
  BY <1>2, <1>3

\* A broadcast, or a rollback, changes the pages only.
LEMMA UpdateType ==
  ASSUME TypeInv, NEW c \in Pages, NEW s \in Snapshots, NEW b \in BOOLEAN,
         page' = [p \in Pages |-> Updated(p, c, s, b)], adrift' = Settled(c, TRUE)
  PROVE  page' \in [Pages -> Held] /\ adrift' \subseteq Pages
<1>1. \A p \in Pages : Updated(p, c, s, b) \in Held
  BY UpdatedType
<1> HIDE DEF Updated
<1> QED
  BY <1>1 DEF Settled, TypeInv

LEMMA UpsetType == TypeInv /\ Upset => upsets' \in 0..MaxUpsets
BY MirrorAssumption DEF Upset, TypeInv

LEMMA TypeStep == TypeInv /\ EffectsKnown /\ [Next]_vars => TypeInv'
<1> SUFFICES ASSUME TypeInv, EffectsKnown, [Next]_vars PROVE TypeInv'
  OBVIOUS
<1>r. Idle \in Replies /\ Sent \in Replies /\ [at |-> "running"] \in Replies
      /\ \A s \in Snapshots : Answered(s) \in Replies
  BY DEF Replies, Answered
<1>k. "dispatch" \in Kinds /\ "attach" \in Kinds
  BY DEF Kinds
<1>1. ASSUME NEW p \in Pages, NEW k \in Kinds, Ask(p, k) PROVE TypeInv'
  <2>1. request' \in [Pages -> [Kinds -> Replies]]
    BY <1>1, <1>r, ReplyStep DEF Ask
  <2> QED
    BY <1>1, <2>1 DEF Ask, TypeInv
<1>2. ASSUME NEW p \in Pages, NEW k \in Kinds, Receive(p, k) PROVE TypeInv'
  <2>1. request' \in [Pages -> [Kinds -> Replies]]
    BY <1>2, <1>r, ReplyStep DEF Receive
  <2>2. request[p][k].snapshot \in Snapshots
    <3>1. request[p][k] \in Replies /\ request[p][k].at = "answered"
      BY <1>2 DEF Receive, TypeInv
    <3> QED
      BY <3>1 DEF Replies, Idle, Sent
  <2>3. page' \in [Pages -> Held]
    <3>1. \/ page' = [page EXCEPT ![p] = Attached(request[p][k].snapshot)]
          \/ page' = page
      BY <1>2 DEF Receive
    <3>2. Attached(request[p][k].snapshot) \in Held
      BY <2>2, AttachedType
    <3> HIDE DEF Attached
    <3> QED
      BY <3>1, <3>2 DEF TypeInv
  <2>4. adrift' \subseteq Pages /\ UNCHANGED <<past, own, op, effects, upsets>>
    BY <1>2 DEF Receive, Settled, TypeInv
  <2> QED
    BY <2>1, <2>3, <2>4 DEF TypeInv
<1>3. ASSUME NEW p \in Pages, EffectStep(p) PROVE TypeInv'
  <2>1. PICK e \in effects[p], ok \in BOOLEAN : EffectEnds(p, e, ok)
    BY <1>3 DEF EffectStep
  <2>2. e.previous \in States
    BY DEF TypeInv, Effects
  <2>3. effects' \in [Pages -> SUBSET Effects] /\ UNCHANGED <<past, own, request, adrift>>
    BY <2>1 DEF EffectEnds, TypeInv
  <2>4. upsets' \in 0..MaxUpsets
    BY <2>1, UpsetType DEF EffectEnds, TypeInv
  <2>5. page' \in [Pages -> Held]
    <3>1. page' = page \/ page' = [page EXCEPT ![p] = [page[p] EXCEPT !.state = e.previous]]
      BY <2>1 DEF EffectEnds
    <3>2. [page[p] EXCEPT !.state = e.previous] \in Held
      BY <2>2, PageType
    <3> QED
      BY <3>1, <3>2 DEF TypeInv
  <2>6. op' \in Ops \cup {Idle}
    <3>1. e.asker => op # Idle
      BY <2>1 DEF EffectsKnown, Idle
    <3>2. op' = op \/ (op # Idle /\ (op' = [op EXCEPT !.at = "effected"]
                                    \/ op' = [op EXCEPT !.at = "failing"]))
      BY <2>1, <3>1 DEF EffectEnds
    <3> QED
      BY <3>2, MovedType DEF TypeInv
  <2> QED
    BY <2>3, <2>4, <2>5, <2>6 DEF TypeInv
<1>4. ASSUME NEW p \in Pages, Destroy(p) PROVE TypeInv'
  <2>1. [New EXCEPT !.at = "gone"] \in Held
    BY DEF New, NoState, Held, States
  <2>2. page' \in [Pages -> Held]
    BY <1>4, <2>1 DEF Destroy, TypeInv
  <2>3. request' \in [Pages -> [Kinds -> Replies]]
    <3>1. \A k \in Kinds : request[p][k] \in Replies
      BY DEF TypeInv
    <3>2. [k \in Kinds |-> IF request[p][k].at = "running" THEN request[p][k] ELSE Idle]
            \in [Kinds -> Replies]
      BY <1>r, <3>1
    <3> QED
      BY <1>4, <3>2 DEF Destroy, TypeInv
  <2>4. op' \in Ops \cup {Idle}
    BY <1>4, MovedType, OpAt DEF Destroy, TypeInv
  <2>5. /\ effects' \in [Pages -> SUBSET Effects] /\ UNCHANGED <<past, own, adrift>>
        /\ upsets' \in 0..MaxUpsets
    BY <1>4, UpsetType DEF Destroy, TypeInv
  <2> QED
    BY <2>2, <2>3, <2>4, <2>5 DEF TypeInv
<1>5. ASSUME NEW p \in Pages, Attach(p) PROVE TypeInv'
  <2>1. Answered(Snapshot(p)) \in Replies
    BY <1>r, SnapshotNamed
  <2>2. request' \in [Pages -> [Kinds -> Replies]]
    BY <1>5, <1>k, <2>1, ReplyStep DEF Attach
  <2> QED
    BY <1>5, <2>2 DEF Attach, TypeInv
<1>6. ASSUME NEW p \in Pages, Begin(p) PROVE TypeInv'
  <2>1. request' \in [Pages -> [Kinds -> Replies]]
    BY <1>6, <1>k, <1>r, ReplyStep DEF Begin
  <2>2. op' \in Ops \cup {Idle}
    BY <1>6, SnapshotNamed, TransitionType DEF Begin, Ops, TypeInv
  <2> QED
    BY <1>6, <2>1, <2>2 DEF Begin, TypeInv
<1>7. CASE Effect
  <2>1. op # Idle /\ op.page \in Pages /\ op.next \in States
    BY <1>7, OpAt, OpTypes DEF Effect
  <2>2. op' \in Ops
    BY <1>7, <2>1, MovedType DEF Effect
  <2>3. effects' \in [Pages -> SUBSET Effects]
    <3>1. [previous |-> page[op.page].state, asker |-> TRUE] \in Effects
      BY <2>1, PageType DEF Effects
    <3>2. \/ effects' = effects
          \/ effects' = [effects EXCEPT ![op.page] =
                            @ \cup {[previous |-> page[op.page].state, asker |-> TRUE]}]
      BY <1>7 DEF Effect
    <3>3. effects \in [Pages -> SUBSET Effects]
      BY DEF TypeInv
    <3> QED
      BY <2>1, <3>1, <3>2, <3>3
  <2>4. page' \in [Pages -> Held]
    <3>1. \/ page' = page
          \/ page' = [page EXCEPT ![op.page] = [page[op.page] EXCEPT !.state = op.next]]
      BY <1>7 DEF Effect
    <3>2. [page[op.page] EXCEPT !.state = op.next] \in Held
      BY <2>1, PageType
    <3> QED
      BY <2>1, <3>1, <3>2 DEF TypeInv
  <2> QED
    BY <1>7, <2>2, <2>3, <2>4 DEF Effect, TypeInv
<1>8. CASE Commit
  <2>1. op # Idle /\ op.page \in Pages /\ op.next \in States
    BY <1>8, OpAt, OpTypes DEF Commit
  <2>2. op.next.installed \in SUBSET Apps /\ op.next.active \in Apps \cup {None}
    BY <2>1 DEF States
  <2>3. op' \in Ops
    BY <1>8, <2>1, MovedType DEF Commit
  <2>4. past' \in Seq(SUBSET Apps) /\ past' # <<>>
    <3>1. past' = past \/ past' = Append(past, op.next.installed)
      BY <1>8 DEF Commit
    <3>2. past \in Seq(SUBSET Apps) /\ past # <<>>
      BY DEF TypeInv
    <3>3. /\ Append(past, op.next.installed) \in Seq(SUBSET Apps)
          /\ Append(past, op.next.installed) # <<>>
      BY <2>2, <3>2, AppendKeeps
    <3> QED
      BY <3>1, <3>2, <3>3
  <2>5. own' \in [Pages -> Seq(Apps \cup {None})] /\ \A p \in Pages : own'[p] # <<>>
    <3>1. own' = own \/ own' = [own EXCEPT ![op.page] = Append(own[op.page], op.next.active)]
      BY <1>8 DEF Commit
    <3>2. /\ Append(own[op.page], op.next.active) \in Seq(Apps \cup {None})
          /\ Append(own[op.page], op.next.active) # <<>>
      <4>1. own[op.page] \in Seq(Apps \cup {None})
        BY <2>1, RecordTypes
      <4> QED
        BY <2>2, <4>1, AppendKeeps
    <3> QED
      BY <2>1, <3>1, <3>2 DEF TypeInv
  <2>6. UNCHANGED <<page, request, effects, adrift>> /\ upsets' \in 0..MaxUpsets
    BY <1>8, UpsetType DEF Commit, TypeInv
  <2> QED
    BY <2>3, <2>4, <2>5, <2>6 DEF TypeInv
<1>9. CASE Broadcast
  <2>1. op # Idle /\ op.page \in Pages /\ Committed \in Snapshots
    BY <1>9, OpAt, OpTypes, CommittedType DEF Broadcast
  <2>2. page' \in [Pages -> Held] /\ adrift' \subseteq Pages
    BY <1>9, <2>1, UpdateType DEF Broadcast
  <2>3. op' \in Ops
    BY <1>9, <2>1, MovedType DEF Broadcast
  <2> QED
    BY <1>9, <2>2, <2>3 DEF Broadcast, TypeInv
<1>10. CASE Answer
  <2>1. op.page \in Pages /\ Committed \in Snapshots
    BY <1>10, OpTypes, CommittedType DEF Answer
  <2>2. request' \in [Pages -> [Kinds -> Replies]]
    BY <1>10, <1>k, <1>r, <2>1, ReplyStep DEF Answer
  <2> QED
    BY <1>10, <2>2 DEF Answer, TypeInv
<1>11. CASE Fail
  <2>1. op.page \in Pages /\ op.base \in Snapshots
    BY <1>11, OpAt, OpTypes DEF Fail
  <2>2. request' \in [Pages -> [Kinds -> Replies]]
    BY <1>11, <1>k, <1>r, <2>1, ReplyStep DEF Fail
  <2>3. page' \in [Pages -> Held] /\ adrift' \subseteq Pages
    BY <1>11, <2>1, UpdateType DEF Fail
  <2> QED
    BY <1>11, <2>2, <2>3 DEF Fail, TypeInv
<1>12. CASE Stop
  <2>1. request' \in [Pages -> [Kinds -> Replies]]
    <3>1. \A p \in Pages, k \in Kinds : request[p][k] \in Replies
      BY DEF TypeInv
    <3> QED
      BY <1>12, <1>r, <3>1 DEF Stop
  <2>2. effects' \in [Pages -> SUBSET Effects]
    <3>1. \A p \in Pages : \A e \in effects[p] : [e EXCEPT !.asker = FALSE] \in Effects
      <4>1. \A e \in Effects : [e EXCEPT !.asker = FALSE] \in Effects
        BY DEF Effects
      <4>2. \A p \in Pages : effects[p] \subseteq Effects
        BY DEF TypeInv
      <4> QED
        BY <4>1, <4>2
    <3> QED
      BY <1>12, <3>1 DEF Stop
  <2>3. adrift' \subseteq Pages
    BY <1>12, OpTypes DEF Stop, TypeInv
  <2> QED
    BY <1>12, <2>1, <2>2, <2>3, UpsetType DEF Stop, TypeInv
<1>13. CASE UNCHANGED vars
  BY <1>13 DEF vars, TypeInv
<1> QED
  BY <1>1, <1>2, <1>3, <1>4, <1>5, <1>6, <1>7, <1>8, <1>9, <1>10, <1>11, <1>12, <1>13 DEF Next

-----------------------------------------------------------------------------
(* What a step does to the records and to the pages.                        *)

RecordsSame == past' = past /\ own' = own

\* A dispatch is committed: what it makes of the profile is the last of the records.
Saves ==
  /\ op # Idle /\ op' = [op EXCEPT !.at = "committed"]
  /\ \A i \in DOMAIN past : i \in DOMAIN past' /\ past'[i] = past[i]
  /\ past'[Len(past')] = op.next.installed
  /\ \A i \in DOMAIN own[op.page] :
       i \in DOMAIN own'[op.page] /\ own'[op.page][i] = own[op.page][i]
  /\ own'[op.page][Len(own'[op.page])] = op.next.active
  /\ Len(own'[op.page]) = Len(own[op.page]) + 1
  /\ \A p \in Pages \ {op.page} : own'[p] = own[p]

LEMMA CommitSaves ==
  ASSUME TypeInv, Commit
  PROVE  /\ op # Idle /\ op.page \in Pages
         /\ Saves \/ (RecordsSame /\ op' = [op EXCEPT !.at = "failing"])
         /\ \/ op.at = "effected"
            \/ op.at = "prepared" /\ ~op.asks
<1>1. op # Idle /\ op.page \in Pages /\ op.next \in States
  BY OpAt, OpTypes DEF Commit
<1>2. op.next.installed \in SUBSET Apps /\ op.next.active \in Apps \cup {None}
  BY <1>1 DEF States
<1>3. op.at = "effected" \/ (op.at = "prepared" /\ ~op.asks)
  BY DEF Commit
<1>4. CASE RecordsSame /\ op' = [op EXCEPT !.at = "failing"]
  BY <1>1, <1>3, <1>4
<1>5. CASE /\ past' = IF op.next.installed = Installed THEN past
                      ELSE Append(past, op.next.installed)
           /\ own' = [own EXCEPT ![op.page] = Append(@, op.next.active)]
           /\ op' = [op EXCEPT !.at = "committed"]
  <2>1. /\ \A i \in DOMAIN past : i \in DOMAIN past' /\ past'[i] = past[i]
        /\ past'[Len(past')] = op.next.installed
    <3>1. past \in Seq(SUBSET Apps)
      BY DEF TypeInv
    <3>2. CASE op.next.installed = Installed
      BY <1>5, <3>2 DEF Installed
    <3>3. CASE past' = Append(past, op.next.installed)
      BY <1>2, <3>1, <3>3, AppendKeeps
    <3> QED
      BY <1>5, <3>2, <3>3
  <2>2. own'[op.page] = Append(own[op.page], op.next.active)
    BY <1>1, <1>5 DEF TypeInv
  <2>3. \A p \in Pages \ {op.page} : own'[p] = own[p]
    BY <1>1, <1>5 DEF TypeInv
  <2>4. own[op.page] \in Seq(Apps \cup {None})
    BY <1>1, RecordTypes
  <2>5. /\ Len(own'[op.page]) = Len(own[op.page]) + 1
        /\ own'[op.page][Len(own'[op.page])] = op.next.active
        /\ \A i \in DOMAIN own[op.page] :
             i \in DOMAIN own'[op.page] /\ own'[op.page][i] = own[op.page][i]
    BY <1>2, <2>2, <2>4, AppendKeeps
  <2> QED
    BY <1>1, <1>3, <1>5, <2>1, <2>3, <2>5 DEF Saves
<1> QED
  BY <1>4, <1>5 DEF Commit, RecordsSame

LEMMA RecordsStep ==
  ASSUME TypeInv, [Next]_vars
  PROVE  RecordsSame \/ (Commit /\ Saves)
<1>1. CASE Commit
  BY <1>1, CommitSaves
<1>2. CASE \E p \in Pages : Attach(p) \/ Begin(p) \/ EffectStep(p) \/ Destroy(p)
  BY <1>2 DEF Attach, Begin, EffectStep, EffectEnds, Destroy, RecordsSame
<1>3. CASE \E p \in Pages, k \in Kinds : Ask(p, k) \/ Receive(p, k)
  BY <1>3 DEF Ask, Receive, RecordsSame
<1>4. CASE Effect \/ Broadcast \/ Answer \/ Fail \/ Stop \/ UNCHANGED vars
  BY <1>4 DEF Effect, Broadcast, Answer, Fail, Stop, RecordsSame, vars
<1> QED
  BY <1>1, <1>2, <1>3, <1>4 DEF Next

\* Whatever was committed stays committed.
LEMMA NamedStep ==
  ASSUME TypeInv, [Next]_vars, NEW p \in Pages
  PROVE  /\ \A i \in DOMAIN past : i \in DOMAIN past' /\ past'[i] = past[i]
         /\ \A i \in DOMAIN own[p] : i \in DOMAIN own'[p] /\ own'[p][i] = own[p][i]
<1>1. CASE RecordsSame
  BY <1>1 DEF RecordsSame
<1>2. CASE Saves
  BY <1>2 DEF Saves
<1> QED
  BY <1>1, <1>2, RecordsStep

\* A page that need not show a committed state.
Restless(p) == Unsettled(p) \/ p \in adrift

Keeps(p) ==
  /\ page'[p] = page[p]
  /\ page[p].at = "open" /\ Restless(p) => Restless(p)'
TakesWhole(p) == \E s \in Snapshots :
  /\ page'[p] = Attached(s) /\ page[p].at # "gone"
  /\ Named(s, past, own[p]) /\ ~Older(s, page[p])
  /\ \/ \E k \in Kinds : request[p][k].at = "answered" /\ request[p][k].snapshot = s
     \/ op' # op
TakesApps(p) == \E s \in Snapshots :
  /\ page'[p] = Patched(page[p], s) /\ page[p].at = "open"
  /\ s.globalRevision > page[p].globalRevision
  /\ s.globalRevision + 1 \in DOMAIN past
  /\ s.state.installed = past[s.globalRevision + 1]
  /\ Restless(p) => Restless(p)'
Tries(p) == \E x \in States : page'[p] = [page[p] EXCEPT !.state = x] /\ Restless(p)'
Leaves(p) == Destroy(p) /\ page'[p] = [New EXCEPT !.at = "gone"]

\* What the worker broadcasts, the state that it has committed or the one that it goes
\* back to, is the committed state and the page of the dispatch takes it.
LEMMA CommittedNamed ==
  ASSUME TypeInv, OpHolds, op.at \in {"committed", "announced"}
  PROVE  Named(Committed, past, own[op.page])
<1>1. op # Idle /\ op.page \in Pages
  BY OpAt, OpTypes
<1> QED
  BY <1>1, CommittedType, RecordTypes DEF OpHolds, Named, Installed

LEMMA BroadcastTaken ==
  ASSUME TypeInv, Within, OpHolds, Fronted, op.at = "committed", page[op.page].at = "open"
  PROVE  /\ Updated(op.page, op.page, Committed, FALSE) = Attached(Committed)
         /\ ~Older(Committed, page[op.page])
<1>1. op # Idle /\ op.page \in Pages
  BY OpAt, OpTypes
<1>2. /\ Committed.globalRevision = GlobalRevision
      /\ Committed.contextRevision = ContextRevision(op.page)
  BY <1>1, CommittedType
<1>3. /\ page[op.page].globalRevision \in Nat /\ page[op.page].contextRevision \in Nat
      /\ GlobalRevision \in Nat /\ ContextRevision(op.page) \in Nat
      /\ page[op.page].globalRevision <= GlobalRevision
  BY <1>1, PageType, RecordTypes DEF Within
<1>4. page[op.page].contextRevision < ContextRevision(op.page)
  BY DEF Fronted
<1>5. ~Older(Committed, page[op.page]) /\ ~Same(Committed, page[op.page])
  BY <1>2, <1>3, <1>4 DEF Older, Same
<1> QED
  BY <1>5 DEF Updated, Takes, Accepts

LEMMA BaseNamed ==
  ASSUME TypeInv, Within, OpHolds, op.at = "failing"
  PROVE  /\ op.page \in Pages /\ op.base \in Snapshots /\ Named(op.base, past, own[op.page])
         /\ op.base.globalRevision = GlobalRevision
         /\ ~Older(op.base, page[op.page])
<1>1. op # Idle /\ op.page \in Pages /\ op.base = Snapshot(op.page)
  BY OpAt, OpTypes DEF OpHolds
<1>2. /\ page[op.page].globalRevision \in Nat /\ page[op.page].contextRevision \in Nat
      /\ GlobalRevision \in Nat /\ ContextRevision(op.page) \in Nat
      /\ page[op.page].globalRevision <= GlobalRevision
      /\ page[op.page].contextRevision <= ContextRevision(op.page)
  BY <1>1, PageType, RecordTypes DEF Within
<1>3. /\ op.base \in Snapshots /\ Named(op.base, past, own[op.page])
      /\ op.base.globalRevision = GlobalRevision
      /\ op.base.contextRevision = ContextRevision(op.page)
  BY <1>1, SnapshotNamed
<1> QED
  BY <1>1, <1>2, <1>3 DEF Older

\* The pages after a broadcast or a rollback s of the dispatch of op.page.
LEMMA UpdatedStep ==
  ASSUME TypeInv, op # Idle, NEW s \in Snapshots, NEW b \in BOOLEAN, NEW p \in Pages,
         page' = [q \in Pages |-> Updated(q, op.page, s, b)],
         adrift' = Settled(op.page, TRUE), effects' = effects,
         Named(s, past, own[op.page]), ~Older(s, page[op.page]),
         page[op.page].at = "open" => Updated(op.page, op.page, s, b) = Attached(s),
         op' # op, op' = Idle \/ op'.page = op.page
  PROVE  Keeps(p) \/ TakesWhole(p) \/ TakesApps(p)
<1>1. op.page \in Pages
  BY OpTypes
<1>2. page'[p] = Updated(p, op.page, s, b)
  OBVIOUS
<1>3. CASE page[p].at # "open"
  BY <1>2, <1>3 DEF Updated, Keeps
<1>4. CASE page[p].at = "open" /\ p = op.page
  BY <1>2, <1>4 DEF TakesWhole
<1>5. CASE page[p].at = "open" /\ p # op.page
  <2>1. Restless(p) => Restless(p)'
    <3>1. p \in adrift => p \in adrift'
      BY <1>5 DEF Settled
    <3>2. Unsettled(p) => effects'[p] # {}
      BY <1>5 DEF Unsettled
    <3> QED
      BY <3>1, <3>2 DEF Restless, Unsettled
  <2>2. page'[p] = page[p] \/ (page'[p] = Patched(page[p], s)
                               /\ s.globalRevision > page[p].globalRevision)
    BY <1>2, <1>5 DEF Updated
  <2>3. s.globalRevision + 1 \in DOMAIN past /\ s.state.installed = past[s.globalRevision + 1]
    BY DEF Named
  <2> QED
    BY <1>5, <2>1, <2>2, <2>3 DEF Keeps, TakesApps
<1> QED
  BY <1>3, <1>4, <1>5

LEMMA PageStep ==
  ASSUME TypeInv, Within, AnswersNamed, OpHolds, Fronted, EffectsKnown, [Next]_vars,
         NEW p \in Pages
  PROVE  Keeps(p) \/ TakesWhole(p) \/ TakesApps(p) \/ Tries(p) \/ Leaves(p)
<1>s. ASSUME page' = page, effects' = effects, adrift' = adrift,
             \/ op' = op
             \/ op' = Idle /\ op.at = "announced"
             \/ op = Idle /\ op'.at = "prepared"
      PROVE  Keeps(p)
  BY <1>s DEF Keeps, Restless, Unsettled, Idle
<1>1. ASSUME NEW q \in Pages, NEW k \in Kinds, Ask(q, k) PROVE Keeps(p)
  BY <1>1, <1>s DEF Ask
<1>2. ASSUME NEW q \in Pages, NEW k \in Kinds, Receive(q, k) PROVE Keeps(p) \/ TakesWhole(p)
  <2> DEFINE s == request[q][k].snapshot
  <2>1. /\ s \in Snapshots /\ Named(s, past, own[q]) /\ page[q].at # "gone"
        /\ request[q][k].at = "answered"
    <3>1. request[q][k] \in Replies /\ request[q][k].at = "answered"
      BY <1>2 DEF Receive, TypeInv
    <3> QED
      BY <1>2, <3>1 DEF Replies, Idle, Sent, AnswersNamed
  <2>2. op' = op /\ effects' = effects
    BY <1>2 DEF Receive
  <2>3. CASE page' = page /\ adrift' = adrift
    BY <1>s, <2>2, <2>3
  <2>4. CASE /\ Accepts(page[q], s, k = "attach") /\ adrift' = Settled(q, TRUE)
             /\ page' = [page EXCEPT ![q] = Attached(s)]
    <3>1. CASE p = q
      <4>1. page'[p] = Attached(s)
        BY <2>4, <3>1 DEF TypeInv
      <4>2. ~Older(s, page[q])
        BY <2>4 DEF Accepts
      <4> QED
        BY <2>1, <3>1, <4>1, <4>2 DEF TakesWhole
    <3>2. CASE p # q
      <4>1. page'[p] = page[p] /\ (p \in adrift => p \in adrift')
        BY <2>4, <3>2 DEF TypeInv, Settled
      <4> QED
        BY <2>2, <4>1 DEF Keeps, Restless, Unsettled
    <3> QED
      BY <3>1, <3>2
  <2> QED
    BY <1>2, <2>3, <2>4 DEF Receive
<1>3. ASSUME NEW q \in Pages, EffectStep(q) PROVE Keeps(p) \/ Tries(p)
  <2>1. PICK e \in effects[q], ok \in BOOLEAN : EffectEnds(q, e, ok)
    BY <1>3 DEF EffectStep
  <2>2. /\ e.previous \in States /\ adrift' = adrift
        /\ page' = page \/ (~ok /\ page' = [page EXCEPT ![q].state = e.previous])
    BY <2>1 DEF TypeInv, Effects, EffectEnds
  <2>3. CASE p = q
    <3>1. Restless(q)'
      <4>1. CASE ~e.asker
        BY <2>2, <4>1 DEF EffectsKnown, Restless
      <4>2. CASE e.asker
        <5>1. op.at = "asked" /\ op.page = q /\ op # Idle /\ op.asks
          BY <4>2, OpAt DEF EffectsKnown, OpHolds
        <5>2. op' = [op EXCEPT !.at = "effected"] \/ op' = [op EXCEPT !.at = "failing"]
          BY <2>1, <4>2 DEF EffectEnds
        <5>3. op \in Ops
          BY <5>1, OpTypes
        <5>4. op'.page = q /\ op'.asks /\ op'.at \in {"effected", "failing"}
          BY <5>1, <5>2, <5>3 DEF Ops
        <5> QED
          BY <5>4 DEF Restless, Unsettled, Idle
      <4> QED
        BY <4>1, <4>2
    <3>2. CASE page' = page
      BY <2>3, <3>1, <3>2 DEF Keeps
    <3>3. CASE page' = [page EXCEPT ![q].state = e.previous]
      <4>1. page'[q] = [page[q] EXCEPT !.state = e.previous]
        BY <3>3 DEF TypeInv
      <4> QED
        BY <2>2, <2>3, <3>1, <4>1 DEF Tries
    <3> QED
      BY <2>2, <3>2, <3>3
  <2>4. CASE p # q
    <3>1. page'[p] = page[p] /\ effects'[p] = effects[p]
      BY <2>1, <2>2, <2>4 DEF EffectEnds, TypeInv
    <3>2. op' = op \/ op.page = q
      BY <2>1 DEF EffectEnds, EffectsKnown
    <3> QED
      BY <2>2, <2>4, <3>1, <3>2 DEF Keeps, Restless, Unsettled
  <2> QED
    BY <2>3, <2>4
<1>4. ASSUME NEW q \in Pages, Destroy(q) PROVE Keeps(p) \/ Leaves(p)
  <2>1. CASE p = q
    BY <1>4, <2>1 DEF Destroy, Leaves, TypeInv
  <2>2. CASE p # q
    <3>1. page'[p] = page[p] /\ effects'[p] = effects[p] /\ adrift' = adrift
      BY <1>4, <2>2 DEF Destroy, TypeInv
    <3>2. op' = op \/ op.page = q
      BY <1>4 DEF Destroy
    <3> QED
      BY <2>2, <3>1, <3>2 DEF Keeps, Restless, Unsettled
  <2> QED
    BY <2>1, <2>2
<1>5. ASSUME NEW q \in Pages, Attach(q) PROVE Keeps(p)
  BY <1>5, <1>s DEF Attach
<1>6. ASSUME NEW q \in Pages, Begin(q) PROVE Keeps(p)
  BY <1>6, <1>s DEF Begin
<1>7. CASE Effect
  <2>1. op # Idle /\ op \in Ops /\ op.page \in Pages /\ op.next \in States /\ op.asks
    BY <1>7, OpAt, OpTypes DEF Effect
  <2>2. CASE page[op.page].at = "open"
    <3>1. /\ op' = [op EXCEPT !.at = "asked"] /\ adrift' = adrift
          /\ page' = [page EXCEPT ![op.page].state = op.next]
          /\ effects' = [effects EXCEPT ![op.page] = @ \cup
               {[previous |-> page[op.page].state, asker |-> TRUE]}]
      BY <1>7, <2>2 DEF Effect
    <3>2. CASE p = op.page
      <4>1. page'[p] = [page[p] EXCEPT !.state = op.next]
        BY <3>1, <3>2 DEF TypeInv
      <4>2. effects'[p] # {}
        BY <3>1, <3>2 DEF TypeInv
      <4> QED
        BY <2>1, <4>1, <4>2 DEF Tries, Restless, Unsettled
    <3>3. CASE p # op.page
      <4>1. page'[p] = page[p] /\ effects'[p] = effects[p]
        BY <3>1, <3>3 DEF TypeInv
      <4> QED
        BY <3>1, <3>3, <4>1 DEF Keeps, Restless, Unsettled
    <3> QED
      BY <3>2, <3>3
  <2>3. CASE page[op.page].at # "open"
    <3>1. page' = page /\ effects' = effects /\ adrift' = adrift
      BY <1>7, <2>3 DEF Effect
    <3> QED
      BY <2>3, <3>1 DEF Keeps, Restless, Unsettled
  <2> QED
    BY <2>2, <2>3
<1>8. CASE Commit
  <2>1. page' = page /\ effects' = effects /\ adrift' = adrift
    BY <1>8 DEF Commit
  <2>2. /\ op # Idle /\ op \in Ops
        /\ op' = [op EXCEPT !.at = "committed"] \/ op' = [op EXCEPT !.at = "failing"]
        /\ op.at = "effected" \/ ~op.asks
    BY <1>8, CommitSaves, OpTypes DEF Saves
  <2>3. op'.page = op.page /\ op'.asks = op.asks /\ op'.at \in {"committed", "failing"}
    BY <2>2 DEF Ops
  <2> QED
    BY <2>1, <2>2, <2>3 DEF Keeps, Restless, Unsettled, Idle
<1>9. CASE Broadcast
  <2>1. op # Idle /\ op.at = "committed" /\ Committed \in Snapshots
    BY <1>9, OpAt, CommittedType DEF Broadcast
  <2>2. op'.page = op.page /\ op' # op
    BY <1>9, <2>1, OpTypes DEF Broadcast, Ops
  <2>3. Named(Committed, past, own[op.page])
    BY <2>1, CommittedNamed
  <2>4. CASE page[op.page].at = "open"
    BY <1>9, <2>1, <2>2, <2>3, <2>4, BroadcastTaken, UpdatedStep DEF Broadcast
  <2>5. CASE page[op.page].at # "open"
    <3>1. ~Older(Committed, page[op.page])
      <4>1. op.page \in Pages
        BY <2>1, OpTypes
      <4>2. /\ page[op.page].globalRevision <= GlobalRevision
            /\ page[op.page].contextRevision <= ContextRevision(op.page)
        BY <4>1, PageType, RecordTypes DEF Within
      <4> QED
        BY <2>1, <4>1, <4>2, CommittedType, PageType, RecordTypes DEF Older
    <3> QED
      BY <1>9, <2>1, <2>2, <2>3, <2>5, <3>1, UpdatedStep DEF Broadcast
  <2> QED
    BY <2>4, <2>5
<1>10. CASE Answer
  BY <1>10, <1>s DEF Answer, Announced
<1>11. CASE Fail
  <2>1. op # Idle /\ op.at = "failing"
    BY <1>11, OpAt DEF Fail
  <2>2. op.base \in Snapshots /\ Named(op.base, past, own[op.page]) /\ ~Older(op.base, page[op.page])
    BY <2>1, BaseNamed
  <2>3. page[op.page].at = "open" => Updated(op.page, op.page, op.base, TRUE) = Attached(op.base)
    BY DEF Updated, Takes
  <2>4. op' # op
    BY <1>11, <2>1 DEF Fail
  <2> QED
    BY <1>11, <2>1, <2>2, <2>3, <2>4, UpdatedStep DEF Fail
<1>12. CASE Stop
  <2>1. page' = page /\ op' = Idle
    BY <1>12 DEF Stop
  <2>2. effects'[p] = {} => effects[p] = {}
    BY <1>12 DEF Stop
  <2>3. /\ p \in adrift => p \in adrift'
        /\ op # Idle /\ op.page = p /\ op.asks /\ op.at \notin {"prepared", "announced"} => p \in adrift'
    BY <1>12 DEF Stop
  <2> QED
    BY <2>1, <2>2, <2>3 DEF Keeps, Restless, Unsettled
<1>13. CASE UNCHANGED vars
  BY <1>13, <1>s DEF vars
<1> QED
  BY <1>1, <1>2, <1>3, <1>4, <1>5, <1>6, <1>7, <1>8, <1>9, <1>10, <1>11, <1>12, <1>13 DEF Next

-----------------------------------------------------------------------------
(* The steps keep the invariants.                                           *)

\* What a page holds has its revisions in the records, and they do not fall.
LEMMA RevisionsStep ==
  ASSUME TypeInv, Within, AnswersNamed, OpHolds, Fronted, EffectsKnown, [Next]_vars,
         NEW p \in Pages
  PROVE  /\ page'[p].globalRevision + 1 \in DOMAIN past
         /\ page'[p].contextRevision + 1 \in DOMAIN own[p]
         /\ page'[p].at # "gone" =>
              /\ page'[p].globalRevision >= page[p].globalRevision
              /\ page'[p].contextRevision >= page[p].contextRevision
              /\ page[p].at # "gone"
              /\ page'[p].at = page[p].at \/ (page'[p].at = "open" /\ TakesWhole(p))
<1>1. /\ page[p] \in Held /\ page[p].globalRevision \in Nat /\ page[p].contextRevision \in Nat
      /\ page[p].globalRevision + 1 \in DOMAIN past /\ page[p].contextRevision + 1 \in DOMAIN own[p]
  BY PageType DEF Within
<1>2. CASE Keeps(p) \/ Tries(p)
  <2>1. /\ page'[p].globalRevision = page[p].globalRevision
        /\ page'[p].contextRevision = page[p].contextRevision /\ page'[p].at = page[p].at
    <3>1. ASSUME NEW x \in States, page'[p] = [page[p] EXCEPT !.state = x]
          PROVE  /\ page'[p].globalRevision = page[p].globalRevision
                 /\ page'[p].contextRevision = page[p].contextRevision /\ page'[p].at = page[p].at
      BY <1>1, <3>1 DEF Held
    <3> QED
      BY <1>2, <3>1 DEF Keeps, Tries
  <2>2. page[p].at # "gone" \/ page'[p].at = "gone"
    BY <2>1
  <2> QED
    BY <1>1, <2>1, <2>2
<1>3. CASE TakesWhole(p)
  <2>1. PICK s \in Snapshots : /\ page'[p] = Attached(s) /\ page[p].at # "gone"
                               /\ Named(s, past, own[p]) /\ ~Older(s, page[p])
    BY <1>3 DEF TakesWhole
  <2>2. /\ page'[p].globalRevision = s.globalRevision /\ page'[p].at = "open"
        /\ page'[p].contextRevision = s.contextRevision
    BY <2>1, AttachedType
  <2>3. s.globalRevision \in Nat /\ s.contextRevision \in Nat
    BY DEF Snapshots
  <2>4. s.globalRevision >= page[p].globalRevision /\ s.contextRevision >= page[p].contextRevision
    BY <1>1, <2>1, <2>3 DEF Older
  <2> QED
    BY <1>3, <2>1, <2>2, <2>4 DEF Named
<1>4. CASE TakesApps(p)
  <2>1. PICK s \in Snapshots : /\ page'[p] = Patched(page[p], s) /\ page[p].at = "open"
                               /\ s.globalRevision > page[p].globalRevision
                               /\ s.globalRevision + 1 \in DOMAIN past
    BY <1>4 DEF TakesApps
  <2>2. /\ page'[p].globalRevision = s.globalRevision /\ page'[p].at = page[p].at
        /\ page'[p].contextRevision = page[p].contextRevision
    BY <1>1, <2>1, PatchedType
  <2>3. s.globalRevision \in Nat
    BY DEF Snapshots
  <2> QED
    BY <1>1, <2>1, <2>2, <2>3
<1>5. CASE Leaves(p)
  <2>1. page'[p].at = "gone" /\ page'[p].globalRevision = 0 /\ page'[p].contextRevision = 0
    BY <1>5 DEF Leaves, New
  <2>2. 0 + 1 \in DOMAIN past /\ 0 + 1 \in DOMAIN own[p]
    BY RecordTypes
  <2> QED
    BY <2>1, <2>2
<1> QED
  BY <1>2, <1>3, <1>4, <1>5, PageStep

LEMMA WithinStep ==
  ASSUME TypeInv, Within, AnswersNamed, OpHolds, Fronted, EffectsKnown, [Next]_vars
  PROVE  Within'
<1> SUFFICES ASSUME NEW p \in Pages
             PROVE  /\ page'[p].globalRevision + 1 \in DOMAIN past'
                    /\ page'[p].contextRevision + 1 \in DOMAIN own'[p]
  BY DEF Within
<1> QED
  BY RevisionsStep, NamedStep

LEMMA ShowsStep ==
  ASSUME TypeInv, Within, AnswersNamed, OpHolds, Fronted, EffectsKnown, Shows, [Next]_vars
  PROVE  Shows'
<1> SUFFICES ASSUME NEW p \in Pages, page'[p].at = "open", ~Restless(p)'
             PROVE  Named(page'[p], past', own'[p])
  BY DEF Shows, Restless
<1>1. page[p] \in Held
  BY PageType
<1>2. Named(page'[p], past, own[p])
  <2>1. CASE Keeps(p)
    BY <2>1 DEF Keeps, Shows, Restless
  <2>2. CASE TakesWhole(p)
    BY <2>2, AttachedNamed DEF TakesWhole
  <2>3. CASE TakesApps(p)
    <3>1. Named(page[p], past, own[p])
      BY <2>3 DEF TakesApps, Shows, Restless
    <3> QED
      BY <1>1, <2>3, <3>1, PatchedNamed DEF TakesApps
  <2>4. ~Tries(p) /\ ~Leaves(p)
    BY DEF Tries, Leaves, New
  <2> QED
    BY <2>1, <2>2, <2>3, <2>4, PageStep
<1> QED
  BY <1>2, NamedStep, NamedKept

LEMMA EffectsStep ==
  ASSUME TypeInv, OpHolds, EffectsKnown, [Next]_vars
  PROVE  EffectsKnown'
<1> SUFFICES ASSUME NEW p \in Pages, NEW e \in effects'[p]
             PROVE  IF e.asker
                    THEN op'.at = "asked" /\ op'.page = p /\ \A f \in effects'[p] : f.asker => f = e
                    ELSE p \in adrift'
  BY DEF EffectsKnown
<1>s. ASSUME effects'[p] \subseteq effects[p], adrift' = adrift, op' = op \/ op.at # "asked"
      PROVE  IF e.asker
             THEN op'.at = "asked" /\ op'.page = p /\ \A f \in effects'[p] : f.asker => f = e
             ELSE p \in adrift'
  BY <1>s DEF EffectsKnown
<1>t. ASSUME NEW c \in Pages, effects' = effects, op.at # "asked", adrift' = Settled(c, TRUE)
      PROVE  ~e.asker /\ p \in adrift'
  BY <1>t DEF EffectsKnown, Settled
<1>1. CASE \E q \in Pages, k \in Kinds : Ask(q, k)
  BY <1>1, <1>s DEF Ask
<1>2. ASSUME NEW q \in Pages, NEW k \in Kinds, Receive(q, k)
      PROVE  IF e.asker
             THEN op'.at = "asked" /\ op'.page = p /\ \A f \in effects'[p] : f.asker => f = e
             ELSE p \in adrift'
  <2>1. op' = op /\ effects' = effects /\ (adrift' = adrift \/ adrift' = Settled(q, TRUE))
    BY <1>2 DEF Receive
  <2>2. p \in adrift => p \in adrift'
    BY <2>1 DEF Settled
  <2> QED
    BY <2>1, <2>2 DEF EffectsKnown
<1>3. ASSUME NEW q \in Pages, EffectStep(q)
      PROVE  IF e.asker
             THEN op'.at = "asked" /\ op'.page = p /\ \A f \in effects'[p] : f.asker => f = e
             ELSE p \in adrift'
  <2>1. PICK d \in effects[q], ok \in BOOLEAN : EffectEnds(q, d, ok)
    BY <1>3 DEF EffectStep
  <2>2. effects' = [effects EXCEPT ![q] = @ \ {d}] /\ adrift' = adrift
    BY <2>1 DEF EffectEnds
  <2>3. effects'[p] \subseteq effects[p] /\ (p = q => e # d)
    BY <2>2 DEF TypeInv
  <2>4. CASE ~d.asker
    BY <2>1, <2>3, <2>4, <1>s DEF EffectEnds
  <2>5. CASE d.asker
    <3>1. ~e.asker
      BY <2>3, <2>5 DEF EffectsKnown
    <3> QED
      BY <2>2, <2>3, <3>1 DEF EffectsKnown
  <2> QED
    BY <2>4, <2>5
<1>4. ASSUME NEW q \in Pages, Destroy(q)
      PROVE  IF e.asker
             THEN op'.at = "asked" /\ op'.page = p /\ \A f \in effects'[p] : f.asker => f = e
             ELSE p \in adrift'
  <2>1. p # q /\ effects'[p] = effects[p] /\ adrift' = adrift
    BY <1>4 DEF Destroy, TypeInv
  <2>2. op' = op \/ op.page = q
    BY <1>4 DEF Destroy
  <2> QED
    BY <2>1, <2>2 DEF EffectsKnown
<1>5. CASE \E q \in Pages : Attach(q)
  BY <1>5, <1>s DEF Attach
<1>6. CASE \E q \in Pages : Begin(q)
  BY <1>6, <1>s DEF Begin, Idle
<1>7. CASE Effect
  <2>1. op \in Ops /\ op.page \in Pages /\ op.at = "prepared" /\ adrift' = adrift
    BY <1>7, OpAt, OpTypes DEF Effect
  <2>2. CASE page[op.page].at # "open"
    BY <1>7, <1>s, <2>1, <2>2 DEF Effect
  <2>3. CASE page[op.page].at = "open"
    <3> DEFINE d == [previous |-> page[op.page].state, asker |-> TRUE]
    <3>1. op' = [op EXCEPT !.at = "asked"] /\ effects' = [effects EXCEPT ![op.page] = @ \cup {d}]
      BY <1>7, <2>3 DEF Effect
    <3>2. op'.at = "asked" /\ op'.page = op.page
      BY <2>1, <3>1 DEF Ops
    <3>3. \A f \in effects[p] : ~f.asker /\ p \in adrift
      BY <2>1 DEF EffectsKnown
    <3>4. effects'[p] = IF p = op.page THEN effects[p] \cup {d} ELSE effects[p]
      BY <3>1 DEF TypeInv
    <3>5. d.asker = TRUE
      OBVIOUS
    <3> HIDE DEF d
    <3> QED
      BY <2>1, <3>2, <3>3, <3>4, <3>5
  <2> QED
    BY <2>2, <2>3
<1>8. CASE Commit
  BY <1>8, <1>s DEF Commit
<1>9. CASE Broadcast
  BY <1>9, <1>t, OpAt, OpTypes DEF Broadcast
<1>10. CASE Answer
  BY <1>10, <1>s DEF Answer, Announced
<1>11. CASE Fail
  BY <1>11, <1>t, OpAt, OpTypes DEF Fail
<1>12. CASE Stop
  <2>1. PICK d \in effects[p] : e = [d EXCEPT !.asker = FALSE]
    BY <1>12 DEF Stop
  <2>2. ~e.asker
    BY <2>1 DEF TypeInv, Effects
  <2>3. p \in adrift'
    <3>1. CASE ~d.asker
      BY <1>12, <3>1 DEF Stop, EffectsKnown
    <3>2. CASE d.asker
      BY <1>12, <3>2, OpAt DEF Stop, EffectsKnown, OpHolds
    <3> QED
      BY <3>1, <3>2
  <2> QED
    BY <2>2, <2>3
<1>13. CASE UNCHANGED vars
  BY <1>13, <1>s DEF vars
<1> QED
  BY <1>1, <1>2, <1>3, <1>4, <1>5, <1>6, <1>7, <1>8, <1>9, <1>10, <1>11, <1>12, <1>13 DEF Next

\* What becomes of the dispatch of the worker ...
Begins(p) ==
  /\ op = Idle /\ op' \in Ops /\ RecordsSame /\ page' = page
  /\ op'.page = p /\ op'.at = "prepared" /\ op'.base = Snapshot(p)
  /\ op'.next.active \in op'.next.installed \cup {None}
  /\ request[p]["dispatch"] = Sent /\ request'[p]["dispatch"].at = "running"
Moves(x) ==
  /\ op # Idle /\ op' = [op EXCEPT !.at = x] /\ RecordsSame
  /\ \/ x = "asked" /\ op.at = "prepared" /\ op.asks
     \/ x = "effected" /\ op.at = "asked"
     \/ x = "failing" /\ op.at \in {"prepared", "asked", "effected"}
     \/ x = "announced" /\ Broadcast

LEMMA OpStep ==
  ASSUME TypeInv, EffectsKnown, [Next]_vars
  PROVE  \/ op' = op /\ RecordsSame
         \/ op' = Idle /\ RecordsSame
         \/ \E p \in Pages : Begins(p)
         \/ \E x \in {"asked", "effected", "failing", "announced"} : Moves(x)
         \/ Commit /\ Saves
<1>1. CASE \E p \in Pages, k \in Kinds : Ask(p, k) \/ Receive(p, k)
  BY <1>1 DEF Ask, Receive, RecordsSame
<1>2. ASSUME NEW p \in Pages, EffectStep(p)
      PROVE  RecordsSame /\ (op' = op \/ \E x \in {"effected", "failing"} : Moves(x))
  <2>1. PICK e \in effects[p], ok \in BOOLEAN : EffectEnds(p, e, ok)
    BY <1>2 DEF EffectStep
  <2>2. e.asker => op.at = "asked" /\ op # Idle
    BY OpAt DEF EffectsKnown
  <2>3. RecordsSame /\ op' = IF e.asker THEN [op EXCEPT !.at = IF ok THEN "effected" ELSE "failing"]
                             ELSE op
    BY <2>1 DEF EffectEnds, RecordsSame
  <2> QED
    BY <2>2, <2>3 DEF Moves
<1>3. ASSUME NEW p \in Pages, Destroy(p)
      PROVE  RecordsSame /\ (op' = op \/ Moves("failing"))
  BY <1>3, OpAt DEF Destroy, Moves, RecordsSame
<1>4. CASE \E p \in Pages : Attach(p)
  BY <1>4 DEF Attach, RecordsSame
<1>5. ASSUME NEW p \in Pages, Begin(p) PROVE RecordsSame /\ (op' = op \/ Begins(p))
  <2>1. RecordsSame /\ page' = page /\ op = Idle /\ request[p]["dispatch"] = Sent
    BY <1>5 DEF Begin, RecordsSame
  <2>2. CASE \E t \in Transitions(Composed(p)) :
               /\ op' = [at |-> "prepared", page |-> p, base |-> Snapshot(p), next |-> t.next,
                         asks |-> t.asks]
               /\ Reply(p, "dispatch", [at |-> "running"])
    <3>1. PICK t \in Transitions(Composed(p)) :
               /\ op' = [at |-> "prepared", page |-> p, base |-> Snapshot(p), next |-> t.next,
                         asks |-> t.asks]
               /\ Reply(p, "dispatch", [at |-> "running"])
      BY <2>2
    <3>2. /\ t.next \in States /\ t.asks \in BOOLEAN
          /\ t.next.active \in t.next.installed \cup {None}
      BY SnapshotNamed, TransitionType
    <3>3. request'[p]["dispatch"] = [at |-> "running"]
      BY <3>1, ReplyStep DEF Kinds, Replies
    <3>4. op' \in Ops
      BY <3>1, <3>2, SnapshotNamed DEF Ops
    <3> QED
      BY <2>1, <3>1, <3>2, <3>3, <3>4 DEF Begins
  <2> QED
    BY <1>5, <2>1, <2>2 DEF Begin
<1>6. CASE Effect
  BY <1>6, OpAt DEF Effect, Moves, RecordsSame
<1>7. CASE Commit
  BY <1>7, CommitSaves DEF Moves
<1>8. CASE Broadcast
  BY <1>8, OpAt DEF Broadcast, Moves, RecordsSame
<1>9. CASE Answer \/ Fail \/ Stop
  BY <1>9 DEF Answer, Fail, Stop, RecordsSame
<1>10. CASE UNCHANGED vars
  BY <1>10 DEF vars, RecordsSame
<1> QED
  BY <1>1, <1>2, <1>3, <1>4, <1>5, <1>6, <1>7, <1>8, <1>9, <1>10 DEF Next

\* ... and of a request of a page.
Answers(p, k) == \E s \in Snapshots :
  /\ request'[p][k] = Answered(s) /\ Named(s, past, own[p])
  /\ RecordsSame /\ page' = page /\ op' = Idle /\ page[p].at # "gone"
  /\ k = "dispatch" =>
       op.at = "announced" /\ op.page = p /\ s.contextRevision = ContextRevision(p)

LEMMA RequestStep ==
  ASSUME TypeInv, OpHolds, PageWaits, [Next]_vars, NEW p \in Pages, NEW k \in Kinds
  PROVE  \/ request'[p][k] = request[p][k]
         \/ request'[p][k] = Idle /\ (request[p][k].at = "running" => op' = Idle)
         \/ /\ request[p][k] = Idle /\ request'[p][k] = Sent /\ page' = page
            /\ page[p].at # "gone"
            /\ k = "dispatch" => page[p].at = "open"
         \/ /\ request[p][k] = Sent /\ k = "dispatch" /\ request'[p][k] = [at |-> "running"]
            /\ page' = page
         \/ Answers(p, k)
<1>k. "dispatch" \in Kinds /\ "attach" \in Kinds
  BY DEF Kinds
<1>r. Idle \in Replies /\ Sent \in Replies /\ [at |-> "running"] \in Replies
      /\ \A s \in Snapshots : Answered(s) \in Replies
  BY DEF Replies, Answered
<1>1. ASSUME NEW q \in Pages, NEW l \in Kinds, Ask(q, l)
      PROVE  \/ request'[p][k] = request[p][k]
             \/ /\ request[p][k] = Idle /\ request'[p][k] = Sent /\ page' = page
                /\ page[p].at # "gone"
                /\ k = "dispatch" => page[p].at = "open"
  BY <1>1, <1>r, ReplyStep DEF Ask
<1>2. ASSUME NEW q \in Pages, NEW l \in Kinds, Receive(q, l)
      PROVE  \/ request'[p][k] = request[p][k]
             \/ request'[p][k] = Idle /\ request[p][k].at # "running"
  BY <1>2, <1>r, ReplyStep DEF Receive
<1>3. ASSUME NEW q \in Pages, EffectStep(q) PROVE request'[p][k] = request[p][k]
  BY <1>3 DEF EffectStep, EffectEnds
<1>4. ASSUME NEW q \in Pages, Destroy(q)
      PROVE  \/ request'[p][k] = request[p][k]
             \/ request'[p][k] = Idle /\ request[p][k].at # "running"
  <2>1. request' = [request EXCEPT ![q] =
          [l \in Kinds |-> IF request[q][l].at = "running" THEN request[q][l] ELSE Idle]]
    BY <1>4 DEF Destroy
  <2> QED
    BY <2>1 DEF TypeInv
<1>5. ASSUME NEW q \in Pages, Attach(q)
      PROVE  request'[p][k] = request[p][k] \/ Answers(p, k)
  <2>1. /\ op = Idle /\ op' = op /\ page' = page /\ RecordsSame
        /\ request[q]["attach"] = Sent /\ Reply(q, "attach", Answered(Snapshot(q)))
    BY <1>5 DEF Attach, RecordsSame
  <2>2. Snapshot(q) \in Snapshots /\ Named(Snapshot(q), past, own[q])
    BY SnapshotNamed
  <2>3. request'[p][k] = IF p = q /\ k = "attach" THEN Answered(Snapshot(q)) ELSE request[p][k]
    BY <1>k, <1>r, <2>1, <2>2, ReplyStep
  <2>4. page[q].at # "gone"
    BY <1>k, <2>1 DEF PageWaits, Sent
  <2> QED
    BY <2>1, <2>2, <2>3, <2>4 DEF Answers
<1>6. ASSUME NEW q \in Pages, Begin(q)
      PROVE  \/ request'[p][k] = request[p][k]
             \/ request'[p][k] = Idle /\ request[p][k].at # "running"
             \/ /\ request[p][k] = Sent /\ k = "dispatch" /\ request'[p][k] = [at |-> "running"]
                /\ page' = page
  <2>1. /\ request[q]["dispatch"] = Sent /\ page' = page
        /\ Reply(q, "dispatch", [at |-> "running"]) \/ Reply(q, "dispatch", Idle)
    BY <1>6 DEF Begin
  <2> QED
    BY <1>k, <1>r, <2>1, ReplyStep DEF Sent
<1>7. CASE Effect \/ Commit \/ Broadcast \/ UNCHANGED vars
  BY <1>7 DEF Effect, Commit, Broadcast, vars
<1>8. CASE Answer
  <2>1. /\ op # Idle /\ op.at = "announced" /\ op' = Idle /\ page' = page /\ RecordsSame
        /\ Reply(op.page, "dispatch", Idle)
           \/ (page[op.page].at # "gone" /\ Reply(op.page, "dispatch", Answered(Committed)))
    BY <1>8 DEF Answer, Announced, RecordsSame
  <2>2. /\ op.page \in Pages /\ Committed \in Snapshots /\ Named(Committed, past, own[op.page])
        /\ Committed.contextRevision = ContextRevision(op.page)
    BY <2>1, OpTypes, CommittedType, CommittedNamed
  <2>3. CASE Reply(op.page, "dispatch", Idle)
    BY <1>k, <1>r, <2>1, <2>2, <2>3, ReplyStep
  <2>4. CASE page[op.page].at # "gone" /\ Reply(op.page, "dispatch", Answered(Committed))
    <3>1. request'[p][k] = IF p = op.page /\ k = "dispatch" THEN Answered(Committed)
                           ELSE request[p][k]
      BY <1>k, <1>r, <2>2, <2>4, ReplyStep
    <3> QED
      BY <2>1, <2>2, <2>4, <3>1 DEF Answers
  <2> QED
    BY <2>1, <2>3, <2>4
<1>9. CASE Fail
  <2>1. Reply(op.page, "dispatch", Idle) /\ op' = Idle /\ op.page \in Pages
    BY <1>9, OpAt, OpTypes DEF Fail
  <2>2. request'[p][k] \in {request[p][k], Idle}
    BY <1>k, <1>r, <2>1, ReplyStep
  <2> QED
    BY <2>1, <2>2
<1>10. CASE Stop
  BY <1>10 DEF Stop
<1> QED
  BY <1>1, <1>2, <1>3, <1>4, <1>5, <1>6, <1>7, <1>8, <1>9, <1>10 DEF Next

\* A page that goes leaves no request behind but a dispatch that runs.
LEMMA GoneStep ==
  ASSUME TypeInv, Within, AnswersNamed, OpHolds, Fronted, EffectsKnown, [Next]_vars,
         NEW p \in Pages, page[p].at # "gone", page'[p].at = "gone"
  PROVE  \A k \in Kinds : request'[p][k].at \in {"running", "idle"}
<1>1. CASE Leaves(p)
  <2>1. request' = [request EXCEPT ![p] =
          [l \in Kinds |-> IF request[p][l].at = "running" THEN request[p][l] ELSE Idle]]
    BY <1>1 DEF Leaves, Destroy
  <2> QED
    BY <2>1 DEF TypeInv, Idle
<1>2. CASE Keeps(p)
  BY <1>2 DEF Keeps
<1>3. CASE TakesWhole(p)
  BY <1>3, AttachedType DEF TakesWhole
<1>4. CASE TakesApps(p)
  BY <1>4, PageType, PatchedType DEF TakesApps
<1>5. CASE Tries(p)
  BY <1>5, PageType DEF Tries, Held
<1> QED
  BY <1>1, <1>2, <1>3, <1>4, <1>5, PageStep

LEMMA AnswersStep ==
  ASSUME TypeInv, Within, AnswersNamed, OpHolds, PageWaits, Fronted, EffectsKnown, [Next]_vars
  PROVE  AnswersNamed'
<1> SUFFICES ASSUME NEW p \in Pages, NEW k \in Kinds, request'[p][k].at = "answered"
             PROVE  Named(request'[p][k].snapshot, past', own'[p]) /\ page'[p].at # "gone"
  BY DEF AnswersNamed
<1>1. CASE request'[p][k] = request[p][k]
  <2>1. Named(request[p][k].snapshot, past, own[p]) /\ page[p].at # "gone"
    BY <1>1 DEF AnswersNamed
  <2>2. page'[p].at # "gone"
    BY <1>1, <2>1, GoneStep
  <2> QED
    BY <1>1, <2>1, <2>2, NamedStep, NamedKept
<1>2. CASE Answers(p, k)
  <2>1. PICK s \in Snapshots : /\ request'[p][k] = Answered(s) /\ Named(s, past, own[p])
                               /\ RecordsSame /\ page' = page /\ page[p].at # "gone"
    BY <1>2 DEF Answers
  <2>2. request'[p][k].snapshot = s
    BY <2>1 DEF Answered
  <2> QED
    BY <2>1, <2>2 DEF RecordsSame
<1> QED
  BY <1>1, <1>2, RequestStep DEF Idle, Sent

LEMMA SnapshotSame ==
  ASSUME RecordsSame, NEW p \in Pages
  PROVE  Snapshot(p)' = Snapshot(p)
BY DEF RecordsSame, Snapshot, Composed, Installed, GlobalRevision, ContextRevision

LEMMA OpHoldsStep ==
  ASSUME TypeInv, TypeInv', OpHolds, EffectsKnown, [Next]_vars
  PROVE  OpHolds'
<1> USE DEF OpHolds
<1>1. CASE op' = op /\ RecordsSame
  <2>1. CASE op = Idle
    BY <1>1, <2>1 DEF Idle
  <2>2. CASE op # Idle
    <3>1. op.page \in Pages /\ Snapshot(op.page)' = Snapshot(op.page)
      BY <1>1, <2>2, OpTypes, SnapshotSame
    <3> QED
      BY <1>1, <3>1 DEF RecordsSame, Installed
  <2> QED
    BY <2>1, <2>2
<1>2. CASE op' = Idle
  BY <1>2 DEF Idle
<1>3. ASSUME NEW p \in Pages, Begins(p) PROVE OpHolds'
  <2>1. op'.at = "prepared" /\ op'.page = p /\ op'.base = Snapshot(p) /\ Snapshot(p)' = Snapshot(p)
    BY <1>3, SnapshotSame DEF Begins
  <2> QED
    BY <1>3, <2>1 DEF Begins
<1>4. ASSUME NEW x \in {"asked", "effected", "failing", "announced"}, Moves(x) PROVE OpHolds'
  <2>1. /\ op # Idle /\ op' = [op EXCEPT !.at = x] /\ RecordsSame /\ op \in Ops /\ op.page \in Pages
    BY <1>4, OpTypes DEF Moves
  <2>2. /\ op'.at = x /\ op'.page = op.page /\ op'.base = op.base /\ op'.next = op.next
        /\ op'.asks = op.asks
    BY <2>1 DEF Ops
  <2>3. Snapshot(op.page)' = Snapshot(op.page) /\ Installed' = Installed /\ own' = own
    BY <2>1, SnapshotSame DEF RecordsSame, Installed
  <2>4. x = "announced" => op.at = "committed"
    BY <1>4 DEF Moves, Broadcast
  <2> QED
    BY <1>4, <2>1, <2>2, <2>3, <2>4 DEF Moves
<1>5. CASE Commit /\ Saves
  <2>1. op # Idle /\ op \in Ops /\ op' = [op EXCEPT !.at = "committed"]
    BY <1>5, OpTypes DEF Saves
  <2>2. op'.at = "committed" /\ op'.page = op.page /\ op'.next = op.next
    BY <2>1 DEF Ops
  <2> QED
    BY <1>5, <2>1, <2>2 DEF Saves, Installed
<1> QED
  BY <1>1, <1>2, <1>3, <1>4, <1>5, OpStep

\* The worker's dispatch, if it had one, stays with its page.
LEMMA SamePage ==
  ASSUME TypeInv, EffectsKnown, [Next]_vars, op' # Idle
  PROVE  (op # Idle /\ op'.page = op.page) \/ \E p \in Pages : Begins(p)
<1>1. CASE op' = op
  BY <1>1
<1>2. ASSUME NEW x, op # Idle, op' = [op EXCEPT !.at = x] PROVE op # Idle /\ op'.page = op.page
  BY <1>2, OpTypes DEF Ops
<1> QED
  BY <1>1, <1>2, OpStep DEF Moves, Saves

LEMMA PageWaitsStep ==
  ASSUME TypeInv, Within, AnswersNamed, OpHolds, PageWaits, Fronted, EffectsKnown, [Next]_vars
  PROVE  PageWaits'
<1>k. "dispatch" \in Kinds
  BY DEF Kinds
<1>1. ASSUME op' # Idle PROVE request'[op'.page]["dispatch"].at = "running"
  <2>1. CASE \E p \in Pages : Begins(p)
    BY <2>1 DEF Begins
  <2>2. CASE op # Idle /\ op'.page = op.page
    <3>1. op.page \in Pages /\ request[op.page]["dispatch"].at = "running"
      BY <2>2, OpTypes DEF PageWaits
    <3> QED
      BY <1>1, <1>k, <2>2, <3>1, RequestStep DEF Idle, Sent, Answers
  <2> QED
    BY <1>1, <2>1, <2>2, SamePage
<1>2. ASSUME NEW p \in Pages, page'[p].at = "new" PROVE request'[p]["dispatch"] = Idle
  <2>1. page[p].at = "new" /\ request[p]["dispatch"] = Idle
    BY <1>2, RevisionsStep DEF PageWaits
  <2>2. ~Answers(p, "dispatch")
    <3>1. ~(op.page = p /\ op.at = "announced")
      BY <2>1, OpAt DEF PageWaits, Idle
    <3> QED
      BY <3>1 DEF Answers
  <2> QED
    BY <1>k, <2>1, <2>2, RequestStep DEF Idle, Sent
<1>3. ASSUME NEW p \in Pages, NEW k \in Kinds, page'[p].at = "gone" PROVE request'[p][k].at # "sent"
  <2>1. CASE page[p].at = "gone"
    <3>1. request[p][k].at # "sent" /\ ~Answers(p, k)
      BY <2>1 DEF PageWaits, Answers
    <3> QED
      BY <2>1, <3>1, RequestStep DEF Idle
  <2>2. CASE page[p].at # "gone"
    BY <1>3, <2>2, GoneStep
  <2> QED
    BY <2>1, <2>2
<1> QED
  BY <1>1, <1>2, <1>3 DEF PageWaits

\* Between the commit and the broadcast nobody gets the new revision.
LEMMA FrontedCommitted ==
  ASSUME TypeInv, Within, AnswersNamed, OpHolds, PageWaits, Fronted, EffectsKnown, [Next]_vars,
         op'.at = "committed"
  PROVE  /\ page'[op'.page].contextRevision < Len(own'[op'.page]) - 1
         /\ \A k \in Kinds : request'[op'.page][k].at = "answered" =>
              request'[op'.page][k].snapshot.contextRevision < Len(own'[op'.page]) - 1
<1>1. CASE op' = op /\ RecordsSame
  <2>1. op # Idle /\ op.page \in Pages /\ op.at = "committed" /\ Len(own'[op.page]) = Len(own[op.page])
    BY <1>1, OpAt, OpTypes DEF RecordsSame
  <2>2. page'[op.page].contextRevision < ContextRevision(op.page)
    <3>1. CASE Keeps(op.page)
      BY <2>1, <3>1 DEF Keeps, Fronted
    <3>2. CASE TakesWhole(op.page)
      <4>1. PICK s \in Snapshots : /\ page'[op.page] = Attached(s)
              /\ \E k \in Kinds : request[op.page][k].at = "answered" /\ request[op.page][k].snapshot = s
        BY <1>1, <3>2 DEF TakesWhole
      <4> QED
        BY <2>1, <4>1, AttachedType DEF Fronted
    <3>3. CASE TakesApps(op.page)
      BY <2>1, <3>3, PageType, PatchedType DEF TakesApps, Fronted
    <3>4. CASE Tries(op.page)
      BY <2>1, <3>4, PageType DEF Tries, Fronted, Held
    <3>5. CASE Leaves(op.page)
      <4>1. page'[op.page].contextRevision = 0
        BY <3>5 DEF Leaves, New
      <4>2. /\ page[op.page].contextRevision \in Nat /\ ContextRevision(op.page) \in Nat
            /\ page[op.page].contextRevision < ContextRevision(op.page)
        BY <2>1, PageType, RecordTypes DEF Fronted
      <4> QED
        BY <4>1, <4>2
    <3> QED
      BY <2>1, <3>1, <3>2, <3>3, <3>4, <3>5, PageStep
  <2>3. ASSUME NEW k \in Kinds, request'[op.page][k].at = "answered"
        PROVE  request'[op.page][k].snapshot.contextRevision < ContextRevision(op.page)
    <3>1. request'[op.page][k] = request[op.page][k]
      BY <1>1, <2>1, <2>3, RequestStep DEF Idle, Sent, Answers
    <3> QED
      BY <2>1, <2>3, <3>1 DEF Fronted
  <2> QED
    BY <1>1, <2>1, <2>2, <2>3 DEF ContextRevision
<1>2. CASE Commit /\ Saves
  <2>1. /\ op # Idle /\ op.page \in Pages /\ op \in Ops /\ op' = [op EXCEPT !.at = "committed"]
        /\ Len(own'[op.page]) = Len(own[op.page]) + 1
        /\ page' = page /\ request' = request
    BY <1>2, OpTypes DEF Saves, Commit
  <2>2. op'.page = op.page
    BY <2>1 DEF Ops
  <2>3. Len(own[op.page]) \in Nat
    BY <2>1, RecordTypes
  <2>4. \A n \in Nat : n + 1 \in DOMAIN own[op.page] => n <= Len(own[op.page]) - 1
    BY <2>1, RecordTypes DEF ContextRevision
  <2>5. page[op.page].contextRevision <= Len(own[op.page]) - 1 /\ page[op.page].contextRevision \in Nat
    BY <2>1, <2>4, PageType DEF Within
  <2>6. ASSUME NEW k \in Kinds, request[op.page][k].at = "answered"
        PROVE  /\ request[op.page][k].snapshot.contextRevision <= Len(own[op.page]) - 1
               /\ request[op.page][k].snapshot.contextRevision \in Nat
    <3>1. request[op.page][k].snapshot.contextRevision \in Nat
      <4>1. request[op.page][k] \in Replies
        BY <2>1 DEF TypeInv
      <4> QED
        BY <2>6, <4>1 DEF Replies, Idle, Sent, Snapshots
    <3> QED
      BY <2>1, <2>4, <2>6, <3>1 DEF AnswersNamed, Named
  <2>7. \A n \in Nat : n <= Len(own[op.page]) - 1 => n < Len(own'[op.page]) - 1
    BY <2>1, <2>3
  <2>8. page'[op'.page].contextRevision < Len(own'[op'.page]) - 1
    BY <2>1, <2>2, <2>5, <2>7
  <2>9. \A k \in Kinds : request'[op'.page][k].at = "answered" =>
          request'[op'.page][k].snapshot.contextRevision < Len(own'[op'.page]) - 1
    BY <2>1, <2>2, <2>6, <2>7
  <2> QED
    BY <2>8, <2>9
<1>3. ~(\E p \in Pages : Begins(p)) /\ op' # Idle
      /\ ~(\E x \in {"asked", "effected", "failing", "announced"} : Moves(x))
  BY OpTypes DEF Begins, Idle, Moves, Ops
<1> QED
  BY <1>1, <1>2, <1>3, OpStep

\* A page that waits for its dispatch is not one that attaches.
LEMMA StaysOpen ==
  ASSUME TypeInv, Within, AnswersNamed, OpHolds, PageWaits, Fronted, EffectsKnown, [Next]_vars,
         NEW p \in Pages, request[p]["dispatch"] # Idle, page'[p].at = "open"
  PROVE  /\ page[p].at = "open" /\ page'[p].contextRevision >= page[p].contextRevision
         /\ page'[p].contextRevision + 1 \in DOMAIN own[p]
<1>1. page[p].at # "new" /\ page[p].at \in {"new", "open", "gone"}
  BY PageType DEF PageWaits
<1> QED
  BY <1>1, RevisionsStep

\* After the broadcast the page of the dispatch has it.
LEMMA FrontedAnnounced ==
  ASSUME TypeInv, TypeInv', Within, AnswersNamed, OpHolds, PageWaits, Fronted, EffectsKnown,
         [Next]_vars, op'.at = "announced", page'[op'.page].at = "open"
  PROVE  page'[op'.page].contextRevision = Len(own'[op'.page]) - 1
<1>1. CASE op' = op /\ RecordsSame
  <2>1. op # Idle /\ op.page \in Pages /\ op.at = "announced" /\ own'[op.page] = own[op.page]
    BY <1>1, OpAt, OpTypes DEF RecordsSame
  <2>2. request[op.page]["dispatch"] # Idle
    BY <2>1 DEF PageWaits, Idle
  <2>3. /\ page[op.page].at = "open" /\ page'[op.page].contextRevision >= page[op.page].contextRevision
        /\ page'[op.page].contextRevision + 1 \in DOMAIN own[op.page]
    BY <1>1, <2>1, <2>2, StaysOpen
  <2>4. page'[op.page].contextRevision \in Nat
    BY <2>1 DEF TypeInv, Held
  <2>5. page[op.page].contextRevision = ContextRevision(op.page)
    BY <2>1, <2>3 DEF Fronted
  <2>6. page'[op.page].contextRevision <= ContextRevision(op.page) /\ ContextRevision(op.page) \in Nat
    BY <2>1, <2>3, <2>4, RecordTypes
  <2> QED
    BY <1>1, <2>1, <2>3, <2>4, <2>5, <2>6 DEF ContextRevision
<1>2. ASSUME NEW x \in {"asked", "effected", "failing", "announced"}, Moves(x)
      PROVE  page'[op'.page].contextRevision = Len(own'[op'.page]) - 1
  <2>1. op # Idle /\ op \in Ops /\ op' = [op EXCEPT !.at = x] /\ own' = own /\ op.page \in Pages
    BY <1>2, OpTypes DEF Moves, RecordsSame
  <2>2. x = "announced" /\ op'.page = op.page
    BY <2>1 DEF Ops
  <2>3. Broadcast /\ op.at = "committed"
    BY <1>2, <2>2 DEF Moves, Broadcast
  <2>4. request[op.page]["dispatch"] # Idle
    BY <2>1 DEF PageWaits, Idle
  <2>5. page[op.page].at = "open"
    BY <2>1, <2>2, <2>4, StaysOpen
  <2>6. page'[op.page] = Attached(Committed)
    BY <2>1, <2>3, <2>5, BroadcastTaken DEF Broadcast
  <2>7. page'[op.page].contextRevision = ContextRevision(op.page)
    BY <2>1, <2>6, CommittedType, AttachedType
  <2> QED
    BY <2>1, <2>2, <2>7 DEF ContextRevision
<1>3. op' # Idle /\ ~(\E p \in Pages : Begins(p)) /\ ~(Commit /\ Saves)
  BY OpTypes DEF Begins, Idle, Saves, Ops
<1> QED
  BY <1>1, <1>2, <1>3, OpStep

\* The answer to a dispatch is no newer than what its page shows.
LEMMA FrontedAnswered ==
  ASSUME TypeInv, TypeInv', Within, AnswersNamed, OpHolds, PageWaits, Fronted, EffectsKnown,
         [Next]_vars, NEW p \in Pages, request'[p]["dispatch"].at = "answered",
         page'[p].at = "open"
  PROVE  request'[p]["dispatch"].snapshot.contextRevision <= page'[p].contextRevision
<1>k. "dispatch" \in Kinds
  BY DEF Kinds
<1>1. CASE request'[p]["dispatch"] = request[p]["dispatch"]
  <2>1. request[p]["dispatch"] # Idle
    BY <1>1 DEF Idle
  <2>2. page[p].at = "open" /\ page'[p].contextRevision >= page[p].contextRevision
    BY <2>1, StaysOpen
  <2>3. request[p]["dispatch"].snapshot.contextRevision <= page[p].contextRevision
    BY <1>1, <2>2 DEF Fronted
  <2>4. /\ page[p].contextRevision \in Nat /\ page'[p].contextRevision \in Nat
        /\ request[p]["dispatch"].snapshot.contextRevision \in Nat
    <3>1. request[p]["dispatch"] \in Replies
      BY <1>k DEF TypeInv
    <3>2. request[p]["dispatch"].snapshot.contextRevision \in Nat
      BY <1>1, <3>1 DEF Replies, Idle, Sent, Snapshots
    <3>3. page[p] \in Held /\ page'[p] \in Held
      BY DEF TypeInv
    <3> QED
      BY <3>2, <3>3 DEF Held
  <2> QED
    BY <1>1, <2>2, <2>3, <2>4
<1>2. CASE Answers(p, "dispatch")
  <2>1. PICK s \in Snapshots : /\ request'[p]["dispatch"] = Answered(s) /\ page' = page
                               /\ op.at = "announced" /\ op.page = p
                               /\ s.contextRevision = ContextRevision(p)
    BY <1>2 DEF Answers
  <2>2. request'[p]["dispatch"].snapshot = s
    BY <2>1 DEF Answered
  <2>3. page[p].contextRevision = ContextRevision(p) /\ ContextRevision(p) \in Nat
    BY <2>1, RecordTypes DEF Fronted
  <2> QED
    BY <2>1, <2>2, <2>3
<1> QED
  BY <1>k, <1>1, <1>2, RequestStep DEF Idle, Sent

LEMMA FrontedStep ==
  ASSUME TypeInv, TypeInv', Within, AnswersNamed, OpHolds, PageWaits, Fronted, EffectsKnown,
         [Next]_vars
  PROVE  Fronted'
BY FrontedCommitted, FrontedAnnounced, FrontedAnswered DEF Fronted, ContextRevision

-----------------------------------------------------------------------------
(* The theorems.                                                            *)

LEMMA MirrorInit == Init => IInv
<1> SUFFICES ASSUME Init PROVE IInv
  OBVIOUS
<1>1. PICK S \in SUBSET Apps : past = <<S>>
  BY DEF Init
<1>2. /\ own = [p \in Pages |-> <<None>>] /\ op = Idle /\ adrift = {} /\ upsets = 0
      /\ request = [p \in Pages |-> [k \in Kinds |-> Idle]] /\ effects = [p \in Pages |-> {}]
      /\ page = [p \in Pages |-> IF p \in Fresh THEN New ELSE Attached(Snapshot(p))]
  BY DEF Init
<1>3. past \in Seq(SUBSET Apps) /\ past # <<>> /\ \A p \in Pages :
        own[p] \in Seq(Apps \cup {None}) /\ own[p] # <<>> /\ 1 \in DOMAIN own[p] /\ 1 \in DOMAIN past
  BY <1>1, <1>2
<1>4. \A p \in Pages : Snapshot(p) \in Snapshots /\ Named(Snapshot(p), past, own[p])
  <2> SUFFICES ASSUME NEW p \in Pages
               PROVE  Snapshot(p) \in Snapshots /\ Named(Snapshot(p), past, own[p])
    OBVIOUS
  <2>1. Len(past) = 1 /\ past[1] = S /\ Len(own[p]) = 1 /\ own[p][1] = None
    BY <1>1, <1>2
  <2>2. Composed(p) = Shown(S, None) /\ GlobalRevision = 0 /\ ContextRevision(p) = 0
    BY <2>1 DEF Composed, Installed, GlobalRevision, ContextRevision
  <2>3. /\ Shown(S, None) \in States /\ Shown(S, None).installed = S
        /\ Shown(S, None).active \in {None} /\ Shown(S, None).active \in S \cup {None}
    BY ShownType
  <2> QED
    BY <1>3, <2>1, <2>2, <2>3 DEF Snapshot, Snapshots, Named
<1>5. New \in Held /\ New.at = "new" /\ New.globalRevision = 0 /\ New.contextRevision = 0
  BY DEF New, NoState, Held, States
<1>6. \A p \in Pages : page[p] = New \/ page[p] = Attached(Snapshot(p))
  BY <1>2
<1>7. TypeInv
  <2>1. page \in [Pages -> Held]
    <3>1. \A p \in Pages : Attached(Snapshot(p)) \in Held
      BY <1>4, AttachedType
    <3> HIDE DEF New, Attached
    <3> QED
      BY <1>2, <1>5, <3>1
  <2>2. upsets \in 0..MaxUpsets
    BY <1>2, MirrorAssumption
  <2> QED
    BY <1>2, <1>3, <2>1, <2>2 DEF TypeInv, Replies
<1>8. Within
  <2>1. \A p \in Pages : /\ Attached(Snapshot(p)).globalRevision + 1 \in DOMAIN past
                         /\ Attached(Snapshot(p)).contextRevision + 1 \in DOMAIN own[p]
    BY <1>4, AttachedType DEF Named
  <2> QED
    BY <1>3, <1>5, <1>6, <2>1 DEF Within
<1>9. AnswersNamed /\ OpHolds /\ PageWaits /\ Fronted
  BY <1>2 DEF AnswersNamed, OpHolds, PageWaits, Fronted, Idle, Kinds
<1>10. EffectsKnown /\ Shows
  <2>1. \A p \in Pages : Named(Attached(Snapshot(p)), past, own[p])
    BY <1>4, AttachedNamed
  <2> QED
    BY <1>2, <1>5, <1>6, <2>1 DEF EffectsKnown, Shows
<1> QED
  BY <1>7, <1>8, <1>9, <1>10 DEF IInv

LEMMA MirrorStep == IInv /\ [Next]_vars => IInv'
<1> SUFFICES ASSUME IInv, [Next]_vars PROVE IInv'
  OBVIOUS
<1> USE DEF IInv
<1>1. TypeInv'
  BY TypeStep
<1>2. Within' /\ AnswersNamed' /\ PageWaits' /\ Shows'
  BY WithinStep, AnswersStep, PageWaitsStep, ShowsStep
<1>3. OpHolds' /\ Fronted' /\ EffectsKnown'
  BY <1>1, OpHoldsStep, FrontedStep, EffectsStep
<1> QED
  BY <1>1, <1>2, <1>3

\* The invariant from which the properties follow.
THEOREM MirrorInvariant == Spec => []IInv
BY MirrorInit, MirrorStep, PTL DEF Spec

\* The records of the kernel and what the pages hold keep their types.
THEOREM TypeCorrect == Spec => []TypeOK
<1>1. IInv => TypeOK
  BY DEF IInv, TypeInv, TypeOK, Ops, Held, Effects, Snapshots
<1> QED
  BY <1>1, MirrorInvariant, PTL

\* A page that is not at a transition shows the committed state that its revisions
\* name (acceptSnapshot and handleRuntimeMessage of KernelClient).
THEOREM ShownIsCommitted == Spec => []ShowsCommitted
<1>1. IInv => ShowsCommitted
  <2> SUFFICES ASSUME IInv, NEW p \in Pages, page[p].at = "open", ~Tentative(p), p \notin adrift
               PROVE  /\ page[p].globalRevision <= GlobalRevision
                      /\ page[p].contextRevision <= ContextRevision(p)
                      /\ Named(page[p], past, own[p])
    BY DEF ShowsCommitted, Named
  <2> USE DEF IInv
  <2>1. Named(page[p], past, own[p])
    BY DEF Shows, Tentative, Unsettled
  <2> QED
    BY <2>1, PageType, RecordTypes DEF Named
<1> QED
  BY <1>1, MirrorInvariant, PTL

\* The revisions that a page shows do not fall, whatever arrives in which order.
THEOREM NeverGoesBack == Spec => NeverBack
<1> DEFINE Forward == \A p \in Pages : page[p].at = "open" /\ page'[p].at = "open" =>
             /\ page'[p].globalRevision >= page[p].globalRevision
             /\ page'[p].contextRevision >= page[p].contextRevision
<1>1. IInv /\ [Next]_vars => [Forward]_vars
  BY RevisionsStep DEF IInv
<1> QED
  BY <1>1, MirrorInvariant, PTL DEF Spec, NeverBack

\* When dispatch() returns, its page shows the transition or a later one.
THEOREM AnswersAreShown == Spec => AnswerIsShown
<1> DEFINE Later == \A p \in Pages :
             request[p]["dispatch"].at = "answered" /\ request'[p]["dispatch"] = Idle
               /\ page'[p].at = "open"
             => page'[p].contextRevision >= request[p]["dispatch"].snapshot.contextRevision
<1>1. IInv /\ [Next]_vars => [Later]_vars
  <2> SUFFICES ASSUME IInv, [Next]_vars, NEW p \in Pages,
                      request[p]["dispatch"].at = "answered", page'[p].at = "open"
               PROVE  page'[p].contextRevision >= request[p]["dispatch"].snapshot.contextRevision
    OBVIOUS
  <2> USE DEF IInv
  <2>1. request[p]["dispatch"] # Idle /\ "dispatch" \in Kinds
    BY DEF Idle, Kinds
  <2>2. page[p].at = "open" /\ page'[p].contextRevision >= page[p].contextRevision
    BY <2>1, StaysOpen
  <2>3. request[p]["dispatch"].snapshot.contextRevision <= page[p].contextRevision
    BY <2>2 DEF Fronted
  <2>4. /\ page[p].contextRevision \in Nat
        /\ request[p]["dispatch"].snapshot.contextRevision \in Nat
    <3>1. request[p]["dispatch"] \in Replies
      BY <2>1 DEF TypeInv
    <3> QED
      BY <3>1, PageType DEF Replies, Idle, Sent, Snapshots
  <2>5. page'[p].contextRevision \in Nat
    <3>1. TypeInv'
      BY TypeStep
    <3> QED
      BY <3>1 DEF TypeInv, Held
  <2> QED
    BY <2>2, <2>3, <2>4, <2>5
<1> QED
  BY <1>1, MirrorInvariant, PTL DEF Spec, AnswerIsShown

-----------------------------------------------------------------------------
(* The remote host.                                                         *)

\* What the theorems are about: stop() and close() have one caller, and the window of
\* requests does not forget one.
OneStopper == \A c, d \in Stoppers : c = d
FitsHistory == IsFiniteSet(Requests) /\ Cardinality(Requests) <= HistoryLimit

Places == {"none", "register", "top", "poll", "read", "submit", "backoff", "ended"}
Loads == Commands \cup Results \cup {NoCommand, Nil}
Stages == {"none", "digest", "creating", "calling", "completed", "failed", "cancelled", "timed-out",
           "settled"}
Holdings == {"none", "creating", "open", "closed"}
Stops == [pc : {"idle", "loop", "task", "clear"}, kind : {"stop", "close", Nil},
          entry : Entries \cup {Nil}, promise : 0 .. MaxSessions]
Works == [req : Requests \cup {Nil}, executed : BOOLEAN, reason : Reasons \cup {Nil},
          told : BOOLEAN, lost : BOOLEAN]

RemoteTypes ==
  /\ desired \in BOOLEAN /\ closed \in BOOLEAN
  /\ controller \in 0 .. MaxSessions /\ promise \in 0 .. MaxSessions
  /\ loop \in [Sessions -> Places] /\ sent \in [Sessions -> Loads]
  /\ aborted \in [Sessions -> BOOLEAN]
  /\ ack \in Commands \cup {Nil}
  /\ active \in Entries \cup {Nil} /\ pending \in Results \cup {Nil}
  /\ seenCommands \in Seq(Commands) /\ seenRequests \in Seq(Requests)
  /\ terminals \in Seq(Results)
  /\ task \in [Sessions -> [Requests -> Stages]]
  /\ runtime \in [Sessions -> [Requests -> Holdings]]
  /\ begun \in [Sessions -> [Requests -> Nat]]
  /\ stop \in [Stoppers -> Stops]
  /\ relay \in Works
  /\ answers \subseteq Results
  /\ cancelled \subseteq [req : Requests, session : Sessions]
  /\ faults \in Nat

\* What a loop carries tells what it waits for.
Carries == \A s \in Sessions :
  /\ loop[s] = "submit" => sent[s] \in Results
  /\ loop[s] = "read" => sent[s] \in Commands \cup {NoCommand}

Live(s) == loop[s] \notin {"none", "ended"}

\* There is one session at a time, and a stop holds it until its loop has ended.
OneSession ==
  /\ \A s \in Sessions : Live(s) => promise = s
  /\ promise # 0 => promise \in Sessions /\ loop[promise] # "none"
  /\ desired => promise # 0
  /\ promise = 0 => active = Nil /\ pending = Nil /\ seenCommands = <<>> /\ terminals = <<>>
  /\ \A c \in Stoppers : stop[c] # NoStop =>
       /\ stop[c].pc # "idle" /\ ~desired /\ promise # 0 /\ stop[c].promise = promise
       /\ stop[c].pc # "loop" => loop[promise] = "ended"

\* What is begun was not begun before, and is remembered while its session lives.
Counted ==
  /\ \A i, j \in DOMAIN seenRequests : seenRequests[i] = seenRequests[j] => i = j
  /\ \A s \in Sessions, r \in Requests :
       /\ begun[s][r] <= 1
       /\ begun[s][r] = 0 => task[s][r] = "none" /\ runtime[s][r] = "none"
       /\ begun[s][r] > 0 => loop[s] # "none" /\ (Live(s) => Has(seenRequests, r))
  /\ active # Nil => active.session = promise /\ begun[active.session][active.req] > 0
  /\ \A x \in cancelled : begun[x.session][x.req] > 0

\* The results that somebody holds.
Remembers == {terminals[i] : i \in DOMAIN terminals}
Submitted == {sent[s] : s \in {x \in Sessions : loop[x] = "submit"}}
Known == answers \cup Remembers \cup ({pending} \ {Nil}) \cup Submitted

IsOwn(t) == active # Nil /\ t.req = active.req /\ t.session = active.session

\* A result is of an execution that has ended.  That of the active request waits to be
\* submitted, and a loop that polls meanwhile will submit no other.
Ended ==
  /\ \A t \in Known : task[t.session][t.req] = "settled"
  /\ \A t \in Known : IsOwn(t) =>
       pending # Nil /\ \A s \in Sessions : loop[s] \in {"poll", "read"} => pending = t

\* A cancel that was taken is recorded at the active request.
Taken ==
  /\ \A x \in cancelled : IsOwn(x) => active.reason # Nil
  /\ \A s \in Sessions, c \in Commands :
       Live(s) /\ c.kind = "cancel" /\ Has(seenCommands, c) => [req |-> c.req, session |-> s] \in cancelled
  /\ \A x \in cancelled, t \in Known :
       t.req = x.req /\ t.session = x.session => t.status \in {"cancelled", "timed-out"}

RemoteInv == RemoteTypes /\ Carries /\ OneSession /\ Counted /\ Ended /\ Taken /\ NoRuntimeLeft

-----------------------------------------------------------------------------
(* The windows.                                                             *)

LEMMA RenewedType ==
  ASSUME RemoteHostAssumption, NEW S, NEW w \in Seq(S), NEW x \in S
  PROVE  /\ Renewed(w, x) \in Seq(S)
         /\ \A y : Has(Renewed(w, x), y) => Has(w, y) \/ y = x
         /\ Has(Renewed(w, x), x)
<1> DEFINE v == Append(w, x)
<1>1. /\ v \in Seq(S) /\ Len(v) = Len(w) + 1 /\ v[Len(v)] = x
      /\ \A i \in DOMAIN v : v[i] \in {w[j] : j \in DOMAIN w} \cup {x}
  OBVIOUS
<1> HIDE DEF v
<1>2. CASE Len(v) > HistoryLimit
  <2>1. /\ Newest(v) = Tail(v) /\ v # <<>> /\ Len(v) \in Nat /\ Len(v) > 1
    BY <1>1, <1>2 DEF Newest, RemoteHostAssumption
  <2>2. /\ Tail(v) \in Seq(S) /\ Len(Tail(v)) = Len(v) - 1
        /\ \A i \in DOMAIN Tail(v) : i + 1 \in DOMAIN v /\ Tail(v)[i] = v[i + 1]
        /\ Len(v) - 1 \in DOMAIN Tail(v) /\ Tail(v)[Len(v) - 1] = v[Len(v)]
    BY <1>1, <2>1
  <2>3. Renewed(w, x) = Tail(v)
    BY <2>1 DEF Renewed, v
  <2>4. Has(Tail(v), x)
    BY <1>1, <2>2 DEF Has
  <2>5. \A y : Has(Tail(v), y) => Has(w, y) \/ y = x
    <3>1. \A y : Has(Tail(v), y) => \E i \in DOMAIN v : v[i] = y
      BY <2>2 DEF Has
    <3> QED
      BY <1>1, <3>1 DEF Has
  <2> QED
    BY <2>2, <2>3, <2>4, <2>5
<1>3. CASE ~(Len(v) > HistoryLimit)
  <2>1. Newest(v) = v /\ Len(v) \in DOMAIN v
    BY <1>1, <1>3 DEF Newest
  <2> QED
    BY <1>1, <2>1 DEF Renewed, Has, v
<1> QED
  BY <1>2, <1>3

LEMMA WithoutType ==
  ASSUME NEW S, NEW w \in Seq(S), NEW same \in SUBSET DOMAIN w
  PROVE  /\ Without(w, same) \in Seq(S)
         /\ \A y : Has(Without(w, same), y) => Has(w, y)
<1>1. CASE same = {}
  BY <1>1 DEF Without
<1>2. CASE same # {}
  <2>1. PICK i \in DOMAIN w : Without(w, same) = RemoveAt(w, i)
    BY <1>2 DEF Without
  <2>2. i \in 1 .. Len(w) /\ Len(w) \in Nat
    OBVIOUS
  <2>3. /\ SubSeq(w, 1, i - 1) \in Seq(S) /\ SubSeq(w, i + 1, Len(w)) \in Seq(S)
        /\ \A j \in DOMAIN SubSeq(w, 1, i - 1) : j \in DOMAIN w /\ SubSeq(w, 1, i - 1)[j] = w[j]
        /\ \A j \in DOMAIN SubSeq(w, i + 1, Len(w)) :
             j + i \in DOMAIN w /\ SubSeq(w, i + 1, Len(w))[j] = w[j + i]
    BY <2>2
  <2>4. ASSUME NEW a \in Seq(S), NEW b \in Seq(S)
        PROVE  /\ a \o b \in Seq(S)
               /\ \A j \in DOMAIN (a \o b) : \/ j \in DOMAIN a /\ (a \o b)[j] = a[j]
                                             \/ j - Len(a) \in DOMAIN b /\ (a \o b)[j] = b[j - Len(a)]
    OBVIOUS
  <2> QED
    BY <2>1, <2>3, <2>4 DEF RemoveAt, Has
<1> QED
  BY <1>1, <1>2

LEMMA RememberedType ==
  ASSUME RemoteHostAssumption, NEW w \in Seq(Results), NEW t \in Results
  PROVE  /\ Remembered(w, t) \in Seq(Results)
         /\ \A y : Has(Remembered(w, t), y) => Has(w, y) \/ y = t
<1> DEFINE same == {i \in DOMAIN w : w[i].req = t.req}
<1>1. Without(w, same) \in Seq(Results) /\ \A y : Has(Without(w, same), y) => Has(w, y)
  BY WithoutType
<1>2. ASSUME NEW v \in Seq(Results)
      PROVE  Renewed(v, t) \in Seq(Results) /\ \A y : Has(Renewed(v, t), y) => Has(v, y) \/ y = t
  BY RenewedType
<1>3. Remembered(w, t) = Renewed(Without(w, same), t)
  BY DEF Remembered
<1> QED
  BY <1>1, <1>2, <1>3

-----------------------------------------------------------------------------
(* Types.                                                                   *)

LEMMA EntryTypes ==
  ASSUME RemoteTypes, active # Nil
  PROVE  active \in Entries /\ active.session \in Sessions /\ active.req \in Requests
BY DEF RemoteTypes, Entries

LEMMA NestedExcept ==
  ASSUME NEW V, NEW f \in [Sessions -> [Requests -> V]], NEW s \in Sessions, NEW r \in Requests,
         NEW v \in V
  PROVE  /\ [f EXCEPT ![s][r] = v] \in [Sessions -> [Requests -> V]]
         /\ \A x \in Sessions, q \in Requests :
              [f EXCEPT ![s][r] = v][x][q] = IF x = s /\ q = r THEN v ELSE f[x][q]
OBVIOUS

LEMMA RemoteTypesInit ==
  ASSUME RemoteHostAssumption, RemoteInit
  PROVE  RemoteTypes
<1>1. desired \in BOOLEAN /\ closed \in BOOLEAN
  BY DEF RemoteInit
<1>7. controller \in 0 .. MaxSessions /\ promise \in 0 .. MaxSessions /\ faults \in Nat
  BY DEF RemoteHostAssumption, RemoteInit
<1>2. /\ loop \in [Sessions -> Places] /\ sent \in [Sessions -> Loads]
      /\ aborted \in [Sessions -> BOOLEAN]
      /\ ack \in Commands \cup {Nil} /\ active \in Entries \cup {Nil} /\ pending \in Results \cup {Nil}
  BY DEF RemoteInit, Places, Loads
<1>3. seenCommands \in Seq(Commands) /\ seenRequests \in Seq(Requests) /\ terminals \in Seq(Results)
  BY DEF RemoteInit
<1>4. /\ task \in [Sessions -> [Requests -> Stages]]
      /\ runtime \in [Sessions -> [Requests -> Holdings]]
      /\ begun \in [Sessions -> [Requests -> Nat]]
  BY DEF RemoteInit, Stages, Holdings
<1>5. stop \in [Stoppers -> Stops]
  <2>1. NoStop \in Stops
    BY DEF RemoteHostAssumption, NoStop, Stops
  <2> QED
    BY <2>1 DEF RemoteInit
<1>6. /\ relay \in Works /\ answers \subseteq Results
      /\ cancelled \subseteq [req : Requests, session : Sessions]
  BY DEF RemoteInit, Works, NoWork
<1> QED
  BY <1>1, <1>2, <1>3, <1>4, <1>5, <1>6, <1>7 DEF RemoteTypes

\* A step of the executor changes one execution, in what its stage and its runtime are.
OneExecution(s, r, t, h) ==
  /\ task' = [task EXCEPT ![s][r] = t] /\ t \in Stages
  /\ runtime' = [runtime EXCEPT ![s][r] = h] /\ h \in Holdings

LEMMA ExecutorMoves ==
  ASSUME RemoteTypes, NEW s \in Sessions, NEW r \in Requests,
         CheckDigest(s, r) \/ CreateRuntime(s, r) \/ Evaluate(s, r)
  PROVE  /\ UNCHANGED <<Idled, begun>>
         /\ task[s][r] # "none" \/ runtime[s][r] # "none"
         /\ \E t, h : /\ OneExecution(s, r, t, h)
                      /\ task[s][r] \notin Working => t = task[s][r]
                      /\ h = "open" => t \in Statuses \cup {"calling"}
<1> DEFINE t0 == task[s][r]
           h0 == runtime[s][r]
           Good(t, h) == /\ OneExecution(s, r, t, h)
                         /\ t0 \notin Working => t = t0
                         /\ h = "open" => t \in Statuses \cup {"calling"}
<1>1. /\ t0 \in Stages /\ h0 \in Holdings
      /\ task = [task EXCEPT ![s][r] = t0] /\ runtime = [runtime EXCEPT ![s][r] = h0]
  BY DEF RemoteTypes
<1>2. CASE CheckDigest(s, r)
  <2>1. t0 = "digest" /\ UNCHANGED <<Idled, begun>>
    BY <1>2 DEF CheckDigest
  <2>2. CASE Refuses(s, r)
    <3>1. Good("failed", h0)
      BY <1>1, <2>1, <2>2 DEF Refuses, OneExecution, Stages, Working, Statuses
    <3> QED
      BY <2>1, <3>1
  <2>3. CASE ~Refuses(s, r)
    <3>1. Good("creating", "creating")
      BY <1>2, <2>1, <2>3 DEF CheckDigest, OneExecution, Stages, Holdings, Working
    <3> QED
      BY <2>1, <3>1
  <2> QED
    BY <2>2, <2>3
<1>3. CASE CreateRuntime(s, r)
  <2> DEFINE t1 == IF t0 = "creating" THEN "calling" ELSE t0
             t2 == IF t0 = "creating" THEN "failed" ELSE t0
  <2>1. /\ h0 = "creating" /\ UNCHANGED <<Idled, begun>>
        /\ \/ task' = [task EXCEPT ![s][r] = t1] /\ runtime' = [runtime EXCEPT ![s][r] = Arrived(t0)]
           \/ task' = [task EXCEPT ![s][r] = t2] /\ runtime' = [runtime EXCEPT ![s][r] = "none"]
    BY <1>3 DEF CreateRuntime
  <2>2. /\ t1 \in Stages /\ t2 \in Stages /\ (t0 \notin Working => t1 = t0 /\ t2 = t0)
        /\ Arrived(t0) \in Holdings /\ (Arrived(t0) = "open" => t1 = "calling")
    BY <1>1 DEF Stages, Holdings, Working, Arrived
  <2>3. Good(t1, Arrived(t0)) \/ Good(t2, "none")
    <3> HIDE DEF t0, h0, t1, t2
    <3> QED
      BY <2>1, <2>2 DEF OneExecution, Holdings
  <2> QED
    BY <2>1, <2>3
<1>4. CASE Evaluate(s, r)
  <2>1. /\ UNCHANGED <<Idled, begun>> /\ UNCHANGED runtime /\ t0 \in Working
        /\ \E t \in Statuses : task' = [task EXCEPT ![s][r] = t]
    BY <1>4 DEF Evaluate, Outcomes, Statuses, Working
  <2>2. PICK t \in Statuses : task' = [task EXCEPT ![s][r] = t]
    BY <2>1
  <2>3. Good(t, h0)
    BY <1>1, <2>1, <2>2 DEF OneExecution, Stages, Statuses
  <2> QED
    BY <2>1, <2>3 DEF Working
<1> QED
  BY <1>2, <1>3, <1>4

LEMMA ExecutionType ==
  ASSUME RemoteTypes, NEW s \in Sessions, NEW r \in Requests, NEW t, NEW h, OneExecution(s, r, t, h)
  PROVE  /\ task' \in [Sessions -> [Requests -> Stages]]
         /\ runtime' \in [Sessions -> [Requests -> Holdings]]
         /\ \A x \in Sessions, q \in Requests :
              /\ task'[x][q] = IF x = s /\ q = r THEN t ELSE task[x][q]
              /\ runtime'[x][q] = IF x = s /\ q = r THEN h ELSE runtime[x][q]
BY NestedExcept DEF RemoteTypes, OneExecution

\* A step of a loop moves that loop only, and never to where it has not begun.
LoopMove(s, pc, v) ==
  /\ Live(s)
  /\ loop' = [loop EXCEPT ![s] = pc] /\ pc \in Places \ {"none"}
  /\ sent' = [sent EXCEPT ![s] = v] /\ v \in Loads
  /\ pc = "submit" => v = pending /\ pending # Nil
  /\ pc = "read" => v \in Commands \cup {NoCommand} /\ loop[s] = "poll"
  /\ pc = "poll" => pending = Nil
Steps(s) ==
  /\ \E pc, v : LoopMove(s, pc, v)
  /\ UNCHANGED <<closed, controller, promise, aborted, stop>>
  /\ desired' \in BOOLEAN /\ (desired' => desired)

\* Most change nothing of the work besides.
Waits(s) ==
  \/ Register(s) \/ Unanswered(s) \/ Refused(s) \/ Reconnect(s) \/ Send(s)
  \/ PollAnswered(s) \/ PollAnswerLost(s) \/ HandleIdle(s)
Work == <<active, pending, history, executor, answers, cancelled>>

LEMMA GoesMoves ==
  ASSUME RemoteTypes, NEW s \in Sessions, Live(s), NEW pc, Goes(s, pc),
         pc \in Places \ {"none", "submit", "read", "poll"}
  PROVE  \E p, v : LoopMove(s, p, v)
<1>1. LoopMove(s, pc, Nil)
  BY DEF LoopMove, Goes, Loads
<1> QED
  BY <1>1

LEMMA FaultMoves ==
  ASSUME RemoteTypes, NEW s \in Sessions, Live(s), Fault(s) \/ (Broken(s) /\ UNCHANGED desired)
  PROVE  (\E p, v : LoopMove(s, p, v)) /\ desired' \in BOOLEAN /\ (desired' => desired)
<1>1. Goes(s, "ended") \/ Goes(s, "backoff")
  BY DEF Fault, Broken
<1>2. \E p, v : LoopMove(s, p, v)
  BY <1>1, GoesMoves DEF Places
<1>3. desired \in BOOLEAN /\ aborted[s] \in BOOLEAN
  BY DEF RemoteTypes
<1>4. desired' \in BOOLEAN /\ (desired' => desired)
  BY <1>3 DEF Fault
<1> QED
  BY <1>2, <1>4

LEMMA OfferType ==
  ASSUME RemoteHostAssumption, NEW w \in Works
  PROVE  Offer(w) \in Commands \cup {NoCommand}
<1>1. \A r \in Requests :
         Execute(r) \in Commands /\ \A reason \in Reasons : Command("cancel", r, reason) \in Commands
  BY DEF Commands, Cancels
<1>2. /\ w.req # Nil => Execute(w.req) \in Commands
      /\ w.req # Nil /\ w.reason # Nil => Command("cancel", w.req, w.reason) \in Commands
  BY <1>1 DEF Works
<1> HIDE DEF Works
<1> QED
  BY <1>2 DEF Offer

LEMMA SeesAckType ==
  ASSUME NEW w \in Works, NEW a
  PROVE  SeesAck(w, a) \in Works
BY DEF SeesAck, Works

LEMMA WaitsMoves ==
  ASSUME RemoteHostAssumption, RemoteTypes, NEW s \in Sessions, Waits(s)
  PROVE  Steps(s) /\ UNCHANGED Work /\ relay' \in Works /\ ack' \in Commands \cup {Nil} /\ faults' \in Nat
<1>1. /\ desired \in BOOLEAN /\ relay \in Works /\ ack \in Commands \cup {Nil}
      /\ pending \in Results \cup {Nil} /\ faults \in Nat
      /\ \A v \in Commands \cup {NoCommand, Nil} \cup Results : v \in Loads
  BY DEF RemoteTypes, Loads
<1>2. UNCHANGED <<closed, controller, promise, aborted, stop, Work>>
  BY DEF Waits, Work, Register, Unanswered, Refused, Reconnect, Send, PollAnswered, PollAnswerLost,
         HandleIdle, TakesAck, Fault, lifecycle, history, executor, external
<1>3. Live(s)
  BY DEF Waits, Register, Unanswered, Refused, Reconnect, Send, PollAnswered, PollAnswerLost,
         HandleIdle, TakesAck, At, Live
<1>4. relay' \in Works
  <2>1. CASE Register(s)
    BY <1>1, <2>1 DEF Register, Works
  <2>2. CASE PollAnswered(s) \/ PollAnswerLost(s)
    BY <1>1, <2>2, SeesAckType DEF PollAnswered, PollAnswerLost, TakesAck
  <2> QED
    BY <1>1, <2>1, <2>2 DEF Waits, Unanswered, Refused, Reconnect, Send, HandleIdle, external
<1>7. ack' \in Commands \cup {Nil}
  BY <1>1 DEF Waits, Register, Unanswered, Refused, Reconnect, Send, PollAnswered,
         PollAnswerLost, HandleIdle
<1>5. faults' \in Nat
  BY <1>1 DEF Waits, Register, Unanswered, Refused, Reconnect, Send, PollAnswered,
         PollAnswerLost, HandleIdle, Lost, Fails
<1>6. (\E pc, v : LoopMove(s, pc, v)) /\ desired' \in BOOLEAN /\ (desired' => desired)
  <2>1. CASE Register(s)
    BY <1>1, <1>3, <2>1, GoesMoves DEF Register, lifecycle, Places
  <2>2. CASE Unanswered(s) \/ PollAnswerLost(s)
    BY <1>3, <2>2, FaultMoves DEF Unanswered, PollAnswerLost, lifecycle
  <2>3. CASE Refused(s)
    BY <1>3, <2>3, FaultMoves DEF Refused
  <2>4. CASE Reconnect(s)
    BY <1>1, <1>3, <2>4, GoesMoves DEF Reconnect, lifecycle, Places
  <2>5. CASE Send(s) /\ ~Runs(s)
    BY <1>1, <1>3, <2>5, GoesMoves DEF Send, lifecycle, Places
  <2>6. CASE Send(s) /\ Runs(s)
    <3>1. LoopMove(s, IF pending # Nil THEN "submit" ELSE "poll", IF pending # Nil THEN pending ELSE ack)
      BY <1>1, <1>3, <2>6 DEF Send, LoopMove, Places
    <3> QED
      BY <1>1, <2>6, <3>1 DEF Send, lifecycle
  <2>7. CASE PollAnswered(s)
    <3>1. Offer(SeesAck(relay, sent[s])) \in Commands \cup {NoCommand}
      BY <1>1, SeesAckType, OfferType
    <3>2. LoopMove(s, "read", Offer(SeesAck(relay, sent[s])))
      BY <1>1, <1>3, <2>7, <3>1 DEF PollAnswered, TakesAck, At, LoopMove, Places
    <3> QED
      BY <1>1, <2>7, <3>2 DEF PollAnswered, lifecycle
  <2>8. CASE HandleIdle(s) /\ controller = 0
    BY <1>3, <2>8, FaultMoves DEF HandleIdle, lifecycle
  <2>9. CASE HandleIdle(s) /\ controller # 0
    BY <1>1, <1>3, <2>9, GoesMoves DEF HandleIdle, lifecycle, Places
  <2> QED
    BY <2>1, <2>2, <2>3, <2>4, <2>5, <2>6, <2>7, <2>8, <2>9 DEF Waits
<1> QED
  BY <1>2, <1>4, <1>5, <1>6, <1>7 DEF Steps

\* An exchange that submits a result leaves it at the relay, whatever the client hears.
LEMMA SubmitMoves ==
  ASSUME RemoteHostAssumption, RemoteTypes, Carries, NEW s \in Sessions,
         SubmitAccepted(s) \/ SubmitAnswerLost(s)
  PROVE  /\ Steps(s) /\ loop[s] = "submit" /\ sent[s] \in Results
         /\ UNCHANGED <<history, executor, cancelled>>
         /\ answers' = answers \cup {sent[s]}
         /\ UNCHANGED <<active, pending>> \/ (active' = Nil /\ pending' = Nil)
         /\ loop'[s] \notin {"poll", "read", "submit"}
         /\ relay' \in Works /\ ack' \in Commands \cup {Nil} /\ faults' \in Nat
<1>1. /\ desired \in BOOLEAN /\ relay \in Works /\ ack \in Commands \cup {Nil} /\ faults \in Nat
      /\ loop \in [Sessions -> Places]
  BY DEF RemoteTypes
<1>2. loop[s] = "submit" /\ sent[s] \in Results /\ Live(s)
  BY DEF SubmitAccepted, SubmitAnswerLost, At, Live, Carries
<1>3. /\ UNCHANGED <<history, executor, cancelled, closed, controller, promise, aborted, stop>>
      /\ answers' = answers \cup {sent[s]}
      /\ UNCHANGED <<active, pending>> \/ (active' = Nil /\ pending' = Nil)
      /\ ack' \in Commands \cup {Nil}
  BY <1>1 DEF SubmitAccepted, SubmitAnswerLost, TakesResult, lifecycle
<1>4. relay' \in Works
  <2>1. NoWork(relay.lost) \in Works
    BY <1>1 DEF Works, NoWork
  <2> QED
    BY <1>1, <2>1 DEF SubmitAccepted, SubmitAnswerLost, TakesResult
<1>5. faults' \in Nat
  BY <1>1 DEF SubmitAccepted, SubmitAnswerLost, Lost, Fails
<1>6. (\E pc, v : LoopMove(s, pc, v)) /\ desired' \in BOOLEAN /\ (desired' => desired)
  <2>1. CASE Fault(s) \/ (Broken(s) /\ UNCHANGED desired)
    BY <1>2, <2>1, FaultMoves
  <2>2. CASE Goes(s, "top") /\ UNCHANGED desired
    BY <1>1, <1>2, <2>2, GoesMoves DEF Places
  <2> QED
    BY <2>1, <2>2 DEF SubmitAccepted, SubmitAnswerLost, lifecycle
<1>7. loop'[s] \notin {"poll", "read", "submit"}
  BY <1>1 DEF SubmitAccepted, SubmitAnswerLost, Fault, Broken, Goes
<1> QED
  BY <1>2, <1>3, <1>4, <1>5, <1>6, <1>7 DEF Steps

LEMMA MovesTypes ==
  ASSUME RemoteTypes, NEW s \in Sessions, Steps(s)
  PROVE  /\ loop' \in [Sessions -> Places] /\ sent' \in [Sessions -> Loads]
         /\ desired' \in BOOLEAN /\ closed' \in BOOLEAN /\ aborted' \in [Sessions -> BOOLEAN]
         /\ controller' \in 0 .. MaxSessions /\ promise' \in 0 .. MaxSessions
         /\ stop' \in [Stoppers -> Stops]
<1>1. desired' \in BOOLEAN /\ closed' \in BOOLEAN /\ aborted' \in [Sessions -> BOOLEAN]
  BY DEF RemoteTypes, Steps
<1>2. controller' \in 0 .. MaxSessions /\ promise' \in 0 .. MaxSessions /\ stop' \in [Stoppers -> Stops]
  BY DEF RemoteTypes, Steps
<1>3. loop' \in [Sessions -> Places] /\ sent' \in [Sessions -> Loads]
  BY DEF RemoteTypes, Steps, LoopMove
<1> QED
  BY <1>1, <1>2, <1>3

LEMMA WaitsTypes ==
  ASSUME RemoteHostAssumption, RemoteTypes, NEW s \in Sessions, Waits(s)
  PROVE  RemoteTypes'
<1>1. Steps(s) /\ UNCHANGED Work /\ relay' \in Works /\ ack' \in Commands \cup {Nil} /\ faults' \in Nat
  BY WaitsMoves
<1> QED
  BY <1>1, MovesTypes DEF RemoteTypes, Work, history, executor

LEMMA SubmitTypes ==
  ASSUME RemoteHostAssumption, RemoteTypes, Carries, NEW s \in Sessions,
         SubmitAccepted(s) \/ SubmitAnswerLost(s)
  PROVE  RemoteTypes'
BY SubmitMoves, MovesTypes DEF RemoteTypes, history, executor

LEMMA ExecutorTypes ==
  ASSUME RemoteTypes, NEW s \in Sessions, NEW r \in Requests,
         CheckDigest(s, r) \/ CreateRuntime(s, r) \/ Evaluate(s, r)
  PROVE  RemoteTypes'
<1>1. UNCHANGED <<Idled, begun>>
  BY ExecutorMoves
<1>2. task' \in [Sessions -> [Requests -> Stages]] /\ runtime' \in [Sessions -> [Requests -> Holdings]]
  BY ExecutorMoves, ExecutionType
<1> QED
  BY <1>1, <1>2 DEF RemoteTypes, Idled, lifecycle, history, external

-----------------------------------------------------------------------------
(* The commands.                                                            *)

LEMMA CommandTypes ==
  ASSUME NEW c \in Commands
  PROVE  /\ c.req \in Requests
         /\ c.kind = "execute" => c = Execute(c.req)
         /\ c.kind = "cancel" => c.reason \in Reasons /\ c \in Cancels(c.req)
         /\ c.kind # "idle"
BY DEF Commands, Cancels, Execute, Command

\* The window of commands gains at most the one that is handled.
LEMMA SeenType ==
  ASSUME RemoteHostAssumption, RemoteTypes, NEW c \in Commands, Seen(c)
  PROVE  /\ seenCommands' \in Seq(Commands)
         /\ \A y : Has(seenCommands', y) => Has(seenCommands, y) \/ y = c
<1>1. seenCommands \in Seq(Commands)
  BY DEF RemoteTypes
<1> QED
  BY <1>1, RenewedType DEF Seen

LEMMA SeenRequestType ==
  ASSUME RemoteHostAssumption, RemoteTypes, NEW r \in Requests, SeenRequest(r)
  PROVE  seenRequests' \in Seq(Requests)
<1>1. seenRequests \in Seq(Requests)
  BY DEF RemoteTypes
<1> QED
  BY <1>1, RenewedType DEF SeenRequest

\* Handling an execute command begins an execution, or changes only what is submitted next.
LEMMA ExecuteMoves ==
  ASSUME RemoteHostAssumption, RemoteTypes, Carries, NEW s \in Sessions, HandleExecute(s)
  PROVE  LET r == sent[s].req IN
         /\ Steps(s) /\ loop[s] = "read" /\ loop'[s] \notin {"poll", "read", "submit"}
         /\ sent[s] \in Commands /\ sent[s].kind = "execute" /\ r \in Requests
         /\ seenCommands' \in Seq(Commands) /\ seenRequests' \in Seq(Requests)
         /\ \A y : Has(seenCommands', y) => Has(seenCommands, y) \/ y = sent[s]
         /\ SeenRequest(r) /\ ack' \in Commands \cup {Nil}
         /\ UNCHANGED <<terminals, answers, cancelled, relay, faults>>
         /\ \/ /\ ~Has(seenRequests, r) /\ active = Nil /\ UNCHANGED pending
               /\ active' = [req |-> r, session |-> s, reason |-> Nil]
               /\ begun' = [begun EXCEPT ![s][r] = @ + 1]
               /\ \E t \in {"digest", "failed"} : OneExecution(s, r, t, runtime[s][r])
            \/ /\ UNCHANGED <<executor, active>>
               /\ UNCHANGED pending \/ pending' \in Remembers
<1> DEFINE c == sent[s]
           r == c.req
<1>1. /\ desired \in BOOLEAN /\ loop \in [Sessions -> Places]
      /\ task \in [Sessions -> [Requests -> Stages]] /\ runtime \in [Sessions -> [Requests -> Holdings]]
  BY DEF RemoteTypes
<1>2. /\ loop[s] = "read" /\ Live(s) /\ c.kind = "execute" /\ Seen(c) /\ SeenRequest(r)
      /\ UNCHANGED <<closed, controller, promise, aborted, terminals, stop, external, faults>>
  BY DEF HandleExecute, At, Live
<1>3. c \in Commands
  BY <1>2 DEF Carries, NoCommand, Command
<1>4. r \in Requests
  BY <1>3, CommandTypes
<1>5. /\ seenCommands' \in Seq(Commands) /\ seenRequests' \in Seq(Requests)
      /\ \A y : Has(seenCommands', y) => Has(seenCommands, y) \/ y = c
  BY <1>2, <1>3, <1>4, SeenType, SeenRequestType
<1>6. (Goes(s, "top") /\ UNCHANGED desired) \/ Fault(s)
  BY DEF HandleExecute
<1>7. Steps(s)
  <2>1. CASE Goes(s, "top") /\ UNCHANGED desired
    BY <1>1, <1>2, <2>1, GoesMoves DEF Places, Steps
  <2>2. CASE Fault(s)
    BY <1>2, <2>2, FaultMoves DEF Steps
  <2> QED
    BY <1>6, <2>1, <2>2
<1>8. loop'[s] \notin {"poll", "read", "submit"}
  BY <1>1, <1>6 DEF Fault, Goes
<1>9. ack' \in Commands \cup {Nil}
  BY <1>3 DEF HandleExecute
<1>10. \/ /\ ~Duplicate(r) /\ active = Nil /\ UNCHANGED pending
          /\ active' = [req |-> r, session |-> s, reason |-> Nil] /\ BeginExecution(s, r)
       \/ /\ UNCHANGED <<executor, active>>
          /\ UNCHANGED pending \/ (Retained(r) # {} /\ pending' = CHOOSE t \in Retained(r) : TRUE)
  BY DEF HandleExecute
<1>11. CASE BeginExecution(s, r) /\ ~Duplicate(r) /\ active = Nil /\ UNCHANGED pending
            /\ active' = [req |-> r, session |-> s, reason |-> Nil]
  <2>1. \E t \in {"digest", "failed"} : task' = [task EXCEPT ![s][r] = t]
    BY <1>11 DEF BeginExecution
  <2>2. runtime' = [runtime EXCEPT ![s][r] = runtime[s][r]] /\ runtime[s][r] \in Holdings
    BY <1>1, <1>4, <1>11 DEF BeginExecution
  <2>3. \E t \in {"digest", "failed"} : OneExecution(s, r, t, runtime[s][r])
    BY <2>1, <2>2 DEF OneExecution, Stages
  <2>4. begun' = [begun EXCEPT ![s][r] = @ + 1] /\ ~Has(seenRequests, r)
    BY <1>11 DEF BeginExecution, Duplicate
  <2> QED
    BY <1>2, <1>3, <1>4, <1>5, <1>7, <1>8, <1>9, <1>11, <2>3, <2>4 DEF external
<1>12. CASE /\ UNCHANGED <<executor, active>>
            /\ UNCHANGED pending \/ (Retained(r) # {} /\ pending' = CHOOSE t \in Retained(r) : TRUE)
  <2>1. UNCHANGED pending \/ pending' \in Remembers
    BY <1>12 DEF Retained, Remembers
  <2> QED
    BY <1>2, <1>3, <1>4, <1>5, <1>7, <1>8, <1>9, <1>12, <2>1 DEF external
<1> QED
  BY <1>10, <1>11, <1>12

LEMMA AbandonedType ==
  ASSUME NEW t \in Stages, NEW reason
  PROVE  /\ Abandoned(t, reason) \in Stages
         /\ t \notin Working => Abandoned(t, reason) = t
         /\ t \in Working => Abandoned(t, reason) \in Statuses
BY DEF Abandoned, Stages, Working, Statuses

\* A cancel abandons the active execution, if it runs.
Abandons(reason) ==
  /\ active # Nil /\ reason # Nil
  /\ active' = [active EXCEPT !.reason = reason] /\ active' \in Entries
  /\ \E t \in Stages :
       /\ OneExecution(active.session, active.req, t, runtime[active.session][active.req])
       /\ IF task[active.session][active.req] \in Working THEN t \in Statuses
          ELSE t = task[active.session][active.req]

LEMMA AbandonsActive ==
  ASSUME RemoteTypes, active # Nil, NEW reason \in Reasons \cup {"relay-closing"}, UNCHANGED runtime,
         active' = [active EXCEPT !.reason = reason],
         task' = [task EXCEPT ![active.session][active.req] = Abandoned(@, reason)]
  PROVE  Abandons(reason)
<1> DEFINE s == active.session
           r == active.req
           t == Abandoned(task[s][r], reason)
<1>1. /\ s \in Sessions /\ r \in Requests
      /\ task \in [Sessions -> [Requests -> Stages]] /\ runtime \in [Sessions -> [Requests -> Holdings]]
  BY EntryTypes DEF RemoteTypes
<1>2. task[s][r] \in Stages /\ runtime[s][r] \in Holdings
  BY <1>1
<1>3. /\ t \in Stages
      /\ IF task[s][r] \in Working THEN t \in Statuses ELSE t = task[s][r]
  BY <1>2, AbandonedType
<1>4. runtime' = [runtime EXCEPT ![s][r] = runtime[s][r]]
  BY <1>1
<1>5. OneExecution(s, r, t, runtime[s][r])
  BY <1>2, <1>3, <1>4 DEF OneExecution
<1>6. reason # Nil
  BY NilAssumption
<1>7. active' \in Entries
  BY EntryTypes DEF Entries
<1> QED
  BY <1>3, <1>5, <1>6, <1>7 DEF Abandons

LEMMA CancelMoves ==
  ASSUME RemoteHostAssumption, RemoteTypes, Carries, NEW s \in Sessions, HandleCancel(s)
  PROVE  LET c == sent[s] IN
         /\ Steps(s) /\ loop[s] = "read" /\ loop'[s] \notin {"poll", "read", "submit"}
         /\ c \in Commands /\ c.kind = "cancel" /\ c.req \in Requests
         /\ seenCommands' \in Seq(Commands)
         /\ \A y : Has(seenCommands', y) => Has(seenCommands, y) \/ y = c
         /\ ack' \in Commands \cup {Nil}
         /\ UNCHANGED <<pending, seenRequests, terminals, begun, relay, answers, faults>>
         /\ \/ loop'[s] = "ended" /\ UNCHANGED <<active, executor, cancelled>>
            \/ /\ MayCancel(c) /\ cancelled' = cancelled \cup {[req |-> c.req, session |-> s]}
               /\ \/ /\ UNCHANGED <<active, executor>>
                     /\ Has(seenCommands, c) \/ active.reason # Nil
                  \/ Abandons(c.reason)
<1> DEFINE c == sent[s]
<1>1. desired \in BOOLEAN /\ loop \in [Sessions -> Places]
  BY DEF RemoteTypes
<1>2. /\ loop[s] = "read" /\ Live(s) /\ c.kind = "cancel" /\ Seen(c)
      /\ UNCHANGED <<closed, controller, promise, aborted, pending, seenRequests, terminals, runtime,
                     begun, stop, relay, answers, faults>>
  BY DEF HandleCancel, At, Live
<1>3. c \in Commands
  BY <1>2 DEF Carries, NoCommand, Command
<1>4. c.req \in Requests /\ c.reason \in Reasons
  BY <1>2, <1>3, CommandTypes
<1>5. seenCommands' \in Seq(Commands) /\ \A y : Has(seenCommands', y) => Has(seenCommands, y) \/ y = c
  BY <1>2, <1>3, SeenType
<1>6. (Goes(s, "top") /\ UNCHANGED desired) \/ Fault(s)
  BY DEF HandleCancel
<1>7. Steps(s)
  <2>1. CASE Goes(s, "top") /\ UNCHANGED desired
    BY <1>1, <1>2, <2>1, GoesMoves DEF Places, Steps
  <2>2. CASE Fault(s)
    BY <1>2, <2>2, FaultMoves DEF Steps
  <2> QED
    BY <1>6, <2>1, <2>2
<1>8. loop'[s] \notin {"poll", "read", "submit"}
  BY <1>1, <1>6 DEF Fault, Goes
<1>9. ack' \in Commands \cup {Nil}
  BY <1>3 DEF HandleCancel
<1>10. CASE ~MayCancel(c)
  <2>1. loop'[s] = "ended" /\ UNCHANGED <<active, executor, cancelled>>
    BY <1>1, <1>10 DEF HandleCancel, Fault, Goes, executor
  <2> QED
    BY <1>2, <1>3, <1>4, <1>5, <1>7, <1>8, <1>9, <2>1
<1>11. CASE MayCancel(c)
  <2>1. cancelled' = cancelled \cup {[req |-> c.req, session |-> s]} /\ active # Nil
    BY <1>11 DEF HandleCancel, MayCancel
  <2>2. CASE Has(seenCommands, c) \/ active.reason # Nil
    <3>1. UNCHANGED <<active, executor>>
      BY <1>11, <2>2 DEF HandleCancel, executor
    <3> QED
      BY <1>2, <1>3, <1>4, <1>5, <1>7, <1>8, <1>9, <1>11, <2>1, <2>2, <3>1
  <2>3. CASE ~(Has(seenCommands, c) \/ active.reason # Nil)
    <3>1. /\ active' = [active EXCEPT !.reason = c.reason]
          /\ task' = [task EXCEPT ![active.session][active.req] = Abandoned(@, c.reason)]
      BY <1>11, <2>3 DEF HandleCancel
    <3>2. Abandons(c.reason)
      BY <1>2, <1>4, <2>1, <3>1, AbandonsActive
    <3> QED
      BY <1>2, <1>3, <1>4, <1>5, <1>7, <1>8, <1>9, <1>11, <2>1, <3>2
  <2> QED
    BY <2>2, <2>3
<1> QED
  BY <1>10, <1>11

-----------------------------------------------------------------------------
(* The end of an execution, start and stop.                                 *)

LEMMA SettleMoves ==
  ASSUME RemoteHostAssumption, RemoteTypes, NEW s \in Sessions, NEW r \in Requests, Settle(s, r)
  PROVE  /\ task[s][r] \in Statuses /\ OneExecution(s, r, "settled", Released(runtime[s][r]))
         /\ UNCHANGED <<loop, sent, ack, active, begun, stop, external, faults, closed, controller,
                        promise, seenCommands, seenRequests>>
         /\ desired' \in BOOLEAN /\ (desired' => desired) /\ aborted' \in [Sessions -> BOOLEAN]
         /\ \/ UNCHANGED <<pending, terminals>>
            \/ /\ OwnEntry(s, r) /\ pending' \in Results
               /\ pending'.req = r /\ pending'.session = s
               /\ active.reason # Nil => pending'.status \in {"cancelled", "timed-out"}
               /\ terminals' \in Seq(Results)
               /\ \A y : Has(terminals', y) => Has(terminals, y) \/ y = pending'
<1> DEFINE h == runtime[s][r]
           t == Result(r, s, Final(active, task[s][r]))
<1>1. /\ desired \in BOOLEAN /\ aborted \in [Sessions -> BOOLEAN]
      /\ runtime \in [Sessions -> [Requests -> Holdings]] /\ terminals \in Seq(Results)
      /\ task[s][r] \in Statuses
      /\ UNCHANGED <<loop, sent, ack, active, begun, stop, external, faults>>
  BY DEF RemoteTypes, Settle
<1>2. h \in Holdings /\ Released(h) \in Holdings
  BY <1>1 DEF Released, Holdings
<1>3. OneExecution(s, r, "settled", Released(h))
  BY <1>2 DEF Settle, OneExecution, Stages
<1>4. /\ t \in Results /\ t.req = r /\ t.session = s
      /\ active.reason # Nil => t.status \in {"cancelled", "timed-out"}
  BY <1>1 DEF Result, Results, Final, Statuses
<1>5. CASE ~OwnEntry(s, r)
  BY <1>1, <1>3, <1>5 DEF Settle, lifecycle, history
<1>6. CASE OwnEntry(s, r) /\ Retained(r) \subseteq {t}
  <2>1. /\ terminals' = Remembered(terminals, t) /\ pending' = t
        /\ UNCHANGED <<lifecycle, seenCommands, seenRequests>>
    BY <1>6 DEF Settle
  <2>2. /\ terminals' \in Seq(Results)
        /\ \A y : Has(terminals', y) => Has(terminals, y) \/ y = t
    BY <1>1, <1>4, <2>1, RememberedType
  <2> QED
    BY <1>1, <1>3, <1>4, <1>6, <2>1, <2>2 DEF lifecycle
<1>7. CASE OwnEntry(s, r) /\ ~(Retained(r) \subseteq {t})
  <2>1. /\ desired' = FALSE /\ aborted' = [x \in Sessions |-> aborted[x] \/ x = controller]
        /\ UNCHANGED <<closed, controller, promise, pending, history>>
    BY <1>7 DEF Settle
  <2>2. aborted' \in [Sessions -> BOOLEAN]
    BY <1>1, <2>1
  <2> QED
    BY <1>1, <1>3, <2>1, <2>2 DEF history
<1> QED
  BY <1>5, <1>6, <1>7

\* Whatever else ends executions ends those that run, and does it to no other.
Ages ==
  /\ task' \in [Sessions -> [Requests -> Stages]] /\ UNCHANGED <<runtime, begun>>
  /\ \A s \in Sessions, r \in Requests :
       task'[s][r] = task[s][r] \/ (task[s][r] \in Working /\ task'[s][r] \in Statuses)

LEMMA UnchangedAges ==
  ASSUME RemoteTypes, UNCHANGED executor
  PROVE  Ages
BY DEF RemoteTypes, Ages, executor

LEMMA EndsAges ==
  ASSUME RemoteTypes, NEW kind, Ends(kind), UNCHANGED <<runtime, begun>>
  PROVE  Ages /\ closed' \in BOOLEAN
<1>1. task \in [Sessions -> [Requests -> Stages]] /\ closed \in BOOLEAN
  BY DEF RemoteTypes
<1>2. CASE kind = "close"
  <2>1. task' = CloseExecutor(task) /\ closed' = TRUE
    BY <1>2 DEF Ends
  <2>2. \A s \in Sessions, r \in Requests :
          /\ task[s][r] \in Stages
          /\ task'[s][r] = Abandoned(task[s][r], "relay-closing")
    BY <1>1, <2>1 DEF CloseExecutor
  <2>3. \A s \in Sessions, r \in Requests :
          /\ task'[s][r] \in Stages
          /\ IF task[s][r] \in Working THEN task'[s][r] \in Statuses ELSE task'[s][r] = task[s][r]
    BY <2>2, AbandonedType
  <2>4. task' \in [Sessions -> [Requests -> Stages]]
    BY <2>1, <2>3 DEF CloseExecutor
  <2> QED
    BY <2>1, <2>3, <2>4 DEF Ages
<1>3. CASE kind # "close"
  BY <1>1, <1>3 DEF Ends, Ages
<1> QED
  BY <1>2, <1>3

LEMMA AbandonsAges ==
  ASSUME RemoteTypes, NEW reason, Abandons(reason), UNCHANGED begun
  PROVE  Ages
<1> DEFINE s == active.session
           r == active.req
<1>1. s \in Sessions /\ r \in Requests /\ runtime \in [Sessions -> [Requests -> Holdings]]
  BY EntryTypes DEF Abandons, RemoteTypes
<1>2. PICK t \in Stages : /\ OneExecution(s, r, t, runtime[s][r])
                          /\ IF task[s][r] \in Working THEN t \in Statuses ELSE t = task[s][r]
  BY DEF Abandons
<1>3. /\ task' \in [Sessions -> [Requests -> Stages]]
      /\ \A x \in Sessions, q \in Requests : task'[x][q] = IF x = s /\ q = r THEN t ELSE task[x][q]
  BY <1>1, <1>2, ExecutionType
<1>4. UNCHANGED runtime
  BY <1>1, <1>2 DEF OneExecution
<1> QED
  BY <1>2, <1>3, <1>4 DEF Ages

LEMMA StopTypes ==
  ASSUME RemoteHostAssumption, RemoteTypes, NEW c \in Stoppers, NEW kind \in {"stop", "close"},
         StopStopped(c, kind) \/ StopBegins(c, kind) \/ StopSawLoopEnd(c) \/ StopClears(c)
  PROVE  RemoteTypes' /\ Ages
<1>1. stop[c] \in Stops /\ stop \in [Stoppers -> Stops]
  BY DEF RemoteTypes
<1>2. CASE StopStopped(c, kind)
  <2>1. Ages /\ closed' \in BOOLEAN
    BY <1>2, EndsAges DEF StopStopped
  <2> QED
    BY <1>2, <2>1 DEF StopStopped, RemoteTypes, Ages, history, external
<1>3. CASE StopBegins(c, kind)
  <2>1. [pc |-> "loop", kind |-> kind, entry |-> active, promise |-> promise] \in Stops
    BY DEF RemoteTypes, Stops
  <2>2. stop' \in [Stoppers -> Stops]
    BY <1>1, <1>3, <2>1 DEF StopBegins
  <2>3. aborted' \in [Sessions -> BOOLEAN]
    BY <1>3 DEF StopBegins, RemoteTypes
  <2>4. Ages /\ active' \in Entries \cup {Nil}
    <3>1. CASE active = Nil \/ active.reason # Nil
      BY <1>3, <3>1, UnchangedAges DEF StopBegins, AbortActive, executor, RemoteTypes
    <3>2. CASE ~(active = Nil \/ active.reason # Nil)
      BY <1>3, <3>2, AbandonsActive, AbandonsAges DEF StopBegins, AbortActive, Abandons
    <3> QED
      BY <3>1, <3>2
  <2>5. /\ desired' = FALSE
        /\ UNCHANGED <<closed, controller, promise, loop, sent, ack, pending, history, runtime,
                       begun, external, faults>>
    BY <1>3 DEF StopBegins
  <2> QED
    BY <2>2, <2>3, <2>4, <2>5 DEF RemoteTypes, Ages, history, external
<1>4. CASE StopSawLoopEnd(c)
  <2>1. stop' \in [Stoppers -> Stops]
    BY <1>1, <1>4 DEF StopSawLoopEnd, Stops
  <2>2. Ages
    BY <1>4, UnchangedAges DEF StopSawLoopEnd
  <2> QED
    BY <1>4, <2>1, <2>2 DEF StopSawLoopEnd, RemoteTypes, lifecycle, history, executor, external
<1>5. CASE StopClears(c)
  <2>1. Ages /\ closed' \in BOOLEAN
    BY <1>5, EndsAges DEF StopClears
  <2>2. stop' \in [Stoppers -> Stops]
    <3>1. NoStop \in Stops
      BY DEF RemoteHostAssumption, NoStop, Stops
    <3> QED
      BY <1>1, <1>5, <3>1 DEF StopClears
  <2>3. controller' \in 0 .. MaxSessions /\ promise' \in 0 .. MaxSessions
    BY <1>5 DEF StopClears, RemoteHostAssumption
  <2>4. /\ ack' = Nil /\ active' = Nil /\ pending' = Nil
        /\ seenCommands' = <<>> /\ seenRequests' = <<>> /\ terminals' = <<>>
        /\ UNCHANGED <<desired, aborted, loop, sent, external, faults>>
    BY <1>5 DEF StopClears
  <2>5. seenCommands' \in Seq(Commands) /\ seenRequests' \in Seq(Requests) /\ terminals' \in Seq(Results)
    BY <2>4
  <2> QED
    BY <2>1, <2>2, <2>3, <2>4, <2>5 DEF RemoteTypes, Ages, external
<1> QED
  BY <1>2, <1>3, <1>4, <1>5

LEMMA StartTypes ==
  ASSUME RemoteHostAssumption, RemoteTypes, NEW s \in Sessions, Start(s)
  PROVE  RemoteTypes'
<1>1. desired' = TRUE /\ controller' = s /\ promise' = s /\ s \in 0 .. MaxSessions
  BY DEF Start, Sessions, RemoteHostAssumption
<1>2. loop' \in [Sessions -> Places]
  BY DEF RemoteTypes, Start, Places
<1> QED
  BY <1>1, <1>2 DEF Start, RemoteTypes, history, executor, external

LEMMA RelayTypes ==
  ASSUME RemoteHostAssumption, RemoteTypes, RelayStep
  PROVE  RemoteTypes' /\ UNCHANGED <<lifecycle, loop, sent, Work, stop>>
<1>1. relay \in Works /\ faults \in Nat
  BY DEF RemoteTypes
<1>2. relay' \in Works
  <2>1. ASSUME NEW q \in Requests, AskFor(q) PROVE relay' \in Works
    BY <1>1, <2>1 DEF AskFor, Works
  <2>2. ASSUME NEW reason \in Reasons, WantCancelled(reason) PROVE relay' \in Works
    BY <1>1, <2>2 DEF WantCancelled, Works
  <2>3. ASSUME RelayRestarts PROVE relay' \in Works
    BY <2>3 DEF RelayRestarts, Works, NoWork
  <2> QED
    BY <2>1, <2>2, <2>3 DEF RelayStep
<1>3. UNCHANGED <<lifecycle, loop, sent, ack, Work, stop>> /\ faults' \in Nat
  <2>1. UNCHANGED Client \/ RelayRestarts
    BY DEF RelayStep, AskFor, WantCancelled
  <2>2. UNCHANGED <<answers, cancelled>>
    BY DEF RelayStep, AskFor, WantCancelled, RelayRestarts
  <2>3. faults' \in Nat
    <3>1. UNCHANGED faults \/ faults' = faults + 1
      BY <2>1 DEF RelayRestarts, Client, Fails
    <3> QED
      BY <1>1, <3>1
  <2>4. UNCHANGED <<lifecycle, loop, sent, ack, active, pending, history, executor, stop>>
    BY <2>1 DEF RelayRestarts, Client
  <2> QED
    BY <2>2, <2>3, <2>4 DEF Work
<1> QED
  BY <1>2, <1>3 DEF RemoteTypes, Work, lifecycle, history, executor

LEMMA RemoteTypesNext ==
  ASSUME RemoteHostAssumption, RemoteTypes, Carries, [RemoteNext]_remoteVars
  PROVE  RemoteTypes'
<1>1. CASE ExecutorStep
  <2>1. PICK s \in Sessions, r \in Requests :
          (CheckDigest(s, r) \/ CreateRuntime(s, r) \/ Evaluate(s, r)) \/ Settle(s, r)
    BY <1>1 DEF ExecutorStep
  <2>2. CASE Settle(s, r)
    <3>1. task' \in [Sessions -> [Requests -> Stages]] /\ runtime' \in [Sessions -> [Requests -> Holdings]]
      BY <2>2, SettleMoves, ExecutionType
    <3>2. desired' \in BOOLEAN /\ aborted' \in [Sessions -> BOOLEAN]
      BY <2>2, SettleMoves
    <3>3. UNCHANGED <<loop, sent, ack, active, begun, stop, external, faults, closed, controller,
                      promise, seenCommands, seenRequests>>
      BY <2>2, SettleMoves
    <3>4. pending' \in Results \cup {Nil} /\ terminals' \in Seq(Results)
      BY <2>2, SettleMoves DEF RemoteTypes
    <3> QED
      BY <3>1, <3>2, <3>3, <3>4 DEF RemoteTypes, external
  <2> QED
    BY <2>1, <2>2, ExecutorTypes
<1>2. CASE LoopStep
  <2>1. PICK s \in Sessions :
          \/ Waits(s) \/ SubmitAccepted(s) \/ SubmitAnswerLost(s) \/ HandleExecute(s) \/ HandleCancel(s)
    BY <1>2 DEF LoopStep, Waits
  <2>2. CASE HandleExecute(s)
    <3>1. /\ Steps(s) /\ sent[s] \in Commands /\ sent[s].req \in Requests
          /\ seenCommands' \in Seq(Commands) /\ seenRequests' \in Seq(Requests)
          /\ ack' \in Commands \cup {Nil}
          /\ UNCHANGED <<terminals, answers, cancelled, relay, faults>>
      BY <2>2, ExecuteMoves
    <3>2. /\ task' \in [Sessions -> [Requests -> Stages]]
          /\ runtime' \in [Sessions -> [Requests -> Holdings]]
          /\ begun' \in [Sessions -> [Requests -> Nat]]
          /\ active' \in Entries \cup {Nil} /\ pending' \in Results \cup {Nil}
      <4>1. CASE /\ active' = [req |-> sent[s].req, session |-> s, reason |-> Nil] /\ UNCHANGED pending
                 /\ begun' = [begun EXCEPT ![s][sent[s].req] = @ + 1]
                 /\ \E t \in {"digest", "failed"} :
                      OneExecution(s, sent[s].req, t, runtime[s][sent[s].req])
        <5>1. begun' \in [Sessions -> [Requests -> Nat]]
          BY <3>1, <4>1 DEF RemoteTypes
        <5>2. active' \in Entries /\ pending' \in Results \cup {Nil}
          BY <3>1, <4>1 DEF Entries, RemoteTypes
        <5> QED
          BY <3>1, <4>1, <5>1, <5>2, ExecutionType
      <4>2. CASE UNCHANGED <<executor, active>> /\ (UNCHANGED pending \/ pending' \in Remembers)
        BY <4>2 DEF RemoteTypes, executor, Remembers
      <4> QED
        BY <2>2, <4>1, <4>2, ExecuteMoves
    <3> QED
      BY <3>1, <3>2, MovesTypes DEF RemoteTypes
  <2>3. CASE HandleCancel(s)
    <3>1. /\ Steps(s) /\ sent[s] \in Commands /\ sent[s].req \in Requests
          /\ seenCommands' \in Seq(Commands) /\ ack' \in Commands \cup {Nil}
          /\ UNCHANGED <<pending, seenRequests, terminals, begun, relay, answers, faults>>
      BY <2>3, CancelMoves
    <3>2. /\ task' \in [Sessions -> [Requests -> Stages]]
          /\ runtime' \in [Sessions -> [Requests -> Holdings]]
          /\ active' \in Entries \cup {Nil}
          /\ cancelled' \subseteq [req : Requests, session : Sessions]
      <4>1. Ages /\ active' \in Entries \cup {Nil}
        BY <2>3, CancelMoves, UnchangedAges, AbandonsAges DEF RemoteTypes, Abandons
      <4>2. cancelled' \subseteq [req : Requests, session : Sessions]
        <5>1. cancelled' = cancelled \/ cancelled' = cancelled \cup {[req |-> sent[s].req, session |-> s]}
          BY <2>3, CancelMoves
        <5> QED
          BY <3>1, <5>1 DEF RemoteTypes
      <4> QED
        BY <4>1, <4>2 DEF Ages, RemoteTypes
    <3> QED
      BY <3>1, <3>2, MovesTypes DEF RemoteTypes
  <2> QED
    BY <2>1, <2>2, <2>3, WaitsTypes, SubmitTypes
<1>3. CASE StopStep
  <2>1. PICK c \in Stoppers, kind \in {"stop", "close"} :
          StopStopped(c, kind) \/ StopBegins(c, kind) \/ StopSawLoopEnd(c) \/ StopClears(c)
    BY <1>3 DEF StopStep
  <2> QED
    BY <2>1, StopTypes
<1>4. CASE RelayStep
  BY <1>4, RelayTypes
<1>5. CASE \E s \in Sessions : Start(s)
  BY <1>5, StartTypes
<1>6. CASE UNCHANGED remoteVars
  BY <1>6 DEF remoteVars, RemoteTypes, lifecycle, history, executor, external
<1> QED
  BY <1>1, <1>2, <1>3, <1>4, <1>5, <1>6 DEF RemoteNext

-----------------------------------------------------------------------------
(* One session at a time.                                                   *)

LEMMA LoopStepMoves ==
  ASSUME RemoteHostAssumption, RemoteTypes, Carries, LoopStep
  PROVE  \E s \in Sessions : Steps(s)
<1>1. PICK s \in Sessions :
        \/ Waits(s) \/ SubmitAccepted(s) \/ SubmitAnswerLost(s) \/ HandleExecute(s) \/ HandleCancel(s)
  BY DEF LoopStep, Waits
<1> QED
  BY <1>1, WaitsMoves, SubmitMoves, ExecuteMoves, CancelMoves

LEMMA MovesLoops ==
  ASSUME RemoteTypes, NEW s \in Sessions, Steps(s)
  PROVE  /\ Live(s) /\ loop'[s] # "none"
         /\ \A x \in Sessions : x # s => loop'[x] = loop[x] /\ sent'[x] = sent[x]
         /\ loop'[s] = "submit" => sent'[s] = pending /\ pending # Nil
         /\ loop'[s] = "read" => sent'[s] \in Commands \cup {NoCommand} /\ loop[s] = "poll"
         /\ loop'[s] = "poll" => pending = Nil
BY DEF RemoteTypes, Steps, LoopMove

\* The other steps leave the loops alone.
LEMMA OtherLoops ==
  ASSUME RemoteHostAssumption, RemoteTypes, ExecutorStep \/ StopStep \/ RelayStep \/ UNCHANGED remoteVars
  PROVE  UNCHANGED <<loop, sent>>
<1>1. CASE ExecutorStep
  BY <1>1, ExecutorMoves, SettleMoves DEF ExecutorStep, Idled
<1>2. CASE StopStep
  BY <1>2 DEF StopStep, StopStopped, StopBegins, StopSawLoopEnd, StopClears
<1>3. CASE RelayStep
  BY <1>3, RelayTypes
<1>4. CASE UNCHANGED remoteVars
  BY <1>4 DEF remoteVars
<1> QED
  BY <1>1, <1>2, <1>3, <1>4

LEMMA CarriesNext ==
  ASSUME RemoteHostAssumption, RemoteTypes, Carries, [RemoteNext]_remoteVars
  PROVE  Carries'
<1>1. CASE LoopStep
  <2>1. PICK s \in Sessions : Steps(s)
    BY <1>1, LoopStepMoves
  <2>2. pending \in Results \cup {Nil}
    BY DEF RemoteTypes
  <2> QED
    BY <2>1, <2>2, MovesLoops DEF Carries
<1>2. CASE \E s \in Sessions : Start(s)
  BY <1>2 DEF Start, Carries, RemoteTypes
<1>3. CASE ExecutorStep \/ StopStep \/ RelayStep \/ UNCHANGED remoteVars
  BY <1>3, OtherLoops DEF Carries
<1> QED
  BY <1>1, <1>2, <1>3 DEF RemoteNext

LEMMA OneSessionNext ==
  ASSUME RemoteHostAssumption, OneStopper, RemoteTypes, Carries, OneSession, [RemoteNext]_remoteVars
  PROVE  OneSession'
<1>1. /\ \A s \in Sessions : s # 0
      /\ \A c \in Stoppers : stop[c].pc # "idle" => stop[c] # NoStop
      /\ loop \in [Sessions -> Places] /\ stop \in [Stoppers -> Stops]
  BY DEF Sessions, NoStop, RemoteTypes
<1>2. CASE LoopStep
  <2>1. PICK s \in Sessions : Steps(s)
    BY <1>2, LoopStepMoves
  <2>2. /\ Live(s) /\ loop'[s] # "none" /\ promise = s /\ promise # 0
        /\ \A x \in Sessions : x # s => loop'[x] = loop[x]
    BY <1>1, <2>1, MovesLoops DEF OneSession
  <2>3. UNCHANGED <<promise, stop>> /\ (desired' => desired)
    BY <2>1 DEF Steps
  <2>4. \A c \in Stoppers : stop[c] # NoStop => stop[c].pc = "loop"
    BY <2>2 DEF OneSession, Live
  <2> QED
    BY <2>2, <2>3, <2>4 DEF OneSession, Live
<1>3. CASE ExecutorStep
  <2>1. PICK s \in Sessions, r \in Requests :
          (CheckDigest(s, r) \/ CreateRuntime(s, r) \/ Evaluate(s, r)) \/ Settle(s, r)
    BY <1>3 DEF ExecutorStep
  <2>2. /\ UNCHANGED <<loop, promise, stop, active, seenCommands>> /\ (desired' => desired)
        /\ active = Nil => UNCHANGED <<pending, terminals>>
    BY <2>1, ExecutorMoves, SettleMoves DEF Idled, lifecycle, history, OwnEntry
  <2> QED
    BY <2>2 DEF OneSession, Live
<1>4. CASE StopStep
  <2>1. PICK c \in Stoppers, kind \in {"stop", "close"} :
          StopStopped(c, kind) \/ StopBegins(c, kind) \/ StopSawLoopEnd(c) \/ StopClears(c)
    BY <1>4 DEF StopStep
  <2>2. CASE StopStopped(c, kind)
    BY <2>2 DEF StopStopped, OneSession, history, Live
  <2>3. CASE StopBegins(c, kind)
    <3>1. /\ desired' = FALSE /\ UNCHANGED <<promise, loop, pending, seenCommands, terminals>>
          /\ stop' = [stop EXCEPT ![c] = [pc |-> "loop", kind |-> kind, entry |-> active,
                                          promise |-> promise]]
      BY <2>3 DEF StopBegins, history
    <3>2. promise # 0
      BY <2>3 DEF StopBegins, OneSession
    <3> QED
      BY <1>1, <3>1, <3>2 DEF OneSession, Live
  <2>4. CASE StopSawLoopEnd(c)
    <3>1. /\ stop[c].pc = "loop" /\ stop[c] # NoStop /\ stop[c].promise = promise /\ promise # 0
          /\ loop[promise] = "ended"
          /\ UNCHANGED <<desired, promise, loop, active, pending, seenCommands, terminals>>
      BY <1>1, <2>4 DEF StopSawLoopEnd, OneSession, lifecycle, history
    <3>2. /\ stop'[c].pc # "idle" /\ stop'[c].promise = promise
          /\ \A d \in Stoppers : d # c => stop'[d] = stop[d]
      <4> DEFINE v == IF stop[c].entry = Nil THEN "clear" ELSE "task"
      <4>1. stop' = [stop EXCEPT ![c] = [stop[c] EXCEPT !.pc = v]] /\ v # "idle"
        BY <1>1, <2>4 DEF StopSawLoopEnd
      <4>2. stop[c] \in Stops
        BY <1>1
      <4>3. [stop[c] EXCEPT !.pc = v].pc = v /\ [stop[c] EXCEPT !.pc = v].promise = stop[c].promise
        BY <4>2 DEF Stops
      <4> HIDE DEF v
      <4> QED
        BY <1>1, <3>1, <4>1, <4>3
    <3>3. ~desired
      BY <3>1 DEF OneSession
    <3> QED
      BY <3>1, <3>2, <3>3 DEF OneSession, Live
  <2>5. CASE StopClears(c)
    <3>1. stop[c].pc # "idle" /\ stop[c].pc # "loop" /\ stop[c] # NoStop
      BY <1>1, <2>5 DEF StopClears
    <3>2. ~desired /\ promise # 0 /\ loop[promise] = "ended"
      BY <3>1 DEF OneSession
    <3>3. \A s \in Sessions : ~Live(s)
      BY <3>2 DEF OneSession, Live
    <3>4. /\ UNCHANGED <<desired, loop>> /\ promise' = 0 /\ active' = Nil /\ pending' = Nil
          /\ seenCommands' = <<>> /\ terminals' = <<>>
      BY <2>5 DEF StopClears
    <3>5. \A d \in Stoppers : stop'[d] = NoStop
      BY <1>1, <2>5 DEF StopClears, OneStopper
    <3> QED
      BY <3>2, <3>3, <3>4, <3>5 DEF OneSession, Live
  <2> QED
    BY <2>1, <2>2, <2>3, <2>4, <2>5
<1>5. CASE RelayStep
  BY <1>5, RelayTypes DEF OneSession, lifecycle, Work, history, Live
<1>6. CASE \E s \in Sessions : Start(s)
  <2>1. PICK s \in Sessions : Start(s)
    BY <1>6
  <2>2. /\ promise = 0 /\ promise' = s /\ s # 0 /\ UNCHANGED stop
        /\ loop'[s] = "register" /\ \A x \in Sessions : x # s => loop'[x] = loop[x]
    BY <1>1, <2>1 DEF Start
  <2>3. /\ \A x \in Sessions : ~Live(x)
        /\ \A c \in Stoppers : stop[c] = NoStop
    BY <1>1, <2>2 DEF OneSession
  <2> QED
    BY <2>2, <2>3 DEF OneSession, Live
<1>7. CASE UNCHANGED remoteVars
  BY <1>7 DEF remoteVars, OneSession, lifecycle, history, Live
<1> QED
  BY <1>2, <1>3, <1>4, <1>5, <1>6, <1>7 DEF RemoteNext

-----------------------------------------------------------------------------
(* Each request is begun once.                                              *)

\* A window that has room for every request forgets none.
LEMMA RoomForAll ==
  ASSUME RemoteHostAssumption, FitsHistory, NEW w \in Seq(Requests), NEW r \in Requests, ~Has(w, r),
         \A i, j \in DOMAIN w : w[i] = w[j] => i = j
  PROVE  LET v == Renewed(w, r) IN
         /\ \A i, j \in DOMAIN v : v[i] = v[j] => i = j
         /\ \A y : Has(w, y) \/ y = r => Has(v, y)
<1> DEFINE v == Append(w, r)
<1>1. /\ v \in [1 .. Len(v) -> Requests] /\ Len(v) = Len(w) + 1 /\ Len(w) \in Nat
      /\ DOMAIN v = 1 .. Len(v) /\ DOMAIN w = 1 .. Len(w)
      /\ \A i \in DOMAIN w : v[i] = w[i]
      /\ v[Len(v)] = r
  <2>1. v \in Seq(Requests) /\ Len(v) = Len(w) + 1 /\ Len(w) \in Nat /\ v[Len(w) + 1] = r
    OBVIOUS
  <2>2. \A i \in DOMAIN w : v[i] = w[i]
    OBVIOUS
  <2>3. ASSUME NEW u \in Seq(Requests)
        PROVE  u \in [1 .. Len(u) -> Requests] /\ DOMAIN u = 1 .. Len(u)
    OBVIOUS
  <2> HIDE DEF v
  <2> QED
    BY <2>1, <2>2, <2>3
<1> HIDE DEF v
<1>2. \A i, j \in DOMAIN v : v[i] = v[j] => i = j
  <2>1. \A i \in DOMAIN v : i \in DOMAIN w \/ i = Len(v)
    BY <1>1
  <2>2. \A i \in DOMAIN w : v[i] # r
    BY <1>1 DEF Has
  <2> QED
    BY <1>1, <2>1, <2>2
<1>3. Len(v) <= Cardinality(Requests)
  <2>1. IsFiniteSet(1 .. Len(v)) /\ Cardinality(1 .. Len(v)) = Len(v)
    BY <1>1, FS_Interval
  <2>2. IsFiniteSet(Requests) /\ Cardinality(Requests) \in Nat
    BY FS_CardinalityType DEF FitsHistory
  <2>3. CASE Cardinality(Requests) < Cardinality(1 .. Len(v))
    BY <1>1, <1>2, <2>1, <2>2, <2>3, FS_PigeonHole
  <2> QED
    BY <1>1, <2>1, <2>2, <2>3
<1>4. Renewed(w, r) = v
  <2>1. Cardinality(Requests) \in Nat /\ Cardinality(Requests) <= HistoryLimit /\ HistoryLimit \in Nat
    BY FS_CardinalityType DEF FitsHistory, RemoteHostAssumption
  <2>2. ~(Len(v) > HistoryLimit)
    BY <1>1, <1>3, <2>1
  <2> QED
    BY <2>2 DEF Renewed, Newest, v
<1>5. \A y : Has(w, y) \/ y = r => Has(v, y)
  BY <1>1 DEF Has
<1> QED
  BY <1>2, <1>4, <1>5

\* What most steps leave as it is.
NoneTwice(w) == \A i, j \in DOMAIN w : w[i] = w[j] => i = j
CountFrame ==
  /\ UNCHANGED begun
  /\ \A x \in cancelled' : x \in cancelled \/ begun[x.session][x.req] > 0
  /\ \A x \in Sessions : (Live(x)' => Live(x)) /\ (loop[x] # "none" => loop'[x] # "none")
  /\ \/ UNCHANGED seenRequests
     \/ NoneTwice(seenRequests') /\ \A y : Has(seenRequests, y) => Has(seenRequests', y)
     \/ seenRequests' = <<>> /\ \A x \in Sessions : ~Live(x)'
  /\ \A x \in Sessions, q \in Requests : task[x][q] = "none" /\ runtime[x][q] = "none" =>
       task'[x][q] = "none" /\ runtime'[x][q] = "none"
  /\ active' # Nil => /\ active # Nil /\ active'.session = active.session /\ active'.req = active.req
                      /\ promise' = promise

LEMMA CountKept ==
  ASSUME RemoteTypes, Counted, CountFrame
  PROVE  Counted'
<1>1. NoneTwice(seenRequests')
  BY DEF Counted, CountFrame, NoneTwice
<1>2. \A s \in Sessions, r \in Requests :
       /\ begun'[s][r] <= 1
       /\ begun'[s][r] = 0 => task'[s][r] = "none" /\ runtime'[s][r] = "none"
       /\ begun'[s][r] > 0 => loop'[s] # "none" /\ (Live(s)' => Has(seenRequests, r)')
  BY DEF Counted, CountFrame, Has
<1>3. active' # Nil => active'.session = promise' /\ begun'[active'.session][active'.req] > 0
  BY DEF Counted, CountFrame
<1>4. \A x \in cancelled' : begun'[x.session][x.req] > 0
  BY DEF Counted, CountFrame
<1> QED
  BY <1>1, <1>2, <1>3, <1>4 DEF Counted, NoneTwice

LEMMA AgesNone ==
  ASSUME Ages, NEW x \in Sessions, NEW q \in Requests, task[x][q] = "none" /\ runtime[x][q] = "none"
  PROVE  task'[x][q] = "none" /\ runtime'[x][q] = "none"
BY DEF Ages, Working

LEMMA AbandonsKeeps ==
  ASSUME RemoteTypes, NEW reason, Abandons(reason)
  PROVE  /\ active # Nil /\ active' # Nil /\ active'.session = active.session
         /\ active'.req = active.req /\ active'.reason = reason /\ reason # Nil
<1>1. active \in Entries
  BY EntryTypes DEF Abandons
<1>2. active' = [active EXCEPT !.reason = reason]
  BY DEF Abandons
<1>3. /\ active'.session = active.session /\ active'.req = active.req /\ active'.reason = reason
  BY <1>1, <1>2 DEF Entries
<1>4. active' # Nil
  BY NilAssumption DEF Abandons
<1> QED
  BY <1>1, <1>3, <1>4 DEF Abandons

LEMMA CountedNext ==
  ASSUME RemoteHostAssumption, OneStopper, FitsHistory, RemoteTypes, Carries, OneSession, Counted,
         [RemoteNext]_remoteVars
  PROVE  Counted'
<1>1. ASSUME NEW s \in Sessions, Steps(s)
      PROVE  /\ UNCHANGED promise
             /\ \A x \in Sessions : (Live(x)' => Live(x)) /\ (loop[x] # "none" => loop'[x] # "none")
  BY <1>1, MovesLoops DEF Steps, Live
<1>2. CASE LoopStep
  <2>1. PICK s \in Sessions :
          \/ Waits(s) \/ SubmitAccepted(s) \/ SubmitAnswerLost(s) \/ HandleExecute(s) \/ HandleCancel(s)
    BY <1>2 DEF LoopStep, Waits
  <2>2. CASE Waits(s) \/ SubmitAccepted(s) \/ SubmitAnswerLost(s)
    <3>1. Steps(s) /\ UNCHANGED <<history, executor, cancelled>> /\ (UNCHANGED active \/ active' = Nil)
      BY <2>2, WaitsMoves, SubmitMoves DEF Work
    <3>2. CountFrame
      BY <1>1, <3>1 DEF CountFrame, history, executor
    <3> QED
      BY <3>2, CountKept
  <2>3. CASE HandleCancel(s)
    <3>1. Steps(s) /\ UNCHANGED <<begun, seenRequests>>
      BY <2>3, CancelMoves
    <3>2. Ages /\ (active' # Nil => /\ active # Nil /\ active'.session = active.session
                                    /\ active'.req = active.req)
      BY <2>3, CancelMoves, UnchangedAges, AbandonsAges, AbandonsKeeps
    <3>3. \A x \in Sessions, q \in Requests : task[x][q] = "none" /\ runtime[x][q] = "none" =>
            task'[x][q] = "none" /\ runtime'[x][q] = "none"
      BY <3>2, AgesNone
    <3>4. \A x \in cancelled' : x \in cancelled \/ begun[x.session][x.req] > 0
      <4>1. CASE UNCHANGED cancelled
        BY <4>1
      <4>2. CASE ~UNCHANGED cancelled
        <5>1. MayCancel(sent[s]) /\ cancelled' = cancelled \cup {[req |-> sent[s].req, session |-> s]}
          BY <2>3, <4>2, CancelMoves
        <5>2. active # Nil /\ active.req = sent[s].req /\ active.session = s
          BY <3>1, <5>1, MovesLoops DEF MayCancel, OneSession, Counted
        <5> QED
          BY <5>1, <5>2 DEF Counted
      <4> QED
        BY <4>1, <4>2
    <3>5. CountFrame
      BY <1>1, <3>1, <3>2, <3>3, <3>4 DEF CountFrame
    <3> QED
      BY <3>5, CountKept
  <2>4. CASE HandleExecute(s)
    <3> DEFINE r == sent[s].req
    <3>1. Steps(s) /\ r \in Requests /\ SeenRequest(r) /\ UNCHANGED cancelled
      BY <2>4, ExecuteMoves
    <3>2. /\ NoneTwice(seenRequests') /\ Has(seenRequests', r)
          /\ \A y : Has(seenRequests, y) => Has(seenRequests', y)
      <4>1. seenRequests \in Seq(Requests) /\ NoneTwice(seenRequests)
        BY DEF RemoteTypes, Counted, NoneTwice
      <4>2. CASE Has(seenRequests, r)
        BY <3>1, <4>1, <4>2 DEF SeenRequest
      <4>3. CASE ~Has(seenRequests, r)
        <5>1. seenRequests' = Renewed(seenRequests, r)
          BY <3>1, <4>3 DEF SeenRequest
        <5> QED
          BY <3>1, <4>1, <4>3, <5>1, RoomForAll DEF NoneTwice
      <4> QED
        BY <4>2, <4>3
    <3>3. CASE UNCHANGED <<executor, active>>
      <4>1. CountFrame
        BY <1>1, <3>1, <3>2, <3>3 DEF CountFrame, executor
      <4> QED
        BY <4>1, CountKept
    <3>4. CASE ~UNCHANGED <<executor, active>>
      <4>1. /\ ~Has(seenRequests, r) /\ active' = [req |-> r, session |-> s, reason |-> Nil]
            /\ begun' = [begun EXCEPT ![s][r] = @ + 1]
            /\ \E t \in {"digest", "failed"} : OneExecution(s, r, t, runtime[s][r])
        BY <2>4, <3>4, ExecuteMoves
      <4>2. Live(s) /\ promise = s /\ loop'[s] # "none"
        BY <3>1, MovesLoops DEF OneSession
      <4>3. begun \in [Sessions -> [Requests -> Nat]]
        BY DEF RemoteTypes
      <4>4. begun[s][r] = 0
        BY <3>1, <4>1, <4>2, <4>3 DEF Counted
      <4>5. \A x \in Sessions, q \in Requests :
              begun'[x][q] = IF x = s /\ q = r THEN 1 ELSE begun[x][q]
        BY <3>1, <4>1, <4>3, <4>4
      <4>6. \A x \in Sessions, q \in Requests : ~(x = s /\ q = r) =>
              task'[x][q] = task[x][q] /\ runtime'[x][q] = runtime[x][q]
        BY <3>1, <4>1, ExecutionType
      <4>7. \A x \in Sessions, q \in Requests :
              /\ begun'[x][q] <= 1
              /\ begun'[x][q] = 0 => task'[x][q] = "none" /\ runtime'[x][q] = "none"
              /\ begun'[x][q] > 0 => loop'[x] # "none" /\ (Live(x)' => Has(seenRequests, q)')
        <5>1. \A x \in Sessions, q \in Requests :
                /\ begun'[x][q] <= 1
                /\ begun'[x][q] = 0 => task'[x][q] = "none" /\ runtime'[x][q] = "none"
          BY <4>5, <4>6 DEF Counted
        <5>2. ASSUME NEW x \in Sessions, NEW q \in Requests, begun'[x][q] > 0
              PROVE  loop'[x] # "none" /\ (Live(x)' => Has(seenRequests', q))
          <6>1. CASE x = s /\ q = r
            BY <3>2, <4>2, <6>1
          <6>2. CASE ~(x = s /\ q = r)
            <7>1. begun[x][q] > 0
              BY <4>5, <5>2, <6>2
            <7>2. loop[x] # "none" /\ (Live(x) => Has(seenRequests, q))
              BY <7>1 DEF Counted
            <7> QED
              BY <1>1, <3>1, <3>2, <7>2
          <6> QED
            BY <6>1, <6>2
        <5> QED
          BY <5>1, <5>2 DEF Has
      <4>8. active'.session = promise' /\ begun'[active'.session][active'.req] > 0
        BY <1>1, <3>1, <4>1, <4>2, <4>5
      <4>9. \A x \in cancelled' : begun'[x.session][x.req] > 0
        <5>1. \A x \in cancelled : x.session \in Sessions /\ x.req \in Requests
          BY DEF RemoteTypes
        <5>2. \A x \in cancelled : begun[x.session][x.req] > 0
          BY DEF Counted
        <5> QED
          BY <3>1, <4>5, <5>1, <5>2
      <4> QED
        BY <3>2, <4>7, <4>8, <4>9 DEF Counted, NoneTwice
    <3> QED
      BY <3>3, <3>4
  <2> QED
    BY <2>1, <2>2, <2>3, <2>4
<1>3. CASE ExecutorStep
  <2>1. PICK s \in Sessions, r \in Requests :
          (CheckDigest(s, r) \/ CreateRuntime(s, r) \/ Evaluate(s, r)) \/ Settle(s, r)
    BY <1>3 DEF ExecutorStep
  <2>2. /\ UNCHANGED <<loop, promise, active, seenRequests, begun, cancelled>>
        /\ task[s][r] # "none" \/ runtime[s][r] # "none"
        /\ \E t, h : OneExecution(s, r, t, h)
    BY <2>1, ExecutorMoves, SettleMoves DEF Idled, lifecycle, history, external, Statuses
  <2>3. \A x \in Sessions, q \in Requests : task[x][q] = "none" /\ runtime[x][q] = "none" =>
          task'[x][q] = "none" /\ runtime'[x][q] = "none"
    BY <2>2, ExecutionType
  <2>4. CountFrame
    BY <2>2, <2>3 DEF CountFrame, Live
  <2> QED
    BY <2>4, CountKept
<1>4. CASE StopStep
  <2>1. PICK c \in Stoppers, kind \in {"stop", "close"} :
          StopStopped(c, kind) \/ StopBegins(c, kind) \/ StopSawLoopEnd(c) \/ StopClears(c)
    BY <1>4 DEF StopStep
  <2>2. Ages /\ UNCHANGED <<loop, cancelled, begun>>
    BY <2>1, StopTypes DEF StopStopped, StopBegins, StopSawLoopEnd, StopClears, external, Ages
  <2>3. \A x \in Sessions, q \in Requests : task[x][q] = "none" /\ runtime[x][q] = "none" =>
          task'[x][q] = "none" /\ runtime'[x][q] = "none"
    BY <2>2, AgesNone
  <2>4. CASE StopStopped(c, kind) \/ StopSawLoopEnd(c)
    <3>1. UNCHANGED <<active, promise, seenRequests>>
      BY <2>4 DEF StopStopped, StopSawLoopEnd, lifecycle, history
    <3>2. CountFrame
      BY <2>2, <2>3, <3>1 DEF CountFrame, Live
    <3> QED
      BY <3>2, CountKept
  <2>5. CASE StopBegins(c, kind)
    <3>1. UNCHANGED <<promise, seenRequests, runtime>>
      BY <2>5 DEF StopBegins, history
    <3>2. active' # Nil => active # Nil /\ active'.session = active.session /\ active'.req = active.req
      <4>1. CASE active = Nil \/ active.reason # Nil
        BY <2>5, <4>1 DEF StopBegins, AbortActive
      <4>2. CASE ~(active = Nil \/ active.reason # Nil)
        <5>1. Abandons("relay-closing")
          BY <2>5, <3>1, <4>2, AbandonsActive DEF StopBegins, AbortActive
        <5> QED
          BY <5>1, AbandonsKeeps
      <4> QED
        BY <4>1, <4>2
    <3>3. CountFrame
      BY <2>2, <2>3, <3>1, <3>2 DEF CountFrame, Live
    <3> QED
      BY <3>3, CountKept
  <2>6. CASE StopClears(c)
    <3>1. \A x \in Sessions : ~Live(x)
      <4>1. stop[c].pc # "idle" /\ stop[c].pc # "loop" /\ stop[c] # NoStop
        BY <2>6 DEF StopClears, NoStop
      <4> QED
        BY <4>1 DEF OneSession, Live
    <3>2. active' = Nil /\ seenRequests' = <<>>
      BY <2>6 DEF StopClears
    <3>3. CountFrame
      BY <2>2, <2>3, <3>1, <3>2 DEF CountFrame, Live
    <3> QED
      BY <3>3, CountKept
  <2> QED
    BY <2>1, <2>4, <2>5, <2>6
<1>5. CASE RelayStep \/ UNCHANGED remoteVars
  <2>1. UNCHANGED <<loop, promise, active, history, executor, cancelled>>
    BY <1>5, RelayTypes DEF lifecycle, Work, remoteVars, external
  <2>2. CountFrame
    BY <2>1 DEF CountFrame, Live, history, executor
  <2> QED
    BY <2>2, CountKept
<1>6. CASE \E s \in Sessions : Start(s)
  <2>1. PICK s \in Sessions : Start(s)
    BY <1>6
  <2>2. /\ loop[s] = "none" /\ loop'[s] = "register" /\ promise = 0
        /\ \A x \in Sessions : x # s => loop'[x] = loop[x]
        /\ UNCHANGED <<active, seenRequests, executor, cancelled>>
    BY <2>1 DEF Start, history, external, RemoteTypes
  <2>3. active = Nil
    BY <2>2 DEF OneSession
  <2>4. \A q \in Requests : ~(begun[s][q] > 0)
    BY <2>2 DEF Counted
  <2>5. \A x \in Sessions, q \in Requests :
          /\ begun'[x][q] <= 1
          /\ begun'[x][q] = 0 => task'[x][q] = "none" /\ runtime'[x][q] = "none"
          /\ begun'[x][q] > 0 => loop'[x] # "none" /\ (Live(x)' => Has(seenRequests, q)')
    BY <2>2, <2>4 DEF Counted, executor, Live, Has
  <2> QED
    BY <2>2, <2>3, <2>5 DEF Counted, executor
<1> QED
  BY <1>2, <1>3, <1>4, <1>5, <1>6 DEF RemoteNext

-----------------------------------------------------------------------------
(* No runtime is left.                                                      *)

LEMMA NoRuntimeLeftNext ==
  ASSUME RemoteHostAssumption, RemoteTypes, Carries, OneSession, Counted, NoRuntimeLeft,
         [RemoteNext]_remoteVars
  PROVE  NoRuntimeLeft'
<1>1. ASSUME NEW s \in Sessions, NEW r \in Requests, NEW t, NEW h, OneExecution(s, r, t, h),
             h = "open" => t \in Statuses \cup {"calling"}
      PROVE  NoRuntimeLeft'
  BY <1>1, ExecutionType DEF NoRuntimeLeft
<1>2. ASSUME Ages PROVE NoRuntimeLeft'
  BY <1>2 DEF Ages, NoRuntimeLeft, Statuses
<1>3. CASE LoopStep
  <2>1. PICK s \in Sessions :
          \/ Waits(s) \/ SubmitAccepted(s) \/ SubmitAnswerLost(s) \/ HandleExecute(s) \/ HandleCancel(s)
    BY <1>3 DEF LoopStep, Waits
  <2>2. CASE Waits(s) \/ SubmitAccepted(s) \/ SubmitAnswerLost(s)
    BY <1>2, <2>2, WaitsMoves, SubmitMoves, UnchangedAges DEF Work
  <2>3. CASE HandleCancel(s)
    BY <1>2, <2>3, CancelMoves, UnchangedAges, AbandonsAges
  <2>4. CASE HandleExecute(s)
    <3> DEFINE r == sent[s].req
    <3>1. Live(s) /\ r \in Requests
      BY <2>4, ExecuteMoves, MovesLoops
    <3>2. CASE UNCHANGED executor
      BY <1>2, <3>2, UnchangedAges
    <3>3. CASE ~UNCHANGED executor
      <4>1. /\ ~Has(seenRequests, r)
            /\ \E t \in {"digest", "failed"} : OneExecution(s, r, t, runtime[s][r])
        BY <2>4, <3>3, ExecuteMoves
      <4>2. begun[s][r] = 0
        BY <3>1, <4>1 DEF Counted, RemoteTypes
      <4>3. runtime[s][r] = "none"
        BY <3>1, <4>2 DEF Counted
      <4> QED
        BY <1>1, <3>1, <4>1, <4>3
    <3> QED
      BY <3>2, <3>3
  <2> QED
    BY <2>1, <2>2, <2>3, <2>4
<1>4. CASE ExecutorStep
  <2>1. PICK s \in Sessions, r \in Requests :
          (CheckDigest(s, r) \/ CreateRuntime(s, r) \/ Evaluate(s, r)) \/ Settle(s, r)
    BY <1>4 DEF ExecutorStep
  <2>2. CASE Settle(s, r)
    <3>1. OneExecution(s, r, "settled", Released(runtime[s][r])) /\ Released(runtime[s][r]) # "open"
      BY <2>2, SettleMoves DEF Released
    <3> QED
      BY <1>1, <3>1
  <2> QED
    BY <1>1, <2>1, <2>2, ExecutorMoves
<1>5. CASE StopStep
  BY <1>2, <1>5, StopTypes DEF StopStep
<1>6. CASE RelayStep \/ UNCHANGED remoteVars \/ \E s \in Sessions : Start(s)
  <2>1. UNCHANGED executor
    BY <1>6, RelayTypes DEF Work, remoteVars, Start
  <2> QED
    BY <1>2, <2>1, UnchangedAges
<1> QED
  BY <1>3, <1>4, <1>5, <1>6 DEF RemoteNext

-----------------------------------------------------------------------------
(* Results and cancels.                                                     *)

\* Nil is no result.
LEMMA KnownTypes ==
  ASSUME RemoteTypes, Carries
  PROVE  /\ Known \subseteq Results
         /\ \A t \in Known : t # Nil /\ t.session \in Sessions /\ t.req \in Requests
<1>1. Known \subseteq Results
  BY DEF RemoteTypes, Carries, Known, Remembers, Submitted
<1> QED
  BY <1>1, NilAssumption DEF Results

LEMMA KnownKept ==
  ASSUME answers' \subseteq Known, \A y : Has(terminals', y) => y \in Known,
         pending' \in Known \cup {Nil}, Submitted' \subseteq Known
  PROVE  Known' \subseteq Known
<1>1. Remembers' \subseteq Known
  BY DEF Remembers, Has
<1> QED
  BY <1>1 DEF Known

LEMMA KnownParts ==
  /\ answers \subseteq Known /\ (pending # Nil => pending \in Known)
  /\ \A y : Has(terminals, y) => y \in Known
  /\ Submitted \subseteq Known /\ Remembers \subseteq Known
BY DEF Known, Remembers, Has

\* A loop submits what is pending.
LEMMA MovesSubmitted ==
  ASSUME RemoteTypes, OneSession, NEW s \in Sessions, Steps(s)
  PROVE  /\ Submitted' \subseteq Submitted \cup ({pending} \ {Nil})
         /\ loop'[s] # "submit" => Submitted' \subseteq Submitted
         /\ \A x \in Sessions : loop'[x] \in {"poll", "read"} =>
              x = s /\ (loop[s] \in {"poll", "read"} \/ pending = Nil)
         /\ \A x \in Sessions : Live(x)' => x = s /\ Live(x)
<1>1. \A x \in Sessions : x # s => ~Live(x) /\ loop'[x] = loop[x] /\ sent'[x] = sent[x]
  BY MovesLoops DEF OneSession
<1>2. \A x \in Sessions : loop'[x] = "submit" => x = s
  BY <1>1 DEF Live
<1> QED
  BY <1>1, <1>2, MovesLoops DEF Submitted, Live

StillKnown ==
  /\ \A x \in Sessions, q \in Requests : task[x][q] = "settled" => task'[x][q] = "settled"
  /\ Known' \subseteq Known
  /\ active' # Nil => active # Nil /\ active'.session = active.session /\ active'.req = active.req
  /\ active' # Nil => UNCHANGED pending
  /\ \A s \in Sessions : loop'[s] \in {"poll", "read"} => loop[s] \in {"poll", "read"} \/ pending = Nil

LEMMA EndedKept ==
  ASSUME RemoteTypes, Carries, Ended, StillKnown
  PROVE  Ended'
BY KnownTypes DEF Ended, StillKnown, IsOwn

\* A result that was not known before is that of the active request.
NewResult(t) == \E s \in Sessions, r \in Requests :
  /\ OwnEntry(s, r) /\ t.req = r /\ t.session = s /\ UNCHANGED <<cancelled, active>>
  /\ active.reason # Nil => t.status \in {"cancelled", "timed-out"}

\* What a step keeps that takes no cancel and begins no execution.
StillTaken ==
  /\ UNCHANGED cancelled
  /\ \A x \in cancelled : IsOwn(x)' => IsOwn(x) /\ (active.reason # Nil => active'.reason # Nil)
  /\ \A s \in Sessions, c \in Commands : Live(s)' /\ c.kind = "cancel" /\ Has(seenCommands', c) =>
       Live(s) /\ Has(seenCommands, c)

LEMMA TakenKept ==
  ASSUME Taken, StillTaken, \A t \in Known' : t \in Known \/ NewResult(t)
  PROVE  Taken'
<1>1. \A x \in cancelled' : IsOwn(x)' => active'.reason # Nil
  BY DEF Taken, StillTaken
<1>2. \A s \in Sessions, c \in Commands :
        Live(s)' /\ c.kind = "cancel" /\ Has(seenCommands', c) => [req |-> c.req, session |-> s] \in cancelled'
  BY DEF Taken, StillTaken
<1>3. ASSUME NEW x \in cancelled', NEW t \in Known', t.req = x.req, t.session = x.session
      PROVE  t.status \in {"cancelled", "timed-out"}
  <2>1. x \in cancelled
    BY DEF StillTaken
  <2>2. CASE t \in Known
    BY <1>3, <2>1, <2>2 DEF Taken
  <2>3. CASE NewResult(t)
    <3>1. /\ IsOwn(x)
          /\ active.reason # Nil => t.status \in {"cancelled", "timed-out"}
      BY <1>3, <2>3 DEF NewResult, OwnEntry, IsOwn
    <3> QED
      BY <2>1, <3>1 DEF Taken
  <2> QED
    BY <2>2, <2>3
<1> QED
  BY <1>1, <1>2, <1>3 DEF Taken, Has

LEMMA EndedNext ==
  ASSUME RemoteHostAssumption, OneStopper, RemoteTypes, Carries, OneSession, Counted, Ended,
         [RemoteNext]_remoteVars
  PROVE  Ended' /\ \A t \in Known' : t \in Known \/ NewResult(t)
<1>1. ASSUME StillKnown PROVE Ended' /\ \A t \in Known' : t \in Known \/ NewResult(t)
  BY <1>1, EndedKept DEF StillKnown
<1>2. ASSUME Ages PROVE \A x \in Sessions, q \in Requests : task[x][q] = "settled" => task'[x][q] = "settled"
  BY <1>2 DEF Ages, Working
<1>3. CASE LoopStep
  <2>1. PICK s \in Sessions :
          \/ Waits(s) \/ SubmitAccepted(s) \/ SubmitAnswerLost(s) \/ HandleExecute(s) \/ HandleCancel(s)
    BY <1>3 DEF LoopStep, Waits
  <2>2. Steps(s)
    BY <2>1, WaitsMoves, SubmitMoves, ExecuteMoves, CancelMoves
  <2>3. CASE Waits(s)
    <3>1. UNCHANGED Work
      BY <2>3, WaitsMoves
    <3>2. Known' \subseteq Known
      BY <2>2, <3>1, KnownKept, KnownParts, MovesSubmitted DEF Work, history
    <3>3. StillKnown
      BY <2>2, <3>1, <3>2, MovesSubmitted DEF StillKnown, Work, executor
    <3> QED
      BY <1>1, <3>3
  <2>4. CASE SubmitAccepted(s) \/ SubmitAnswerLost(s)
    <3>1. /\ UNCHANGED <<history, executor>> /\ answers' = answers \cup {sent[s]}
          /\ UNCHANGED <<active, pending>> \/ (active' = Nil /\ pending' = Nil)
          /\ loop[s] = "submit"
      BY <2>4, SubmitMoves
    <3>2. sent[s] \in Known
      BY <3>1 DEF Known, Submitted
    <3>3. Known' \subseteq Known
      BY <2>2, <3>1, <3>2, KnownKept, KnownParts, MovesSubmitted DEF history
    <3>4. StillKnown
      BY <2>2, <3>1, <3>3, MovesSubmitted DEF StillKnown, executor
    <3> QED
      BY <1>1, <3>4
  <2>5. CASE HandleCancel(s)
    <3>1. /\ UNCHANGED <<pending, terminals, answers>> /\ loop'[s] \notin {"poll", "read", "submit"}
          /\ Ages
          /\ active' # Nil => active # Nil /\ active'.session = active.session
                              /\ active'.req = active.req
      BY <2>5, CancelMoves, UnchangedAges, AbandonsAges, AbandonsKeeps
    <3>2. Known' \subseteq Known
      BY <2>2, <3>1, KnownKept, KnownParts, MovesSubmitted
    <3>3. StillKnown
      BY <1>2, <2>2, <3>1, <3>2, MovesSubmitted DEF StillKnown
    <3> QED
      BY <1>1, <3>3
  <2>6. CASE HandleExecute(s)
    <3> DEFINE r == sent[s].req
    <3>1. /\ UNCHANGED <<terminals, answers>> /\ loop'[s] \notin {"poll", "read", "submit"}
          /\ r \in Requests /\ Live(s)
          /\ UNCHANGED pending \/ (UNCHANGED <<executor, active>> /\ pending' \in Remembers)
      BY <2>2, <2>6, ExecuteMoves, MovesLoops
    <3>2. Known' \subseteq Known
      BY <2>2, <3>1, KnownKept, KnownParts, MovesSubmitted
    <3>3. \A x \in Sessions : loop'[x] \notin {"poll", "read"}
      BY <2>2, <3>1, MovesSubmitted
    <3>4. CASE UNCHANGED <<executor, active>>
      <4>1. \A t \in Known' : task'[t.session][t.req] = "settled"
        BY <3>2, <3>4 DEF Ended, executor
      <4>2. \A t \in Known' : IsOwn(t)' => pending' # Nil
        BY <3>1, <3>2, <3>4, KnownTypes, KnownParts DEF Ended, IsOwn
      <4> QED
        BY <3>2, <3>3, <4>1, <4>2 DEF Ended
    <3>5. CASE ~UNCHANGED <<executor, active>>
      <4>1. /\ ~Has(seenRequests, r) /\ active' = [req |-> r, session |-> s, reason |-> Nil]
            /\ \E t \in {"digest", "failed"} : OneExecution(s, r, t, runtime[s][r])
        BY <2>6, <3>5, ExecuteMoves
      <4>2. begun[s][r] = 0
        BY <3>1, <4>1 DEF Counted, RemoteTypes
      <4>3. task[s][r] = "none"
        BY <3>1, <4>2 DEF Counted
      <4>4. \A t \in Known : ~(t.session = s /\ t.req = r)
        BY <4>3 DEF Ended
      <4>5. \A x \in Sessions, q \in Requests : ~(x = s /\ q = r) => task'[x][q] = task[x][q]
        BY <3>1, <4>1, ExecutionType
      <4>6. \A t \in Known' : task'[t.session][t.req] = "settled" /\ ~IsOwn(t)'
        BY <3>2, <4>1, <4>4, <4>5, KnownTypes DEF Ended, IsOwn
      <4> QED
        BY <3>2, <4>6 DEF Ended
    <3> QED
      BY <3>4, <3>5
  <2> QED
    BY <2>1, <2>3, <2>4, <2>5, <2>6
<1>4. CASE ExecutorStep
  <2>1. PICK s \in Sessions, r \in Requests :
          (CheckDigest(s, r) \/ CreateRuntime(s, r) \/ Evaluate(s, r)) \/ Settle(s, r)
    BY <1>4 DEF ExecutorStep
  <2>2. CASE CheckDigest(s, r) \/ CreateRuntime(s, r) \/ Evaluate(s, r)
    <3>1. UNCHANGED <<loop, sent, active, pending, terminals, answers>>
      BY <2>2, ExecutorMoves DEF Idled, history, external
    <3>2. Known' \subseteq Known
      BY <3>1 DEF Known, Remembers, Submitted
    <3>3. \A x \in Sessions, q \in Requests : task[x][q] = "settled" => task'[x][q] = "settled"
      BY <2>2, ExecutorMoves, ExecutionType DEF Working
    <3>4. StillKnown
      BY <3>1, <3>2, <3>3 DEF StillKnown
    <3> QED
      BY <1>1, <3>4
  <2>3. CASE Settle(s, r)
    <3>1. /\ UNCHANGED <<loop, sent, active, answers, cancelled>>
          /\ task[s][r] \in Statuses /\ OneExecution(s, r, "settled", Released(runtime[s][r]))
      BY <2>3, SettleMoves DEF external
    <3>2. \A x \in Sessions, q \in Requests :
            task'[x][q] = IF x = s /\ q = r THEN "settled" ELSE task[x][q]
      BY <3>1, ExecutionType
    <3>3. CASE UNCHANGED <<pending, terminals>>
      <4>1. Known' \subseteq Known
        BY <3>1, <3>3 DEF Known, Remembers, Submitted
      <4>2. StillKnown
        BY <3>1, <3>2, <3>3, <4>1 DEF StillKnown
      <4> QED
        BY <1>1, <4>2
    <3>4. CASE ~UNCHANGED <<pending, terminals>>
      <4>1. /\ OwnEntry(s, r) /\ pending' \in Results /\ pending'.req = r /\ pending'.session = s
            /\ active.reason # Nil => pending'.status \in {"cancelled", "timed-out"}
            /\ \A y : Has(terminals', y) => Has(terminals, y) \/ y = pending'
        BY <2>3, <3>4, SettleMoves
      <4>2. \A t \in Known' : t \in Known \/ t = pending'
        <5>1. Submitted' = Submitted
          BY <3>1 DEF Submitted
        <5>2. \A t \in Remembers' : t \in Known \/ t = pending'
          BY <4>1, KnownParts DEF Remembers, Has
        <5> QED
          BY <3>1, <5>1, <5>2 DEF Known
      <4>3. \A t \in Known : ~(t.session = s /\ t.req = r)
        BY <3>1 DEF Ended, Statuses
      <4>4. \A t \in Known' : task'[t.session][t.req] = "settled"
        BY <3>2, <4>1, <4>2, KnownTypes DEF Ended
      <4>5. \A t \in Known' : IsOwn(t)' => t = pending'
        BY <3>1, <4>1, <4>2, <4>3 DEF IsOwn, OwnEntry
      <4>6. pending' # Nil
        BY <4>1, NilAssumption
      <4>7. NewResult(pending')
        BY <3>1, <4>1 DEF NewResult
      <4> QED
        BY <4>2, <4>4, <4>5, <4>6, <4>7 DEF Ended
    <3> QED
      BY <3>3, <3>4
  <2> QED
    BY <2>1, <2>2, <2>3
<1>5. CASE StopStep
  <2>1. PICK c \in Stoppers, kind \in {"stop", "close"} :
          StopStopped(c, kind) \/ StopBegins(c, kind) \/ StopSawLoopEnd(c) \/ StopClears(c)
    BY <1>5 DEF StopStep
  <2>2. /\ Ages /\ UNCHANGED <<loop, sent, answers>>
        /\ UNCHANGED <<pending, terminals>> \/ (active' = Nil /\ pending' = Nil /\ terminals' = <<>>)
    BY <2>1, StopTypes DEF StopStopped, StopBegins, StopSawLoopEnd, StopClears, external, history
  <2>3. Known' \subseteq Known
    BY <2>2 DEF Known, Remembers, Submitted
  <2>4. active' # Nil => active # Nil /\ active'.session = active.session /\ active'.req = active.req
    <3>1. CASE StopBegins(c, kind) /\ ~(active = Nil \/ active.reason # Nil)
      <4>1. Abandons("relay-closing")
        BY <3>1, AbandonsActive DEF StopBegins, AbortActive
      <4> QED
        BY <4>1, AbandonsKeeps
    <3>2. CASE StopBegins(c, kind) /\ (active = Nil \/ active.reason # Nil)
      BY <3>2 DEF StopBegins, AbortActive
    <3>3. CASE StopStopped(c, kind) \/ StopSawLoopEnd(c) \/ StopClears(c)
      BY <3>3 DEF StopStopped, StopSawLoopEnd, StopClears
    <3> QED
      BY <2>1, <3>1, <3>2, <3>3
  <2>5. StillKnown
    BY <1>2, <2>2, <2>3, <2>4 DEF StillKnown
  <2> QED
    BY <1>1, <2>5
<1>6. CASE RelayStep \/ UNCHANGED remoteVars
  <2>1. UNCHANGED <<loop, sent, active, pending, history, executor, answers>>
    BY <1>6, RelayTypes DEF Work, remoteVars, external
  <2>2. StillKnown
    BY <2>1 DEF StillKnown, Known, Remembers, Submitted, history, executor
  <2> QED
    BY <1>1, <2>2
<1>7. CASE \E s \in Sessions : Start(s)
  <2>1. PICK s \in Sessions : Start(s)
    BY <1>7
  <2>2. /\ loop'[s] = "register" /\ \A x \in Sessions : x # s => loop'[x] = loop[x]
        /\ UNCHANGED <<sent, active, pending, history, executor, answers>>
    BY <2>1 DEF Start, external, RemoteTypes
  <2>3. Submitted' \subseteq Submitted
    BY <2>2 DEF Submitted
  <2>4. Known' \subseteq Known
    BY <2>2, <2>3, KnownParts, KnownKept DEF history
  <2>5. StillKnown
    BY <2>2, <2>4 DEF StillKnown, executor
  <2> QED
    BY <1>1, <2>5
<1> QED
  BY <1>3, <1>4, <1>5, <1>6, <1>7 DEF RemoteNext

\* The steps that leave the commands seen as they are, or forget them.
LEMMA OtherTaken ==
  ASSUME RemoteHostAssumption, OneStopper, RemoteTypes, Carries, OneSession,
         [RemoteNext]_remoteVars,
         \A s \in Sessions : ~HandleExecute(s) /\ ~HandleCancel(s)
  PROVE  StillTaken
<1>1. CASE LoopStep
  <2>1. PICK s \in Sessions : Waits(s) \/ SubmitAccepted(s) \/ SubmitAnswerLost(s)
    BY <1>1 DEF LoopStep, Waits
  <2>2. /\ Steps(s) /\ UNCHANGED <<history, cancelled>>
        /\ UNCHANGED active \/ active' = Nil
    BY <2>1, WaitsMoves, SubmitMoves DEF Work
  <2>3. \A x \in Sessions : Live(x)' => Live(x)
    BY <2>2, MovesLoops DEF Live
  <2> QED
    BY <2>2, <2>3 DEF StillTaken, IsOwn, history
<1>2. CASE ExecutorStep
  <2>1. UNCHANGED <<loop, active, seenCommands, cancelled>>
    BY <1>2, ExecutorMoves, SettleMoves DEF ExecutorStep, Idled, history, external
  <2> QED
    BY <2>1 DEF StillTaken, IsOwn, Live
<1>3. CASE StopStep
  <2>1. PICK c \in Stoppers, kind \in {"stop", "close"} :
          StopStopped(c, kind) \/ StopBegins(c, kind) \/ StopSawLoopEnd(c) \/ StopClears(c)
    BY <1>3 DEF StopStep
  <2>2. /\ UNCHANGED <<loop, cancelled>>
        /\ UNCHANGED seenCommands \/ seenCommands' = <<>>
    BY <2>1 DEF StopStopped, StopBegins, StopSawLoopEnd, StopClears, external, history
  <2>3. active' # Nil => /\ active # Nil /\ active'.session = active.session /\ active'.req = active.req
                         /\ active.reason # Nil => active'.reason # Nil
    <3>1. CASE StopBegins(c, kind) /\ ~(active = Nil \/ active.reason # Nil)
      <4>1. Abandons("relay-closing")
        BY <3>1, AbandonsActive DEF StopBegins, AbortActive
      <4> QED
        BY <4>1, AbandonsKeeps
    <3>2. CASE StopBegins(c, kind) /\ (active = Nil \/ active.reason # Nil)
      BY <3>2 DEF StopBegins, AbortActive
    <3>3. CASE StopStopped(c, kind) \/ StopSawLoopEnd(c) \/ StopClears(c)
      BY <3>3 DEF StopStopped, StopSawLoopEnd, StopClears
    <3> QED
      BY <2>1, <3>1, <3>2, <3>3
  <2> QED
    BY <2>2, <2>3 DEF StillTaken, IsOwn, Live, Has
<1>4. CASE RelayStep \/ UNCHANGED remoteVars
  <2>1. UNCHANGED <<loop, active, history, cancelled>>
    BY <1>4, RelayTypes DEF Work, remoteVars, external
  <2> QED
    BY <2>1 DEF StillTaken, IsOwn, Live, history
<1>5. CASE \E s \in Sessions : Start(s)
  <2>1. PICK s \in Sessions : Start(s)
    BY <1>5
  <2>2. UNCHANGED <<active, seenCommands, cancelled>> /\ promise = 0
    BY <2>1 DEF Start, history, external
  <2>3. seenCommands' = <<>>
    BY <2>2 DEF OneSession
  <2> QED
    BY <2>2, <2>3 DEF StillTaken, IsOwn, Has
<1> QED
  BY <1>1, <1>2, <1>3, <1>4, <1>5 DEF RemoteNext

LEMMA TakenNext ==
  ASSUME RemoteHostAssumption, OneStopper, RemoteTypes, Carries, OneSession, Counted, Ended, Taken,
         [RemoteNext]_remoteVars
  PROVE  Taken'
<1>1. \A t \in Known' : t \in Known \/ NewResult(t)
  BY EndedNext
<1>2. CASE \A s \in Sessions : ~HandleExecute(s) /\ ~HandleCancel(s)
  BY <1>1, <1>2, OtherTaken, TakenKept
<1>3. ASSUME NEW s \in Sessions, HandleExecute(s) PROVE Taken'
  <2> DEFINE r == sent[s].req
  <2>1. /\ Steps(s) /\ UNCHANGED cancelled /\ r \in Requests /\ sent[s].kind = "execute"
        /\ \A y : Has(seenCommands', y) => Has(seenCommands, y) \/ y = sent[s]
    BY <1>3, ExecuteMoves
  <2>2. \A x \in Sessions : Live(x)' => Live(x)
    BY <2>1, MovesLoops DEF Live
  <2>3. \A x \in cancelled : IsOwn(x)' => IsOwn(x) /\ (active.reason # Nil => active'.reason # Nil)
    <3>1. CASE UNCHANGED active
      BY <3>1 DEF IsOwn
    <3>2. CASE ~UNCHANGED active
      <4>1. ~Has(seenRequests, r) /\ active' = [req |-> r, session |-> s, reason |-> Nil]
        BY <1>3, <3>2, ExecuteMoves
      <4>2. ~(begun[s][r] > 0)
        BY <2>1, <4>1, MovesLoops DEF Counted
      <4> QED
        BY <4>1, <4>2 DEF Counted, IsOwn
    <3> QED
      BY <3>1, <3>2
  <2>4. \A x \in Sessions, c \in Commands : Live(x)' /\ c.kind = "cancel" /\ Has(seenCommands', c) =>
          Live(x) /\ Has(seenCommands, c)
    BY <2>1, <2>2
  <2>5. StillTaken
    BY <2>1, <2>3, <2>4 DEF StillTaken
  <2> QED
    BY <1>1, <2>5, TakenKept
<1>4. ASSUME NEW s \in Sessions, HandleCancel(s) PROVE Taken'
  <2> DEFINE c == sent[s]
             new == [req |-> c.req, session |-> s]
  <2>1. /\ Steps(s) /\ loop[s] = "read" /\ loop'[s] \notin {"poll", "read", "submit"}
        /\ c \in Commands /\ c.kind = "cancel"
        /\ \A y : Has(seenCommands', y) => Has(seenCommands, y) \/ y = c
        /\ UNCHANGED <<pending, terminals, answers>>
    BY <1>4, CancelMoves
  <2>2. \A x \in Sessions : Live(x)' => x = s /\ Live(x)
    BY <2>1, MovesSubmitted
  <2>3. CASE loop'[s] = "ended" /\ UNCHANGED <<active, executor, cancelled>>
    <3>1. \A x \in Sessions : ~Live(x)'
      BY <2>2, <2>3 DEF Live
    <3>2. StillTaken
      BY <2>3, <3>1 DEF StillTaken, IsOwn
    <3> QED
      BY <1>1, <3>2, TakenKept
  <2>4. CASE /\ MayCancel(c) /\ cancelled' = cancelled \cup {new}
             /\ \/ UNCHANGED <<active, executor>> /\ (Has(seenCommands, c) \/ active.reason # Nil)
                \/ Abandons(c.reason)
    <3>1. /\ active # Nil /\ active.req = c.req /\ active.session = s
          /\ pending # Nil => pending.status \in {"cancelled", "timed-out"}
          /\ Live(s)
      BY <2>1, <2>4, MovesLoops DEF MayCancel, OneSession, Counted
    <3>2. IsOwn(new)
      BY <3>1 DEF IsOwn
    <3>3. active'.reason # Nil
      <4>1. CASE Has(seenCommands, c)
        <5>1. new \in cancelled
          BY <2>1, <3>1, <4>1 DEF Taken
        <5>2. active.reason # Nil
          BY <3>2, <5>1 DEF Taken
        <5> QED
          BY <2>4, <5>2, AbandonsKeeps
      <4>2. CASE active.reason # Nil
        BY <2>4, <4>2, AbandonsKeeps
      <4>3. CASE Abandons(c.reason)
        BY <4>3, AbandonsKeeps
      <4> QED
        BY <2>4, <4>1, <4>2, <4>3
    <3>4. \A x \in Sessions, d \in Commands :
            Live(x)' /\ d.kind = "cancel" /\ Has(seenCommands', d) =>
              [req |-> d.req, session |-> x] \in cancelled'
      <4>1. ASSUME NEW d \in Commands, d.kind = "cancel", Has(seenCommands, d)
            PROVE  [req |-> d.req, session |-> s] \in cancelled
        BY <3>1, <4>1 DEF Taken
      <4> QED
        BY <2>1, <2>2, <2>4, <4>1
    <3>5. Known' \subseteq Known
      BY <2>1, KnownKept, KnownParts, MovesSubmitted
    <3>6. \A t \in Known : t.req = new.req /\ t.session = new.session =>
            t.status \in {"cancelled", "timed-out"}
      <4>1. \A t \in Known : IsOwn(t) => pending # Nil /\ pending = t
        BY <2>1 DEF Ended
      <4> QED
        BY <3>1, <4>1 DEF IsOwn
    <3>7. \A x \in cancelled', t \in Known' : t.req = x.req /\ t.session = x.session =>
            t.status \in {"cancelled", "timed-out"}
      BY <2>4, <3>5, <3>6 DEF Taken
    <3> QED
      BY <3>3, <3>4, <3>7 DEF Taken, Has
  <2> QED
    BY <1>4, <2>3, <2>4, CancelMoves
<1> QED
  BY <1>2, <1>3, <1>4

-----------------------------------------------------------------------------
(* The theorems.                                                            *)

LEMMA RemoteInvInit ==
  ASSUME RemoteHostAssumption, RemoteInit
  PROVE  RemoteInv
<1>1. /\ loop = [s \in Sessions |-> "none"] /\ promise = 0 /\ desired = FALSE /\ active = Nil
      /\ pending = Nil /\ seenCommands = <<>> /\ seenRequests = <<>> /\ terminals = <<>>
      /\ stop = [c \in Stoppers |-> NoStop] /\ answers = {} /\ cancelled = {}
  BY DEF RemoteInit
<1>2. \A s \in Sessions, r \in Requests :
        task[s][r] = "none" /\ runtime[s][r] = "none" /\ begun[s][r] = 0
  BY DEF RemoteInit
<1>3. \A s \in Sessions : loop[s] = "none"
  BY <1>1
<1>4. \A c \in Stoppers : stop[c] = NoStop
  BY <1>1
<1>5. Carries
  BY <1>3 DEF Carries
<1>6. OneSession
  BY <1>1, <1>3, <1>4 DEF OneSession, Live
<1>7. Counted
  BY <1>1, <1>2 DEF Counted
<1>8. Known = {}
  BY <1>1, <1>3 DEF Known, Remembers, Submitted
<1>9. Ended
  BY <1>8 DEF Ended
<1>10. Taken
  BY <1>1, <1>8 DEF Taken, Has
<1>11. NoRuntimeLeft
  BY <1>2 DEF NoRuntimeLeft
<1> QED
  BY <1>5, <1>6, <1>7, <1>9, <1>10, <1>11, RemoteTypesInit DEF RemoteInv

LEMMA RemoteInvNext ==
  ASSUME RemoteHostAssumption, OneStopper, FitsHistory, RemoteInv, [RemoteNext]_remoteVars
  PROVE  RemoteInv'
BY RemoteTypesNext, CarriesNext, OneSessionNext, CountedNext, EndedNext, TakenNext, NoRuntimeLeftNext
   DEF RemoteInv

\* The invariant the other results rest on: one session at a time, each execution
\* counted and remembered, and a cancel that was taken recorded where its request is
\* active (remote-host-client.js).
THEOREM RemoteInvariant ==
  ASSUME OneStopper, FitsHistory
  PROVE  RemoteSpec => []RemoteInv
<1>1. RemoteInit => RemoteInv
  BY RemoteInvInit, RemoteHostAssumption
<1>2. RemoteInv /\ [RemoteNext]_remoteVars => RemoteInv'
  BY RemoteInvNext, RemoteHostAssumption
<1> QED
  BY <1>1, <1>2, PTL DEF RemoteSpec

\* Every variable of the remote host holds a value of its kind.
THEOREM RemoteTypeCorrect ==
  ASSUME OneStopper, FitsHistory
  PROVE  RemoteSpec => []RemoteTypeOK
<1>1. RemoteInv => RemoteTypeOK
  BY DEF RemoteInv, RemoteTypes, RemoteTypeOK, Stages, Places, Holdings, Working, Statuses
<1> QED
  BY <1>1, RemoteInvariant, PTL

\* Within a session no request is executed twice, whatever the relay repeats: a history
\* with room for every request forgets none while its session lives.
THEOREM ExecutesOnce ==
  ASSUME OneStopper, FitsHistory
  PROVE  RemoteSpec => []ExecutedOnce
<1>1. RemoteInv => ExecutedOnce
  BY DEF RemoteInv, Counted, ExecutedOnce
<1> QED
  BY <1>1, RemoteInvariant, PTL

\* A request whose cancel the client took is never answered as if it had run to its end.
THEOREM CancelsSettle ==
  ASSUME OneStopper, FitsHistory
  PROVE  RemoteSpec => []CancelSettles
<1>1. RemoteInv => CancelSettles
  BY KnownParts DEF RemoteInv, Taken, CancelSettles
<1> QED
  BY <1>1, RemoteInvariant, PTL

\* An execution that is over holds no runtime, whenever its runtime arrives.
THEOREM NoRuntimeStays ==
  ASSUME OneStopper, FitsHistory
  PROVE  RemoteSpec => []NoRuntimeLeft
<1>1. RemoteInv => NoRuntimeLeft
  BY DEF RemoteInv
<1> QED
  BY <1>1, RemoteInvariant, PTL
=============================================================================
