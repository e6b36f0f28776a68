---------------------------- MODULE PersonalChain ----------------------------
(***************************************************************************)
(* The signed personal chain of a browser profile, on its way to Hestia.   *)
(*                                                                         *)
(* Tabs of the studio (extension/src/app.js) sign actions and include each  *)
(* in a hash chain, under the web lock "personal-chain".  A tab that opens  *)
(* first migrates an older profile (identity-migration.js): it checks all   *)
(* that is stored, makes the key non-extractable, signs every link again    *)
(* and queues the whole chain.  The owner's key is made by the onboarding   *)
(* form of a tab or by the keyring.  The connector surface of a launcher    *)
(* pairs with one Hestia node and sends it the outbox, under the lock       *)
(* "app-lifecycle" (launcher.js, hestia-client.js).  A tab may be closed at *)
(* any time, and frees its locks; an IndexedDB transaction is atomic.       *)
(*                                                                         *)
(* A hash stands for all that it hashes: an inclusion is written as the     *)
(* sequence of the actions up to its own.                                   *)
(***************************************************************************)
EXTENDS Naturals, Sequences, FiniteSets, SequencesExt

CONSTANTS
  Pages,          \* tabs of the studio
  Launchers,      \* pages with the connector surface
  Acts,           \* signed actions, by id
  Profiles,       \* what the profile may hold at first: "new", "legacy", "signed"
  OldActs,        \* the actions of such an older profile, in order
  MaxControllers, \* bound of the keys that are made
  MaxUpsets,      \* bound of closed tabs, timeouts and failed requests
  None

\* The records of the stores: a link of the chain, and the owner's identity.
Inclusions == [acts : Seq(Acts), key : Nat, signed : BOOLEAN]
Owners == [key : Nat, extractable : BOOLEAN, bridge : Seq(Acts)]

ASSUME ChainAssumption ==
  /\ Profiles \subseteq {"new", "legacy", "signed"}
  /\ OldActs \in Seq(Acts) /\ IsInjective(OldActs)
  /\ {MaxControllers, MaxUpsets} \subseteq Nat
  /\ None \notin Pages \cup Launchers \cup Nat
  /\ None \notin Inclusions /\ None \notin Owners

VARIABLES
  owner,      \* "identity" store: key, whether extractable, migration bridge
  actions,    \* "actions" store
  inclusions, \* "inclusions" store
  outbox,     \* "outbox" store
  conn,       \* a connection is stored in "settings"
  granted,    \* the extension may reach the origin of the node
  lock,       \* which page holds "personal-chain"
  turn,       \* which launcher holds "app-lifecycle"
  pc,         \* where a tab is
  mem,        \* what a tab holds: key, action, read records, state.inclusions
  keyring,    \* the key that the keyring surface is about to store, or None
  lpc, batch, \* where a connector surface is, and what it has sent
  posts,      \* batches on their way to the node
  retained,   \* inclusions that the node retains
  refused,    \* the node has refused a batch
  keysMade, upsets

disk == <<owner, actions, inclusions, outbox>>
tabs == <<lock, pc, mem, keyring, keysMade>>
connector == <<conn, granted, turn, lpc, batch, posts, retained, refused>>
chainVars == <<disk, tabs, connector, upsets>>

-----------------------------------------------------------------------------
(* The chain. *)

\* createSyncEntry and the outbox key both name the inclusion.
Inclusion(acts, key, signed) == [acts |-> acts, key |-> key, signed |-> signed]
Sequence(i) == Len(i.acts)
Previous(i) == [i EXCEPT !.acts = Front(@)]
Links(key, acts, signed) == {Inclusion(SubSeq(acts, 1, n), key, signed) : n \in 1 .. Len(acts)}

\* inclusions.sort(...).at(-1)
HeadOf(set) == IF set = {} THEN None
               ELSE CHOOSE i \in set : \A j \in set : Sequence(j) <= Sequence(i)

\* includeAction()
Include(head, key, a) ==
  Inclusion(Append(IF head = None THEN <<>> ELSE head.acts, a), key, TRUE)

\* verifyPersonalChain() and the continuity check of legacy inclusions: the
\* sequences are 1, 2, ..., and each link names the hash before it.
IsChain(set) ==
  /\ \A i, j \in set : Sequence(i) = Sequence(j) => i = j
  /\ \A i \in set : Sequence(i) = 1 \/ Previous(i) \in set

\* Every action has the schema of actions and the key of the owner.
OwnActions(o, as) == \A a \in as : a.key = o.key
\* The migrations that the owner's record tells of lead to a link of the signed chain.
BridgeHolds(o, is) == o.bridge # <<>> => \E i \in is : i.signed /\ i.acts = o.bridge

\* What load() accepts: every action is the owner's, the inclusions are all of
\* one kind and one chain, and name each action once; the outbox holds some of
\* them; a bridge maps the beginning of the signed chain.
Loadable(o, as, is, out) ==
  IF o = None THEN as = {} /\ is = {} /\ out = {}
  ELSE /\ OwnActions(o, as)
       /\ \A i, j \in is : i.signed = j.signed
       /\ IsChain(is)
       /\ \A i \in is : i.key = o.key /\ IsInjective(i.acts)
       /\ {a.id : a \in as} = {Last(i.acts) : i \in is}
       /\ out \subseteq is
       /\ BridgeHolds(o, is)

Kind == IF inclusions = {} THEN "empty"
        ELSE IF \A i \in inclusions : i.signed THEN "current" ELSE "legacy"

\* orderSyncEntries(): signed entries, one contiguous segment.
Batchable(set) ==
  /\ \A i \in set : i.signed
  /\ \A i, j \in set : i.key = j.key /\ (Sequence(i) = Sequence(j) => i = j)
  /\ \A i \in set : Previous(i) \in set \/ \A j \in set : Sequence(i) <= Sequence(j)

-----------------------------------------------------------------------------
InitDisk(profile) ==
  IF profile = "new"
    THEN owner = None /\ actions = {} /\ inclusions = {} /\ outbox = {} /\ keysMade = 0
    ELSE /\ owner = [key |-> 1, extractable |-> TRUE, bridge |-> <<>>]
         /\ actions = {[id |-> OldActs[n], key |-> 1] : n \in DOMAIN OldActs}
         /\ inclusions = Links(1, OldActs, profile = "signed")
         /\ outbox = {HeadOf(inclusions)} \ {None}
         /\ keysMade = 1

\* The node has the signed links of the profile that do not wait for it.
ChainInit ==
  /\ \E profile \in Profiles : InitDisk(profile)
  /\ conn = FALSE /\ granted = FALSE
  /\ lock = None /\ turn = None
  /\ pc = [p \in Pages |-> "closed"]
  /\ mem = [p \in Pages |-> None]
  /\ keyring = None
  /\ lpc = [l \in Launchers |-> "idle"]
  /\ batch = [l \in Launchers |-> {}]
  /\ posts = {} /\ refused = FALSE
  /\ retained = {i \in inclusions \ outbox : i.signed}
  /\ upsets = 0

Upset == upsets < MaxUpsets /\ upsets' = upsets + 1
Go(p, step) == pc' = [pc EXCEPT ![p] = step]

\* withOriginLock("personal-chain", ...): mutant of MayLock: without it.
AnyTime == TRUE
MayLock == lock = None

-----------------------------------------------------------------------------
(* A tab opens: load(), migrateLegacyIdentityAndPersonalChain(). *)

Read(p) == mem' = [mem EXCEPT ![p] = [owner |-> owner, is |-> inclusions, out |-> outbox]]

Open(p) ==
  /\ pc[p] = "closed" /\ Go(p, "loading")
  /\ UNCHANGED <<disk, lock, mem, keyring, keysMade, connector, upsets>>

\* Under the lock: all stores are read and checked.  Bad state is left alone.
Migrate(p) ==
  /\ pc[p] = "loading" /\ MayLock
  /\ \/ /\ ~Loadable(owner, actions, inclusions, outbox)
        /\ Go(p, "recovery") /\ UNCHANGED <<lock, mem>>
     \/ /\ Loadable(owner, actions, inclusions, outbox)
        /\ IF owner = None \/ (Kind # "legacy" /\ ~owner.extractable)
             THEN Go(p, "loaded") /\ UNCHANGED <<lock, mem>>
             ELSE Go(p, "migrating") /\ lock' = p /\ Read(p)
  /\ UNCHANGED <<disk, keyring, keysMade, connector, upsets>>

Signed(set) == {[i EXCEPT !.signed = TRUE] : i \in set}

\* Mutant of Requeued: only what was pending is queued again.
PendingOnly(read) == Signed(read.out)
Requeued(read) ==
  IF \A i \in read.is : i.signed THEN read.out ELSE Signed(read.is)

Bridge(read) ==
  IF \A i \in read.is : i.signed THEN read.owner.bridge ELSE HeadOf(read.is).acts

\* The key that signs is checked against the record, and stored as one that cannot be
\* exported.
Hardened(o) == [o EXCEPT !.extractable = FALSE]

\* replacePersonalChain(): the record of the owner and both stores, at once.
ReplaceChain(p) ==
  LET read == mem[p] IN
  /\ pc[p] = "migrating" /\ Go(p, "loaded")
  /\ owner' = [Hardened(read.owner) EXCEPT !.bridge = Bridge(read)]
  /\ inclusions' = Signed(read.is)
  /\ outbox' = Requeued(read)
  /\ lock' = None
  /\ UNCHANGED <<actions, mem, keyring, keysMade, connector, upsets>>

\* What a tab holds that is not recording an action: its key and the chain it knows.
Resting(key, known) == [key |-> key, known |-> known, act |-> None, read |-> {}]

\* The rest of load() reads the stores without the lock.
KeyOf(o) == IF o = None THEN None ELSE o.key
LoadState(p) ==
  /\ pc[p] = "loaded" /\ Go(p, "ready")
  /\ mem' = [mem EXCEPT ![p] = Resting(KeyOf(owner), inclusions)]
  /\ UNCHANGED <<disk, lock, keyring, keysMade, connector, upsets>>

\* A closed tab frees the lock it holds.
Close(p) ==
  /\ pc[p] # "closed" /\ Upset /\ Go(p, "closed")
  /\ mem' = [mem EXCEPT ![p] = None]
  /\ lock' = IF lock = p THEN None ELSE lock
  /\ UNCHANGED <<disk, keyring, keysMade, connector>>

-----------------------------------------------------------------------------
(* The owner's key. *)

NewOwner(key) == [key |-> key, extractable |-> FALSE, bridge |-> <<>>]
MakesKey == keysMade < MaxControllers /\ keysMade' = keysMade + 1

\* createIdentitySubmit(): the form of a tab that has seen no identity.
SubmitIdentity(p) ==
  /\ pc[p] = "ready" /\ mem[p].key = None
  /\ MakesKey
  /\ mem' = [mem EXCEPT ![p].key = keysMade']
  /\ Go(p, "creating")
  /\ UNCHANGED <<disk, lock, keyring, connector, upsets>>

StoreIdentity(p) ==
  /\ pc[p] = "creating" /\ Go(p, "ready")
  /\ owner' = NewOwner(mem[p].key)
  /\ UNCHANGED <<actions, inclusions, outbox, lock, mem, keyring, keysMade, connector, upsets>>

\* createController(), under the lock "keyring": an existing key is kept.
CreateController ==
  /\ keyring = None /\ owner = None
  /\ MakesKey /\ keyring' = keysMade'
  /\ UNCHANGED <<disk, lock, pc, mem, connector, upsets>>

StoreController ==
  /\ keyring # None /\ keyring' = None
  /\ owner' = NewOwner(keyring)
  /\ UNCHANGED <<actions, inclusions, outbox, lock, pc, mem, keysMade, connector, upsets>>

-----------------------------------------------------------------------------
(* record() and retainSignedAction(). *)

Used == {a.id : a \in actions} \cup {mem[p].act : p \in {q \in Pages : pc[q] \in {"wanting", "recording"}}}

\* The operations of a tab follow one another.
Submit(p, a) ==
  /\ pc[p] = "ready" /\ mem[p].key # None /\ a \notin Used
  /\ Go(p, "wanting")
  /\ mem' = [mem EXCEPT ![p].act = a]
  /\ UNCHANGED <<disk, lock, keyring, keysMade, connector, upsets>>

\* storedSignedRecords(); a chain of another key is not continued.
BeginRecord(p) ==
  LET head == HeadOf(inclusions) IN
  /\ pc[p] = "wanting" /\ MayLock
  /\ IF head # None /\ head.key # mem[p].key
       THEN Go(p, "ready") /\ mem' = [mem EXCEPT ![p].act = None] /\ UNCHANGED lock
       ELSE /\ Go(p, "recording") /\ lock' = p
            /\ mem' = [mem EXCEPT ![p].read = inclusions]
  /\ UNCHANGED <<disk, keyring, keysMade, connector, upsets>>

\* Mutant of HeadFor: the page goes on from the chain it has in memory.
KnownHead(p) == HeadOf(mem[p].known)
HeadFor(p) == HeadOf(mem[p].read)

\* putSignedRecord(): the three stores at once.
PutRecord(p) ==
  LET i == Include(HeadFor(p), mem[p].key, mem[p].act) IN
  /\ pc[p] = "recording" /\ Go(p, "ready")
  /\ actions' = actions \cup {[id |-> mem[p].act, key |-> mem[p].key]}
  /\ inclusions' = inclusions \cup {i}
  /\ outbox' = outbox \cup {i}
  /\ mem' = [mem EXCEPT ![p] = Resting(@.key, @.read \cup {i})]
  /\ lock' = None
  /\ UNCHANGED <<owner, keyring, keysMade, connector, upsets>>

-----------------------------------------------------------------------------
(* The connector surface. *)

Surface(l, step) == lpc' = [lpc EXCEPT ![l] = step]

\* pair(): access is asked for first; the rest is under the lock.
AskAccess(l) ==
  /\ lpc[l] = "idle" /\ Surface(l, "pairing") /\ granted' = TRUE
  /\ UNCHANGED <<disk, tabs, conn, turn, batch, posts, retained, refused, upsets>>

PairNode(l) ==
  /\ lpc[l] = "pairing" /\ turn = None
  /\ Surface(l, "idle") /\ conn' = TRUE
  /\ UNCHANGED <<disk, tabs, granted, turn, batch, posts, retained, refused, upsets>>

\* A failure after the stored connection was read leaves its access; before
\* that, the surface knows of none.
PairFails(l) ==
  /\ lpc[l] = "pairing" /\ turn = None /\ Upset
  /\ Surface(l, "idle")
  /\ \/ conn /\ UNCHANGED granted
     \/ granted' = FALSE
  /\ UNCHANGED <<disk, tabs, conn, turn, batch, posts, retained, refused>>

\* clearHestiaConnection(), from disconnect() or removeApp(): the access goes
\* first, and the page may be closed before the record goes too.
Disconnect(l) ==
  /\ lpc[l] = "idle" /\ turn = None /\ conn
  /\ granted' = FALSE
  /\ \/ conn' = FALSE /\ UNCHANGED upsets
     \/ Upset /\ UNCHANGED conn
  /\ UNCHANGED <<disk, tabs, turn, lpc, batch, posts, retained, refused>>

\* sync(): the outbox is read and sent in the order of the chain.
Sync(l) ==
  /\ lpc[l] = "idle" /\ turn = None /\ conn /\ granted
  /\ outbox # {} /\ Batchable(outbox)
  /\ Surface(l, "posting") /\ turn' = l
  /\ batch' = [batch EXCEPT ![l] = outbox]
  /\ posts' = posts \cup {outbox}
  /\ UNCHANGED <<disk, tabs, conn, granted, retained, refused, upsets>>

\* The node (external, protocol/hestia.md): it keeps one chain for each key and
\* accepts again what it retains.
Fits(b) ==
  /\ \A i \in b : i \in retained \/ \A j \in retained : j.key = i.key => Sequence(j) # Sequence(i)
  /\ \A i \in b : Sequence(i) = 1 \/ Previous(i) \in b \cup retained

NodeAnswers(b) ==
  /\ b \in posts /\ posts' = posts \ {b}
  /\ retained' = IF Fits(b) THEN retained \cup b ELSE retained
  /\ refused' = (refused \/ ~Fits(b))
  /\ lpc' = [l \in Launchers |->
              IF lpc[l] = "posting" /\ batch[l] = b
              THEN IF Fits(b) THEN "accepted" ELSE "kept" ELSE lpc[l]]
  /\ UNCHANGED <<disk, tabs, conn, granted, turn, batch, upsets>>

EndSync(l) ==
  /\ Surface(l, "idle") /\ turn' = None
  /\ batch' = [batch EXCEPT ![l] = {}]

\* Mutant of Acknowledged: the store is cleared.
WholeOutbox(l) == outbox
Acknowledged(l) == batch[l]

DeleteSent(l) ==
  /\ lpc[l] = "accepted" /\ EndSync(l)
  /\ outbox' = outbox \ Acknowledged(l)
  /\ UNCHANGED <<owner, actions, inclusions, tabs, conn, granted, posts, retained, refused, upsets>>

\* The node refuses, the request times out, or the launcher is closed: the outbox
\* is kept.  The batch may still arrive.
SyncFails(l) ==
  /\ \/ lpc[l] = "kept" /\ UNCHANGED upsets
     \/ lpc[l] \in {"posting", "accepted"} /\ Upset
  /\ EndSync(l)
  /\ UNCHANGED <<disk, tabs, conn, granted, posts, retained, refused>>

-----------------------------------------------------------------------------
TabNext(p) ==
  \/ Open(p) \/ Migrate(p) \/ ReplaceChain(p) \/ LoadState(p) \/ Close(p)
  \/ SubmitIdentity(p) \/ StoreIdentity(p)
  \/ (\E a \in Acts : Submit(p, a)) \/ BeginRecord(p) \/ PutRecord(p)

ConnectorNext(l) ==
  \/ AskAccess(l) \/ PairNode(l) \/ PairFails(l) \/ Disconnect(l)
  \/ Sync(l) \/ DeleteSent(l) \/ SyncFails(l)

ChainNext ==
  \/ \E p \in Pages : TabNext(p)
  \/ CreateController \/ StoreController
  \/ \E l \in Launchers : ConnectorNext(l)
  \/ \E b \in posts : NodeAnswers(b)

ChainSpec == ChainInit /\ [][ChainNext]_chainVars

-----------------------------------------------------------------------------
(* Properties. *)

ChainTypeOK ==
  /\ owner \in Owners \cup {None}
  /\ actions \in SUBSET [id : Acts, key : Nat]
  /\ inclusions \in SUBSET Inclusions /\ outbox \subseteq inclusions
  /\ conn \in BOOLEAN /\ granted \in BOOLEAN /\ refused \in BOOLEAN
  /\ lock \in Pages \cup {None} /\ turn \in Launchers \cup {None}
  /\ pc \in [Pages -> {"closed", "loading", "recovery", "migrating", "loaded",
                       "ready", "creating", "wanting", "recording"}]
  /\ mem \in [Pages -> [owner : Owners, is : SUBSET Inclusions, out : SUBSET Inclusions]
                         \cup [key : Nat \cup {None}, known : SUBSET Inclusions,
                               act : Acts \cup {None}, read : SUBSET Inclusions]
                         \cup {None}]
  /\ keyring \in Nat \cup {None}
  /\ lpc \in [Launchers -> {"idle", "pairing", "posting", "accepted", "kept"}]
  /\ batch \in [Launchers -> SUBSET Inclusions]
  /\ posts \in SUBSET SUBSET Inclusions /\ retained \subseteq Inclusions
  /\ keysMade \in Nat /\ upsets \in 0 .. MaxUpsets

\* The stored inclusions are one chain: tabs that sign at the same time, that
\* migrate while others sign, or that are closed on the way never fork it,
\* leave a gap, or include an action twice (app.js:66-112).
ChainIsLinear ==
  /\ IsChain(inclusions)
  /\ \A i \in inclusions : IsInjective(i.acts)

\* A signed link leaves the outbox only when the node retains it, whatever was
\* signed, migrated or lost while the batch was on its way (launcher.js:399-400).
KeptUntilAcknowledged ==
  \A i \in inclusions : i.signed => i \in outbox \cup retained

\* The node never has a reason to refuse a batch: each one goes on where the
\* chain it retains ends, after a migration and after lost answers too
\* (hestia-client.js:66-84, identity-migration.js:553-558).
EveryBatchFits == ~refused

\* What is stored can be opened again at any time: the steps of tabs, connector
\* and migration never leave records that load() refuses (identity-migration.js:460-556).
ProfileLoads == Loadable(owner, actions, inclusions, outbox)

\* The controller key of a profile is never replaced (protocol/keyring.md:38, :119).
\* Violated with two controllers: onboarding and createController each store their own.
ControllerKept == [][owner # None => owner'.key = owner.key]_chainVars
=============================================================================
