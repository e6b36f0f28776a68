------------------------ MODULE ProviderInvocations ------------------------
(***************************************************************************)
(* The ledger of services/greenwaysd: what the daemon writes before and    *)
(* after it spends a provider credential, so that a request that is sent   *)
(* again is answered from the ledger and not by a second billable call.    *)
(*                                                                         *)
(* Connection threads read the clock, wait for the daemon's mutex and are  *)
(* handled one at a time.  A handler looks its request up, checks the      *)
(* application's authority at the time it read, writes a claim, calls the  *)
(* provider and replaces the claim with a receipt.  A write fails before   *)
(* its rename or after it; the daemon stops anywhere and starts again from *)
(* its state file; greenways-admin revokes the authority, having looked    *)
(* once that the daemon is stopped.                                        *)
(***************************************************************************)
EXTENDS Integers, Sequences, FiniteSets

CONSTANTS Requests,     \* requests that clients send: an id, a content, an actor
          ProviderCalls,\* the provider.invoke requests; the others are ordinary
          Ids,          \* request ids
          IdOf,         \* the id of each request
          MaxReceipts,  \* MAX_RECEIPTS
          MaxClaims,    \* MAX_PROVIDER_INVOCATION_CLAIMS
          ExpiresAt,    \* the grant's expiry
          MaxTime       \* bound on the clock

ASSUME LedgerAssumption ==
  /\ ProviderCalls \subseteq Requests
  /\ IdOf \in [Requests -> Ids]
  /\ MaxReceipts \in Nat \ {0}
  /\ MaxClaims \in Nat \ {0}
  /\ ExpiresAt \in Nat \ {0}
  /\ MaxTime \in Nat

VARIABLES
  now,        \* the clock of the machine
  disk,       \* the ledger in the state file
  mem,        \* the ledger the running daemon holds
  phase,      \* the daemon: down, listening but not opened, or open
  sent,       \* the time each request's connection read, while it waits
  run,        \* the provider invocation that holds the mutex
  revokedAt,  \* the revocation in the authority files
  known,      \* the revocation as the running daemon loaded it
  admin,      \* greenways-admin: idle, or sure that the daemon is stopped
  called,     \* history: ids for which the vault has been asked
  evicted,    \* history: ids whose record was trimmed since
  told,       \* history: the definitive answer each request was given
  overlapped  \* history: a revocation was written while a daemon was open

vars == <<now, disk, mem, phase, sent, run, revokedAt, known, admin,
          called, evicted, told, overlapped>>
-----------------------------------------------------------------------------
Never == MaxTime + 1
Results == {"ok", "error"}
Receipts == [req : Requests, result : Results, at : Nat]
Claims == [req : ProviderCalls, at : Nat]
Ledgers == [receipts : Seq(Receipts), claims : SUBSET Claims]
NoLedger == [receipts |-> <<>>, claims |-> {}]
Idle == [step |-> "idle"]
Prepared(c) == [step |-> "prepared", claim |-> c]
Called(c, o) == [step |-> "called", claim |-> c, outcome |-> o]

ReceiptAt(l, i) == {k \in DOMAIN l.receipts : IdOf[l.receipts[k].req] = i}
ClaimsOf(l, i) == {c \in l.claims : IdOf[c.req] = i}
Records(l, i) == ReceiptAt(l, i) # {} \/ ClaimsOf(l, i) # {}

\* validate_state: no id owns two records.
UniqueIds(l) ==
  /\ \A j, k \in DOMAIN l.receipts :
       IdOf[l.receipts[j].req] = IdOf[l.receipts[k].req] => j = k
  /\ \A c, d \in l.claims : IdOf[c.req] = IdOf[d.req] => c = d
  /\ \A i \in Ids : ReceiptAt(l, i) = {} \/ ClaimsOf(l, i) = {}

\* validate_provider_authority_references: the authority that a record names was
\* active at the time the record says.
ActiveAt(t, r) == t < ExpiresAt /\ t < r
ReferencesHold(l, r) ==
  /\ \A k \in DOMAIN l.receipts :
       l.receipts[k].req \in ProviderCalls => ActiveAt(l.receipts[k].at, r)
  /\ \A c \in l.claims : ActiveAt(c.at, r)

TypeOK ==
  /\ now \in Nat
  /\ disk \in Ledgers /\ Len(disk.receipts) <= MaxReceipts
  /\ mem \in Ledgers /\ Len(mem.receipts) <= MaxReceipts
  /\ phase \in {"down", "bound", "open"}
  /\ sent \in [Requests -> Nat \cup {Never}]
  /\ run \in {Idle} \cup [step : {"prepared"}, claim : Claims]
       \cup [step : {"called"}, claim : Claims, outcome : Results \cup {"uncertain"}]
  /\ revokedAt \in Nat /\ known \in Nat
  /\ admin \in {"idle", "checked"}
  /\ called \subseteq Ids /\ evicted \subseteq Ids
  /\ told \in [Requests -> Results \cup {"none"}]
  /\ overlapped \in BOOLEAN

Init ==
  /\ now = 0
  /\ disk = NoLedger /\ mem = NoLedger
  /\ phase = "down"
  /\ sent = [r \in Requests |-> Never]
  /\ run = Idle
  /\ revokedAt = Never /\ known = Never
  /\ admin = "idle"
  /\ called = {} /\ evicted = {}
  /\ told = [r \in Requests |-> "none"]
  /\ overlapped = FALSE
-----------------------------------------------------------------------------
(* Writing the ledger.                                                      *)

\* trim_receipts_to_fit: the oldest receipts go until the count fits, and more
\* of them while the encoded state is too large; the newest one always fits.
Trims(s) ==
  IF s = <<>> THEN {s}
  ELSE {SubSeq(s, k, Len(s)) : k \in {j \in 1..Len(s) : Len(s) - j < MaxReceipts}}

\* write_state validates, and fails before its rename or after it.  After a
\* failure the daemon goes back to the ledger it had.
Outcomes == {"written", "unwritten", "unsynced"}
CommittedAnyway(outcome) == TRUE
Committed(outcome) == outcome = "written"
Write(next, outcome) ==
  /\ outcome \in Outcomes
  /\ outcome = "unwritten" \/ UniqueIds(next)
  /\ disk' = IF outcome = "unwritten" THEN disk ELSE next
  /\ mem' = IF Committed(outcome) THEN next ELSE mem

\* The ids whose receipt the state file loses by this write.
Loses(next, outcome) ==
  IF outcome = "unwritten" THEN {}
  ELSE {i \in Ids : Records(mem, i) /\ ~Records(next, i)}
-----------------------------------------------------------------------------
(* Connections.                                                             *)

\* handle_connection reads the clock before it waits for the mutex.
Send(r) ==
  /\ phase = "open"
  /\ sent[r] = Never
  /\ sent' = [sent EXCEPT ![r] = now]
  /\ UNCHANGED <<now, disk, mem, phase, run, revokedAt, known, admin,
                 called, evicted, told, overlapped>>

\* The request's connection has the mutex.
Held(r) == phase = "open" /\ run = Idle /\ sent[r] # Never
Answered(r) == sent' = [sent EXCEPT ![r] = Never]

\* A definitive answer; for the first record of an id it replaces what was told
\* when an older record of that id was there.
Tell(r, a) == told' = [told EXCEPT ![r] = a]
TellFirst(r, a) ==
  told' = [x \in Requests |->
             IF x = r THEN a ELSE IF IdOf[x] = IdOf[r] THEN "none" ELSE told[x]]

\* A receipt of this exact request is replayed; of another it is a collision.
AnyRequest(r, x) == TRUE
SameRequest(r, x) == x = r
Replay(r) ==
  /\ Held(r)
  /\ \E k \in ReceiptAt(mem, IdOf[r]) :
       IF SameRequest(r, mem.receipts[k].req)
         THEN Tell(r, mem.receipts[k].result)
         ELSE UNCHANGED told
  /\ Answered(r)
  /\ UNCHANGED <<now, disk, mem, phase, run, revokedAt, known, admin,
                 called, evicted, overlapped>>

\* A claim answers uncertain, or collision; ordinary requests do not look here.
FindsClaim(r) ==
  /\ Held(r) /\ r \in ProviderCalls
  /\ ReceiptAt(mem, IdOf[r]) = {}
  /\ ClaimsOf(mem, IdOf[r]) # {}
  /\ Answered(r)
  /\ UNCHANGED <<now, disk, mem, phase, run, revokedAt, known, admin,
                 called, evicted, told, overlapped>>

UnrecordedReceipt(r) == ReceiptAt(mem, IdOf[r]) = {}
Unrecorded(r) == ReceiptAt(mem, IdOf[r]) = {} /\ ClaimsOf(mem, IdOf[r]) = {}

\* authorize_exact and authorize_provider_invocation: a revocation that the
\* daemon knows denies whatever its time; an expiry counts at the time read.
AuthorizedUnlessRevoked(r) == known = Never
Authorized(r) == known = Never /\ sent[r] < ExpiresAt

\* Denied, or the claim ledger is full: nothing is written.
Refuse(r) ==
  /\ Held(r) /\ r \in ProviderCalls
  /\ Unrecorded(r)
  /\ ~Authorized(r) \/ Cardinality(mem.claims) >= MaxClaims
  /\ Answered(r)
  /\ UNCHANGED <<now, disk, mem, phase, run, revokedAt, known, admin,
                 called, evicted, told, overlapped>>
-----------------------------------------------------------------------------
(* A provider invocation: claim, call, receipt.                             *)

\* prepare_provider_invocation.  The handler goes on only when the claim is durable.
Prepare(r) ==
  /\ Held(r) /\ r \in ProviderCalls
  /\ Unrecorded(r)
  /\ Authorized(r)
  /\ Cardinality(mem.claims) < MaxClaims
  /\ \E outcome \in Outcomes, kept \in Trims(mem.receipts) :
       LET claim == [req |-> r, at |-> sent[r]]
           next == [receipts |-> kept, claims |-> mem.claims \cup {claim}]
       IN /\ Write(next, outcome)
          /\ evicted' = evicted \cup Loses(next, outcome)
          /\ IF Committed(outcome)
               THEN run' = Prepared(claim) /\ UNCHANGED sent
               ELSE Answered(r) /\ UNCHANGED run
  /\ UNCHANGED <<now, phase, revokedAt, known, admin, called, told, overlapped>>

\* vault.invoke: an answer, a definitive error, or no way to know.
Call ==
  /\ run.step = "prepared"
  /\ \E outcome \in Results \cup {"uncertain"} : run' = Called(run.claim, outcome)
  /\ called' = called \cup {IdOf[run.claim.req]}
  /\ evicted' = evicted \ {IdOf[run.claim.req]}
  /\ TellFirst(run.claim.req, "none")
  /\ UNCHANGED <<now, disk, mem, phase, sent, revokedAt, known, admin, overlapped>>

\* An uncertain outcome keeps the claim, for good.
KeepClaim ==
  /\ run.step = "called" /\ run.outcome = "uncertain"
  /\ run' = Idle
  /\ Answered(run.claim.req)
  /\ UNCHANGED <<now, disk, mem, phase, revokedAt, known, admin,
                 called, evicted, told, overlapped>>

\* complete_provider_invocation: the receipt takes the claim's place.  A failed
\* write answers daemon-unavailable and leaves the claim in memory.
Receipted(claim, result) ==
  [req |-> claim.req, result |-> result, at |-> claim.at]
Complete ==
  /\ run.step = "called" /\ run.outcome \in Results
  /\ \E outcome \in Outcomes,
        kept \in Trims(Append(mem.receipts, Receipted(run.claim, run.outcome))) :
       LET next == [receipts |-> kept, claims |-> mem.claims \ {run.claim}]
       IN /\ Write(next, outcome)
          /\ evicted' = evicted \cup Loses(next, outcome)
          /\ IF Committed(outcome) THEN Tell(run.claim.req, run.outcome)
                                    ELSE UNCHANGED told
  /\ run' = Idle
  /\ Answered(run.claim.req)
  /\ UNCHANGED <<now, phase, revokedAt, known, admin, called, overlapped>>

\* An ordinary request is done in memory and its receipt committed before it is
\* answered.  One that takes the id of a claim fails in write_state.
Commit(r) ==
  /\ Held(r) /\ r \notin ProviderCalls
  /\ ReceiptAt(mem, IdOf[r]) = {}
  /\ \E outcome \in Outcomes,
        kept \in Trims(Append(mem.receipts, [req |-> r, result |-> "ok", at |-> 0])) :
       LET next == [mem EXCEPT !.receipts = kept]
       IN /\ Write(next, outcome)
          /\ IF Committed(outcome)
               THEN /\ evicted' = (evicted \cup Loses(next, outcome)) \ {IdOf[r]}
                    /\ TellFirst(r, "ok")
               ELSE /\ evicted' = evicted \cup Loses(next, outcome)
                    /\ UNCHANGED told
  /\ Answered(r)
  /\ UNCHANGED <<now, phase, run, revokedAt, known, admin, called, overlapped>>
-----------------------------------------------------------------------------
(* Starting and stopping, the administrator and the clock.                  *)

\* serve_unix listens before Daemon::open, so a client that connects finds it.
Bind ==
  /\ phase = "down"
  /\ phase' = "bound"
  /\ UNCHANGED <<now, disk, mem, sent, run, revokedAt, known, admin,
                 called, evicted, told, overlapped>>

\* Daemon::open_at: load, validate, check references, write back.
Opens(l, r) == UniqueIds(l) /\ ReferencesHold(l, r)
OpenDaemon ==
  /\ phase = "bound"
  /\ Opens(disk, revokedAt)
  /\ phase' = "open"
  /\ mem' = disk
  /\ known' = revokedAt
  /\ UNCHANGED <<now, disk, sent, run, revokedAt, admin,
                 called, evicted, told, overlapped>>

\* The daemon exits: an error of Daemon::open, a signal, a crash.  Its process
\* ends in one millisecond and no process that sees it gone starts in the same.
Stop ==
  /\ phase # "down"
  /\ now < MaxTime
  /\ now' = now + 1
  /\ phase' = "down"
  /\ mem' = NoLedger
  /\ sent' = [r \in Requests |-> Never]
  /\ run' = Idle
  /\ known' = Never
  /\ UNCHANGED <<disk, revokedAt, admin, called, evicted, told, overlapped>>

\* assert_daemon_stopped finds no one listening.
Check ==
  /\ admin = "idle"
  /\ phase = "down"
  /\ admin' = "checked"
  /\ UNCHANGED <<now, disk, mem, phase, sent, run, revokedAt, known,
                 called, evicted, told, overlapped>>

\* The command reads the clock, signs and persists; a repeated revocation returns
\* the first.  It does not look at the socket again.
Revoke ==
  /\ admin = "checked"
  /\ admin' = "idle"
  /\ revokedAt' = IF revokedAt = Never THEN now ELSE revokedAt
  /\ overlapped' = (overlapped \/ phase = "open")
  /\ UNCHANGED <<now, disk, mem, phase, sent, run, known, called, evicted, told>>

Tick ==
  /\ now < MaxTime
  /\ now' = now + 1
  /\ UNCHANGED <<disk, mem, phase, sent, run, revokedAt, known, admin,
                 called, evicted, told, overlapped>>

Next ==
  \/ \E r \in Requests : \/ Send(r) \/ Replay(r) \/ FindsClaim(r) \/ Refuse(r)
                         \/ Prepare(r) \/ Commit(r)
  \/ Call \/ KeepClaim \/ Complete
  \/ Bind \/ OpenDaemon \/ Stop \/ Check \/ Revoke \/ Tick

Spec == Init /\ [][Next]_vars
-----------------------------------------------------------------------------
(* What the ledger is for.                                                  *)

\* An id owns at most one record, on disk and in memory, whatever fails: an
\* ordinary request cannot take the id of a claim, nor a claim that of a receipt.
OneRecordPerId == UniqueIds(disk) /\ UniqueIds(mem)

\* A provider call that may have happened is recorded in the state file, before
\* it starts, while it runs and after every failed write and restart, until its
\* receipt is trimmed.
CallRecorded == \A i \in called \ evicted : Records(disk, i)

\* The provider is not called again for an id that has been called for, unless
\* the receipt of that id was trimmed in between.
CalledOnce ==
  [][run.step = "prepared" /\ run'.step = "called"
       => IdOf[run.claim.req] \notin called \ evicted]_vars

\* What a client was told as definitive is in the state file, so that a restart
\* cannot make the daemon answer otherwise, until the receipt is trimmed.
ToldIsDurable ==
  \A r \in Requests :
    told[r] # "none" /\ IdOf[r] \notin evicted =>
      \E k \in DOMAIN disk.receipts :
        disk.receipts[k].req = r /\ disk.receipts[k].result = told[r]

\* The state file is one that the daemon opens again, unless greenways-admin
\* wrote a revocation while a daemon was open.
Reopens == Opens(disk, revokedAt) \/ overlapped

\* protocol/provider-invoke.md:177, "An identical completed request from the same
\* actor replays its stored result without another provider call": violated, the
\* sixty-fourth later receipt pushes the stored result out.
NeverCalledAgain ==
  [][run.step = "prepared" /\ run'.step = "called"
       => IdOf[run.claim.req] \notin called]_vars

\* protocol/provider-invoke.md:173, after a revocation "new calls are denied":
\* violated when the daemon starts between greenways-admin's look at the socket
\* and its write, and goes on with the authority it loaded.
NewCallsDenied ==
  [][run.step = "idle" /\ run'.step = "prepared" => revokedAt = Never]_vars
=============================================================================
