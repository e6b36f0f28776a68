---------------------------- MODULE DaemonProofs ----------------------------
(***************************************************************************)
(* Proofs about the two models of greenwaysd.                              *)
(*                                                                         *)
(* ProviderInvocations, for every set of requests, every limit and every   *)
(* lifetime: type correctness, one record per id, no second call while a   *)
(* record is kept, what was told is durable, and the daemon opens the      *)
(* state file it leaves.                                                   *)
(*                                                                         *)
(* DaemonBridge (from "The connection card" on), for every number of       *)
(* hosts, requests and failures: the card shows what its host holds, and   *)
(* no session of the daemon is left open without a host.                   *)
(***************************************************************************)
EXTENDS ProviderInvocations, DaemonBridge, TLAPS

\* The receipts of a ledger, without their order.
ReceiptsOf(l) == {l.receipts[k] : k \in DOMAIN l.receipts}

\* The clock stays in its bound, and no waiting request read a later time.
TimesRead ==
  /\ now <= MaxTime
  /\ \A r \in Requests : sent[r] = Never \/ sent[r] <= now

\* CallRecorded, in memory too while the daemon is open.
CallsKept ==
  /\ CallRecorded
  /\ phase = "open" => \A i \in called \ evicted : Records(mem, i)

\* The claim of the invocation that runs is durable, and before the call its id
\* has not been called for.
RunHolds ==
  run.step # "idle" =>
    /\ phase = "open"
    /\ run.claim \in mem.claims /\ run.claim \in disk.claims
    /\ run.step = "prepared" => IdOf[run.claim.req] \notin called \ evicted

\* What was told is in memory too, and what is in memory is on disk, but for what
\* a write that failed after its rename has trimmed.
ToldKept ==
  /\ ToldIsDurable
  /\ phase = "open" =>
       /\ \A r \in Requests :
            told[r] # "none" /\ IdOf[r] \notin evicted =>
              \E x \in ReceiptsOf(mem) : x.req = r /\ x.result = told[r]
       /\ \A x \in ReceiptsOf(mem) : IdOf[x.req] \in evicted \/ x \in ReceiptsOf(disk)

\* A daemon knows the revocation there is, and every record names a time at which
\* the authority was active, and one before the daemon stopped.
GoodRecord(x) ==
  x.req \in ProviderCalls => x.at <= now /\ (overlapped \/ ActiveAt(x.at, revokedAt))
AuthorityKept ==
  /\ \A x \in ReceiptsOf(disk) \cup disk.claims :
       /\ GoodRecord(x)
       /\ x.req \in ProviderCalls => phase = "open" \/ x.at < now
  /\ phase = "open" =>
       /\ overlapped \/ known = revokedAt
       /\ \A x \in ReceiptsOf(mem) \cup mem.claims : GoodRecord(x)

\* The inductive invariant: the properties, with what memory and the running
\* invocation add to them.
IInv == TimesRead /\ OneRecordPerId /\ CallsKept /\ RunHolds /\ ToldKept /\ AuthorityKept
-----------------------------------------------------------------------------
(* Ledgers.                                                                 *)

\* Trimming keeps the newest receipt, fits the limit and adds nothing.
LEMMA TrimsKeep ==
  ASSUME NEW S, NEW s \in Seq(S), NEW t \in Trims(s)
  PROVE  /\ t \in Seq(S) /\ Len(t) <= MaxReceipts
         /\ \A k \in DOMAIN t : \E j \in DOMAIN s : t[k] = s[j]
         /\ s # <<>> => t # <<>> /\ t[Len(t)] = s[Len(s)]
<1>1. CASE s = <<>>
  BY <1>1, LedgerAssumption DEF Trims
<1>2. CASE s # <<>>
  <2>1. PICK k \in {j \in 1..Len(s) : Len(s) - j < MaxReceipts} : t = SubSeq(s, k, Len(s))
    BY <1>2 DEF Trims
  <2>2. /\ t \in Seq(S) /\ Len(t) = Len(s) - k + 1
        /\ \A j \in 1..Len(t) : t[j] = s[k + j - 1]
    BY <2>1
  <2>3. Len(t) <= MaxReceipts /\ Len(t) \in 1..Len(s)
    BY <2>1, <2>2, LedgerAssumption
  <2>4. ASSUME NEW j \in DOMAIN t PROVE k + j - 1 \in DOMAIN s /\ t[j] = s[k + j - 1]
    BY <2>1, <2>2
  <2>5. Len(t) \in 1..Len(t) /\ k + Len(t) - 1 = Len(s)
    BY <2>1, <2>2, <2>3
  <2>6. t # <<>> /\ t[Len(t)] = s[Len(s)]
    BY <2>2, <2>3, <2>5
  <2> QED BY <2>2, <2>3, <2>4, <2>6
<1> QED BY <1>1, <1>2

\* A ledger as TypeOK wants it.
LedgerOK(l) == l \in Ledgers /\ Len(l.receipts) <= MaxReceipts

\* The three ledgers that are written are well formed.
LEMMA PreparedLedger ==
  ASSUME NEW l, LedgerOK(l), NEW c \in Claims, NEW kept \in Trims(l.receipts)
  PROVE  LedgerOK([receipts |-> kept, claims |-> l.claims \cup {c}])
<1>1. kept \in Seq(Receipts) /\ Len(kept) <= MaxReceipts
  BY TrimsKeep DEF LedgerOK, Ledgers
<1> QED BY <1>1 DEF LedgerOK, Ledgers

\* A receipt in the place of its claim makes a ledger.
LEMMA ReceiptedLedger ==
  ASSUME NEW l, LedgerOK(l), NEW x \in Receipts, NEW cs \in SUBSET l.claims,
         NEW kept \in Trims(Append(l.receipts, x))
  PROVE  LedgerOK([receipts |-> kept, claims |-> cs])
<1>1. Append(l.receipts, x) \in Seq(Receipts)
  BY DEF LedgerOK, Ledgers
<1>2. kept \in Seq(Receipts) /\ Len(kept) <= MaxReceipts
  BY <1>1, TrimsKeep
<1>3. l.claims \in SUBSET Claims
  BY DEF LedgerOK, Ledgers
<1> QED BY <1>2, <1>3 DEF LedgerOK, Ledgers

\* Trimming a sequence of receipts, and one with a new receipt at its end.
LEMMA TrimmedReceipts ==
  ASSUME NEW l, LedgerOK(l), NEW kept \in Trims(l.receipts), NEW cs
  PROVE  ReceiptsOf([receipts |-> kept, claims |-> cs]) \subseteq ReceiptsOf(l)
BY TrimsKeep DEF LedgerOK, Ledgers, ReceiptsOf

\* After an append and a trim the receipts are old ones and the new one, which stays.
LEMMA AppendedReceipts ==
  ASSUME NEW l, LedgerOK(l), NEW x \in Receipts, NEW cs,
         NEW kept \in Trims(Append(l.receipts, x))
  PROVE  LET n == [receipts |-> kept, claims |-> cs]
         IN  ReceiptsOf(n) \subseteq ReceiptsOf(l) \cup {x} /\ x \in ReceiptsOf(n)
<1> DEFINE s == Append(l.receipts, x)
<1>1. /\ s \in Seq(Receipts) /\ s # <<>> /\ s[Len(s)] = x
      /\ \A j \in DOMAIN s : s[j] = x \/ (j \in DOMAIN l.receipts /\ s[j] = l.receipts[j])
  BY DEF LedgerOK, Ledgers
<1> HIDE DEF s
<1>2. kept \in Trims(s)
  BY DEF s
<1>3. /\ kept \in Seq(Receipts)
      /\ \A k \in DOMAIN kept : \E j \in DOMAIN s : kept[k] = s[j]
      /\ kept # <<>> /\ kept[Len(kept)] = s[Len(s)]
  BY <1>1, <1>2, TrimsKeep
<1>4. Len(kept) \in DOMAIN kept
  BY <1>3
<1> QED BY <1>1, <1>3, <1>4 DEF ReceiptsOf

\* Lookups and validation, said of the set of receipts.
LEMMA RecordsBySet ==
  ASSUME NEW l, NEW i
  PROVE  /\ Records(l, i) <=> (\E x \in ReceiptsOf(l) \cup l.claims : IdOf[x.req] = i)
         /\ ReceiptAt(l, i) = {} <=> (\A x \in ReceiptsOf(l) : IdOf[x.req] # i)
BY DEF Records, ReceiptAt, ClaimsOf, ReceiptsOf

\* In a ledger with unique ids, receipts and claims of one id are one and the same.
LEMMA UniqueBySet ==
  ASSUME NEW l, LedgerOK(l), UniqueIds(l)
  PROVE  /\ \A x, y \in ReceiptsOf(l) : IdOf[x.req] = IdOf[y.req] => x = y
         /\ \A c, d \in l.claims : IdOf[c.req] = IdOf[d.req] => c = d
         /\ \A x \in ReceiptsOf(l), c \in l.claims : IdOf[x.req] # IdOf[c.req]
<1>0. l.receipts \in Seq(Receipts)
  BY DEF LedgerOK, Ledgers
<1>1. ASSUME NEW x \in ReceiptsOf(l) PROVE x.req \in Requests
  <2>1. PICK k \in DOMAIN l.receipts : x = l.receipts[k]
    BY DEF ReceiptsOf
  <2>2. x \in Receipts
    BY <1>0, <2>1
  <2> QED BY <2>2 DEF Receipts
<1>2. \A x \in ReceiptsOf(l) : IdOf[x.req] \in Ids
  BY <1>1, LedgerAssumption
<1>3. ASSUME NEW x \in ReceiptsOf(l), NEW c \in l.claims PROVE IdOf[x.req] # IdOf[c.req]
  BY <1>2, <1>3, RecordsBySet DEF UniqueIds, ClaimsOf
<1> QED BY <1>3 DEF UniqueIds, ReceiptsOf

\* The references in terms of the set of receipts, of which trimming takes some.
LEMMA ReferencesBySet ==
  ASSUME NEW l, NEW r
  PROVE  ReferencesHold(l, r) <=>
           /\ \A x \in ReceiptsOf(l) : x.req \in ProviderCalls => ActiveAt(x.at, r)
           /\ \A c \in l.claims : ActiveAt(c.at, r)
BY DEF ReferencesHold, ReceiptsOf
-----------------------------------------------------------------------------
(* Type correctness.                                                        *)

\* Whatever becomes of a write, both ledgers stay well formed.
LEMMA WriteType ==
  ASSUME LedgerOK(disk), LedgerOK(mem), NEW next, LedgerOK(next),
         NEW outcome, Write(next, outcome)
  PROVE  LedgerOK(disk') /\ LedgerOK(mem')
BY DEF Write

\* The claim that a waiting provider call would write.
LEMMA ClaimType ==
  ASSUME TypeOK, NEW r \in ProviderCalls, sent[r] # Never
  PROVE  [req |-> r, at |-> sent[r]] \in Claims
BY LedgerAssumption DEF TypeOK, Claims

\* What Prepare, Complete and Commit write.
LEMMA PrepareWrites ==
  ASSUME TypeOK, NEW r \in Requests, Prepare(r)
  PROVE  \E outcome \in Outcomes, kept \in Trims(mem.receipts) :
           LET claim == [req |-> r, at |-> sent[r]]
               next == [receipts |-> kept, claims |-> mem.claims \cup {claim}]
           IN  /\ claim \in Claims /\ LedgerOK(next) /\ Write(next, outcome)
               /\ ReceiptsOf(next) \subseteq ReceiptsOf(mem)
               /\ evicted' = evicted \cup Loses(next, outcome)
               /\ \/ outcome = "written" /\ run' = Prepared(claim) /\ UNCHANGED sent
                  \/ outcome # "written" /\ Answered(r) /\ UNCHANGED run
<1> DEFINE claim == [req |-> r, at |-> sent[r]]
<1>1. claim \in Claims
  BY ClaimType DEF Prepare, Held
<1>2. LedgerOK(mem)
  BY DEF TypeOK, LedgerOK
<1>3. PICK outcome \in Outcomes, kept \in Trims(mem.receipts) :
        LET next == [receipts |-> kept, claims |-> mem.claims \cup {claim}]
        IN /\ Write(next, outcome)
           /\ evicted' = evicted \cup Loses(next, outcome)
           /\ IF Committed(outcome)
                THEN run' = Prepared(claim) /\ UNCHANGED sent
                ELSE Answered(r) /\ UNCHANGED run
  BY DEF Prepare
<1> HIDE DEF claim
<1>4. LedgerOK([receipts |-> kept, claims |-> mem.claims \cup {claim}])
  BY <1>1, <1>2, PreparedLedger
<1>5. ReceiptsOf([receipts |-> kept, claims |-> mem.claims \cup {claim}])
        \subseteq ReceiptsOf(mem)
  BY <1>2, TrimmedReceipts
<1> QED BY <1>1, <1>3, <1>4, <1>5 DEF Committed, claim

\* What Complete writes is a ledger: old receipts and the new one, less the claim.
LEMMA CompleteWrites ==
  ASSUME TypeOK, Complete
  PROVE  \E outcome \in Outcomes,
            kept \in Trims(Append(mem.receipts, Receipted(run.claim, run.outcome))) :
           LET next == [receipts |-> kept, claims |-> mem.claims \ {run.claim}]
               new == Receipted(run.claim, run.outcome)
           IN  /\ new \in Receipts /\ run.claim \in Claims
               /\ LedgerOK(next) /\ Write(next, outcome)
               /\ ReceiptsOf(next) \subseteq ReceiptsOf(mem) \cup {new}
               /\ new \in ReceiptsOf(next)
               /\ evicted' = evicted \cup Loses(next, outcome)
               /\ \/ outcome = "written" /\ Tell(run.claim.req, run.outcome)
                  \/ outcome # "written" /\ UNCHANGED told
<1> DEFINE new == Receipted(run.claim, run.outcome)
           cs == mem.claims \ {run.claim}
<1>1. run.claim \in Claims /\ run.outcome \in Results
  BY DEF Complete, TypeOK, Idle
<1>2. new \in Receipts
  BY <1>1, LedgerAssumption DEF Receipted, Claims, Receipts
<1>3. LedgerOK(mem)
  BY DEF TypeOK, LedgerOK
<1>4. PICK outcome \in Outcomes, kept \in Trims(Append(mem.receipts, new)) :
        /\ Write([receipts |-> kept, claims |-> cs], outcome)
        /\ evicted' = evicted \cup Loses([receipts |-> kept, claims |-> cs], outcome)
        /\ IF Committed(outcome) THEN Tell(run.claim.req, run.outcome)
                                 ELSE UNCHANGED told
  BY DEF Complete
<1>5. cs \in SUBSET mem.claims
  OBVIOUS
<1> HIDE DEF new, cs
<1>6. LedgerOK([receipts |-> kept, claims |-> cs])
  BY <1>2, <1>3, <1>5, ReceiptedLedger
<1>7. /\ ReceiptsOf([receipts |-> kept, claims |-> cs]) \subseteq ReceiptsOf(mem) \cup {new}
      /\ new \in ReceiptsOf([receipts |-> kept, claims |-> cs])
  BY <1>2, <1>3, AppendedReceipts
<1> QED BY <1>1, <1>2, <1>4, <1>6, <1>7 DEF Committed, new, cs

\* What an ordinary commit writes: old receipts and the new one, and every claim.
LEMMA CommitWrites ==
  ASSUME TypeOK, NEW r \in Requests, Commit(r)
  PROVE  \E outcome \in Outcomes,
            kept \in Trims(Append(mem.receipts, [req |-> r, result |-> "ok", at |-> 0])) :
           LET next == [receipts |-> kept, claims |-> mem.claims]
               new == [req |-> r, result |-> "ok", at |-> 0]
           IN  /\ new \in Receipts /\ LedgerOK(next) /\ Write(next, outcome)
               /\ ReceiptsOf(next) \subseteq ReceiptsOf(mem) \cup {new}
               /\ new \in ReceiptsOf(next)
               /\ \/ /\ outcome = "written"
                     /\ evicted' = (evicted \cup Loses(next, outcome)) \ {IdOf[r]}
                     /\ TellFirst(r, "ok")
                  \/ /\ outcome # "written"
                     /\ evicted' = evicted \cup Loses(next, outcome)
                     /\ UNCHANGED told
<1> DEFINE new == [req |-> r, result |-> "ok", at |-> 0]
           n(k) == [receipts |-> k, claims |-> mem.claims]
<1>1. new \in Receipts
  BY DEF Receipts, Results
<1>2. LedgerOK(mem)
  BY DEF TypeOK, LedgerOK
<1>3. PICK outcome \in Outcomes, kept \in Trims(Append(mem.receipts, new)) :
        LET next == [mem EXCEPT !.receipts = kept]
        IN /\ Write(next, outcome)
           /\ IF Committed(outcome)
                THEN /\ evicted' = (evicted \cup Loses(next, outcome)) \ {IdOf[r]}
                     /\ TellFirst(r, "ok")
                ELSE /\ evicted' = evicted \cup Loses(next, outcome)
                     /\ UNCHANGED told
  BY DEF Commit
<1>4. [mem EXCEPT !.receipts = kept] = n(kept)
  BY <1>2 DEF LedgerOK, Ledgers
<1> HIDE DEF new
<1>5. LedgerOK(n(kept))
  BY <1>1, <1>2, ReceiptedLedger
<1>6. ReceiptsOf(n(kept)) \subseteq ReceiptsOf(mem) \cup {new} /\ new \in ReceiptsOf(n(kept))
  BY <1>1, <1>2, AppendedReceipts
<1> HIDE DEF n
<1>7. Write(n(kept), outcome)
  BY <1>3, <1>4
<1>8. \/ /\ outcome = "written"
         /\ evicted' = (evicted \cup Loses(n(kept), outcome)) \ {IdOf[r]}
         /\ TellFirst(r, "ok")
      \/ /\ outcome # "written"
         /\ evicted' = evicted \cup Loses(n(kept), outcome)
         /\ UNCHANGED told
  BY <1>3, <1>4 DEF Committed
<1> QED BY <1>1, <1>3, <1>5, <1>6, <1>7, <1>8 DEF new, n

\* The empty ledger is well formed and holds nothing.
LEMMA NoLedgerType ==
  LedgerOK(NoLedger) /\ ReceiptsOf(NoLedger) = {} /\ NoLedger.claims = {}
<1>1. NoLedger \in Ledgers
  BY DEF NoLedger, Ledgers
<1>2. Len(NoLedger.receipts) <= MaxReceipts /\ DOMAIN NoLedger.receipts = {}
  BY LedgerAssumption DEF NoLedger
<1> QED BY <1>1, <1>2 DEF LedgerOK, ReceiptsOf, NoLedger

\* Every step keeps the types.
LEMMA TypesInvariant ==
  TypeOK /\ [Next]_vars => TypeOK'
<1> SUFFICES ASSUME TypeOK, [Next]_vars PROVE TypeOK'
  OBVIOUS
<1> USE LedgerAssumption
<1>0. Never \in Nat /\ LedgerOK(disk) /\ LedgerOK(mem)
  BY DEF Never, TypeOK, LedgerOK
<1>1. ASSUME NEW r \in Requests, Send(r) PROVE TypeOK'
  BY <1>1 DEF Send, TypeOK
<1>2. ASSUME NEW r \in Requests, Replay(r) PROVE TypeOK'
  <2>1. sent' \in [Requests -> Nat \cup {Never}]
    BY <1>2 DEF Replay, Answered, TypeOK
  <2>2. PICK k \in ReceiptAt(mem, IdOf[r]) :
          IF SameRequest(r, mem.receipts[k].req)
            THEN Tell(r, mem.receipts[k].result) ELSE UNCHANGED told
    BY <1>2 DEF Replay
  <2>3. mem.receipts \in Seq(Receipts) /\ k \in DOMAIN mem.receipts
    BY <1>0 DEF LedgerOK, Ledgers, ReceiptAt
  <2>4. mem.receipts[k] \in Receipts
    BY <2>3
  <2>5. mem.receipts[k].result \in Results
    BY <2>4 DEF Receipts
  <2>6. told' \in [Requests -> Results \cup {"none"}]
    BY <2>2, <2>5 DEF Tell, TypeOK
  <2> QED BY <1>2, <2>1, <2>6 DEF Replay, TypeOK
<1>3. ASSUME NEW r \in Requests, FindsClaim(r) \/ Refuse(r) PROVE TypeOK'
  BY <1>3 DEF FindsClaim, Refuse, Answered, TypeOK
<1>4. ASSUME NEW r \in Requests, Prepare(r) PROVE TypeOK'
  <2> DEFINE claim == [req |-> r, at |-> sent[r]]
             n(k) == [receipts |-> k, claims |-> mem.claims \cup {claim}]
  <2>1. PICK outcome \in Outcomes, kept \in Trims(mem.receipts) :
          /\ claim \in Claims /\ LedgerOK(n(kept)) /\ Write(n(kept), outcome)
          /\ evicted' = evicted \cup Loses(n(kept), outcome)
          /\ \/ run' = Prepared(claim) /\ UNCHANGED sent
             \/ Answered(r) /\ UNCHANGED run
    BY <1>4, PrepareWrites
  <2> HIDE DEF claim, n
  <2>2. LedgerOK(disk') /\ LedgerOK(mem')
    BY <1>0, <2>1, WriteType
  <2>3. evicted' \subseteq Ids
    BY <2>1 DEF Loses, TypeOK
  <2>4. sent' \in [Requests -> Nat \cup {Never}]
    BY <2>1 DEF Answered, TypeOK
  <2>5. run' = run \/ run' \in [step : {"prepared"}, claim : Claims]
    BY <2>1 DEF Prepared
  <2> QED BY <1>4, <2>2, <2>3, <2>4, <2>5 DEF Prepare, TypeOK, LedgerOK
<1>5. CASE Call
  <2>1. run.claim \in Claims
    BY <1>5 DEF Call, TypeOK, Idle
  <2>2. run' \in [step : {"called"}, claim : Claims, outcome : Results \cup {"uncertain"}]
    BY <1>5, <2>1 DEF Call, Called
  <2>3. IdOf[run.claim.req] \in Ids
    BY <2>1 DEF Claims
  <2>4. told' \in [Requests -> Results \cup {"none"}]
    BY <1>5 DEF Call, TellFirst, TypeOK
  <2> QED BY <1>5, <2>2, <2>3, <2>4 DEF Call, TypeOK
<1>6. CASE KeepClaim
  BY <1>6 DEF KeepClaim, Answered, TypeOK
<1>7. CASE Complete
  <2> DEFINE new == Receipted(run.claim, run.outcome)
             n(k) == [receipts |-> k, claims |-> mem.claims \ {run.claim}]
  <2>1. PICK outcome \in Outcomes, kept \in Trims(Append(mem.receipts, new)) :
          /\ LedgerOK(n(kept)) /\ Write(n(kept), outcome)
          /\ evicted' = evicted \cup Loses(n(kept), outcome)
          /\ Tell(run.claim.req, run.outcome) \/ UNCHANGED told
    BY <1>7, CompleteWrites
  <2> HIDE DEF new, n
  <2>2. LedgerOK(disk') /\ LedgerOK(mem')
    BY <1>0, <2>1, WriteType
  <2>3. evicted' \subseteq Ids
    BY <2>1 DEF Loses, TypeOK
  <2>4. run.outcome \in Results /\ run' = Idle /\ Answered(run.claim.req)
    BY <1>7 DEF Complete
  <2>5. told' \in [Requests -> Results \cup {"none"}]
    BY <2>1, <2>4 DEF Tell, TypeOK
  <2>6. sent' \in [Requests -> Nat \cup {Never}]
    BY <2>4 DEF Answered, TypeOK
  <2> QED BY <1>7, <2>2, <2>3, <2>4, <2>5, <2>6 DEF Complete, TypeOK, LedgerOK
<1>8. ASSUME NEW r \in Requests, Commit(r) PROVE TypeOK'
  <2> DEFINE new == [req |-> r, result |-> "ok", at |-> 0]
             n(k) == [receipts |-> k, claims |-> mem.claims]
  <2>1. PICK outcome \in Outcomes, kept \in Trims(Append(mem.receipts, new)) :
          /\ LedgerOK(n(kept)) /\ Write(n(kept), outcome)
          /\ \/ /\ evicted' = (evicted \cup Loses(n(kept), outcome)) \ {IdOf[r]}
                /\ TellFirst(r, "ok")
             \/ /\ evicted' = evicted \cup Loses(n(kept), outcome)
                /\ UNCHANGED told
    BY <1>8, CommitWrites
  <2> HIDE DEF new, n
  <2>2. LedgerOK(disk') /\ LedgerOK(mem')
    BY <1>0, <2>1, WriteType
  <2>3. evicted' \subseteq Ids
    BY <2>1 DEF Loses, TypeOK
  <2>4. told' \in [Requests -> Results \cup {"none"}]
    BY <2>1 DEF TellFirst, TypeOK, Results
  <2>5. sent' \in [Requests -> Nat \cup {Never}]
    BY <1>8 DEF Commit, Answered, TypeOK
  <2> QED BY <1>8, <2>2, <2>3, <2>4, <2>5 DEF Commit, TypeOK, LedgerOK
<1>9. CASE Bind \/ Check \/ Tick
  BY <1>9 DEF Bind, Check, Tick, TypeOK
<1>10. CASE OpenDaemon
  BY <1>10 DEF OpenDaemon, TypeOK
<1>11. CASE Revoke
  BY <1>0, <1>11 DEF Revoke, TypeOK
<1>12. CASE Stop
  <2>1. LedgerOK(NoLedger)
    BY NoLedgerType
  <2> QED BY <1>0, <1>12, <2>1 DEF Stop, TypeOK, LedgerOK, Idle
<1>13. CASE UNCHANGED vars
  BY <1>13 DEF vars, TypeOK
<1> QED
  BY <1>1, <1>2, <1>3, <1>4, <1>5, <1>6, <1>7, <1>8, <1>9, <1>10, <1>11, <1>12, <1>13
  DEF Next

\* The ledgers, the running invocation and the histories keep their types, for
\* every set of requests and every limit.
THEOREM TypeCorrect == Spec => []TypeOK
<1>1. Init => TypeOK
  <2>1. Never \in Nat
    BY LedgerAssumption DEF Never
  <2>2. NoLedger \in Ledgers /\ Len(NoLedger.receipts) <= MaxReceipts
    BY NoLedgerType DEF LedgerOK
  <2> SUFFICES ASSUME Init PROVE TypeOK
    OBVIOUS
  <2>3. run \in {Idle}
    BY DEF Init
  <2>4. sent \in [Requests -> Nat \cup {Never}] /\ told \in [Requests -> Results \cup {"none"}]
    BY <2>1 DEF Init
  <2> QED BY <2>1, <2>2, <2>3, <2>4 DEF Init, TypeOK
<1> QED BY <1>1, TypesInvariant, PTL DEF Spec
-----------------------------------------------------------------------------
(* One record per id, and no call without its record.                       *)

\* The steps that leave both ledgers and the invocation alone.
Elsewhere ==
  \/ \E r \in Requests : Send(r) \/ Replay(r) \/ FindsClaim(r) \/ Refuse(r)
  \/ Bind \/ Check \/ Revoke \/ Tick \/ UNCHANGED vars

\* The other actions leave what the invariant reads of the ledger alone.
LEMMA ElsewhereLeaves ==
  ASSUME Elsewhere
  PROVE  /\ UNCHANGED <<disk, mem, run, called, evicted, known>>
         /\ phase' = phase \/ (phase = "down" /\ phase' = "bound")
BY DEF Elsewhere, Send, Replay, FindsClaim, Refuse, Bind, Check, Revoke, Tick, vars

\* The clock only goes forward, and the connections that wait read it before.
LEMMA TimesInvariant ==
  TypeOK /\ TimesRead /\ [Next]_vars => TimesRead'
<1> SUFFICES ASSUME TypeOK, TimesRead, [Next]_vars PROVE TimesRead'
  OBVIOUS
<1> USE LedgerAssumption
<1>1. now' = now \/ (now < MaxTime /\ now' = now + 1)
  BY DEF Next, Send, Replay, FindsClaim, Refuse, Prepare, Commit, Call, KeepClaim,
         Complete, Bind, OpenDaemon, Stop, Check, Revoke, Tick, vars
<1>2. ASSUME NEW r \in Requests PROVE sent'[r] \in {sent[r], now, Never}
  BY DEF Next, Send, Replay, FindsClaim, Refuse, Prepare, Commit, Call, KeepClaim,
         Complete, Bind, OpenDaemon, Stop, Check, Revoke, Tick, vars, Answered, TypeOK
<1> QED BY <1>1, <1>2 DEF TimesRead, TypeOK, Never

\* A ledger is written only if no id would own two records.
LEMMA UniqueInvariant ==
  TypeOK /\ OneRecordPerId /\ [Next]_vars => OneRecordPerId'
<1> SUFFICES ASSUME TypeOK, OneRecordPerId, [Next]_vars PROVE OneRecordPerId'
  OBVIOUS
<1>1. ASSUME NEW next, NEW outcome \in Outcomes, Write(next, outcome)
      PROVE  OneRecordPerId'
  <2>1. disk' = disk \/ UniqueIds(disk')
    BY <1>1 DEF Write
  <2>2. mem' = mem \/ UniqueIds(mem')
    BY <1>1 DEF Write, Committed
  <2> QED BY <2>1, <2>2 DEF OneRecordPerId
<1>2. ASSUME NEW r \in Requests, Prepare(r) PROVE OneRecordPerId'
  BY <1>1, <1>2, PrepareWrites
<1>3. ASSUME NEW r \in Requests, Commit(r) PROVE OneRecordPerId'
  BY <1>1, <1>3, CommitWrites
<1>4. CASE Complete
  BY <1>1, <1>4, CompleteWrites
<1>5. CASE Elsewhere \/ Call \/ KeepClaim \/ OpenDaemon
  BY <1>5, ElsewhereLeaves DEF Call, KeepClaim, OpenDaemon, OneRecordPerId
<1>6. CASE Stop
  <2>1. UniqueIds(NoLedger)
    BY NoLedgerType DEF UniqueIds, ReceiptAt, NoLedger
  <2> QED BY <1>6, <2>1 DEF Stop, OneRecordPerId
<1> QED BY <1>2, <1>3, <1>4, <1>5, <1>6 DEF Next, Elsewhere

\* A record that a write does not lose stays, whatever becomes of the write.
LEMMA WriteRecords ==
  ASSUME NEW next, NEW outcome \in Outcomes, Write(next, outcome),
         NEW i \in Ids, i \notin Loses(next, outcome), Records(mem, i), Records(disk, i)
  PROVE  Records(disk', i) /\ Records(mem', i)
BY DEF Write, Loses, Committed

\* The record of a call is on disk and in memory, and a running invocation holds
\* a durable claim.
LEMMA CallsInvariant ==
  TypeOK /\ CallsKept /\ RunHolds /\ [Next]_vars => CallsKept' /\ RunHolds'
<1> SUFFICES ASSUME TypeOK, CallsKept, RunHolds, [Next]_vars PROVE CallsKept' /\ RunHolds'
  OBVIOUS
<1>1. called \subseteq Ids
  BY DEF TypeOK
<1>2. ASSUME NEW r \in Requests, Prepare(r) PROVE CallsKept' /\ RunHolds'
  <2> DEFINE claim == [req |-> r, at |-> sent[r]]
             n(k) == [receipts |-> k, claims |-> mem.claims \cup {claim}]
  <2>1. PICK outcome \in Outcomes, kept \in Trims(mem.receipts) :
          /\ Write(n(kept), outcome)
          /\ evicted' = evicted \cup Loses(n(kept), outcome)
          /\ \/ outcome = "written" /\ run' = Prepared(claim)
             \/ UNCHANGED run
    BY <1>2, PrepareWrites
  <2>2. phase = "open" /\ run = Idle /\ called' = called /\ phase' = phase
    BY <1>2 DEF Prepare, Held
  <2>3. claim \in n(kept).claims /\ IdOf[claim.req] \notin called \ evicted
    BY <1>2, <2>2, RecordsBySet DEF Prepare, Unrecorded, CallsKept, Records
  <2> HIDE DEF claim, n
  <2>4. ASSUME NEW i \in called' \ evicted' PROVE Records(disk', i) /\ Records(mem', i)
    BY <1>1, <2>1, <2>2, WriteRecords DEF CallsKept, CallRecorded
  <2>5. RunHolds'
    <3>1. CASE outcome = "written" /\ run' = Prepared(claim)
      <4>1. mem' = n(kept) /\ disk' = n(kept)
        BY <2>1, <3>1 DEF Write, Committed
      <4>2. run'.claim = claim
        BY <3>1 DEF Prepared
      <4>3. IdOf[claim.req] \notin called' \ evicted'
        BY <2>1, <2>2, <2>3
      <4> QED BY <2>2, <2>3, <4>1, <4>2, <4>3 DEF RunHolds
    <3>2. CASE UNCHANGED run
      BY <2>2, <3>2 DEF RunHolds, Idle
    <3> QED BY <2>1, <3>1, <3>2
  <2> QED BY <2>4, <2>5 DEF CallsKept, CallRecorded
<1>3. ASSUME NEW r \in Requests, Commit(r) PROVE CallsKept' /\ RunHolds'
  <2> DEFINE new == [req |-> r, result |-> "ok", at |-> 0]
             n(k) == [receipts |-> k, claims |-> mem.claims]
  <2>1. PICK outcome \in Outcomes, kept \in Trims(Append(mem.receipts, new)) :
          /\ Write(n(kept), outcome)
          /\ new \in ReceiptsOf(n(kept))
          /\ \/ /\ outcome = "written"
                /\ evicted' = (evicted \cup Loses(n(kept), outcome)) \ {IdOf[r]}
             \/ evicted' = evicted \cup Loses(n(kept), outcome)
    BY <1>3, CommitWrites
  <2>2. phase = "open" /\ run = Idle /\ run' = run /\ called' = called
    BY <1>3 DEF Commit, Held
  <2>3. Records(n(kept), IdOf[r])
    BY <2>1, RecordsBySet
  <2> HIDE DEF new, n
  <2>4. ASSUME NEW i \in called' \ evicted' PROVE Records(disk', i) /\ Records(mem', i)
    <3>1. CASE i \in evicted
      <4>1. i = IdOf[r] /\ outcome = "written"
        BY <2>1, <2>4, <3>1
      <4>2. disk' = n(kept) /\ mem' = n(kept)
        BY <2>1, <4>1 DEF Write, Committed
      <4> QED BY <2>3, <4>1, <4>2
    <3>2. CASE i \notin evicted /\ i \in Loses(n(kept), outcome)
      <4>1. i = IdOf[r] /\ outcome = "written"
        BY <2>1, <2>4, <3>2
      <4>2. disk' = n(kept) /\ mem' = n(kept)
        BY <2>1, <4>1 DEF Write, Committed
      <4> QED BY <2>3, <4>1, <4>2
    <3>3. CASE i \notin evicted /\ i \notin Loses(n(kept), outcome)
      BY <1>1, <2>1, <2>2, <3>3, WriteRecords DEF CallsKept, CallRecorded
    <3> QED BY <3>1, <3>2, <3>3
  <2>5. RunHolds'
    BY <2>2 DEF RunHolds, Idle
  <2> QED BY <2>4, <2>5 DEF CallsKept, CallRecorded
<1>4. CASE Complete
  <2> DEFINE new == Receipted(run.claim, run.outcome)
             n(k) == [receipts |-> k, claims |-> mem.claims \ {run.claim}]
  <2>1. PICK outcome \in Outcomes, kept \in Trims(Append(mem.receipts, new)) :
          /\ Write(n(kept), outcome)
          /\ evicted' = evicted \cup Loses(n(kept), outcome)
    BY <1>4, CompleteWrites
  <2>2. phase = "open" /\ run' = Idle /\ called' = called
    BY <1>4 DEF Complete, RunHolds, Idle
  <2> HIDE DEF new, n
  <2>3. ASSUME NEW i \in called' \ evicted' PROVE Records(disk', i) /\ Records(mem', i)
    BY <1>1, <2>1, <2>2, WriteRecords DEF CallsKept, CallRecorded
  <2> QED BY <2>2, <2>3 DEF CallsKept, CallRecorded, RunHolds, Idle
<1>5. CASE Call
  <2>1. /\ run.claim \in mem.claims /\ run.claim \in disk.claims /\ phase = "open"
        /\ run'.step = "called" /\ run'.claim = run.claim
        /\ UNCHANGED <<disk, mem, phase>>
    BY <1>5 DEF Call, RunHolds, Called
  <2>2. called' \ evicted' \subseteq (called \ evicted) \cup {IdOf[run.claim.req]}
    BY <1>5 DEF Call
  <2>3. Records(mem, IdOf[run.claim.req]) /\ Records(disk, IdOf[run.claim.req])
    BY <2>1, RecordsBySet
  <2> QED BY <2>1, <2>2, <2>3 DEF CallsKept, CallRecorded, RunHolds
<1>6. CASE Elsewhere
  BY <1>6, ElsewhereLeaves DEF CallsKept, CallRecorded, RunHolds
<1>7. CASE KeepClaim \/ OpenDaemon \/ Stop
  BY <1>7 DEF KeepClaim, OpenDaemon, Stop, CallsKept, CallRecorded, RunHolds, Idle
<1> QED BY <1>2, <1>3, <1>4, <1>5, <1>6, <1>7 DEF Next, Elsewhere
-----------------------------------------------------------------------------
(* What was told stays.                                                     *)

\* ToldIsDurable, said of the set of receipts.
ToldIn(l) ==
  \A r \in Requests :
    told[r] # "none" /\ IdOf[r] \notin evicted =>
      \E x \in ReceiptsOf(l) : x.req = r /\ x.result = told[r]

\* ToldIsDurable in terms of the set of receipts.
LEMMA ToldBySet == ToldIsDurable <=> ToldIn(disk)
BY DEF ToldIsDurable, ToldIn, ReceiptsOf

\* A receipt whose id still has a record in the written ledger is in it.
Keeps(next) ==
  \A x \in ReceiptsOf(mem) : Records(next, IdOf[x.req]) => x \in ReceiptsOf(next)

\* A receipt of a ledger is a receipt of one of the ids.
LEMMA ReceiptIds ==
  ASSUME NEW l, LedgerOK(l), NEW x \in ReceiptsOf(l)
  PROVE  x \in Receipts /\ IdOf[x.req] \in Ids
<1>1. PICK k \in DOMAIN l.receipts : x = l.receipts[k]
  BY DEF ReceiptsOf
<1>2. l.receipts \in Seq(Receipts)
  BY DEF LedgerOK, Ledgers
<1>3. x \in Receipts
  BY <1>1, <1>2
<1> QED BY <1>3, LedgerAssumption DEF Receipts

\* Receipts that are neither trimmed nor replaced stay on disk and in memory.
LEMMA ToldWrite ==
  ASSUME TypeOK, ToldKept, phase = "open",
         NEW next, NEW outcome \in Outcomes, Write(next, outcome), Keeps(next),
         outcome # "written" => evicted' = evicted \cup Loses(next, outcome),
         \A r \in Requests :
           told'[r] # "none" /\ IdOf[r] \notin evicted' =>
             \/ told'[r] = told[r] /\ IdOf[r] \notin evicted \cup Loses(next, outcome)
             \/ /\ outcome = "written"
                /\ \E x \in ReceiptsOf(next) : x.req = r /\ x.result = told'[r]
  PROVE  ToldKept'
<1>1. LedgerOK(mem)
  BY DEF TypeOK, LedgerOK
<1>2. ASSUME NEW x \in ReceiptsOf(mem), IdOf[x.req] \notin Loses(next, outcome)
      PROVE  outcome = "unwritten" \/ x \in ReceiptsOf(next)
  <2>1. Records(mem, IdOf[x.req]) /\ IdOf[x.req] \in Ids
    BY <1>1, RecordsBySet, ReceiptIds
  <2> QED BY <1>2, <2>1 DEF Loses, Keeps
<1>3. ASSUME NEW r \in Requests, told'[r] # "none", IdOf[r] \notin evicted'
      PROVE  /\ \E x \in ReceiptsOf(disk') : x.req = r /\ x.result = told'[r]
             /\ \E x \in ReceiptsOf(mem') : x.req = r /\ x.result = told'[r]
  <2>1. CASE told'[r] = told[r] /\ IdOf[r] \notin evicted \cup Loses(next, outcome)
    <3>1. PICK x \in ReceiptsOf(mem) : x.req = r /\ x.result = told[r]
      BY <1>3, <2>1 DEF ToldKept
    <3>2. \E y \in ReceiptsOf(disk) : y.req = r /\ y.result = told[r]
      BY <1>3, <2>1, ToldBySet DEF ToldKept, ToldIn
    <3> QED BY <1>2, <2>1, <3>1, <3>2 DEF Write, Committed
  <2>2. CASE outcome = "written" /\
             \E x \in ReceiptsOf(next) : x.req = r /\ x.result = told'[r]
    BY <2>2 DEF Write, Committed
  <2> QED BY <1>3, <2>1, <2>2
<1>4. ASSUME NEW x \in ReceiptsOf(mem')
      PROVE  IdOf[x.req] \in evicted' \/ x \in ReceiptsOf(disk')
  <2>1. CASE outcome = "written"
    BY <1>4, <2>1 DEF Write, Committed
  <2>2. CASE outcome # "written"
    <3>1. mem' = mem /\ evicted' = evicted \cup Loses(next, outcome)
      BY <2>2 DEF Write, Committed
    <3> QED BY <1>2, <1>4, <3>1 DEF Write, ToldKept
  <2> QED BY <2>1, <2>2
<1>5. ToldIsDurable'
  BY <1>3 DEF ToldIsDurable, ReceiptsOf
<1> QED BY <1>3, <1>4, <1>5 DEF ToldKept

\* What was told as definitive stays on disk and in memory.
LEMMA ToldInvariant ==
  TypeOK /\ OneRecordPerId /\ RunHolds /\ ToldKept /\ [Next]_vars => ToldKept'
<1> SUFFICES ASSUME TypeOK, OneRecordPerId, RunHolds, ToldKept, [Next]_vars
             PROVE  ToldKept'
  OBVIOUS
<1>0. LedgerOK(mem) /\ UniqueIds(mem)
  BY DEF TypeOK, LedgerOK, OneRecordPerId
<1>1. ASSUME NEW r \in Requests, Prepare(r) PROVE ToldKept'
  <2> DEFINE claim == [req |-> r, at |-> sent[r]]
             n(k) == [receipts |-> k, claims |-> mem.claims \cup {claim}]
  <2>1. PICK outcome \in Outcomes, kept \in Trims(mem.receipts) :
          /\ Write(n(kept), outcome)
          /\ ReceiptsOf(n(kept)) \subseteq ReceiptsOf(mem)
          /\ evicted' = evicted \cup Loses(n(kept), outcome)
    BY <1>1, PrepareWrites
  <2>2. phase = "open" /\ told' = told /\ ReceiptAt(mem, IdOf[r]) = {}
    BY <1>1 DEF Prepare, Held, Unrecorded
  <2>3. n(kept).claims = mem.claims \cup {claim} /\ claim.req = r
    OBVIOUS
  <2> HIDE DEF claim, n
  <2>4. ASSUME NEW x \in ReceiptsOf(mem), Records(n(kept), IdOf[x.req])
        PROVE  x \in ReceiptsOf(n(kept))
    <3>1. PICK y \in ReceiptsOf(n(kept)) \cup n(kept).claims : IdOf[y.req] = IdOf[x.req]
      BY <2>4, RecordsBySet
    <3>2. IdOf[x.req] # IdOf[r]
      BY <2>2, RecordsBySet
    <3> QED BY <1>0, <2>1, <2>3, <3>1, <3>2, UniqueBySet
  <2>5. Keeps(n(kept))
    BY <2>4 DEF Keeps
  <2> QED BY <2>1, <2>2, <2>5, ToldWrite
<1>2. CASE Complete
  <2> DEFINE new == Receipted(run.claim, run.outcome)
             n(k) == [receipts |-> k, claims |-> mem.claims \ {run.claim}]
  <2>1. PICK outcome \in Outcomes, kept \in Trims(Append(mem.receipts, new)) :
          /\ Write(n(kept), outcome)
          /\ ReceiptsOf(n(kept)) \subseteq ReceiptsOf(mem) \cup {new}
          /\ new \in ReceiptsOf(n(kept))
          /\ evicted' = evicted \cup Loses(n(kept), outcome)
          /\ \/ outcome = "written" /\ Tell(run.claim.req, run.outcome)
             \/ UNCHANGED told
    BY <1>2, CompleteWrites
  <2>2. phase = "open" /\ run.claim \in mem.claims
    BY <1>2 DEF Complete, RunHolds, Idle
  <2>3. /\ n(kept).claims = mem.claims \ {run.claim}
        /\ new.req = run.claim.req /\ new.result = run.outcome
    BY DEF Receipted
  <2> HIDE DEF new, n
  <2>4. ASSUME NEW x \in ReceiptsOf(mem), Records(n(kept), IdOf[x.req])
        PROVE  x \in ReceiptsOf(n(kept))
    <3>1. PICK y \in ReceiptsOf(n(kept)) \cup n(kept).claims : IdOf[y.req] = IdOf[x.req]
      BY <2>4, RecordsBySet
    <3>2. IdOf[x.req] # IdOf[run.claim.req]
      BY <1>0, <2>2, UniqueBySet
    <3> QED BY <1>0, <2>1, <2>3, <3>1, <3>2, UniqueBySet
  <2>5. Keeps(n(kept))
    BY <2>4 DEF Keeps
  <2>6. ASSUME NEW r \in Requests, told'[r] # "none", IdOf[r] \notin evicted'
        PROVE  \/ told'[r] = told[r] /\ IdOf[r] \notin evicted \cup Loses(n(kept), outcome)
               \/ /\ outcome = "written"
                  /\ \E x \in ReceiptsOf(n(kept)) : x.req = r /\ x.result = told'[r]
    BY <2>1, <2>3, <2>6 DEF Tell, TypeOK
  <2> QED BY <2>1, <2>2, <2>5, <2>6, ToldWrite
<1>3. ASSUME NEW r \in Requests, Commit(r) PROVE ToldKept'
  <2> DEFINE new == [req |-> r, result |-> "ok", at |-> 0]
             n(k) == [receipts |-> k, claims |-> mem.claims]
  <2>1. PICK outcome \in Outcomes, kept \in Trims(Append(mem.receipts, new)) :
          /\ Write(n(kept), outcome)
          /\ ReceiptsOf(n(kept)) \subseteq ReceiptsOf(mem) \cup {new}
          /\ new \in ReceiptsOf(n(kept))
          /\ \/ /\ outcome = "written"
                /\ evicted' = (evicted \cup Loses(n(kept), outcome)) \ {IdOf[r]}
                /\ TellFirst(r, "ok")
             \/ /\ outcome # "written"
                /\ evicted' = evicted \cup Loses(n(kept), outcome)
                /\ UNCHANGED told
    BY <1>3, CommitWrites
  <2>2. phase = "open" /\ ReceiptAt(mem, IdOf[r]) = {}
    BY <1>3 DEF Commit, Held
  <2>3. n(kept).claims = mem.claims /\ new.req = r /\ new.result = "ok"
    OBVIOUS
  <2> HIDE DEF new, n
  <2>4. ASSUME NEW x \in ReceiptsOf(mem), Records(n(kept), IdOf[x.req])
        PROVE  x \in ReceiptsOf(n(kept))
    <3>1. PICK y \in ReceiptsOf(n(kept)) \cup n(kept).claims : IdOf[y.req] = IdOf[x.req]
      BY <2>4, RecordsBySet
    <3>2. IdOf[x.req] # IdOf[r]
      BY <2>2, RecordsBySet
    <3> QED BY <1>0, <2>1, <2>3, <3>1, <3>2, UniqueBySet
  <2>5. Keeps(n(kept))
    BY <2>4 DEF Keeps
  <2>6. ASSUME NEW x \in Requests, told'[x] # "none", IdOf[x] \notin evicted'
        PROVE  \/ told'[x] = told[x] /\ IdOf[x] \notin evicted \cup Loses(n(kept), outcome)
               \/ /\ outcome = "written"
                  /\ \E y \in ReceiptsOf(n(kept)) : y.req = x /\ y.result = told'[x]
    BY <2>1, <2>3, <2>6 DEF TellFirst
  <2> QED BY <2>1, <2>2, <2>5, <2>6, ToldWrite
<1>4. CASE Call
  <2>1. /\ run.claim \in mem.claims
        /\ UNCHANGED <<disk, mem, phase>>
        /\ evicted' = evicted \ {IdOf[run.claim.req]}
        /\ TellFirst(run.claim.req, "none")
    BY <1>4 DEF Call, RunHolds
  <2>2. \A x \in ReceiptsOf(mem) : IdOf[x.req] # IdOf[run.claim.req]
    BY <1>0, <2>1, UniqueBySet
  <2>3. ASSUME NEW r \in Requests, told'[r] # "none", IdOf[r] \notin evicted'
        PROVE  told'[r] = told[r] /\ IdOf[r] \notin evicted
    BY <2>1, <2>3 DEF TellFirst
  <2>4. ToldIsDurable'
    BY <2>1, <2>3 DEF ToldKept, ToldIsDurable
  <2> QED BY <2>1, <2>2, <2>3, <2>4 DEF ToldKept
<1>5. ASSUME NEW r \in Requests, Replay(r) PROVE ToldKept'
  <2>1. PICK k \in ReceiptAt(mem, IdOf[r]) :
          IF SameRequest(r, mem.receipts[k].req)
            THEN Tell(r, mem.receipts[k].result) ELSE UNCHANGED told
    BY <1>5 DEF Replay
  <2>2. mem.receipts[k] \in ReceiptsOf(mem)
    BY DEF ReceiptAt, ReceiptsOf
  <2>3. phase = "open" /\ UNCHANGED <<disk, mem, phase, evicted>>
    BY <1>5 DEF Replay, Held
  <2>4. ASSUME NEW x \in Requests, told'[x] # "none", IdOf[x] \notin evicted
        PROVE  /\ \E y \in ReceiptsOf(mem) : y.req = x /\ y.result = told'[x]
               /\ \E y \in ReceiptsOf(disk) : y.req = x /\ y.result = told'[x]
    <3>1. CASE told'[x] = told[x]
      BY <2>3, <2>4, <3>1, ToldBySet DEF ToldKept, ToldIn
    <3>2. CASE told'[x] # told[x]
      <4>1. x = r /\ mem.receipts[k].req = r /\ told'[x] = mem.receipts[k].result
        BY <2>1, <3>2 DEF Tell, TypeOK, SameRequest
      <4>2. mem.receipts[k] \in ReceiptsOf(disk)
        BY <2>2, <2>3, <2>4, <4>1 DEF ToldKept
      <4> QED BY <2>2, <4>1, <4>2
    <3> QED BY <3>1, <3>2
  <2>5. ToldIsDurable'
    BY <2>3, <2>4 DEF ToldIsDurable, ReceiptsOf
  <2> QED BY <2>3, <2>4, <2>5 DEF ToldKept
<1>6. CASE OpenDaemon
  <2>1. mem' = disk /\ UNCHANGED <<disk, evicted, told>>
    BY <1>6 DEF OpenDaemon
  <2> QED BY <2>1, ToldBySet DEF ToldKept, ToldIn, ToldIsDurable
<1>7. CASE KeepClaim \/ Stop \/ Bind \/ Check \/ Revoke \/ Tick \/ UNCHANGED vars
  BY <1>7 DEF KeepClaim, Stop, Bind, Check, Revoke, Tick, vars, ToldKept, ToldIsDurable
<1>8. ASSUME NEW r \in Requests, Send(r) \/ FindsClaim(r) \/ Refuse(r) PROVE ToldKept'
  BY <1>8 DEF Send, FindsClaim, Refuse, ToldKept, ToldIsDurable
<1> QED BY <1>1, <1>2, <1>3, <1>4, <1>5, <1>6, <1>7, <1>8 DEF Next
-----------------------------------------------------------------------------
(* The authority that the records name.                                     *)

\* A write adds records that are good to a ledger of good records.
LEMMA AuthorityWrite ==
  ASSUME AuthorityKept, phase = "open", UNCHANGED <<now, phase, revokedAt, known, overlapped>>,
         NEW next, NEW outcome \in Outcomes, Write(next, outcome),
         \A x \in ReceiptsOf(next) \cup next.claims :
           x \in ReceiptsOf(mem) \cup mem.claims \/ GoodRecord(x)
  PROVE  AuthorityKept'
<1>1. \A x \in ReceiptsOf(next) \cup next.claims : GoodRecord(x)
  BY DEF AuthorityKept
<1>2. \A x : GoodRecord(x)' <=> GoodRecord(x)
  BY DEF GoodRecord, ActiveAt
<1>3. disk' \in {disk, next} /\ mem' \in {mem, next}
  BY DEF Write
<1> QED BY <1>1, <1>2, <1>3 DEF AuthorityKept

\* Every step keeps the records good.
LEMMA AuthorityInvariant ==
  TypeOK /\ TimesRead /\ RunHolds /\ AuthorityKept /\ [Next]_vars => AuthorityKept'
<1> SUFFICES ASSUME TypeOK, TimesRead, RunHolds, AuthorityKept, [Next]_vars
             PROVE  AuthorityKept'
  OBVIOUS
<1> USE LedgerAssumption
<1>0. ASSUME NEW x \in ReceiptsOf(disk) \cup disk.claims \cup ReceiptsOf(mem) \cup mem.claims
      PROVE  x.at \in Nat
  <2>1. LedgerOK(disk) /\ LedgerOK(mem)
    BY DEF TypeOK, LedgerOK
  <2>2. CASE x \in ReceiptsOf(disk) \cup ReceiptsOf(mem)
    BY <2>1, <2>2, ReceiptIds DEF Receipts
  <2>3. CASE x \in disk.claims \cup mem.claims
    BY <2>1, <2>3 DEF LedgerOK, Ledgers, Claims
  <2> QED BY <1>0, <2>2, <2>3
<1>1. ASSUME NEW r \in Requests, Prepare(r) PROVE AuthorityKept'
  <2> DEFINE claim == [req |-> r, at |-> sent[r]]
             n(k) == [receipts |-> k, claims |-> mem.claims \cup {claim}]
  <2>1. PICK outcome \in Outcomes, kept \in Trims(mem.receipts) :
          /\ Write(n(kept), outcome)
          /\ ReceiptsOf(n(kept)) \subseteq ReceiptsOf(mem)
    BY <1>1, PrepareWrites
  <2>2. /\ phase = "open" /\ sent[r] # Never /\ known = Never /\ sent[r] < ExpiresAt
        /\ UNCHANGED <<now, phase, revokedAt, known, overlapped>>
    BY <1>1 DEF Prepare, Held, Authorized
  <2>3. sent[r] <= now /\ sent[r] \in Nat /\ sent[r] < Never
    BY <2>2 DEF TimesRead, TypeOK, Never
  <2>4. GoodRecord(claim)
    BY <2>2, <2>3 DEF GoodRecord, ActiveAt, AuthorityKept
  <2>5. n(kept).claims = mem.claims \cup {claim}
    OBVIOUS
  <2> HIDE DEF claim, n
  <2> QED BY <2>1, <2>2, <2>4, <2>5, AuthorityWrite
<1>2. CASE Complete
  <2> DEFINE new == Receipted(run.claim, run.outcome)
             n(k) == [receipts |-> k, claims |-> mem.claims \ {run.claim}]
  <2>1. PICK outcome \in Outcomes, kept \in Trims(Append(mem.receipts, new)) :
          /\ Write(n(kept), outcome)
          /\ ReceiptsOf(n(kept)) \subseteq ReceiptsOf(mem) \cup {new}
    BY <1>2, CompleteWrites
  <2>2. /\ phase = "open" /\ run.claim \in mem.claims
        /\ UNCHANGED <<now, phase, revokedAt, known, overlapped>>
    BY <1>2 DEF Complete, RunHolds, Idle
  <2>3. GoodRecord(run.claim)
    BY <2>2 DEF AuthorityKept
  <2>4. GoodRecord(new)
    BY <2>3 DEF GoodRecord, Receipted
  <2>5. n(kept).claims \subseteq mem.claims
    OBVIOUS
  <2> HIDE DEF new, n
  <2> QED BY <2>1, <2>2, <2>4, <2>5, AuthorityWrite
<1>3. ASSUME NEW r \in Requests, Commit(r) PROVE AuthorityKept'
  <2> DEFINE new == [req |-> r, result |-> "ok", at |-> 0]
             n(k) == [receipts |-> k, claims |-> mem.claims]
  <2>1. PICK outcome \in Outcomes, kept \in Trims(Append(mem.receipts, new)) :
          /\ Write(n(kept), outcome)
          /\ ReceiptsOf(n(kept)) \subseteq ReceiptsOf(mem) \cup {new}
    BY <1>3, CommitWrites
  <2>2. /\ phase = "open" /\ r \notin ProviderCalls
        /\ UNCHANGED <<now, phase, revokedAt, known, overlapped>>
    BY <1>3 DEF Commit, Held
  <2>3. GoodRecord(new)
    BY <2>2 DEF GoodRecord
  <2>4. n(kept).claims = mem.claims
    OBVIOUS
  <2> HIDE DEF new, n
  <2> QED BY <2>1, <2>2, <2>3, <2>4, AuthorityWrite
<1>4. CASE Revoke
  <2>1. /\ UNCHANGED <<now, disk, mem, phase, known>>
        /\ overlapped' = (overlapped \/ phase = "open")
        /\ revokedAt' = revokedAt \/ revokedAt' = now
    BY <1>4 DEF Revoke
  <2>2. CASE phase = "open"
    BY <2>1, <2>2 DEF AuthorityKept, GoodRecord
  <2>3. CASE phase # "open"
    <3>1. ASSUME NEW x \in ReceiptsOf(disk) \cup disk.claims, x.req \in ProviderCalls
          PROVE  x.at < now /\ x.at <= now /\ (overlapped' \/ ActiveAt(x.at, revokedAt'))
      BY <1>0, <2>1, <2>3, <3>1 DEF AuthorityKept, GoodRecord, ActiveAt, TypeOK
    <3> QED BY <2>1, <2>3, <3>1 DEF AuthorityKept, GoodRecord
  <2> QED BY <2>2, <2>3
<1>5. CASE Stop
  <2>1. /\ now' = now + 1 /\ phase' = "down"
        /\ UNCHANGED <<disk, revokedAt, overlapped>>
    BY <1>5 DEF Stop
  <2>2. ASSUME NEW x \in ReceiptsOf(disk) \cup disk.claims, x.req \in ProviderCalls
        PROVE  x.at < now' /\ x.at <= now' /\ (overlapped \/ ActiveAt(x.at, revokedAt))
    BY <1>0, <2>1, <2>2 DEF AuthorityKept, GoodRecord, TypeOK
  <2> QED BY <2>1, <2>2 DEF AuthorityKept, GoodRecord, ActiveAt
<1>6. CASE Tick
  <2>1. now' = now + 1 /\ UNCHANGED <<disk, mem, phase, revokedAt, known, overlapped>>
    BY <1>6 DEF Tick
  <2>2. ASSUME NEW x \in ReceiptsOf(disk) \cup disk.claims \cup ReceiptsOf(mem) \cup mem.claims
        PROVE  /\ GoodRecord(x) => GoodRecord(x)'
               /\ x.at < now => x.at < now'
    BY <1>0, <2>1 DEF GoodRecord, ActiveAt, TypeOK
  <2> QED BY <2>1, <2>2 DEF AuthorityKept
<1>7. CASE OpenDaemon
  <2>1. /\ mem' = disk /\ known' = revokedAt /\ phase' = "open"
        /\ UNCHANGED <<now, disk, revokedAt, overlapped>>
    BY <1>7 DEF OpenDaemon
  <2> QED BY <2>1 DEF AuthorityKept, GoodRecord, ActiveAt
<1>8. CASE Call \/ KeepClaim \/ Bind \/ Check \/ UNCHANGED vars
  BY <1>8 DEF Call, KeepClaim, Bind, Check, vars, AuthorityKept, GoodRecord, ActiveAt
<1>9. ASSUME NEW r \in Requests, Send(r) \/ Replay(r) \/ FindsClaim(r) \/ Refuse(r)
      PROVE AuthorityKept'
  BY <1>9 DEF Send, Replay, FindsClaim, Refuse, AuthorityKept, GoodRecord, ActiveAt
<1> QED BY <1>1, <1>2, <1>3, <1>4, <1>5, <1>6, <1>7, <1>8, <1>9 DEF Next
-----------------------------------------------------------------------------
(* The theorems.                                                            *)

\* The inductive invariant holds in every reachable state.
THEOREM LedgerInvariant == Spec => []IInv
<1>1. Init => IInv
  <2> SUFFICES ASSUME Init PROVE IInv
    OBVIOUS
  <2>1. ReceiptsOf(NoLedger) = {} /\ NoLedger.claims = {} /\ UniqueIds(NoLedger)
    BY NoLedgerType DEF UniqueIds, ReceiptAt, NoLedger
  <2>2. TimesRead
    BY LedgerAssumption DEF Init, TimesRead
  <2>3. OneRecordPerId /\ CallsKept /\ RunHolds
    BY <2>1 DEF Init, OneRecordPerId, CallsKept, CallRecorded, RunHolds, Idle
  <2>4. ToldKept /\ AuthorityKept
    BY <2>1 DEF Init, ToldKept, ToldIsDurable, AuthorityKept
  <2> QED BY <2>2, <2>3, <2>4 DEF IInv
<1>2. TypeOK /\ IInv /\ [Next]_vars => IInv'
  BY TimesInvariant, UniqueInvariant, CallsInvariant, ToldInvariant, AuthorityInvariant
  DEF IInv
<1> QED BY <1>1, <1>2, TypeCorrect, PTL DEF Spec

\* No id owns two records, whatever fails and however requests share ids.
THEOREM Uniqueness == Spec => []OneRecordPerId
BY LedgerInvariant, PTL DEF IInv

\* The state file records every call until its receipt is trimmed.
THEOREM Durability == Spec => []CallRecorded
BY LedgerInvariant, PTL DEF IInv, CallsKept

\* The vault is not asked twice for an id whose record is kept.
THEOREM AtMostOnce == Spec => CalledOnce
<1>1. IInv /\ [Next]_vars =>
        [run.step = "prepared" /\ run'.step = "called"
           => IdOf[run.claim.req] \notin called \ evicted]_vars
  BY DEF IInv, RunHolds
<1> QED BY <1>1, LedgerInvariant, PTL DEF Spec, CalledOnce

\* A definitive answer survives every failed write and restart.
THEOREM AnswersKept == Spec => []ToldIsDurable
BY LedgerInvariant, PTL DEF IInv, ToldKept

\* The daemon opens the state file it left, unless a revocation was written while
\* it was open.
THEOREM Restartable == Spec => []Reopens
<1>1. TypeOK /\ IInv => Reopens
  <2> SUFFICES ASSUME TypeOK, IInv, ~overlapped PROVE Opens(disk, revokedAt)
    BY DEF Reopens
  <2>1. UniqueIds(disk)
    BY DEF IInv, OneRecordPerId
  <2>2. \A x \in ReceiptsOf(disk) \cup disk.claims :
          x.req \in ProviderCalls => ActiveAt(x.at, revokedAt)
    BY DEF IInv, AuthorityKept, GoodRecord
  <2>3. \A c \in disk.claims : c.req \in ProviderCalls
    BY DEF TypeOK, Ledgers, Claims
  <2>4. ReferencesHold(disk, revokedAt)
    BY <2>2, <2>3, ReferencesBySet
  <2> QED BY <2>1, <2>4 DEF Opens
<1> QED BY <1>1, TypeCorrect, LedgerInvariant, PTL

-----------------------------------------------------------------------------
(* The connection card, its hosts and the sessions of the daemon.           *)

USE BridgeAssumption

LEMMA AppendKeeps ==
  ASSUME NEW S, NEW s \in Seq(S), NEW e \in S
  PROVE  /\ Append(s, e) \in Seq(S) /\ Append(s, e) # <<>> /\ Len(Append(s, e)) = Len(s) + 1
         /\ \A i \in DOMAIN s : i \in DOMAIN Append(s, e) /\ Append(s, e)[i] = s[i]
         /\ Append(s, e)[Len(s) + 1] = e /\ Len(s) + 1 \in DOMAIN Append(s, e)
OBVIOUS

LEMMA FunctionSeq ==
  ASSUME NEW S, NEW s \in Seq(S), NEW T, NEW f, f = [i \in DOMAIN s |-> f[i]],
         \A i \in DOMAIN s : f[i] \in T
  PROVE  f \in Seq(T) /\ DOMAIN f = DOMAIN s /\ Len(f) = Len(s)
OBVIOUS

LEMMA ExceptSeq ==
  ASSUME NEW S, NEW s \in Seq(S), NEW n, NEW e \in S
  PROVE  /\ [s EXCEPT ![n] = e] \in Seq(S) /\ DOMAIN [s EXCEPT ![n] = e] = DOMAIN s
         /\ Len([s EXCEPT ![n] = e]) = Len(s)
         /\ \A i \in DOMAIN s : [s EXCEPT ![n] = e][i] = IF i = n THEN e ELSE s[i]
<1>1. /\ DOMAIN [s EXCEPT ![n] = e] = DOMAIN s
      /\ \A i \in DOMAIN s : [s EXCEPT ![n] = e][i] = IF i = n THEN e ELSE s[i]
  OBVIOUS
<1>2. DOMAIN s = 1 .. Len(s) /\ Len(s) \in Nat
  OBVIOUS
<1>3. [s EXCEPT ![n] = e] \in [1 .. Len(s) -> S]
  <2>1. s \in [1 .. Len(s) -> S]
    BY <1>2
  <2> QED
    BY <2>1
<1> QED
  BY <1>1, <1>2, <1>3

LEMMA AppendCases ==
  ASSUME NEW S, NEW s \in Seq(S), NEW e
  PROVE  \A i \in DOMAIN Append(s, e) : (i \in DOMAIN s /\ Append(s, e)[i] = s[i])
                                          \/ (i = Len(s) + 1 /\ Append(s, e)[i] = e)
OBVIOUS

LEMMA TailCases ==
  ASSUME NEW S, NEW s \in Seq(S), s # <<>>
  PROVE  /\ \A i \in DOMAIN Tail(s) : i \in Nat \ {0} /\ i + 1 \in DOMAIN s /\ Tail(s)[i] = s[i + 1]
         /\ Head(s) = s[1] /\ 1 \in DOMAIN s /\ Tail(s) \in Seq(S)
         /\ Tail(s) # <<>> => Tail(s)[Len(Tail(s))] = s[Len(s)]
         /\ Tail(s) = <<>> => Len(s) = 1
<1>1. \A i \in DOMAIN Tail(s) : i \in Nat \ {0} /\ i + 1 \in DOMAIN s /\ Tail(s)[i] = s[i + 1]
  OBVIOUS
<1>2. Head(s) = s[1] /\ 1 \in DOMAIN s /\ Tail(s) \in Seq(S) /\ Len(Tail(s)) = Len(s) - 1 /\ Len(s) \in Nat
  OBVIOUS
<1>3. Tail(s) # <<>> => Len(Tail(s)) \in DOMAIN Tail(s)
  BY <1>2
<1>4. Tail(s) = <<>> => Len(s) = 1
  <2>1. Len(<<>>) = 0
    OBVIOUS
  <2>2. Tail(s) = <<>> => Len(Tail(s)) = 0
    BY <2>1
  <2> QED
    BY <1>2, <2>2
<1> QED
  BY <1>1, <1>2, <1>3, <1>4

-----------------------------------------------------------------------------
(* Types.                                                                   *)

CardStatuses == [state : States, session : Nat \cup {Nil}]
Processes == [at : {"none", "running", "missing", "gone"}, closing : BOOLEAN,
              doing : Nat \cup {Nil}, step : {"idle", "opening", "projecting", "refreshing"},
              connection : Nat \cup {Nil}, transport : Nat \cup {Nil}, status : CardStatuses]
Demands == [command : Commands, port : Hosts, at : {"waiting", "settled", "late"}]
Replied == [id : Nat, status : CardStatuses]

CardTypes ==
  /\ shown \in CardStatuses
  /\ port \in Hosts \cup {Nil}
  /\ request \in Seq(Demands)
  /\ toHost \in [Hosts -> Seq(Nat)]
  /\ toPage \in [Hosts -> Seq(Replied)]
  /\ host \in [Hosts -> Processes]
  /\ session \in Seq({"open", "ended"})

-----------------------------------------------------------------------------
(* The invariants.                                                          *)

\* A process that has not been started holds nothing.
Clean == \A h \in Hosts : host[h].at = "none" =>
  toHost[h] = <<>> /\ toPage[h] = <<>> /\ host[h] = NotStarted /\ port # h

\* What a process holds, by what it does.
Steady(q) ==
  /\ q.step # "idle" => q.doing # Nil
  /\ q.step # "projecting" => q.transport = Nil
  /\ q.step \in {"opening", "projecting"} => q.connection = Nil
  /\ q.status.state = "connecting" => q.step \in {"opening", "projecting"}
  /\ q.status.state = "connected" => q.connection = q.status.session
AllSteady == \A h \in Hosts : Steady(host[h])

\* Every open session has its process.
HeldBy(s, q) == q.at = "running" /\ s \in {q.connection, q.transport}
OpenHeld == \A s \in DOMAIN session : session[s] = "open" => \E h \in Hosts : HeldBy(s, host[h])

\* A request is at most once on its way through a port.
Once(h) ==
  /\ \A i, j \in DOMAIN toHost[h] : i # j => toHost[h][i] # toHost[h][j]
  /\ \A i, j \in DOMAIN toPage[h] : i # j => toPage[h][i].id # toPage[h][j].id
  /\ \A i \in DOMAIN toPage[h], j \in DOMAIN toHost[h] : toPage[h][i].id # toHost[h][j]
  /\ host[h].doing # Nil =>
       /\ \A i \in DOMAIN toPage[h] : toPage[h][i].id # host[h].doing
       /\ \A j \in DOMAIN toHost[h] : toHost[h][j] # host[h].doing
AllOnce == \A h \in Hosts : Once(h)

InLine(h, r) ==
  \/ \E i \in DOMAIN toHost[h] : toHost[h][i] = r
  \/ host[h].doing = r
  \/ \E i \in DOMAIN toPage[h] : toPage[h][i].id = r

\* A request on its way through a port was sent by it, and while the page keeps the port
\* it is not settled.
Lined == \A h \in Hosts, r \in Nat : InLine(h, r) =>
  /\ r \in DOMAIN request /\ request[r].port = h
  /\ port = h => request[r].at \in {"waiting", "late"}

\* Only requests of the port are waited for.
Waits == \A r \in DOMAIN request : request[r].at = "waiting" => request[r].port = port

\* A card that connects has a request that was not answered, and one that is connected
\* has a port.
Connecting == shown.state = "connecting" =>
  \E r \in DOMAIN request : request[r].port = port /\ request[r].at \in {"waiting", "late"}
HasPort == shown.state \in {"connecting", "connected"} => port # Nil

\* No answer says connecting.
Final == \A h \in Hosts : \A i \in DOMAIN toPage[h] : toPage[h][i].status.state # "connecting"

\* The last answer is the status of the host, and so is what the card shows when nothing
\* is on its way.
LastAnswer == port # Nil /\ host[port].at = "running" =>
  /\ toPage[port] # <<>> /\ host[port].doing = Nil =>
       toPage[port][Len(toPage[port])].status = host[port].status
  /\ ~GaveUpOnPort /\ (\A r \in Nat : ~InLine(port, r)) => shown = host[port].status

CardInv == /\ CardTypes /\ Clean /\ AllSteady /\ OpenHeld /\ AllOnce /\ Lined /\ Waits
           /\ Connecting /\ HasPort /\ Final /\ LastAnswer

-----------------------------------------------------------------------------
(* Typing.                                                                  *)

LEMMA PlainStatuses ==
  /\ Disconnected \in CardStatuses /\ Failed \in CardStatuses
         /\ Empty("connecting") \in CardStatuses
         /\ Empty("native-host-unavailable") \in CardStatuses
         /\ \A s \in Nat : Connected(s) \in CardStatuses
BY DEF Disconnected, Failed, Empty, Connected, CardStatuses, States

LEMMA StartedType ==
  ASSUME NEW at \in {"none", "running", "missing", "gone"}
  PROVE  /\ NotStarted \in Processes /\ Started(at) \in Processes
         /\ Steady(NotStarted) /\ Steady(Started(at))
         /\ Started(at).at = at /\ Started(at).doing = Nil
         /\ Started(at).status = Disconnected /\ NotStarted.doing = Nil
         /\ NotStarted.status = Disconnected
BY PlainStatuses DEF NotStarted, Started, Processes, Steady, Disconnected, Empty

LEMMA ClosedSession ==
  ASSUME CardTypes, NEW s \in Nat \cup {Nil}
  PROVE  /\ Closed(s) \in Seq({"open", "ended"})
         /\ DOMAIN Closed(s) = DOMAIN session
         /\ \A t \in DOMAIN session : Closed(s)[t] = IF t = s THEN "ended" ELSE session[t]
<1>1. session \in Seq({"open", "ended"}) /\ DOMAIN session = 1 .. Len(session) /\ Len(session) \in Nat
  BY DEF CardTypes
<1>2. CASE s = Nil
  BY <1>1, <1>2 DEF Closed
<1>3. CASE s # Nil
  <2>1. Closed(s) = [session EXCEPT ![s] = "ended"]
    BY <1>3 DEF Closed
  <2> QED
    BY <1>1, <2>1, ExceptSeq
<1> QED
  BY <1>2, <1>3

LEMMA SettledType ==
  ASSUME CardTypes, NEW how \in {"settled", "late"}
  PROVE  /\ Settled(how) \in Seq(Demands) /\ DOMAIN Settled(how) = DOMAIN request
         /\ \A r \in DOMAIN request :
              /\ Settled(how)[r].port = request[r].port
              /\ Settled(how)[r].at = IF Waiting(r) THEN how ELSE request[r].at
<1>1. request \in Seq(Demands) /\ \A r \in DOMAIN request : request[r] \in Demands
  BY DEF CardTypes
<1>2. Settled(how) = [r \in DOMAIN request |-> Settled(how)[r]]
  BY DEF Settled
<1>3. \A r \in DOMAIN request :
        /\ Settled(how)[r] \in Demands
        /\ Settled(how)[r].port = request[r].port
        /\ Settled(how)[r].at = IF Waiting(r) THEN how ELSE request[r].at
  <2> SUFFICES ASSUME NEW r \in DOMAIN request
               PROVE  /\ Settled(how)[r] \in Demands
                      /\ Settled(how)[r].port = request[r].port
                      /\ Settled(how)[r].at = IF Waiting(r) THEN how ELSE request[r].at
    OBVIOUS
  <2>1. Settled(how)[r] = IF Waiting(r) THEN [request[r] EXCEPT !.at = how] ELSE request[r]
    BY DEF Settled
  <2>2. request[r] \in Demands
    BY <1>1
  <2> QED
    BY <2>1, <2>2 DEF Demands
<1> QED
  BY <1>1, <1>2, <1>3, FunctionSeq

LEMMA SettleType ==
  ASSUME CardTypes, NEW how \in {"settled", "late"}, NEW r \in DOMAIN request, Settle(r, how)
  PROVE  /\ request' \in Seq(Demands) /\ DOMAIN request' = DOMAIN request
         /\ \A q \in DOMAIN request : /\ request'[q].port = request[q].port
                                    /\ request'[q].at = IF q = r THEN how ELSE request[q].at
<1>1. request \in Seq(Demands) /\ \A q \in DOMAIN request : request[q] \in Demands
  BY DEF CardTypes
<1>2. request' = [request EXCEPT ![r] = [request[r] EXCEPT !.at = how]]
  BY DEF Settle
<1>3. [request[r] EXCEPT !.at = how] \in Demands
  BY <1>1 DEF Demands
<1>4. /\ request' \in Seq(Demands) /\ DOMAIN request' = DOMAIN request
      /\ \A q \in DOMAIN request : request'[q] = IF q = r THEN [request[r] EXCEPT !.at = how] ELSE request[q]
  BY <1>1, <1>2, <1>3, ExceptSeq
<1> QED
  BY <1>1, <1>4 DEF Demands

\* What a host does when it has finished a message.
AnswersWith(h, c, st) ==
  /\ \A g \in Hosts \ {h} : host'[g] = host[g] /\ toPage'[g] = toPage[g]
  /\ host'[h] = [host[h] EXCEPT !.doing = Nil, !.step = "idle", !.status = st,
                                !.connection = c, !.transport = Nil]
  /\ toPage'[h] = IF port = h THEN Append(toPage[h], [id |-> host[h].doing, status |-> st])
                  ELSE toPage[h]

LEMMA AnswerType ==
  ASSUME CardTypes, NEW h \in Hosts, host[h].doing # Nil,
         NEW c \in Nat \cup {Nil}, NEW st \in CardStatuses, Answer(h, c, st)
  PROVE  /\ host' \in [Hosts -> Processes] /\ toPage' \in [Hosts -> Seq(Replied)]
         /\ AnswersWith(h, c, st)
<1>1. host \in [Hosts -> Processes] /\ toPage \in [Hosts -> Seq(Replied)]
  BY DEF CardTypes
<1>2. /\ host' = [host EXCEPT ![h] = [host[h] EXCEPT !.doing = Nil, !.step = "idle", !.status = st,
                                                     !.connection = c, !.transport = Nil]]
      /\ toPage' = [toPage EXCEPT ![h] = IF port = h
                      THEN Append(toPage[h], [id |-> host[h].doing, status |-> st])
                      ELSE toPage[h]]
  BY DEF Answer
<1>3. [host[h] EXCEPT !.doing = Nil, !.step = "idle", !.status = st,
                      !.connection = c, !.transport = Nil] \in Processes
  <2>1. host[h] \in Processes
    BY <1>1
  <2> QED
    BY <2>1 DEF Processes
<1>4. [id |-> host[h].doing, status |-> st] \in Replied
  <2>1. host[h].doing \in Nat
    BY <1>1 DEF Processes
  <2> QED
    BY <2>1 DEF Replied
<1>5. Append(toPage[h], [id |-> host[h].doing, status |-> st]) \in Seq(Replied)
  BY <1>1, <1>4, AppendKeeps
<1> QED
  BY <1>1, <1>2, <1>3, <1>5 DEF AnswersWith

-----------------------------------------------------------------------------
(* What a host may do.                                                      *)

OthersStay(h) == \A g \in Hosts \ {h} :
  host'[g] = host[g] /\ toPage'[g] = toPage[g] /\ toHost'[g] = toHost[g]

\* It begins a message, goes on with it, or has finished it.
BeginsMessage(h) ==
  /\ host[h].doing = Nil /\ toHost[h] # <<>>
  /\ host'[h] = [host[h] EXCEPT !.doing = Head(toHost[h])]
  /\ toHost'[h] = Tail(toHost[h]) /\ toPage'[h] = toPage[h]
GoesOnWith(h) ==
  /\ host[h].doing # Nil /\ host'[h].doing = host[h].doing /\ host'[h].at = host[h].at
  /\ toHost'[h] = toHost[h] /\ toPage'[h] = toPage[h]
FinishesMessage(h) == \E c \in Nat \cup {Nil}, st \in CardStatuses :
  /\ host[h].doing # Nil /\ st.state # "connecting"
  /\ AnswersWith(h, c, st) /\ toHost'[h] = toHost[h]

\* The sessions that are open after it were so before and are of others, or it holds them.
Accounts(h) == \A s \in DOMAIN session' : session'[s] = "open" =>
  \/ HeldBy(s, host'[h])
  \/ s \in DOMAIN session /\ session[s] = "open" /\ ~HeldBy(s, host[h])

HostMoves(h) ==
  /\ toHost' \in [Hosts -> Seq(Nat)] /\ toPage' \in [Hosts -> Seq(Replied)]
  /\ host' \in [Hosts -> Processes] /\ session' \in Seq({"open", "ended"})
  /\ UNCHANGED <<shown, port, request>>
  /\ OthersStay(h)
  /\ Steady(host'[h])
  /\ Accounts(h)

LEMMA BeginMoves ==
  ASSUME CardTypes, AllSteady, NEW h \in Hosts, Begin(h)
  PROVE  HostMoves(h) /\ host[h].at = "running" /\ BeginsMessage(h)
<1>1. host[h] \in Processes /\ toHost[h] \in Seq(Nat) /\ Steady(host[h])
  BY DEF CardTypes, AllSteady
<1>2. /\ host[h].at = "running" /\ host[h].doing = Nil /\ toHost[h] # <<>>
      /\ host' = [host EXCEPT ![h] = [host[h] EXCEPT !.doing = Head(toHost[h])]]
      /\ toHost' = [toHost EXCEPT ![h] = Tail(toHost[h])]
      /\ UNCHANGED <<shown, port, request, toPage, session>>
  BY DEF Begin, At
<1>3. Head(toHost[h]) \in Nat /\ Tail(toHost[h]) \in Seq(Nat)
  BY <1>1, <1>2
<1>4. [host[h] EXCEPT !.doing = Head(toHost[h])] \in Processes
  BY <1>1, <1>3 DEF Processes
<1>5. Steady([host[h] EXCEPT !.doing = Head(toHost[h])])
  BY <1>1, <1>3, <1>4 DEF Steady, Processes
<1>6. host'[h] = [host[h] EXCEPT !.doing = Head(toHost[h])]
  BY <1>2 DEF CardTypes
<1>7. Accounts(h)
  <2>1. \A s : HeldBy(s, host'[h]) <=> HeldBy(s, host[h])
    BY <1>1, <1>6 DEF HeldBy, Processes
  <2> QED
    BY <1>2, <2>1 DEF Accounts
<1>8. OthersStay(h) /\ toHost'[h] = Tail(toHost[h])
  BY <1>2 DEF OthersStay, CardTypes
<1> QED
  BY <1>2, <1>3, <1>4, <1>5, <1>6, <1>7, <1>8 DEF HostMoves, BeginsMessage, CardTypes

\* The host has finished, and keeps at most the session of its connection.
LEMMA FinishMoves ==
  ASSUME CardTypes, AllSteady, NEW h \in Hosts,
         host[h].at = "running", host[h].doing # Nil,
         NEW c \in Nat \cup {Nil}, NEW st \in CardStatuses, Answer(h, c, st),
         st.state # "connecting", st.state = "connected" => c = st.session,
         session' \in Seq({"open", "ended"}), DOMAIN session' = DOMAIN session,
         \A s \in DOMAIN session : session'[s] = "open" =>
           session[s] = "open" /\ (s \in {host[h].connection, host[h].transport} => s = c),
         UNCHANGED <<shown, port, request, toHost>>
  PROVE  HostMoves(h) /\ host[h].at = "running" /\ FinishesMessage(h)
<1>1. host[h] \in Processes /\ toHost \in [Hosts -> Seq(Nat)]
  BY DEF CardTypes
<1>2. /\ host' \in [Hosts -> Processes] /\ toPage' \in [Hosts -> Seq(Replied)]
      /\ AnswersWith(h, c, st)
  BY AnswerType
<1>3. FinishesMessage(h)
  BY <1>2 DEF FinishesMessage
<1>4. OthersStay(h)
  BY <1>2 DEF OthersStay, AnswersWith
<1>5. host'[h] = [host[h] EXCEPT !.doing = Nil, !.step = "idle", !.status = st,
                                 !.connection = c, !.transport = Nil]
  BY <1>2 DEF AnswersWith
<1>6. Steady(host'[h])
  BY <1>1, <1>5 DEF Steady, Processes
<1>7. Accounts(h)
  <2> SUFFICES ASSUME NEW s \in DOMAIN session, session'[s] = "open", HeldBy(s, host[h])
               PROVE  HeldBy(s, host'[h])
    BY DEF Accounts
  <2>1. s = c
    BY DEF HeldBy
  <2> QED
    BY <1>1, <1>5, <2>1 DEF HeldBy, Processes
<1> QED
  BY <1>1, <1>2, <1>3, <1>4, <1>6, <1>7 DEF HostMoves

\* The host goes on: its process, and perhaps the session of it, are all that changes.
LEMMA GoesOnMoves ==
  ASSUME CardTypes, NEW h \in Hosts, NEW q \in Processes, host' = [host EXCEPT ![h] = q],
         host[h].doing # Nil, q.doing = host[h].doing, q.at = host[h].at, Steady(q),
         session' \in Seq({"open", "ended"}), UNCHANGED <<shown, port, request, toHost, toPage>>,
         \A s \in DOMAIN session' : session'[s] = "open" =>
           \/ HeldBy(s, q)
           \/ s \in DOMAIN session /\ session[s] = "open" /\ ~HeldBy(s, host[h])
  PROVE  HostMoves(h) /\ GoesOnWith(h)
<1>1. host \in [Hosts -> Processes]
  BY DEF CardTypes
<1>2. host' \in [Hosts -> Processes] /\ host'[h] = q /\ \A g \in Hosts \ {h} : host'[g] = host[g]
  BY <1>1
<1>3. OthersStay(h) /\ GoesOnWith(h) /\ Accounts(h)
  BY <1>2 DEF OthersStay, GoesOnWith, Accounts
<1> QED
  BY <1>2, <1>3 DEF HostMoves, CardTypes

LEMMA ConnectMoves ==
  ASSUME CardTypes, AllSteady, NEW h \in Hosts, HandleConnect(h)
  PROVE  HostMoves(h) /\ host[h].at = "running" /\ GoesOnWith(h)
<1> DEFINE q == [host[h] EXCEPT !.connection = Nil, !.step = "opening",
                                !.status = Empty("connecting")]
<1>1. host[h] \in Processes /\ Steady(host[h]) /\ host[h].connection \in Nat \cup {Nil}
  BY DEF CardTypes, AllSteady, Processes
<1>2. /\ host[h].at = "running" /\ host[h].step = "idle" /\ host[h].doing # Nil
      /\ session' = Closed(host[h].connection) /\ host' = [host EXCEPT ![h] = q]
      /\ UNCHANGED <<shown, port, request, toHost, toPage>>
  BY DEF HandleConnect, Does, At
<1>3. q \in Processes /\ q.doing = host[h].doing /\ q.at = host[h].at
  BY <1>1, PlainStatuses DEF Processes
<1>4. Steady(q)
  BY <1>1, <1>2, <1>3 DEF Steady, Processes, Empty
<1>5. /\ session' \in Seq({"open", "ended"}) /\ DOMAIN session' = DOMAIN session
      /\ \A s \in DOMAIN session : session'[s] = IF s = host[h].connection THEN "ended" ELSE session[s]
  BY <1>1, <1>2, ClosedSession
<1>6. host[h].transport = Nil /\ \A s \in DOMAIN session : s # Nil
  BY <1>1, <1>2 DEF Steady, CardTypes
<1>7. \A s \in DOMAIN session' : session'[s] = "open" =>
        s \in DOMAIN session /\ session[s] = "open" /\ ~HeldBy(s, host[h])
  BY <1>5, <1>6 DEF HeldBy
<1> QED
  BY <1>2, <1>3, <1>4, <1>5, <1>7, GoesOnMoves

LEMMA StatusMoves ==
  ASSUME CardTypes, AllSteady, NEW h \in Hosts, HandleStatus(h)
  PROVE  HostMoves(h) /\ host[h].at = "running" /\ (GoesOnWith(h) \/ FinishesMessage(h))
<1>1. host[h] \in Processes /\ Steady(host[h]) /\ session \in Seq({"open", "ended"})
  BY DEF CardTypes, AllSteady
<1>2. /\ host[h].at = "running" /\ host[h].step = "idle" /\ host[h].doing # Nil
      /\ UNCHANGED <<shown, port, request, toHost, session>>
  BY DEF HandleStatus, Does, At
<1>3. host[h].transport = Nil /\ (\A s \in DOMAIN session : s # Nil)
      /\ host[h].status \in CardStatuses /\ host[h].status.state # "connecting"
  BY <1>1, <1>2 DEF Steady, Processes
<1>4. CASE host[h].connection = Nil
  <2>1. Answer(h, Nil, host[h].status)
    BY <1>4 DEF HandleStatus
  <2>2. host[h].status.state = "connected" => Nil = host[h].status.session
    BY <1>1, <1>4 DEF Steady
  <2>3. \A s \in DOMAIN session : session'[s] = "open" =>
          session[s] = "open" /\ (s \in {host[h].connection, host[h].transport} => s = Nil)
    BY <1>2, <1>3, <1>4
  <2> QED
    BY <1>1, <1>2, <1>3, <2>1, <2>2, <2>3, FinishMoves
<1>5. CASE host[h].connection # Nil
  <2> DEFINE q == [host[h] EXCEPT !.step = "refreshing"]
  <2>1. host' = [host EXCEPT ![h] = q] /\ toPage' = toPage
    BY <1>5 DEF HandleStatus
  <2>2. q \in Processes /\ q.doing = host[h].doing /\ q.at = host[h].at
    BY <1>1 DEF Processes
  <2>3. Steady(q)
    BY <1>1, <1>2, <2>2 DEF Steady, Processes
  <2>4. \A s : HeldBy(s, q) <=> HeldBy(s, host[h])
    BY <1>1 DEF HeldBy, Processes
  <2> QED
    BY <1>1, <1>2, <2>1, <2>2, <2>3, <2>4, GoesOnMoves
<1> QED
  BY <1>4, <1>5

LEMMA DisconnectMoves ==
  ASSUME CardTypes, AllSteady, NEW h \in Hosts, HandleDisconnect(h)
  PROVE  HostMoves(h) /\ host[h].at = "running" /\ FinishesMessage(h)
<1>1. host[h] \in Processes /\ Steady(host[h]) /\ host[h].connection \in Nat \cup {Nil}
  BY DEF CardTypes, AllSteady, Processes
<1>2. /\ host[h].at = "running" /\ host[h].step = "idle" /\ host[h].doing # Nil
      /\ session' = Closed(host[h].connection) /\ Answer(h, Nil, Disconnected)
      /\ UNCHANGED <<shown, port, request, toHost>>
  BY DEF HandleDisconnect, Does, At
<1>3. /\ session' \in Seq({"open", "ended"}) /\ DOMAIN session' = DOMAIN session
      /\ \A s \in DOMAIN session : session'[s] = IF s = host[h].connection THEN "ended" ELSE session[s]
  BY <1>1, <1>2, ClosedSession
<1>4. host[h].transport = Nil
  BY <1>1, <1>2 DEF Steady
<1>5. \A s \in DOMAIN session : session'[s] = "open" =>
        session[s] = "open" /\ (s \in {host[h].connection, host[h].transport} => s = Nil)
  BY <1>3, <1>4
<1>6. Disconnected \in CardStatuses /\ Disconnected.state = "disconnected"
  BY PlainStatuses DEF Disconnected, Empty
<1> QED
  BY <1>2, <1>3, <1>5, <1>6, FinishMoves

\* A connect or a refresh that fails.
LEMMA FailureMoves ==
  ASSUME CardTypes, AllSteady, NEW h \in Hosts,
         host[h].at = "running", host[h].doing # Nil, Answer(h, Nil, Failed),
         NEW t \in Nat \cup {Nil}, session' = Closed(t),
         t \in {host[h].connection, host[h].transport},
         Nil \in {host[h].connection, host[h].transport} \/ host[h].connection = host[h].transport,
         t = Nil => host[h].connection = Nil /\ host[h].transport = Nil,
         UNCHANGED <<shown, port, request, toHost>>
  PROVE  HostMoves(h) /\ FinishesMessage(h)
<1>1. /\ session' \in Seq({"open", "ended"}) /\ DOMAIN session' = DOMAIN session
      /\ \A s \in DOMAIN session : session'[s] = IF s = t THEN "ended" ELSE session[s]
  BY ClosedSession
<1>2. \A s \in DOMAIN session : session'[s] = "open" =>
        session[s] = "open" /\ (s \in {host[h].connection, host[h].transport} => s = Nil)
  BY <1>1
<1>3. Failed \in CardStatuses /\ Failed.state = "daemon-unavailable"
  BY PlainStatuses DEF Failed, Empty
<1> QED
  BY <1>1, <1>2, <1>3, FinishMoves

LEMMA OpenMoves ==
  ASSUME CardTypes, AllSteady, NEW h \in Hosts, OpenSession(h)
  PROVE  HostMoves(h) /\ host[h].at = "running" /\ (GoesOnWith(h) \/ FinishesMessage(h))
<1>1. host[h] \in Processes /\ Steady(host[h]) /\ session \in Seq({"open", "ended"})
  BY DEF CardTypes, AllSteady
<1>2. /\ host[h].at = "running" /\ host[h].step = "opening"
      /\ UNCHANGED <<shown, port, request, toHost>>
  BY DEF OpenSession, At
<1>3. host[h].doing # Nil /\ host[h].connection = Nil /\ host[h].transport = Nil
  BY <1>1, <1>2 DEF Steady
<1>4. \A s \in DOMAIN session : s # Nil
  BY <1>1
<1>5. CASE Refused(h)
  <2>1. Answer(h, Nil, Failed) /\ session' = Closed(Nil)
    BY <1>5 DEF Refused, Closed
  <2> QED
    BY <1>2, <1>3, <2>1, FailureMoves
<1>6. CASE /\ session' = Append(session, "open")
           /\ host' = [host EXCEPT ![h].transport = Len(session) + 1, ![h].step = "projecting"]
           /\ UNCHANGED <<toPage, faults>>
  <2> DEFINE q == [host[h] EXCEPT !.transport = Len(session) + 1, !.step = "projecting"]
  <2>1. host' = [host EXCEPT ![h] = q] /\ toPage' = toPage
    BY <1>6
  <2>2. q \in Processes /\ q.doing = host[h].doing /\ q.at = host[h].at
        /\ q.transport = Len(session) + 1 /\ q.connection = host[h].connection
        /\ q.step = "projecting" /\ q.status = host[h].status
    <3>1. Len(session) + 1 \in Nat
      BY <1>1
    <3> QED
      BY <1>1, <3>1 DEF Processes
  <2>3. Steady(q)
    BY <1>1, <1>2, <1>3, <2>2 DEF Steady, Processes
  <2>4. session' \in Seq({"open", "ended"})
    BY <1>1, <1>6
  <2>5. \A s \in DOMAIN session' : \/ s = Len(session) + 1
                                   \/ s \in DOMAIN session /\ session'[s] = session[s]
    BY <1>1, <1>6
  <2>6. \A s \in DOMAIN session' : session'[s] = "open" =>
          \/ HeldBy(s, q)
          \/ s \in DOMAIN session /\ session[s] = "open" /\ ~HeldBy(s, host[h])
    BY <1>2, <1>3, <1>4, <2>2, <2>5 DEF HeldBy
  <2> QED
    BY <1>2, <1>3, <2>1, <2>2, <2>3, <2>4, <2>6, GoesOnMoves
<1> QED
  BY <1>5, <1>6 DEF OpenSession

LEMMA SnapshotMoves ==
  ASSUME CardTypes, AllSteady, NEW h \in Hosts,
         host[h].at = "running", host[h].doing # Nil, NEW t \in Nat \cup {Nil},
         {host[h].connection, host[h].transport} \subseteq {t, Nil}, Snapshot(h, t),
         UNCHANGED <<shown, port, request, toHost>>
  PROVE  HostMoves(h) /\ FinishesMessage(h)
<1>1. t \in Nat /\ Answer(h, t, Connected(t)) /\ UNCHANGED session
  BY DEF Snapshot, Responds
<1>2. /\ Connected(t) \in CardStatuses
      /\ Connected(t).state = "connected" /\ Connected(t).session = t
  BY <1>1, PlainStatuses DEF Connected
<1>3. session \in Seq({"open", "ended"}) /\ \A s \in DOMAIN session : s # Nil
  BY DEF CardTypes
<1> QED
  BY <1>1, <1>2, <1>3, FinishMoves

LEMMA ProjectMoves ==
  ASSUME CardTypes, AllSteady, NEW h \in Hosts,
         Project(h) \/ Refresh(h)
  PROVE  HostMoves(h) /\ host[h].at = "running" /\ FinishesMessage(h)
<1>1. host[h] \in Processes /\ Steady(host[h])
      /\ host[h].connection \in Nat \cup {Nil} /\ host[h].transport \in Nat \cup {Nil}
  BY DEF CardTypes, AllSteady, Processes
<1>2. host[h].at = "running" /\ UNCHANGED <<shown, port, request, toHost>>
  BY DEF Project, Refresh, At
<1>3. CASE Project(h)
  <2>1. host[h].doing # Nil /\ host[h].connection = Nil
    BY <1>1, <1>3 DEF Steady, Project, At
  <2>2. CASE Snapshot(h, host[h].transport)
    BY <1>1, <1>2, <2>1, <2>2, SnapshotMoves
  <2>3. CASE Dropped(h) /\ Answer(h, Nil, Failed)
    BY <1>1, <1>2, <2>1, <2>3, FailureMoves DEF Dropped
  <2> QED
    BY <1>2, <1>3, <2>2, <2>3 DEF Project
<1>4. CASE Refresh(h)
  <2>1. host[h].doing # Nil /\ host[h].transport = Nil
    BY <1>1, <1>4 DEF Steady, Refresh, At
  <2>2. CASE Snapshot(h, host[h].connection)
    BY <1>1, <1>2, <2>1, <2>2, SnapshotMoves
  <2>3. CASE session' = Closed(host[h].connection) /\ Answer(h, Nil, Failed)
    BY <1>1, <1>2, <2>1, <2>3, FailureMoves
  <2> QED
    BY <1>2, <1>4, <2>2, <2>3 DEF Refresh
<1> QED
  BY <1>3, <1>4

LEMMA HostStepMoves ==
  ASSUME CardTypes, AllSteady, NEW h \in Hosts, HostStep(h)
  PROVE  HostMoves(h) /\ host[h].at = "running" /\ (BeginsMessage(h) \/ GoesOnWith(h) \/ FinishesMessage(h))
BY BeginMoves, ConnectMoves, StatusMoves, DisconnectMoves, OpenMoves, ProjectMoves DEF HostStep

-----------------------------------------------------------------------------
(* The line of a port.                                                      *)

LEMMA BeginLine ==
  ASSUME CardTypes, NEW h \in Hosts, Once(h), HostMoves(h), BeginsMessage(h)
  PROVE  Once(h)' /\ \A r \in Nat : InLine(h, r)' => InLine(h, r)
<1>1. /\ toHost[h] \in Seq(Nat) /\ toPage[h] \in Seq(Replied)
      /\ toHost[h] # <<>> /\ host[h] \in Processes /\ host[h].doing = Nil
  BY DEF CardTypes, BeginsMessage
<1>2. host'[h].doing = toHost[h][1] /\ toHost'[h] = Tail(toHost[h]) /\ toPage'[h] = toPage[h]
  BY <1>1 DEF BeginsMessage, Processes
<1>3. /\ \A i \in DOMAIN toHost'[h] : i \in Nat \ {0} /\ i + 1 \in DOMAIN toHost[h]
                                      /\ toHost'[h][i] = toHost[h][i + 1]
      /\ 1 \in DOMAIN toHost[h] /\ toHost[h][1] \in Nat
  BY <1>1, <1>2, TailCases
<1>4. \A i, j \in DOMAIN toHost'[h] : i # j => i + 1 # j + 1
  BY <1>3
<1>5. \A i \in DOMAIN toHost'[h] : i + 1 # 1
  BY <1>3
<1>6. Once(h)'
  BY <1>2, <1>3, <1>4, <1>5 DEF Once
<1>7. \A r \in Nat : InLine(h, r)' => InLine(h, r)
  BY <1>2, <1>3 DEF InLine
<1> QED
  BY <1>6, <1>7

LEMMA FinishLine ==
  ASSUME CardTypes, NEW h \in Hosts, Once(h), HostMoves(h), FinishesMessage(h)
  PROVE  Once(h)' /\ \A r \in Nat : InLine(h, r)' => InLine(h, r)
<1>1. /\ toHost[h] \in Seq(Nat) /\ toPage[h] \in Seq(Replied) /\ host[h] \in Processes
  BY DEF CardTypes
<1>2. PICK c \in Nat \cup {Nil}, st \in CardStatuses :
        host[h].doing # Nil /\ AnswersWith(h, c, st) /\ toHost'[h] = toHost[h]
  BY DEF FinishesMessage
<1>3. host'[h].doing = Nil /\ host[h].doing \in Nat
  BY <1>1, <1>2 DEF AnswersWith, Processes
<1> DEFINE m == [id |-> host[h].doing, status |-> st]
<1>4. m.id = host[h].doing
  OBVIOUS
<1>5. \/ toPage'[h] = toPage[h]
      \/ toPage'[h] = Append(toPage[h], m)
  BY <1>2 DEF AnswersWith
<1>6. \A i \in DOMAIN toPage'[h] :
        \/ i \in DOMAIN toPage[h] /\ toPage'[h][i] = toPage[h][i]
        \/ i = Len(toPage[h]) + 1 /\ toPage'[h][i] = m
  BY <1>1, <1>5, AppendCases
<1> HIDE DEF m
<1>7. Once(h)'
  BY <1>2, <1>3, <1>4, <1>6 DEF Once
<1>8. \A r \in Nat : InLine(h, r)' => InLine(h, r)
  BY <1>2, <1>3, <1>4, <1>6 DEF InLine
<1> QED
  BY <1>7, <1>8

LEMMA HostLine ==
  ASSUME CardTypes, NEW h \in Hosts, AllOnce, HostMoves(h),
         BeginsMessage(h) \/ GoesOnWith(h) \/ FinishesMessage(h)
  PROVE  AllOnce' /\ \A g \in Hosts, r \in Nat : InLine(g, r)' => InLine(g, r)
<1>1. Once(h)
  BY DEF AllOnce
<1>2. Once(h)' /\ \A r \in Nat : InLine(h, r)' => InLine(h, r)
  <2>1. CASE GoesOnWith(h)
    BY <1>1, <2>1 DEF GoesOnWith, Once, InLine
  <2> QED
    BY <1>1, <2>1, BeginLine, FinishLine
<1>3. \A g \in Hosts \ {h} : Once(g)' /\ \A r \in Nat : InLine(g, r)' => InLine(g, r)
  <2> SUFFICES ASSUME NEW g \in Hosts \ {h}
               PROVE  Once(g)' /\ \A r \in Nat : InLine(g, r)' => InLine(g, r)
    OBVIOUS
  <2>1. Once(g) /\ host'[g] = host[g] /\ toPage'[g] = toPage[g] /\ toHost'[g] = toHost[g]
    BY DEF AllOnce, HostMoves, OthersStay
  <2>2. Once(g)'
    BY <2>1 DEF Once
  <2>3. \A r \in Nat : InLine(g, r)' => InLine(g, r)
    BY <2>1 DEF InLine
  <2> QED
    BY <2>2, <2>3
<1> QED
  BY <1>2, <1>3 DEF AllOnce

-----------------------------------------------------------------------------
(* The steps of a host.                                                     *)

LEMMA StaysRunning ==
  ASSUME CardTypes, NEW h \in Hosts, host[h].at = "running",
         BeginsMessage(h) \/ GoesOnWith(h) \/ FinishesMessage(h)
  PROVE  host'[h].at = "running"
<1>1. host[h] \in Processes
  BY DEF CardTypes
<1> QED
  BY <1>1 DEF BeginsMessage, GoesOnWith, FinishesMessage, AnswersWith, Processes

LEMMA MovesTypes ==
  ASSUME CardTypes, NEW h \in Hosts, HostMoves(h)
  PROVE  CardTypes'
BY DEF CardTypes, HostMoves

LEMMA MovesHeld ==
  ASSUME CardTypes, NEW h \in Hosts, HostMoves(h), AllSteady, OpenHeld
  PROVE  AllSteady' /\ OpenHeld'
<1>1. \A g \in Hosts \ {h} : host'[g] = host[g]
  BY DEF HostMoves, OthersStay
<1>2. AllSteady'
  BY <1>1 DEF AllSteady, HostMoves
<1>3. OpenHeld'
  <2> SUFFICES ASSUME NEW s \in DOMAIN session', session'[s] = "open"
               PROVE  \E g \in Hosts : HeldBy(s, host'[g])
    BY DEF OpenHeld, HeldBy
  <2>1. CASE HeldBy(s, host'[h])
    BY <2>1
  <2>2. CASE s \in DOMAIN session /\ session[s] = "open" /\ ~HeldBy(s, host[h])
    BY <1>1, <2>2 DEF OpenHeld
  <2> QED
    BY <2>1, <2>2 DEF HostMoves, Accounts
<1> QED
  BY <1>2, <1>3

LEMMA MovesClean ==
  ASSUME CardTypes, NEW h \in Hosts, HostMoves(h), Clean, host'[h].at = "running"
  PROVE  Clean'
BY DEF Clean, HostMoves, OthersStay

LEMMA MovesLined ==
  ASSUME CardTypes, NEW h \in Hosts, HostMoves(h), Lined, Waits, Connecting, HasPort,
         \A g \in Hosts, r \in Nat : InLine(g, r)' => InLine(g, r)
  PROVE  Lined' /\ Waits' /\ Connecting' /\ HasPort'
<1>1. UNCHANGED <<shown, port, request>>
  BY DEF HostMoves
<1>2. Lined'
  BY <1>1 DEF Lined
<1> QED
  BY <1>1, <1>2 DEF Waits, Connecting, HasPort

LEMMA MovesFinal ==
  ASSUME CardTypes, NEW h \in Hosts, HostMoves(h), Final,
         BeginsMessage(h) \/ GoesOnWith(h) \/ FinishesMessage(h)
  PROVE  Final'
<1>1. toPage[h] \in Seq(Replied) /\ \A g \in Hosts \ {h} : toPage'[g] = toPage[g]
  BY DEF CardTypes, HostMoves, OthersStay
<1>2. CASE toPage'[h] = toPage[h]
  BY <1>1, <1>2 DEF Final
<1>3. CASE FinishesMessage(h)
  <2>1. PICK c \in Nat \cup {Nil}, st \in CardStatuses : AnswersWith(h, c, st) /\ st.state # "connecting"
    BY <1>3 DEF FinishesMessage
  <2> DEFINE m == [id |-> host[h].doing, status |-> st]
  <2>2. m.status.state # "connecting" /\ toPage'[h] \in {toPage[h], Append(toPage[h], m)}
    BY <2>1 DEF AnswersWith
  <2>3. \A i \in DOMAIN toPage'[h] :
          \/ i \in DOMAIN toPage[h] /\ toPage'[h][i] = toPage[h][i]
          \/ toPage'[h][i] = m
    BY <1>1, <2>2, AppendCases
  <2> HIDE DEF m
  <2> QED
    BY <1>1, <2>2, <2>3 DEF Final
<1> QED
  BY <1>2, <1>3 DEF BeginsMessage, GoesOnWith

LEMMA MovesLast ==
  ASSUME CardTypes, NEW h \in Hosts, HostMoves(h), LastAnswer,
         host[h].at = "running", BeginsMessage(h) \/ GoesOnWith(h) \/ FinishesMessage(h)
  PROVE  LastAnswer'
<1>1. /\ UNCHANGED <<shown, port, request>>
      /\ \A g \in Hosts \ {h} : host'[g] = host[g] /\ toPage'[g] = toPage[g] /\ toHost'[g] = toHost[g]
  BY DEF HostMoves, OthersStay
<1>2. GaveUpOnPort' <=> GaveUpOnPort
  BY <1>1 DEF GaveUpOnPort
<1>3. CASE port # h
  <2>1. port = Nil \/ port \in Hosts \ {h}
    BY <1>3 DEF CardTypes
  <2>2. port \in Hosts \ {h} => \A r \in Nat : InLine(port, r)' <=> InLine(port, r)
    BY <1>1 DEF InLine
  <2> QED
    BY <1>1, <1>2, <2>1, <2>2 DEF LastAnswer
<1>4. CASE port = h
  <2>1. CASE BeginsMessage(h) \/ GoesOnWith(h)
    <3>1. host'[h].doing # Nil /\ host'[h].doing \in Nat
      <4>1. host'[h].doing \in Nat \cup {Nil} /\ host[h] \in Processes /\ toHost[h] \in Seq(Nat)
        BY DEF HostMoves, Processes, CardTypes
      <4>2. CASE BeginsMessage(h)
        <5>1. toHost[h] # <<>> /\ host'[h].doing = Head(toHost[h])
          BY <4>1, <4>2 DEF BeginsMessage, Processes
        <5> QED
          BY <4>1, <5>1
      <4>3. CASE GoesOnWith(h)
        BY <4>1, <4>3 DEF GoesOnWith
      <4> QED
        BY <2>1, <4>2, <4>3
    <3>3. ~ \A r \in Nat : ~InLine(h, r)'
      BY <3>1 DEF InLine
    <3> QED
      BY <1>1, <1>4, <3>1, <3>3 DEF LastAnswer
  <2>2. CASE FinishesMessage(h)
    <3>1. PICK c \in Nat \cup {Nil}, st \in CardStatuses : host[h].doing # Nil /\ AnswersWith(h, c, st)
      BY <2>2 DEF FinishesMessage
    <3> DEFINE m == [id |-> host[h].doing, status |-> st]
    <3>2. toPage[h] \in Seq(Replied) /\ host[h] \in Processes /\ host[h].doing \in Nat
      BY <3>1 DEF CardTypes, Processes
    <3>3. m \in Replied /\ m.id = host[h].doing /\ m.status = st
      BY <3>2 DEF Replied
    <3>4. toPage'[h] = Append(toPage[h], m) /\ host'[h].status = st
      BY <1>4, <3>1, <3>2 DEF AnswersWith, Processes
    <3>5. /\ toPage'[h][Len(toPage'[h])] = m
          /\ Len(toPage[h]) + 1 \in DOMAIN toPage'[h] /\ toPage'[h][Len(toPage[h]) + 1] = m
      BY <3>2, <3>3, <3>4, AppendKeeps
    <3> HIDE DEF m
    <3>6. \E i \in DOMAIN toPage'[h] : toPage'[h][i].id = host[h].doing
      BY <3>3, <3>5
    <3>7. ~ \A r \in Nat : ~InLine(h, r)'
      BY <3>2, <3>6 DEF InLine
    <3> QED
      BY <1>1, <1>4, <3>3, <3>4, <3>5, <3>7 DEF LastAnswer
  <2> QED
    BY <2>1, <2>2
<1> QED
  BY <1>3, <1>4

LEMMA HostStepInv ==
  ASSUME CardInv, NEW h \in Hosts, HostStep(h)
  PROVE  CardInv'
<1>1. CardTypes /\ Clean /\ AllSteady /\ OpenHeld /\ AllOnce /\ Lined /\ Waits
      /\ Connecting /\ HasPort /\ Final /\ LastAnswer
  BY DEF CardInv
<1>2. HostMoves(h) /\ host[h].at = "running" /\ (BeginsMessage(h) \/ GoesOnWith(h) \/ FinishesMessage(h))
  BY <1>1, HostStepMoves
<1>3. AllOnce' /\ \A g \in Hosts, r \in Nat : InLine(g, r)' => InLine(g, r)
  BY <1>1, <1>2, HostLine
<1>4. CardTypes' /\ AllSteady' /\ OpenHeld'
  BY <1>1, <1>2, MovesTypes, MovesHeld
<1>5. Clean'
  BY <1>1, <1>2, StaysRunning, MovesClean
<1>6. Lined' /\ Waits' /\ Connecting' /\ HasPort'
  BY <1>1, <1>2, <1>3, MovesLined
<1>7. Final' /\ LastAnswer'
  BY <1>1, <1>2, MovesFinal, MovesLast
<1> QED
  BY <1>3, <1>4, <1>5, <1>6, <1>7 DEF CardInv

\* A host whose page has left it, or which is terminated.
LEMMA LeftInv ==
  ASSUME CardInv, NEW h \in Hosts, host[h].at = "running", HostMoves(h),
         UNCHANGED <<toHost, toPage>>, host'[h].at # "none", host'[h].doing \in {host[h].doing, Nil},
         port = h => host'[h].at # "running"
  PROVE  CardInv'
<1>1. CardTypes /\ Clean /\ AllSteady /\ OpenHeld /\ AllOnce /\ Lined /\ Waits
      /\ Connecting /\ HasPort /\ Final /\ LastAnswer
  BY DEF CardInv
<1>2. /\ \A g \in Hosts \ {h} : host'[g] = host[g]
      /\ UNCHANGED <<shown, port, request, toHost, toPage>>
  BY DEF HostMoves, OthersStay
<1>3. \A g \in Hosts : host'[g].doing \in {host[g].doing, Nil}
  BY <1>2
<1>4. AllOnce'
  BY <1>1, <1>2, <1>3 DEF AllOnce, Once
<1>5. \A g \in Hosts, r \in Nat : InLine(g, r)' => InLine(g, r)
  BY <1>2, <1>3 DEF InLine
<1>6. CardTypes' /\ AllSteady' /\ OpenHeld'
  BY <1>1, MovesTypes, MovesHeld
<1>7. Clean'
  BY <1>1, <1>2 DEF Clean
<1>8. Lined' /\ Waits' /\ Connecting' /\ HasPort'
  BY <1>1, <1>5, MovesLined
<1>9. Final'
  BY <1>1, <1>2 DEF Final
<1>10. LastAnswer'
  <2>1. CASE port = h
    BY <1>2, <2>1 DEF LastAnswer
  <2>2. CASE port # h
    <3>1. port = Nil \/ port \in Hosts \ {h}
      BY <1>1, <2>2 DEF CardTypes
    <3>2. port \in Hosts \ {h} => \A r \in Nat : InLine(port, r)' <=> InLine(port, r)
      BY <1>2 DEF InLine
    <3>3. GaveUpOnPort' <=> GaveUpOnPort
      BY <1>2 DEF GaveUpOnPort
    <3> QED
      BY <1>1, <1>2, <3>1, <3>2, <3>3 DEF LastAnswer
  <2> QED
    BY <2>1, <2>2
<1> QED
  BY <1>4, <1>6, <1>7, <1>8, <1>9, <1>10 DEF CardInv

LEMMA StdinEndsInv ==
  ASSUME CardInv, NEW h \in Hosts, StdinEnds(h)
  PROVE  CardInv'
<1> DEFINE q == [host[h] EXCEPT !.closing = TRUE, !.connection = Nil, !.status = Disconnected]
<1>1. CardTypes /\ host[h] \in Processes /\ Steady(host[h])
      /\ host[h].connection \in Nat \cup {Nil} /\ host \in [Hosts -> Processes]
  BY DEF CardInv, CardTypes, AllSteady, Processes
<1>2. /\ host[h].at = "running" /\ port # h
      /\ session' = Closed(host[h].connection) /\ host' = [host EXCEPT ![h] = q]
      /\ UNCHANGED <<shown, port, request, toHost, toPage>>
  BY DEF StdinEnds
<1>3. /\ session' \in Seq({"open", "ended"}) /\ DOMAIN session' = DOMAIN session
      /\ \A s \in DOMAIN session : session'[s] = IF s = host[h].connection THEN "ended" ELSE session[s]
  BY <1>1, <1>2, ClosedSession
<1>4. /\ q \in Processes /\ q.doing = host[h].doing /\ q.at = host[h].at
      /\ q.transport = host[h].transport
  BY <1>1, PlainStatuses DEF Processes
<1>5. Steady(q)
  BY <1>1, <1>4 DEF Steady, Processes, Disconnected, Empty
<1>6. host'[h] = q /\ host' \in [Hosts -> Processes] /\ \A g \in Hosts \ {h} : host'[g] = host[g]
  BY <1>1, <1>2, <1>4
<1>7. Accounts(h)
  <2> SUFFICES ASSUME NEW s \in DOMAIN session, session'[s] = "open", HeldBy(s, host[h])
               PROVE  HeldBy(s, q)
    BY <1>3, <1>6 DEF Accounts
  <2>1. s = host[h].transport
    BY <1>3 DEF HeldBy
  <2> QED
    BY <1>2, <1>4, <2>1 DEF HeldBy
<1>8. HostMoves(h)
  BY <1>1, <1>2, <1>3, <1>4, <1>5, <1>6, <1>7 DEF HostMoves, OthersStay, CardTypes
<1> QED
  BY <1>2, <1>4, <1>6, <1>8, LeftInv

LEMMA ExitInv ==
  ASSUME CardInv, NEW h \in Hosts, Exit(h)
  PROVE  CardInv'
<1> DEFINE q == Started("gone")
<1>1. CardTypes /\ host \in [Hosts -> Processes] /\ session \in Seq({"open", "ended"})
  BY DEF CardInv, CardTypes
<1>2. /\ host[h].at = "running" /\ host' = [host EXCEPT ![h] = q]
      /\ session' = [s \in DOMAIN session |->
                       IF s \in {host[h].connection, host[h].transport} THEN "ended" ELSE session[s]]
      /\ UNCHANGED <<shown, port, request, toHost, toPage>>
  BY DEF Exit
<1>3. q \in Processes /\ q.doing = Nil /\ q.at = "gone" /\ Steady(q)
  BY StartedType
<1>4. /\ DOMAIN session' = DOMAIN session
      /\ \A s \in DOMAIN session :
           session'[s] = IF s \in {host[h].connection, host[h].transport} THEN "ended" ELSE session[s]
  BY <1>2
<1>5. session' \in Seq({"open", "ended"})
  <2>1. session' = [s \in DOMAIN session |-> session'[s]]
    BY <1>2
  <2>2. \A s \in DOMAIN session : session'[s] \in {"open", "ended"}
    BY <1>1, <1>4
  <2> QED
    BY <1>1, <2>1, <2>2, FunctionSeq
<1>6. host'[h] = q /\ host' \in [Hosts -> Processes] /\ \A g \in Hosts \ {h} : host'[g] = host[g]
  BY <1>1, <1>2, <1>3
<1>7. Accounts(h)
  BY <1>4 DEF Accounts, HeldBy
<1>8. HostMoves(h)
  BY <1>1, <1>2, <1>3, <1>5, <1>6, <1>7 DEF HostMoves, OthersStay, CardTypes
<1> QED
  BY <1>2, <1>3, <1>6, <1>8, LeftInv

LEMMA SessionEndsInv ==
  ASSUME CardInv, SessionEnds
  PROVE  CardInv'
<1>1. CardTypes /\ Clean /\ AllSteady /\ OpenHeld /\ AllOnce /\ Lined /\ Waits
      /\ Connecting /\ HasPort /\ Final /\ LastAnswer /\ session \in Seq({"open", "ended"})
  BY DEF CardInv, CardTypes
<1>2. PICK s \in DOMAIN session : session' = [session EXCEPT ![s] = "ended"]
  BY DEF SessionEnds
<1>3. UNCHANGED <<shown, port, request, toHost, toPage, host>>
  BY DEF SessionEnds
<1>4. /\ session' \in Seq({"open", "ended"}) /\ DOMAIN session' = DOMAIN session
      /\ \A t \in DOMAIN session : session'[t] = IF t = s THEN "ended" ELSE session[t]
  BY <1>1, <1>2, ExceptSeq
<1>5. CardTypes' /\ AllSteady' /\ Clean'
  BY <1>1, <1>3, <1>4 DEF CardTypes, AllSteady, Clean
<1>6. OpenHeld'
  <2>1. \A t \in DOMAIN session : session'[t] = "open" => session[t] = "open"
    BY <1>4
  <2> QED
    BY <1>1, <1>3, <1>4, <2>1 DEF OpenHeld, HeldBy
<1>7. AllOnce' /\ \A g \in Hosts, r \in Nat : InLine(g, r)' <=> InLine(g, r)
  BY <1>1, <1>3 DEF AllOnce, Once, InLine
<1>8. Lined' /\ Waits' /\ Connecting' /\ HasPort' /\ Final'
  BY <1>1, <1>3, <1>7 DEF Lined, Waits, Connecting, HasPort, Final
<1>9. LastAnswer'
  <2>1. GaveUpOnPort' <=> GaveUpOnPort
    BY <1>3 DEF GaveUpOnPort
  <2>2. port # Nil => port \in Hosts
    BY <1>1 DEF CardTypes
  <2> QED
    BY <1>1, <1>3, <1>7, <2>1, <2>2 DEF LastAnswer
<1> QED
  BY <1>5, <1>6, <1>7, <1>8, <1>9 DEF CardInv

-----------------------------------------------------------------------------
(* The steps of the page.                                                   *)

LEMMA TakeLine ==
  ASSUME CardTypes, AllOnce, Final, NEW h \in Hosts, toPage[h] # <<>>,
         toPage' = [toPage EXCEPT ![h] = Tail(@)], UNCHANGED <<toHost, host>>
  PROVE  /\ toPage' \in [Hosts -> Seq(Replied)] /\ AllOnce' /\ Final'
         /\ \A g \in Hosts : toPage[g] = <<>> => toPage'[g] = <<>>
         /\ \A g \in Hosts, r \in Nat : InLine(g, r)' => InLine(g, r)
         /\ Head(toPage[h]) \in Replied /\ InLine(h, Head(toPage[h]).id)
         /\ \A r \in Nat : r = Head(toPage[h]).id => ~InLine(h, r)'
<1>1. toPage \in [Hosts -> Seq(Replied)] /\ toPage[h] \in Seq(Replied)
  BY DEF CardTypes
<1>2. /\ toPage' \in [Hosts -> Seq(Replied)] /\ toPage'[h] = Tail(toPage[h])
      /\ \A g \in Hosts \ {h} : toPage'[g] = toPage[g]
  BY <1>1
<1>3. /\ \A i \in DOMAIN toPage'[h] : i \in Nat \ {0} /\ i + 1 \in DOMAIN toPage[h]
                                      /\ toPage'[h][i] = toPage[h][i + 1]
      /\ Head(toPage[h]) = toPage[h][1] /\ 1 \in DOMAIN toPage[h]
  BY <1>1, <1>2, TailCases
<1>4. /\ \A i, j \in DOMAIN toPage'[h] : i # j => i + 1 # j + 1
      /\ \A i \in DOMAIN toPage'[h] : i + 1 # 1
  BY <1>3
<1>5. Head(toPage[h]) \in Replied /\ Once(h)
  BY <1>1, <1>3 DEF AllOnce
<1>6. Once(h)'
  BY <1>3, <1>4, <1>5 DEF Once
<1>7. ASSUME NEW g \in Hosts \ {h} PROVE Once(g)'
  <2>1. Once(g) /\ toPage'[g] = toPage[g]
    BY <1>2 DEF AllOnce
  <2> QED
    BY <2>1 DEF Once
<1>8. \A g \in Hosts, r \in Nat : InLine(g, r)' => InLine(g, r)
  BY <1>2, <1>3 DEF InLine
<1>9. InLine(h, Head(toPage[h]).id)
  BY <1>3 DEF InLine
<1>10. ASSUME NEW r \in Nat, r = Head(toPage[h]).id PROVE ~InLine(h, r)'
  <2>1. r = toPage[h][1].id /\ r # Nil
    BY <1>3, <1>10
  <2>2. \A j \in DOMAIN toHost[h] : toHost[h][j] # r
    BY <1>3, <1>5, <2>1 DEF Once
  <2>3. host[h].doing # r
    BY <1>3, <1>5, <2>1 DEF Once
  <2>4. \A i \in DOMAIN toPage'[h] : toPage'[h][i].id # r
    BY <1>3, <1>4, <1>5, <2>1 DEF Once
  <2> QED
    BY <2>2, <2>3, <2>4 DEF InLine
<1>11. Final' /\ \A g \in Hosts : toPage[g] = <<>> => toPage'[g] = <<>>
  BY <1>2, <1>3 DEF Final
<1> QED
  BY <1>2, <1>5, <1>6, <1>7, <1>8, <1>9, <1>10, <1>11 DEF AllOnce

\* The page has left the port.
LEMMA LeaveInv ==
  ASSUME CardInv, UNCHANGED <<toHost, host, session>>,
         toPage' \in [Hosts -> Seq(Replied)], AllOnce', Final',
         \A g \in Hosts : toPage[g] = <<>> => toPage'[g] = <<>>,
         \A g \in Hosts, r \in Nat : InLine(g, r)' => InLine(g, r),
         port' = Nil, request' = Settled("settled"), shown' \in CardStatuses,
         shown'.state \notin {"connecting", "connected"}
  PROVE  CardInv'
<1>1. CardTypes /\ Clean /\ AllSteady /\ OpenHeld /\ Lined
  BY DEF CardInv
<1>2. /\ request' \in Seq(Demands) /\ DOMAIN request' = DOMAIN request
      /\ \A r \in DOMAIN request : request'[r].port = request[r].port /\ request'[r].at # "waiting"
  <2>1. \A r \in DOMAIN request : request[r].at # "waiting" \/ Waiting(r)
    BY DEF Waiting
  <2> QED
    BY <1>1, <2>1, SettledType
<1>3. \A g \in Hosts : g # Nil
  BY DEF Hosts
<1>4. CardTypes' /\ AllSteady' /\ OpenHeld'
  BY <1>1, <1>2 DEF CardTypes, AllSteady, OpenHeld, HeldBy
<1>5. Clean'
  BY <1>1, <1>3 DEF Clean
<1>6. Lined' /\ Waits' /\ Connecting' /\ HasPort'
  BY <1>1, <1>2, <1>3 DEF Lined, Waits, Connecting, HasPort
<1>7. LastAnswer'
  BY DEF LastAnswer
<1> QED
  BY <1>4, <1>5, <1>6, <1>7 DEF CardInv

\* The page goes on with its port, and a request has been answered or given up.
LEMMA SettleInv ==
  ASSUME CardInv, UNCHANGED <<toHost, host, session, port>>,
         toPage' \in [Hosts -> Seq(Replied)], AllOnce', Final',
         \A g \in Hosts : toPage[g] = <<>> => toPage'[g] = <<>>,
         \A g \in Hosts, r \in Nat : InLine(g, r)' => InLine(g, r),
         NEW how \in {"settled", "late"}, NEW r \in DOMAIN request, Waiting(r),
         Settle(r, how),
         how = "settled" => \A g \in Hosts : ~InLine(g, r)',
         shown' \in CardStatuses, shown'.state = "connecting" => shown' = shown /\ how = "late",
         HasPort', LastAnswer'
  PROVE  CardInv'
<1>1. CardTypes /\ Clean /\ AllSteady /\ OpenHeld /\ Lined /\ Waits /\ Connecting
  BY DEF CardInv
<1>2. /\ request' \in Seq(Demands) /\ DOMAIN request' = DOMAIN request
      /\ \A q \in DOMAIN request : /\ request'[q].port = request[q].port
                                 /\ request'[q].at = IF q = r THEN how ELSE request[q].at
  BY <1>1, SettleType
<1>3. CardTypes' /\ AllSteady' /\ OpenHeld'
  BY <1>1, <1>2 DEF CardTypes, AllSteady, OpenHeld, HeldBy
<1>4. Clean'
  BY <1>1 DEF Clean
<1>5. Lined'
  <2> SUFFICES ASSUME NEW g \in Hosts, NEW q \in Nat, InLine(g, q)'
               PROVE  /\ q \in DOMAIN request' /\ request'[q].port = g
                      /\ port' = g => request'[q].at \in {"waiting", "late"}
    BY DEF Lined
  <2>1. InLine(g, q) /\ (q = r => how = "late")
    OBVIOUS
  <2> QED
    BY <1>1, <1>2, <2>1 DEF Lined
<1>6. Waits'
  BY <1>1, <1>2 DEF Waits
<1>7. Connecting'
  BY <1>1, <1>2 DEF Connecting
<1> QED
  BY <1>3, <1>4, <1>5, <1>6, <1>7 DEF CardInv

LEMMA HostLostInv ==
  ASSUME CardInv, HostLost
  PROVE  CardInv'
<1>1. CardTypes /\ AllOnce /\ Final
  BY DEF CardInv
<1>2. /\ port' = Nil /\ request' = Settled("settled")
      /\ shown' \in {Empty("native-host-unavailable"), Disconnected}
      /\ UNCHANGED <<toHost, toPage, host, session>>
  BY DEF HostLost
<1>3. shown' \in CardStatuses /\ shown'.state \notin {"connecting", "connected"}
  BY <1>2, PlainStatuses DEF Disconnected, Empty
<1>4. /\ AllOnce' /\ Final' /\ toPage' \in [Hosts -> Seq(Replied)]
      /\ \A g \in Hosts : toPage[g] = <<>> => toPage'[g] = <<>>
      /\ \A g \in Hosts, r \in Nat : InLine(g, r)' => InLine(g, r)
  BY <1>1, <1>2 DEF AllOnce, Once, Final, InLine, CardTypes
<1> QED
  BY <1>2, <1>3, <1>4, LeaveInv

LEMMA TimeOutInv ==
  ASSUME CardInv, NEW r \in 1 .. MaxRequests, TimeOut(r)
  PROVE  CardInv'
<1>1. CardTypes /\ AllOnce /\ Final /\ HasPort /\ LastAnswer /\ Waits
  BY DEF CardInv
<1>2. /\ Waiting(r) /\ (Leave \/ GivesUpOnly(r))
      /\ UNCHANGED <<toHost, toPage, host, session>>
  BY DEF TimeOut, GivesUp
<1>3. /\ AllOnce' /\ Final' /\ toPage' \in [Hosts -> Seq(Replied)]
      /\ \A g \in Hosts : toPage[g] = <<>> => toPage'[g] = <<>>
      /\ \A g \in Hosts, q \in Nat : InLine(g, q)' => InLine(g, q)
  BY <1>1, <1>2 DEF AllOnce, Once, Final, InLine, CardTypes
<1>4. CASE Leave
  <2>1. port' = Nil /\ request' = Settled("settled") /\ shown' = Disconnected
    BY <1>4 DEF Leave
  <2>2. shown' \in CardStatuses /\ shown'.state \notin {"connecting", "connected"}
    BY <2>1, PlainStatuses DEF Disconnected, Empty
  <2> QED
    BY <1>2, <1>3, <2>1, <2>2, LeaveInv
<1>5. CASE GivesUpOnly(r)
  <2>1. Settle(r, "late") /\ UNCHANGED <<shown, port>> /\ r \in DOMAIN request
    BY <1>2, <1>5 DEF GivesUpOnly, Waiting
  <2>2. DOMAIN request' = DOMAIN request /\ request'[r].at = "late" /\ request'[r].port = port
    BY <1>1, <1>2, <2>1, SettleType DEF Waits, Waiting
  <2>3. GaveUpOnPort'
    BY <2>1, <2>2 DEF GaveUpOnPort
  <2>4. LastAnswer' /\ HasPort' /\ shown' \in CardStatuses
    BY <1>1, <1>2, <2>1, <2>3 DEF LastAnswer, HasPort, CardTypes
  <2> QED
    BY <1>2, <1>3, <2>1, <2>4, SettleInv
<1> QED
  BY <1>2, <1>4, <1>5

\* After an answer was taken, the last one is still the status of the host.
LEMMA LastTaken ==
  ASSUME CardTypes, LastAnswer, NEW h \in Hosts, port = h,
         host[h].at = "running", toPage[h] # <<>>, toPage'[h] = Tail(toPage[h]),
         host[h].doing = Nil, UNCHANGED host
  PROVE  /\ toPage'[h] # <<>> => toPage'[h][Len(toPage'[h])].status = host[h].status
         /\ toPage'[h] = <<>> => Head(toPage[h]).status = host[h].status
<1>1. toPage[h] \in Seq(Replied) /\ port # Nil
  BY DEF CardTypes, Hosts
<1>2. toPage[h][Len(toPage[h])].status = host[h].status
  BY <1>1 DEF LastAnswer
<1> QED
  BY <1>1, <1>2, TailCases

LEMMA ReceiveInv ==
  ASSUME CardInv, Receive
  PROVE  CardInv'
<1>1. CardTypes /\ Clean /\ AllSteady /\ OpenHeld /\ AllOnce /\ Lined /\ Waits
      /\ Connecting /\ HasPort /\ Final /\ LastAnswer
  BY DEF CardInv
<1>2. /\ port \in Hosts /\ toPage[port] # <<>>
      /\ toPage' = [toPage EXCEPT ![port] = Tail(@)]
      /\ UNCHANGED <<toHost, host, session>>
  BY <1>1 DEF Receive, CardTypes
<1>h. PICK h \in Hosts : h = port
  BY <1>2
<1> DEFINE m == Head(toPage[h])
<1>3. /\ toPage' \in [Hosts -> Seq(Replied)] /\ AllOnce' /\ Final'
      /\ \A g \in Hosts : toPage[g] = <<>> => toPage'[g] = <<>>
      /\ \A g \in Hosts, r \in Nat : InLine(g, r)' => InLine(g, r)
      /\ m \in Replied /\ InLine(h, m.id) /\ \A r \in Nat : r = m.id => ~InLine(h, r)'
  BY <1>1, <1>2, <1>h, TakeLine
<1>4. m.id \in Nat /\ m.status \in CardStatuses
  BY <1>3 DEF Replied
<1>5. m.id \in DOMAIN request /\ request[m.id].port = h /\ request[m.id].at \in {"waiting", "late"}
  BY <1>1, <1>2, <1>h, <1>3, <1>4 DEF Lined
<1>6. toPage'[h] = Tail(toPage[h]) /\ toPage'[h] \in Seq(Replied)
  BY <1>1, <1>2, <1>h, <1>3 DEF CardTypes
<1>7. m.status.state # "connecting"
  <2>1. m = toPage[h][1] /\ 1 \in DOMAIN toPage[h]
    BY <1>1, <1>2, <1>h, TailCases DEF CardTypes
  <2> QED
    BY <1>1, <1>2, <1>h, <2>1 DEF Final
<1>8. OnMessage(m)
  BY <1>h DEF Receive
<1>9. CASE ~Waiting(m.id)
  <2>1. UNCHANGED <<shown, port, request>> /\ GaveUpOnPort
    BY <1>h, <1>5, <1>8, <1>9 DEF OnMessage, Waiting, GaveUpOnPort
  <2>2. GaveUpOnPort'
    BY <2>1 DEF GaveUpOnPort
  <2>3. CardTypes' /\ AllSteady' /\ OpenHeld' /\ Clean'
    BY <1>1, <1>2, <1>h, <1>3, <2>1 DEF CardTypes, AllSteady, OpenHeld, HeldBy, Clean
  <2>4. Lined' /\ Waits' /\ Connecting' /\ HasPort'
    BY <1>1, <1>3, <2>1 DEF Lined, Waits, Connecting, HasPort
  <2>5. LastAnswer'
    BY <1>1, <1>2, <1>h, <1>6, <2>1, <2>2, LastTaken DEF LastAnswer
  <2> QED
    BY <1>3, <2>3, <2>4, <2>5 DEF CardInv
<1>10. CASE Leave
  <2>1. port' = Nil /\ request' = Settled("settled") /\ shown' = Disconnected
    BY <1>10 DEF Leave
  <2>2. shown' \in CardStatuses /\ shown'.state \notin {"connecting", "connected"}
    BY <2>1, PlainStatuses DEF Disconnected, Empty
  <2> QED
    BY <1>2, <1>h, <1>3, <2>1, <2>2, LeaveInv
<1>11. CASE Waiting(m.id) /\ shown' = m.status /\ Settle(m.id, "settled") /\ UNCHANGED port
  <2>1. HasPort'
    BY <1>2, <1>h, <1>11 DEF HasPort, Hosts
  <2>2. LastAnswer'
    <3> SUFFICES ASSUME host[h].at = "running"
                 PROVE  /\ toPage'[h] # <<>> /\ host[h].doing = Nil =>
                             toPage'[h][Len(toPage'[h])].status = host[h].status
                        /\ (\A r \in Nat : ~InLine(h, r)') => m.status = host[h].status
      BY <1>2, <1>h, <1>11 DEF LastAnswer, InLine
    <3>1. host[h].doing = Nil =>
            /\ toPage'[h] # <<>> => toPage'[h][Len(toPage'[h])].status = host[h].status
            /\ toPage'[h] = <<>> => m.status = host[h].status
      BY <1>1, <1>2, <1>h, <1>6, LastTaken
    <3>2. ASSUME \A r \in Nat : ~InLine(h, r)'
          PROVE  host[h].doing = Nil /\ toPage'[h] = <<>>
      <4>1. host[h].doing \in Nat \cup {Nil}
        BY <1>1, <1>2, <1>h DEF CardTypes, Processes
      <4>2. toPage'[h] # <<>> => 1 \in DOMAIN toPage'[h] /\ toPage'[h][1] \in Replied
        BY <1>6
      <4>3. toPage'[h] # <<>> => toPage'[h][1].id \in Nat
        BY <4>2 DEF Replied
      <4> QED
        BY <1>2, <1>h, <1>11, <3>2, <4>1, <4>2, <4>3 DEF InLine
    <3> QED
      BY <3>1, <3>2
  <2>3. \A g \in Hosts, r \in Nat : r = m.id => ~InLine(g, r)'
    <3> SUFFICES ASSUME NEW g \in Hosts, NEW r \in Nat, r = m.id, InLine(g, r)' PROVE FALSE
      OBVIOUS
    <3>1. request[r].port = g
      BY <1>1, <1>3 DEF Lined
    <3> QED
      BY <1>h, <1>3, <1>5, <3>1
  <2>4. PICK r \in DOMAIN request : r = m.id /\ r \in Nat
    BY <1>4, <1>5
  <2> QED
    BY <1>2, <1>h, <1>3, <1>4, <1>7, <1>11, <2>1, <2>2, <2>3, <2>4, SettleInv
<1> QED
  BY <1>8, <1>9, <1>10, <1>11 DEF OnMessage

\* A request is sent to a port that the page has, or to one that it opens.
Opened(h) == \E at \in {"running", "missing"} :
  port = Nil /\ host[h].at = "none" /\ host' = [host EXCEPT ![h] = Started(at)]

LEMMA SendLine ==
  ASSUME CardTypes, AllOnce, Lined, NEW h \in Hosts,
         NEW command \in Commands, SendTo(command, h), UNCHANGED toPage,
         \A g \in Hosts : host'[g].doing = host[g].doing,
         NEW n \in Nat, n = Len(request) + 1
  PROVE  /\ request' \in Seq(Demands) /\ toHost' \in [Hosts -> Seq(Nat)] /\ AllOnce'
         /\ \A g \in Hosts \ {h} : toHost'[g] = toHost[g]
         /\ \A r \in DOMAIN request' : r = n \/ r \in DOMAIN request
         /\ \A r \in DOMAIN request : r \in DOMAIN request' /\ request'[r] = request[r]
         /\ n \in DOMAIN request' /\ request'[n].port = h /\ request'[n].at = "waiting"
         /\ InLine(h, n)'
         /\ \A g \in Hosts, r \in Nat : InLine(g, r)' => InLine(g, r) \/ (g = h /\ r = n)
<1> DEFINE d == [command |-> command, port |-> h, at |-> "waiting"]
<1>1. request \in Seq(Demands) /\ toHost \in [Hosts -> Seq(Nat)] /\ toHost[h] \in Seq(Nat)
  BY DEF CardTypes
<1>2. request' = Append(request, d) /\ toHost' = [toHost EXCEPT ![h] = Append(toHost[h], n)]
  BY DEF SendTo
<1>3. d \in Demands /\ d.port = h /\ d.at = "waiting"
  BY DEF Demands
<1> HIDE DEF d
<1>4. /\ request' \in Seq(Demands) /\ n \in DOMAIN request' /\ request'[n] = d
      /\ \A r \in DOMAIN request : r \in DOMAIN request' /\ request'[r] = request[r]
  BY <1>1, <1>2, <1>3, AppendKeeps
<1>5. \A r \in DOMAIN request' : r = n \/ r \in DOMAIN request
  BY <1>1, <1>2, AppendCases
<1>6. n \notin DOMAIN request
  BY <1>1
<1>7. \A g \in Hosts : ~InLine(g, n)
  BY <1>6 DEF Lined
<1>8. /\ toHost' \in [Hosts -> Seq(Nat)] /\ toHost'[h] = Append(toHost[h], n)
      /\ \A g \in Hosts \ {h} : toHost'[g] = toHost[g]
  BY <1>1, <1>2, AppendKeeps
<1>9. /\ \A i \in DOMAIN toHost'[h] : (i \in DOMAIN toHost[h] /\ toHost'[h][i] = toHost[h][i])
                                        \/ (i = Len(toHost[h]) + 1 /\ toHost'[h][i] = n)
      /\ Len(toHost[h]) + 1 \in DOMAIN toHost'[h] /\ toHost'[h][Len(toHost[h]) + 1] = n
  BY <1>1, <1>8, AppendCases, AppendKeeps
<1>10. ASSUME NEW g \in Hosts \ {h} PROVE Once(g)'
  <2>1. Once(g) /\ toHost'[g] = toHost[g] /\ host'[g].doing = host[g].doing
    BY <1>8 DEF AllOnce
  <2> QED
    BY <2>1 DEF Once
<1>11. Once(h)'
  <2>1. Once(h) /\ ~InLine(h, n) /\ host'[h].doing = host[h].doing
    BY <1>7 DEF AllOnce
  <2>2. /\ \A i \in DOMAIN toHost[h] : toHost[h][i] # n
        /\ host[h].doing # n
        /\ \A i \in DOMAIN toPage[h] : toPage[h][i].id # n
    BY <2>1 DEF InLine
  <2> QED
    BY <1>9, <2>1, <2>2 DEF Once
<1>12. InLine(h, n)'
  <2>1. \E i \in DOMAIN toHost'[h] : toHost'[h][i] = n
    BY <1>9
  <2> QED
    BY <2>1 DEF InLine
<1>13. \A g \in Hosts, r \in Nat : InLine(g, r)' => InLine(g, r) \/ (g = h /\ r = n)
  <2> SUFFICES ASSUME NEW g \in Hosts, NEW r \in Nat, InLine(g, r)'
               PROVE  InLine(g, r) \/ (g = h /\ r = n)
    OBVIOUS
  <2>1. CASE g = h
    BY <1>9, <2>1 DEF InLine
  <2>2. CASE g # h
    BY <1>8, <2>2 DEF InLine
  <2> QED
    BY <2>1, <2>2
<1> QED
  BY <1>3, <1>4, <1>5, <1>8, <1>10, <1>11, <1>12, <1>13 DEF AllOnce

LEMMA SentInv ==
  ASSUME CardInv, NEW h \in Hosts, NEW command \in Commands,
         SendTo(command, h), UNCHANGED <<toPage, session>>, port' = h,
         (port = h /\ host' = host) \/ Opened(h),
         shown' \in CardStatuses
  PROVE  CardInv'
<1>1. CardTypes /\ Clean /\ AllSteady /\ OpenHeld /\ AllOnce /\ Lined /\ Waits /\ Final /\ LastAnswer
  BY DEF CardInv
<1>2. host \in [Hosts -> Processes] /\ h # Nil /\ \A g \in Hosts : g # Nil
  BY <1>1 DEF CardTypes, Hosts
<1>3. Opened(h) => /\ host[h] = NotStarted /\ toHost[h] = <<>> /\ toPage[h] = <<>>
                   /\ \A r \in Nat : ~InLine(h, r)
  BY <1>1, StartedType DEF Opened, Clean, InLine
<1>4. Opened(h) => /\ host'[h].at # "none" /\ host'[h].doing = Nil
                   /\ Steady(host'[h]) /\ host'[h] \in Processes
  BY <1>2, StartedType DEF Opened
<1>5. \A g \in Hosts \ {h} : host'[g] = host[g]
  BY <1>2 DEF Opened
<1>6. host' \in [Hosts -> Processes]
  BY <1>2, StartedType DEF Opened
<1>7. \A g \in Hosts : host'[g].doing = host[g].doing
  BY <1>3, <1>4, <1>5, StartedType
<1>8. PICK n \in Nat : n = Len(request) + 1
  BY <1>1 DEF CardTypes
<1>9. /\ request' \in Seq(Demands) /\ toHost' \in [Hosts -> Seq(Nat)] /\ AllOnce'
      /\ \A g \in Hosts \ {h} : toHost'[g] = toHost[g]
      /\ \A r \in DOMAIN request' : r = n \/ r \in DOMAIN request
      /\ \A r \in DOMAIN request : r \in DOMAIN request' /\ request'[r] = request[r]
      /\ n \in DOMAIN request' /\ request'[n].port = h /\ request'[n].at = "waiting"
      /\ InLine(h, n)'
      /\ \A g \in Hosts, r \in Nat : InLine(g, r)' => InLine(g, r) \/ (g = h /\ r = n)
  BY <1>1, <1>7, <1>8, SendLine
<1>10. CardTypes'
  BY <1>1, <1>6, <1>9 DEF CardTypes
<1>11. AllSteady'
  BY <1>1, <1>4, <1>5 DEF AllSteady
<1>12. OpenHeld'
  <2>1. \A s, g : g \in Hosts /\ HeldBy(s, host[g]) => HeldBy(s, host'[g])
    BY <1>5 DEF Opened, HeldBy
  <2> QED
    BY <1>1, <2>1 DEF OpenHeld, HeldBy
<1>13. Clean'
  <2>1. host'[h].at # "none"
    BY <1>1, <1>4 DEF Clean
  <2> QED
    BY <1>1, <1>5, <1>9, <2>1 DEF Clean
<1>14. Lined'
  <2> SUFFICES ASSUME NEW g \in Hosts, NEW r \in Nat, InLine(g, r)'
               PROVE  /\ r \in DOMAIN request' /\ request'[r].port = g
                      /\ h = g => request'[r].at \in {"waiting", "late"}
    BY DEF Lined
  <2>1. CASE g = h /\ r = n
    BY <1>9, <2>1
  <2>2. CASE InLine(g, r)
    <3>1. g = h => port = h
      BY <1>3, <2>2
    <3> QED
      BY <1>1, <1>9, <2>2, <3>1 DEF Lined
  <2> QED
    BY <1>9, <2>1, <2>2
<1>15. Waits'
  <2>1. \A r \in DOMAIN request : request[r].port # Nil
    <3>1. \A r \in DOMAIN request : request[r] \in Demands
      BY <1>1 DEF CardTypes
    <3> QED
      BY <1>2, <3>1 DEF Demands
  <2> QED
    BY <1>1, <1>9, <2>1 DEF Waits, Opened
<1>16. Connecting' /\ HasPort' /\ Final'
  BY <1>1, <1>2, <1>9 DEF Connecting, HasPort, Final
<1>17. LastAnswer'
  <2>1. ~ \A r \in Nat : ~InLine(h, r)'
    BY <1>9
  <2>2. host'[h].at = "running" /\ toPage'[h] # <<>> /\ host'[h].doing = Nil =>
          toPage'[h][Len(toPage'[h])].status = host'[h].status
    BY <1>1, <1>2, <1>3 DEF LastAnswer
  <2> QED
    BY <2>1, <2>2 DEF LastAnswer
<1> QED
  BY <1>9, <1>10, <1>11, <1>12, <1>13, <1>14, <1>15, <1>16, <1>17 DEF CardInv

LEMMA PressInv ==
  ASSUME CardInv, Press("status") \/ Press("disconnect")
  PROVE  CardInv'
<1>1. PICK command \in {"status", "disconnect"} : Press(command)
  OBVIOUS
<1>2. /\ port \in Hosts /\ SendTo(command, port) /\ command \in Commands
      /\ shown \in CardStatuses /\ UNCHANGED <<shown, port, toPage, host, session>>
  BY <1>1 DEF Press, CardInv, CardTypes, Commands
<1> QED
  BY <1>2, SentInv

LEMMA ConnectInv ==
  ASSUME CardInv, Connect
  PROVE  CardInv'
<1>1. PICK h \in Hosts : OpenPort(h) /\ SendTo("connect", h) /\ port' = h
  BY DEF Connect
<1>2. (port = h /\ host' = host) \/ Opened(h)
  BY <1>1 DEF OpenPort, Opened
<1>3. shown' \in CardStatuses /\ UNCHANGED <<toPage, session>> /\ "connect" \in Commands
  BY PlainStatuses DEF Connect, Commands
<1> QED
  BY <1>1, <1>2, <1>3, SentInv

-----------------------------------------------------------------------------
(* The theorems.                                                            *)

LEMMA CardInit == ASSUME BridgeInit PROVE CardInv
<1>1. CardTypes
  <2>1. /\ shown \in CardStatuses /\ host \in [Hosts -> Processes]
        /\ toHost \in [Hosts -> Seq(Nat)] /\ toPage \in [Hosts -> Seq(Replied)]
    BY PlainStatuses, StartedType DEF BridgeInit
  <2>2. port = Nil /\ request = <<>> /\ session = <<>>
    BY DEF BridgeInit
  <2> QED
    BY <2>1, <2>2 DEF CardTypes
<1>2. \A h \in Hosts : /\ host[h] = NotStarted /\ toHost[h] = <<>> /\ toPage[h] = <<>>
                            /\ h # Nil
  BY DEF BridgeInit, Hosts
<1>3. shown = Disconnected /\ port = Nil /\ request = <<>> /\ session = <<>>
  BY DEF BridgeInit
<1>4. Clean
  BY <1>2, <1>3 DEF Clean
<1>5. AllSteady
  BY <1>2, StartedType DEF AllSteady
<1>6. OpenHeld /\ Waits
  BY <1>3 DEF OpenHeld, Waits
<1>7. AllOnce /\ Lined /\ Final
  <2>1. \A h \in Hosts : host[h].doing = Nil
    BY <1>2, StartedType
  <2> QED
    BY <1>2, <2>1 DEF AllOnce, Once, Lined, InLine, Final
<1>8. Connecting /\ HasPort /\ LastAnswer
  BY <1>3 DEF Connecting, HasPort, LastAnswer, Disconnected, Empty
<1> QED
  BY <1>1, <1>4, <1>5, <1>6, <1>7, <1>8 DEF CardInv

LEMMA CardStuttering ==
  ASSUME CardInv, UNCHANGED bridgeVars PROVE CardInv'
<1>1. UNCHANGED <<shown, port, request, toHost, toPage, host, session>>
  BY DEF bridgeVars
<1>2. CardTypes /\ Clean /\ AllSteady /\ OpenHeld /\ AllOnce /\ Lined /\ Waits
      /\ Connecting /\ HasPort /\ Final /\ LastAnswer
  BY DEF CardInv
<1>3. CardTypes' /\ Clean' /\ AllSteady' /\ OpenHeld' /\ AllOnce'
  BY <1>1, <1>2 DEF CardTypes, Clean, AllSteady, OpenHeld, HeldBy, AllOnce, Once
<1>4. Lined' /\ Waits' /\ Connecting' /\ HasPort' /\ Final'
  BY <1>1, <1>2 DEF Lined, InLine, Waits, Connecting, HasPort, Final
<1>5. LastAnswer'
  BY <1>1, <1>2 DEF LastAnswer, InLine, GaveUpOnPort
<1> QED
  BY <1>3, <1>4, <1>5 DEF CardInv

LEMMA CardStep == ASSUME CardInv, [BridgeNext]_bridgeVars PROVE CardInv'
<1>1. CASE UNCHANGED bridgeVars
  BY <1>1, CardStuttering
<1>2. CASE Connect \/ Press("status") \/ Press("disconnect")
  BY <1>2, ConnectInv, PressInv
<1>3. CASE Receive \/ HostLost \/ \E r \in 1..MaxRequests : TimeOut(r)
  BY <1>3, ReceiveInv, HostLostInv, TimeOutInv
<1>4. CASE \E h \in Hosts : HostStep(h) \/ StdinEnds(h) \/ Exit(h)
  BY <1>4, HostStepInv, StdinEndsInv, ExitInv
<1>5. CASE SessionEnds
  BY <1>5, SessionEndsInv
<1> QED
  BY <1>1, <1>2, <1>3, <1>4, <1>5 DEF BridgeNext

\* The page, its requests, the hosts and the sessions satisfy CardInv at every moment.
THEOREM CardInvariant == BridgeSpec => []CardInv
<1>1. BridgeInit => CardInv
  BY CardInit
<1>2. CardInv /\ [BridgeNext]_bridgeVars => CardInv'
  BY CardStep
<1> QED
  BY <1>1, <1>2, PTL DEF BridgeSpec

\* Every session that is open at the daemon is held by a process that runs, and a
\* process holds one at most (SessionsAreHeld of DaemonBridge), however connects fail,
\* pages leave and processes end.
THEOREM NoSessionLeft == BridgeSpec => []SessionsAreHeld
<1>1. ASSUME CardInv PROVE SessionsAreHeld
  <2>1. \A s \in DOMAIN session : session[s] = "open" =>
          \E h \in Hosts : host[h].at = "running" /\ s \in {host[h].connection, host[h].transport}
    BY <1>1 DEF CardInv, OpenHeld, HeldBy
  <2>2. \A h \in Hosts : host[h].connection = Nil \/ host[h].transport = Nil
    BY <1>1 DEF CardInv, AllSteady, Steady
  <2> QED
    BY <2>1, <2>2 DEF SessionsAreHeld
<1> QED
  BY <1>1, CardInvariant, PTL

\* When nothing is in flight and no request of the port was given up, the card does not
\* say connecting, and the session it shows is the one its host holds (ShownIsHeld of
\* DaemonBridge).
THEOREM CardIsTrue == BridgeSpec => []ShownIsHeld
<1>1. ASSUME CardInv PROVE ShownIsHeld
  <2> SUFFICES ASSUME ~InFlight, ~GaveUpOnPort
               PROVE  /\ shown.state # "connecting"
                      /\ shown.state = "connected" =>
                           /\ port # Nil
                           /\ host[port].at = "running" => host[port].connection = shown.session
    BY DEF ShownIsHeld
  <2>1. \A r \in DOMAIN request : request[r].port = port => request[r].at \notin {"waiting", "late"}
    BY DEF InFlight, GaveUpOnPort, Waiting
  <2>2. shown.state # "connecting"
    BY <1>1, <2>1 DEF CardInv, Connecting
  <2>3. shown.state = "connected" => port # Nil
    BY <1>1 DEF CardInv, HasPort
  <2>4. ASSUME shown.state = "connected", port # Nil, host[port].at = "running"
        PROVE  host[port].connection = shown.session
    <3>1. port \in Hosts
      BY <1>1, <2>4 DEF CardInv, CardTypes
    <3>2. \A r \in Nat : ~InLine(port, r)
      BY <1>1, <2>1, <3>1 DEF CardInv, Lined
    <3>3. shown = host[port].status
      BY <1>1, <2>4, <3>2 DEF CardInv, LastAnswer
    <3> QED
      BY <1>1, <2>4, <3>1, <3>3 DEF CardInv, AllSteady, Steady
  <2> QED
    BY <2>2, <2>3, <2>4
<1> QED
  BY <1>1, CardInvariant, PTL
=============================================================================
