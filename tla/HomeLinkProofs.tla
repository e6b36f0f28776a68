--------------------------- MODULE HomeLinkProofs ---------------------------
(***************************************************************************)
(* Proofs about HomeLink, for every number of browsers, devices, requests  *)
(* and codes, every offset of the browsers' clocks and every lifetime that *)
(* HomeLinkAssumption admits: a signed request is accepted once, a link    *)
(* that a browser keeps is paired at the node, and a device that was       *)
(* unpaired or revoked does not come back.                                 *)
(***************************************************************************)
EXTENDS HomeLink, TLAPS

-----------------------------------------------------------------------------
(* Types.                                                                   *)

Orders == [kind : {"open"}, code : Codes] \cup [kind : {"revoke"}, dev : Devices]
Nonces == [of : Numbers, dev : Devices, at : Int]
Pairings == [code : Codes, expires : Int]
Memories == [pairing : Pairings \cup {None}, devices : SUBSET Devices, nonces : SUBSET Nonces]
Files == [devices : SUBSET Devices, nonces : SUBSET Nonces]

Typed ==
  /\ now \in 0 .. MaxTime
  /\ mem \in Memories /\ disk \in Files
  /\ lane \in Seq(Requests \cup Orders)
  /\ working \subseteq [req : Requests, before : Memories]
  /\ net \subseteq Requests
  /\ pc \in [Browsers -> {"idle", "waiting", "storing", "forgetting"}]
  /\ sent \in [Browsers -> Requests \cup {None}]
  /\ conn \in [Browsers -> Devices \cup {None}]
  /\ record \in [Browsers -> Devices \cup {None}]
  /\ made \in [device : Nat, request : Nat, code : Nat]
  /\ accepted \in [Numbers -> Nat]
  /\ gone \subseteq Devices /\ ending \subseteq Devices
  /\ upsets \in Nat

\* A surface that waits or stores has sent something, and stores only a pairing; a
\* pairing keeps a number for the request that follows it.
Sent == \A b \in Browsers :
  /\ pc[b] \in {"waiting", "storing"} => sent[b] \in Requests
  /\ pc[b] = "storing" => sent[b].kind = "pair"
  /\ sent[b] \in Requests /\ sent[b].kind = "pair" => sent[b].no + 1 \in Numbers

TypeInv == Typed /\ Sent

\* Every request that is under way.
Out == {r \in Requests : UnderWay(r)}
Pairs == {r \in Out : r.kind = "pair"}
Signed == {r \in Out : r.kind # "pair"}

-----------------------------------------------------------------------------
(* The invariants.                                                          *)

\* A request for a pairing keeps the next number for the request that follows it.
LastNo(r) == IF r.kind = "pair" THEN r.no + 1 ELSE r.no
Apart(r, q) == LastNo(r) < q.no \/ LastNo(q) < r.no

\* A number, and so a nonce, names one request.
Numbered ==
  /\ \A r \in Out : r.no <= made.request
  /\ \A r, q \in Out : r.no = q.no => r = q
  /\ \A b \in Browsers : sent[b] \in Requests =>
       /\ LastNo(sent[b]) <= made.request
       /\ \A r \in Out : r = sent[b] \/ r.no < sent[b].no \/ LastNo(sent[b]) < r.no
       /\ \A c \in Browsers \ {b} : sent[c] \in Requests => Apart(sent[b], sent[c])
  /\ \A n \in Numbers : accepted[n] > 0 =>
       /\ n <= made.request
       /\ \A b \in Browsers : sent[b] \in Requests /\ sent[b].kind = "pair" => n # sent[b].no + 1

\* A code is opened once, and the pairing of a device asked for once.
Opens(c) == \E i \in DOMAIN lane : lane[i].kind = "open" /\ lane[i].code = c
Closed(c) == ~Opens(c) /\ (mem.pairing # None => mem.pairing.code # c)
Coded ==
  /\ \A i, j \in DOMAIN lane : lane[i].kind = "open" /\ lane[j].kind = "open" /\ i # j
       => lane[i].code # lane[j].code
  /\ \A c \in Codes : Opens(c) => c <= made.code /\ (mem.pairing # None => mem.pairing.code # c)
  /\ mem.pairing # None => mem.pairing.code <= made.code
  /\ \A p \in Pairs : p.code <= made.code /\ p.dev <= made.device
  /\ \A p, q \in Pairs : p.dev = q.dev => p = q

\* The devices that have been paired, as far as somebody still knows of them.
Met == mem.devices \cup gone \cup {r.dev : r \in Signed}
         \cup ({conn[b] : b \in Browsers} \ {None}) \cup ({record[b] : b \in Browsers} \ {None})
         \cup {sent[b].dev : b \in {x \in Browsers : pc[x] = "storing"}}
Spent ==
  /\ \A d \in Devices : d \in Met \cup disk.devices => d <= made.device
  /\ \A b \in Browsers : sent[b] \in Requests => sent[b].dev <= made.device
  /\ \A p \in Pairs : p.dev \in Met => Closed(p.code)

\* While a signature is checked nothing else has changed the memory.
Checking ==
  /\ \A v, w \in working : v = w
  /\ \A w \in working :
       /\ w.req.kind # "pair"
       /\ w.before.devices = mem.devices /\ w.before.pairing = mem.pairing
       /\ mem.nonces \subseteq w.before.nonces
       /\ w.req.ts - Skew <= now
       /\ accepted[w.req.no] = 0

\* Ends are asked for before they come.
EndsAsked ==
  /\ \A r \in Out : r.kind = "unpair" => r.dev \in ending
  /\ \A i \in DOMAIN lane : lane[i].kind = "revoke" => lane[i].dev \in ending

\* A device whose pairing was answered is paired, in memory and in the file.
Paired(d) == d \in mem.devices /\ d \in disk.devices
LinksHold == \A b \in Browsers :
  /\ record[b] # None /\ record[b] \notin ending => Paired(record[b])
  /\ pc[b] = "storing" /\ sent[b].dev \notin ending => Paired(sent[b].dev)

\* The nonce of an accepted request that could still be accepted is remembered.
Holds(m, r) == r.dev \in m.devices =>
  \E n \in m.nonces : n.of = r.no /\ n.dev = r.dev /\ r.ts - Skew <= n.at
Outdated(r) == r.ts + Skew < now
Remembered ==
  \A r \in Signed : accepted[r.no] > 0 => Outdated(r) \/ (Holds(mem, r) /\ Holds(disk, r))

IInv == TypeInv /\ Numbered /\ Coded /\ Spent /\ Checking /\ EndsAsked /\ LinksHold
          /\ GoneStaysGone /\ Remembered /\ AcceptedOnce

-----------------------------------------------------------------------------
(* Typing.                                                                  *)

LEMMA PrunedType ==
  ASSUME NEW m \in Memories
  PROVE  /\ Pruned(m) \in Memories /\ Durable(m) \in Files /\ Durable(Pruned(m)) \in Files
         /\ Pruned(m).devices = m.devices /\ Pruned(m).pairing = m.pairing
         /\ Pruned(m).nonces = {n \in m.nonces : Kept(n)}
         /\ Durable(m).devices = m.devices /\ Durable(m).nonces = m.nonces
BY DEF Pruned, Durable, Memories, Files

LEMMA AppendAt ==
  ASSUME NEW S, NEW s \in Seq(S), NEW e
  PROVE  \A i \in DOMAIN Append(s, e) :
           \/ i \in DOMAIN s /\ Append(s, e)[i] = s[i]
           \/ i = Len(s) + 1 /\ Append(s, e)[i] = e
OBVIOUS

LEMMA TailAt ==
  ASSUME NEW S, NEW s \in Seq(S), s # <<>>
  PROVE  /\ \A i \in DOMAIN Tail(s) : i \in Int /\ i + 1 \in DOMAIN s /\ Tail(s)[i] = s[i + 1]
         /\ Head(s) \in S /\ Head(s) = s[1] /\ 1 \in DOMAIN s /\ Tail(s) \in Seq(S)
OBVIOUS

LEMMA LaneType ==
  ASSUME TypeInv
  PROVE  /\ lane \in Seq(Requests \cup Orders)
         /\ \A i \in DOMAIN lane : lane[i] \in Requests \cup Orders
<1>1. lane \in Seq(Requests \cup Orders)
  BY DEF TypeInv, Typed
<1>2. ASSUME NEW S, NEW s \in Seq(S) PROVE \A i \in DOMAIN s : s[i] \in S
  OBVIOUS
<1> QED
  BY <1>1, <1>2

\* The lane holds what it held, and what is taken from it is its head.
LEMMA HeadOfLane ==
  ASSUME TypeInv, lane # <<>>
  PROVE  /\ Head(lane) \in Requests \cup Orders /\ Head(lane) = lane[1] /\ 1 \in DOMAIN lane
         /\ Tail(lane) \in Seq(Requests \cup Orders)
         /\ \A i \in DOMAIN Tail(lane) :
              i \in Int /\ i + 1 \in DOMAIN lane /\ Tail(lane)[i] = lane[i + 1]
BY LaneType, TailAt

LEMMA HeadKinds ==
  ASSUME TypeInv, lane # <<>>
  PROVE  /\ Head(lane).kind \in {"pair", "status", "unpair"} => Head(lane) \in Requests
         /\ Head(lane).kind = "open" => Head(lane).code \in Codes
         /\ Head(lane).kind = "revoke" => Head(lane).dev \in Devices
BY HeadOfLane DEF Requests, Orders

LEMMA RequestType ==
  ASSUME TypeInv, HomeLinkAssumption, NEW b \in Browsers, NEW kind \in {"pair", "status", "unpair"},
         NEW d \in Devices, NEW n \in Numbers, NEW code \in Nat,
         NEW for \in {"pair", "presence", "cleanup", "refresh", "disconnect"}
  PROVE  Request(b, kind, d, n, code, for) \in Requests
<1>1. now + Offset[b] \in Int
  BY DEF TypeInv, Typed, HomeLinkAssumption
<1> QED
  BY <1>1 DEF Request, Requests

LEMMA AfterType ==
  ASSUME NEW r \in Requests
  PROVE  /\ AfterWell(r) \in {"idle", "storing", "forgetting"}
         /\ AfterWell(r) = "storing" <=> r.kind = "pair"
         /\ AfterIll(r) \in {"idle", "forgetting"}
BY DEF AfterWell, AfterIll

LEMMA AnswersType ==
  ASSUME TypeInv, NEW r \in Requests, NEW step \in {"idle", "storing", "forgetting"},
         Answers(r, step), step = "storing" => r.kind = "pair"
  PROVE  /\ Sent' /\ pc' \in [Browsers -> {"idle", "waiting", "storing", "forgetting"}]
         /\ sent' \in [Browsers -> Requests \cup {None}]
BY DEF Answers, Sent, TypeInv, Typed

LEMMA SaveType ==
  ASSUME TypeInv, HomeLinkAssumption, NEW before \in Memories, NEW after \in Memories,
         \/ Commits(before, after) \/ Fails(before, after)
         \/ Undone(before, after) /\ UNCHANGED upsets
  PROVE  mem' \in Memories /\ disk' \in Files /\ upsets' \in Nat
<1>1. disk \in Files /\ upsets \in Nat
  BY DEF TypeInv, Typed
<1>2. Pruned(after) \in Memories /\ Durable(Pruned(after)) \in Files
  BY PrunedType
<1> QED
  BY <1>1, <1>2 DEF Commits, Fails, Undone, Upsets

LEMMA AuthenticatedType ==
  ASSUME TypeInv, HomeLinkAssumption, NEW r \in Requests
  PROVE  /\ Authenticated(r) \in Memories
         /\ Authenticated(r).pairing = mem.pairing
         /\ Authenticated(r).devices =
              IF r.kind = "unpair" THEN mem.devices \ {r.dev} ELSE mem.devices
         /\ Authenticated(r).nonces = mem.nonces \cup {[of |-> r.no, dev |-> r.dev, at |-> now]}
<1>1. [of |-> r.no, dev |-> r.dev, at |-> now] \in Nonces
  BY DEF TypeInv, Typed, Requests, Nonces, HomeLinkAssumption
<1>2. r.dev \in Devices
  BY DEF Requests
<1> QED
  BY <1>1, <1>2 DEF Authenticated, TypeInv, Typed, Memories

LEMMA OperationTypes ==
  ASSUME TypeInv, NEW d \in Devices
  PROVE  /\ [mem EXCEPT !.devices = @ \cup {d}, !.pairing = None] \in Memories
         /\ [mem EXCEPT !.devices = @ \ {d}, !.nonces = {n \in @ : n.dev # d}] \in Memories
BY DEF TypeInv, Typed, Memories

LEMMA NumbersBelow ==
  ASSUME HomeLinkAssumption, NEW n \in Nat, n + 2 \in Numbers
  PROVE  n + 1 \in Numbers
<1>1. n + 1 \in 1 .. (n + 2)
  OBVIOUS
<1> QED
  BY <1>1 DEF HomeLinkAssumption

\* A surface sends a request of its own.
LEMMA SendsType ==
  ASSUME TypeInv, HomeLinkAssumption, NEW b \in Browsers, NEW r \in Requests, Sends(b, r),
         r.kind = "pair" => r.no + 1 \in Numbers
  PROVE  /\ Sent' /\ UNCHANGED <<now, node, working, lane>>
         /\ net' \subseteq Requests
         /\ pc' \in [Browsers -> {"idle", "waiting", "storing", "forgetting"}]
         /\ sent' \in [Browsers -> Requests \cup {None}]
BY DEF Sends, Goes, NodeUnchanged, node, Sent, TypeInv, Typed

LEMMA TypeStep == TypeInv /\ HomeLinkAssumption /\ [Next]_vars => TypeInv'
<1> SUFFICES ASSUME TypeInv, HomeLinkAssumption, [Next]_vars PROVE TypeInv'
  OBVIOUS
<1> USE DEF TypeInv
<1>1. CASE Pair
  <2> DEFINE r == Head(lane)
             after == [mem EXCEPT !.devices = @ \cup {r.dev}, !.pairing = None]
  <2>1. r \in Requests /\ r.kind = "pair" /\ r.dev \in Devices
    BY <1>1, HeadKinds DEF Pair, Begins, Requests
  <2>2. /\ lane' \in Seq(Requests \cup Orders)
        /\ UNCHANGED <<now, working, net, conn, record, made, accepted, gone, ending>>
    BY <1>1, HeadOfLane DEF Pair, Begins
  <2>3. after \in Memories
    BY <2>1, OperationTypes
  <2>4. CASE MayPair(r) /\ Commits(mem, after) /\ Answers(r, AfterWell(r))
    BY <2>1, <2>2, <2>3, <2>4, SaveType, AfterType, AnswersType DEF Typed
  <2>5. CASE MayPair(r) /\ Fails(mem, after) /\ Answers(r, AfterIll(r))
    BY <2>1, <2>2, <2>3, <2>5, SaveType, AfterType, AnswersType DEF Typed
  <2>6. CASE Answers(r, AfterIll(r)) /\ UNCHANGED <<mem, disk, upsets>>
    BY <2>1, <2>2, <2>6, AfterType, AnswersType DEF Typed
  <2> QED
    BY <1>1, <2>4, <2>5, <2>6 DEF Pair
<1>2. CASE CheckSigned
  <2>1. Head(lane) \in Requests /\ lane' \in Seq(Requests \cup Orders)
    BY <1>2, HeadKinds, HeadOfLane DEF CheckSigned, Begins
  <2>2. mem' \in Memories
    BY <1>2, PrunedType DEF CheckSigned, Typed
  <2>3. /\ UNCHANGED <<now, disk, accepted, gone, net, ending, upsets, pc, sent, conn, record, made>>
        /\ working' = working \cup {[req |-> Head(lane), before |-> mem]}
    BY <1>2 DEF CheckSigned, BrowserUnchanged, browser
  <2>4. working' \subseteq [req : Requests, before : Memories]
    BY <2>1, <2>3 DEF Typed
  <2> QED
    BY <2>1, <2>2, <2>3, <2>4 DEF Typed, Sent
<1>3. CASE RefuseSigned
  <2>1. Head(lane) \in Requests /\ lane' \in Seq(Requests \cup Orders)
    BY <1>3, HeadKinds, HeadOfLane DEF RefuseSigned, Begins
  <2>2. mem' \in Memories /\ disk' \in Files /\ upsets' \in Nat
    BY <1>3, SaveType DEF RefuseSigned, Typed
  <2>3. /\ UNCHANGED <<now, working, net, conn, record, made, accepted, gone, ending>>
        /\ Answers(Head(lane), AfterIll(Head(lane)))
    BY <1>3 DEF RefuseSigned
  <2> QED
    BY <2>1, <2>2, <2>3, AfterType, AnswersType DEF Typed
<1>4. CASE IssuePairingCode
  <2>1. Head(lane).code \in Codes /\ lane' \in Seq(Requests \cup Orders)
    BY <1>4, HeadKinds, HeadOfLane DEF IssuePairingCode, Begins
  <2>2. [code |-> Head(lane).code, expires |-> now + CodeLife] \in Pairings
    BY <2>1 DEF Pairings, Typed, HomeLinkAssumption
  <2>3. mem' \in Memories
    BY <1>4, <2>2 DEF IssuePairingCode, Typed, Memories
  <2> QED
    BY <1>4, <2>1, <2>3 DEF IssuePairingCode, BrowserUnchanged, browser, Typed, Sent
<1>5. CASE RevokeBrowser
  <2> DEFINE d == Head(lane).dev
             after == [mem EXCEPT !.devices = @ \ {d}, !.nonces = {n \in @ : n.dev # d}]
  <2>1. d \in Devices /\ lane' \in Seq(Requests \cup Orders) /\ after \in Memories
    BY <1>5, HeadKinds, HeadOfLane, OperationTypes DEF RevokeBrowser, Begins
  <2>2. mem' \in Memories /\ disk' \in Files /\ upsets' \in Nat /\ gone' \subseteq Devices
    BY <1>5, <2>1, SaveType DEF RevokeBrowser, Typed
  <2> QED
    BY <1>5, <2>1, <2>2 DEF RevokeBrowser, BrowserUnchanged, browser, Typed, Sent
<1>6. ASSUME NEW w \in working, AcceptSigned(w) PROVE TypeInv'
  <2>1. w.req \in Requests /\ w.before \in Memories /\ w.req.no \in Numbers /\ w.req.dev \in Devices
    BY DEF Typed, Requests
  <2>2. mem' \in Memories /\ disk' \in Files /\ upsets' \in Nat
    BY <1>6, <2>1, SaveType, AuthenticatedType DEF AcceptSigned
  <2>3. accepted' \in [Numbers -> Nat]
    <3>1. accepted' = [accepted EXCEPT ![w.req.no] = @ + 1]
      BY <1>6 DEF AcceptSigned
    <3>2. accepted \in [Numbers -> Nat]
      BY DEF Typed
    <3> QED
      BY <2>1, <3>1, <3>2
  <2>a. gone' \subseteq Devices /\ working' \subseteq working
    BY <1>6, <2>1 DEF AcceptSigned, Typed
  <2>4. UNCHANGED <<now, lane, net, conn, record, made, ending>> /\ Answers(w.req, AfterWell(w.req))
    BY <1>6 DEF AcceptSigned
  <2> QED
    <3>1. Sent' /\ pc' \in [Browsers -> {"idle", "waiting", "storing", "forgetting"}]
      BY <2>1, <2>4, AfterType, AnswersType
    <3>2. sent' \in [Browsers -> Requests \cup {None}]
      BY <2>4 DEF Answers, Typed
    <3> QED
      BY <2>2, <2>3, <2>a, <2>4, <3>1, <3>2 DEF Typed
<1>7. ASSUME NEW w \in working, SignedNotSaved(w) PROVE TypeInv'
  <2>1. w.req \in Requests /\ w.before \in Memories
    BY DEF Typed
  <2>2. mem' \in Memories /\ disk' \in Files /\ upsets' \in Nat
    BY <1>7, <2>1, SaveType, AuthenticatedType DEF SignedNotSaved
  <2>3. /\ UNCHANGED <<now, lane, net, conn, record, made, accepted, gone, ending>>
        /\ Answers(w.req, AfterIll(w.req)) /\ working' \subseteq working
    BY <1>7 DEF SignedNotSaved
  <2>4. /\ Sent' /\ pc' \in [Browsers -> {"idle", "waiting", "storing", "forgetting"}]
        /\ sent' \in [Browsers -> Requests \cup {None}]
    BY <2>1, <2>3, AfterType, AnswersType
  <2> QED
    BY <2>1, <2>2, <2>3, <2>4 DEF Typed
<1>8. CASE AdminOpens
  <2>1. [kind |-> "open", code |-> made.code + 1] \in Orders
    BY <1>8 DEF AdminOpens, Orders
  <2>2. lane' \in Seq(Requests \cup Orders)
    BY <1>8, <2>1 DEF AdminOpens, AdminAsks, Typed
  <2> QED
    BY <1>8, <2>2 DEF AdminOpens, AdminAsks, NodeUnchanged, browser, Typed, Sent
<1>9. CASE Tick
  BY <1>9 DEF Tick, node, browser, Typed, Sent, HomeLinkAssumption
<1>10. CASE Upset /\ Restart
  <2>1. [pairing |-> None, devices |-> disk.devices, nonces |-> disk.nonces] \in Memories
    BY DEF Typed, Files, Memories
  <2>2. mem' \in Memories /\ disk' \in Files
    BY <1>10, <2>1, PrunedType DEF Restart
  <2> QED
    BY <1>10, <2>2 DEF Upset, Upsets, Restart, BrowserUnchanged, browser, Typed, Sent
<1>11. CASE Upset /\ AdminRevokes
  <2>1. PICK d \in mem.devices :
           AdminAsks([kind |-> "revoke", dev |-> d]) /\ ending' = ending \cup {d}
    BY <1>11 DEF AdminRevokes
  <2>2. d \in Devices
    BY DEF Typed, Memories
  <2>3. [kind |-> "revoke", dev |-> d] \in Orders
    BY <2>2 DEF Orders
  <2>4. lane' \in Seq(Requests \cup Orders) /\ ending' \subseteq Devices
    BY <2>1, <2>2, <2>3 DEF AdminAsks, Typed
  <2> QED
    BY <1>11, <2>1, <2>4
    DEF Upset, Upsets, AdminRevokes, AdminAsks, NodeUnchanged, browser, Typed, Sent
<1>12. ASSUME NEW b \in Browsers, Upset, Reload(b) PROVE TypeInv'
  BY <1>12 DEF Upset, Upsets, Reload, Goes, node, Typed, Sent
<1>13. ASSUME NEW r \in net, Upset, Lose(r) PROVE TypeInv'
  BY <1>13 DEF Upset, Upsets, Lose, NodeUnchanged, BrowserUnchanged, browser, Typed, Sent
<1>14. ASSUME NEW r \in net, Arrives(r) PROVE TypeInv'
  <2>1. r \in Requests /\ net' \subseteq net /\ upsets' \in Nat
    BY <1>14 DEF Upsets, Arrives, Typed
  <2>2. lane' \in Seq(Requests \cup Orders)
    BY <1>14, <2>1 DEF Arrives, Typed
  <2>3. UNCHANGED <<now, working, ending, mem, disk, accepted, gone, pc, sent, conn, record, made>>
    BY <1>14 DEF Arrives, NodeUnchanged, BrowserUnchanged, browser
  <2> QED
    BY <2>1, <2>2, <2>3 DEF Typed, Sent
<1>15. ASSUME NEW b \in Browsers, StoreLink(b) PROVE TypeInv'
  <2>1. sent[b].dev \in Devices /\ sent[b].no + 1 \in Numbers
    BY <1>15 DEF StoreLink, Typed, Sent, Requests
  <2>2. /\ Sends(b, Request(b, "status", sent[b].dev, sent[b].no + 1, 0, "presence"))
        /\ UNCHANGED <<made, ending, upsets>>
        /\ record' \in [Browsers -> Devices \cup {None}] /\ conn' \in [Browsers -> Devices \cup {None}]
    BY <1>15, <2>1 DEF StoreLink, Typed
  <2>3. /\ Request(b, "status", sent[b].dev, sent[b].no + 1, 0, "presence") \in Requests
        /\ Request(b, "status", sent[b].dev, sent[b].no + 1, 0, "presence").kind # "pair"
    BY <2>1, RequestType DEF Request
  <2>4. /\ Sent' /\ UNCHANGED <<now, node, working, lane>> /\ net' \subseteq Requests
        /\ pc' \in [Browsers -> {"idle", "waiting", "storing", "forgetting"}]
        /\ sent' \in [Browsers -> Requests \cup {None}]
    BY <2>2, <2>3, SendsType
  <2> QED
    BY <2>2, <2>4 DEF Typed, node
<1>a. ASSUME NEW b \in Browsers, StoreFails(b) PROVE TypeInv'
  <2>1. sent[b].dev \in Devices /\ sent[b].no + 1 \in Numbers
    BY <1>a DEF StoreFails, Typed, Sent, Requests
  <2>2. /\ Sends(b, Request(b, "unpair", sent[b].dev, sent[b].no + 1, 0, "cleanup"))
        /\ UNCHANGED <<made, conn, record>> /\ upsets' = upsets + 1
        /\ ending' = ending \cup {sent[b].dev}
    BY <1>a DEF StoreFails, Upsets
  <2>a. upsets' \in Nat /\ ending' \subseteq Devices
    <3>1. upsets \in Nat /\ ending \subseteq Devices
      BY DEF Typed
    <3> QED
      BY <2>1, <2>2, <3>1
  <2>3. /\ Request(b, "unpair", sent[b].dev, sent[b].no + 1, 0, "cleanup") \in Requests
        /\ Request(b, "unpair", sent[b].dev, sent[b].no + 1, 0, "cleanup").kind # "pair"
    BY <2>1, RequestType DEF Request
  <2>4. /\ Sent' /\ UNCHANGED <<now, node, working, lane>> /\ net' \subseteq Requests
        /\ pc' \in [Browsers -> {"idle", "waiting", "storing", "forgetting"}]
        /\ sent' \in [Browsers -> Requests \cup {None}]
    BY <2>2, <2>3, SendsType
  <2> QED
    BY <2>2, <2>a, <2>4 DEF Typed, node
<1>16. ASSUME NEW b \in Browsers, Forget(b) PROVE TypeInv'
  <2>1. Typed'
    <3>1. upsets' \in Nat
      BY <1>16 DEF Forget, Upsets, Typed
    <3>a. /\ record' = [record EXCEPT ![b] = None] \/ record' = record
          /\ conn' = [conn EXCEPT ![b] = None] \/ conn' = conn
      BY <1>16 DEF Forget
    <3>b. record' \in [Browsers -> Devices \cup {None}]
      BY <3>a DEF Typed
    <3>c. conn' \in [Browsers -> Devices \cup {None}]
      BY <3>a DEF Typed
    <3>2. /\ UNCHANGED <<now, node, net, sent, made, ending>>
          /\ pc' \in [Browsers -> {"idle", "waiting", "storing", "forgetting"}]
      BY <1>16 DEF Forget, Goes, Typed
    <3> QED
      BY <3>1, <3>b, <3>c, <3>2 DEF Typed, node
  <2>2. Sent'
    BY <1>16 DEF Forget, Goes, Typed, Sent
  <2> QED
    BY <2>1, <2>2
<1>17. ASSUME NEW b \in Browsers, TimesOut(b) PROVE TypeInv'
  <2>1. AfterIll(sent[b]) \in {"idle", "forgetting"}
    BY <1>17, AfterType DEF TimesOut, Deadline, Sent
  <2> QED
    <3>1. Typed'
      <4>1. upsets' \in Nat
        BY <1>17 DEF TimesOut, Upsets, Typed
      <4>2. /\ UNCHANGED <<now, node, net, sent, conn, record, made, ending>>
            /\ pc' \in [Browsers -> {"idle", "waiting", "storing", "forgetting"}]
        BY <1>17, <2>1 DEF TimesOut, Goes, Typed
      <4> QED
        BY <4>1, <4>2 DEF Typed, node
    <3>2. Sent'
      BY <1>17, <2>1 DEF TimesOut, Goes, Typed, Sent
    <3> QED
      BY <3>1, <3>2
<1>18. ASSUME NEW b \in Browsers, AskPair(b) PROVE TypeInv'
  <2>1. /\ made.device + 1 \in Devices /\ made.request + 2 \in Numbers
        /\ made.request + 1 \in Numbers
    BY <1>18, NumbersBelow DEF AskPair, Typed
  <2>2. /\ Sends(b, Request(b, "pair", made.device + 1, made.request + 1, made.code, "pair"))
        /\ UNCHANGED <<conn, record, ending, upsets>>
        /\ made' \in [device : Nat, request : Nat, code : Nat]
    BY <1>18 DEF AskPair, Typed
  <2>3. made.code \in Nat /\ (made.request + 1) + 1 = made.request + 2
    BY DEF Typed
  <2> QED
    BY <2>1, <2>2, <2>3, RequestType, SendsType DEF Typed, node, Request
<1>19. ASSUME NEW b \in Browsers, Refresh(b) PROVE TypeInv'
  <2>1. conn[b] \in Devices /\ made.request + 1 \in Numbers
    BY <1>19 DEF Refresh, Linked, Typed
  <2>2. /\ Sends(b, Request(b, "status", conn[b], made.request + 1, 0, "refresh"))
        /\ UNCHANGED <<conn, record, ending, upsets>>
    BY <1>19 DEF Refresh
  <2>3. made' \in [device : Nat, request : Nat, code : Nat]
    <3>1. made \in [device : Nat, request : Nat, code : Nat]
      BY DEF Typed
    <3>2. made' = [made EXCEPT !.request = @ + 1]
      BY <1>19 DEF Refresh
    <3> QED
      BY <3>1, <3>2
  <2> QED
    BY <2>1, <2>2, <2>3, RequestType, SendsType DEF Typed, node, Request
<1>b. ASSUME NEW b \in Browsers, Disconnect(b) PROVE TypeInv'
  <2>1. conn[b] \in Devices /\ made.request + 1 \in Numbers
    BY <1>b DEF Disconnect, Linked, Typed
  <2>2. /\ Sends(b, Request(b, "unpair", conn[b], made.request + 1, 0, "disconnect"))
        /\ UNCHANGED <<conn, record, upsets>> /\ ending' \subseteq Devices
        /\ made' \in [device : Nat, request : Nat, code : Nat]
    BY <1>b, <2>1 DEF Disconnect, Typed
  <2> QED
    BY <2>1, <2>2, RequestType, SendsType DEF Typed, node, Request
<1>20. CASE UNCHANGED vars
  BY <1>20 DEF vars, node, browser, Typed, Sent
<1> QED
  BY <1>1, <1>2, <1>3, <1>4, <1>5, <1>6, <1>7, <1>8, <1>9, <1>10, <1>11, <1>12, <1>13, <1>14,
     <1>15, <1>a, <1>16, <1>17, <1>18, <1>19, <1>b, <1>20
  DEF Next, LaneStep, Upset, SurfaceStep

-----------------------------------------------------------------------------
(* What is under way.                                                       *)

LEMMA OutMembers ==
  ASSUME TypeInv
  PROVE  /\ \A r \in net : r \in Out
         /\ \A i \in DOMAIN lane : lane[i] \in Requests => lane[i] \in Out
         /\ \A w \in working : w.req \in Out
BY DEF Out, UnderWay, TypeInv, Typed

\* Nothing but a surface adds a request to those under way.
Quiet == /\ Out' \subseteq Out /\ sent' = sent
         /\ made'.request = made.request /\ made'.device = made.device

Asks(b) == AskPair(b) \/ StoreLink(b) \/ StoreFails(b) \/ Refresh(b) \/ Disconnect(b)

LEMMA TakesHead ==
  ASSUME TypeInv, lane # <<>>, lane' = Tail(lane), net' = net,
         \A w \in working' : w \in working \/ w.req = Head(lane)
  PROVE  Out' \subseteq Out
<1>1. ASSUME NEW r \in Requests, UnderWay(r)' PROVE UnderWay(r)
  <2>1. CASE r \in net'
    BY <2>1 DEF UnderWay
  <2>2. CASE \E i \in DOMAIN lane' : lane'[i] = r
    BY <2>2, HeadOfLane DEF UnderWay
  <2>3. CASE \E w \in working' : w.req = r
    BY <2>3, HeadOfLane DEF UnderWay
  <2> QED
    BY <1>1, <2>1, <2>2, <2>3 DEF UnderWay
<1> QED
  BY <1>1 DEF Out

LEMMA AppendsOrder ==
  ASSUME TypeInv, NEW op, op.kind \in {"open", "revoke"}, lane' = Append(lane, op),
         net' = net, working' = working
  PROVE  Out' \subseteq Out
<1>1. ASSUME NEW r \in Requests, UnderWay(r)' PROVE UnderWay(r)
  <2>1. r # op
    BY DEF Requests
  <2>2. ASSUME NEW i \in DOMAIN lane', lane'[i] = r PROVE \E j \in DOMAIN lane : lane[j] = r
    BY <2>1, <2>2 DEF TypeInv, Typed
  <2> QED
    BY <1>1, <2>2 DEF UnderWay
<1> QED
  BY <1>1 DEF Out

LEMMA QuietStep ==
  ASSUME TypeInv, HomeLinkAssumption, [Next]_vars
  PROVE  Quiet \/ \E b \in Browsers : Asks(b)
<1> USE DEF Quiet
<1>1. CASE Pair \/ RefuseSigned
  BY <1>1, TakesHead DEF Pair, RefuseSigned, Begins, Answers
<1>2. CASE CheckSigned
  <2>1. \A w \in working' : w \in working \/ w.req = Head(lane)
    BY <1>2 DEF CheckSigned
  <2> QED
    BY <1>2, <2>1, TakesHead DEF CheckSigned, Begins, BrowserUnchanged, browser
<1>3. CASE IssuePairingCode \/ RevokeBrowser
  BY <1>3, TakesHead DEF IssuePairingCode, RevokeBrowser, Begins, BrowserUnchanged, browser
<1>4. ASSUME NEW w \in working, AcceptSigned(w) \/ SignedNotSaved(w) PROVE Quiet
  BY <1>4 DEF AcceptSigned, SignedNotSaved, Answers, Out, UnderWay
<1>5. CASE AdminOpens
  <2>1. AdminAsks([kind |-> "open", code |-> made.code + 1])
    BY <1>5 DEF AdminOpens
  <2>2. made'.request = made.request /\ made'.device = made.device /\ sent' = sent
    BY <1>5, <2>1 DEF AdminOpens, AdminAsks, browser, TypeInv, Typed
  <2> QED
    BY <2>1, <2>2, AppendsOrder DEF AdminAsks
<1>6. CASE AdminRevokes
  <2>1. PICK d \in mem.devices : AdminAsks([kind |-> "revoke", dev |-> d])
    BY <1>6 DEF AdminRevokes
  <2> QED
    BY <1>6, <2>1, AppendsOrder DEF AdminRevokes, AdminAsks, browser
<1>7. CASE Tick \/ \E b \in Browsers : Reload(b) \/ Forget(b) \/ TimesOut(b)
  BY <1>7 DEF Tick, Reload, Forget, TimesOut, node, browser, Out, UnderWay
<1>8. CASE Restart
  BY <1>8 DEF Restart, BrowserUnchanged, browser, Out, UnderWay
<1>9. ASSUME NEW r \in net, Lose(r) PROVE Quiet
  BY <1>9 DEF Lose, NodeUnchanged, BrowserUnchanged, browser, Out, UnderWay
<1>10. ASSUME NEW r \in net, Arrives(r) PROVE Quiet
  <2>1. ASSUME NEW q \in Requests, UnderWay(q)' PROVE UnderWay(q)
    <3>1. lane' = Append(lane, r) /\ net' \subseteq net /\ working' = working
      BY <1>10 DEF Arrives
    <3>2. ASSUME NEW i \in DOMAIN lane', lane'[i] = q
          PROVE  q = r \/ \E j \in DOMAIN lane : lane[j] = q
      BY <3>1, <3>2 DEF TypeInv, Typed
    <3> QED
      BY <2>1, <3>1, <3>2 DEF UnderWay
  <2> QED
    BY <1>10, <2>1 DEF Arrives, BrowserUnchanged, browser, Out
<1>11. CASE UNCHANGED vars
  BY <1>11 DEF vars, node, browser, Out, UnderWay
<1> QED
  BY <1>1, <1>2, <1>3, <1>4, <1>5, <1>6, <1>7, <1>8, <1>9, <1>10, <1>11
  DEF Next, LaneStep, Upset, SurfaceStep, Asks

\* The request of a surface: a new one under the next number, or the one that
\* follows a pairing, under the number that was kept for it.
NewRequest(b, r) ==
  /\ r.no = made.request + 1 /\ made'.request = LastNo(r)
  /\ r.kind = "pair" =>
       /\ r.dev = made.device + 1 /\ made'.device = made.device + 1 /\ r.code = made.code
       /\ PairingAvailable(mem)
  /\ r.kind # "pair" => r.dev = conn[b] /\ conn[b] # None /\ made'.device = made.device
  /\ conn' = conn /\ record' = record
FollowsPairing(b, r) ==
  /\ pc[b] = "storing" /\ r.kind # "pair"
  /\ r.no = sent[b].no + 1 /\ r.dev = sent[b].dev /\ made' = made
  /\ \/ conn' = conn /\ record' = record
     \/ conn' = [conn EXCEPT ![b] = r.dev] /\ record' = [record EXCEPT ![b] = r.dev]
Asked(b, r) ==
  /\ Out' \subseteq Out \cup {r}
  /\ sent' = [sent EXCEPT ![b] = r] /\ pc' = [pc EXCEPT ![b] = "waiting"]
  /\ UNCHANGED <<now, mem, disk, lane, working, accepted, gone>> /\ made'.code = made.code
  /\ ending \subseteq ending' /\ (r.kind = "unpair" => r.dev \in ending')
  /\ NewRequest(b, r) \/ FollowsPairing(b, r)

LEMMA SendsOut ==
  ASSUME TypeInv, NEW b \in Browsers, NEW r \in Requests, Sends(b, r)
  PROVE  /\ Out' \subseteq Out \cup {r}
         /\ sent' = [sent EXCEPT ![b] = r] /\ pc' = [pc EXCEPT ![b] = "waiting"]
         /\ UNCHANGED <<now, mem, disk, lane, working, accepted, gone>>
BY DEF Sends, Goes, NodeUnchanged, Out, UnderWay

LEMMA AsksStep ==
  ASSUME TypeInv, HomeLinkAssumption, NEW b \in Browsers, Asks(b)
  PROVE  \E r \in Requests : Asked(b, r)
<1>1. CASE AskPair(b)
  <2> DEFINE r == Request(b, "pair", made.device + 1, made.request + 1, made.code, "pair")
  <2>1. /\ made.device + 1 \in Devices /\ made.request + 2 \in Numbers
        /\ made.request + 1 \in Numbers
    BY <1>1, NumbersBelow DEF AskPair, TypeInv, Typed
  <2>2. /\ Sends(b, r) /\ made' = [made EXCEPT !.request = @ + 2, !.device = @ + 1]
        /\ UNCHANGED <<conn, record, ending, upsets>> /\ PairingAvailable(mem)
    BY <1>1 DEF AskPair
  <2>3. made \in [device : Nat, request : Nat, code : Nat]
    BY DEF TypeInv, Typed
  <2>4. r \in Requests
    BY <2>1, <2>3, RequestType
  <2>5. NewRequest(b, r)
    BY <2>2, <2>3 DEF NewRequest, Request, LastNo
  <2>6. made'.code = made.code /\ r.kind = "pair"
    BY <2>2, <2>3 DEF Request
  <2> QED
    BY <2>2, <2>4, <2>5, <2>6, SendsOut DEF Asked
<1>2. CASE StoreLink(b)
  <2> DEFINE r == Request(b, "status", sent[b].dev, sent[b].no + 1, 0, "presence")
  <2>1. sent[b].dev \in Devices /\ sent[b].no + 1 \in Numbers
    BY <1>2 DEF StoreLink, TypeInv, Typed, Sent, Requests
  <2>2. r \in Requests
    BY <2>1, RequestType
  <2>3. Sends(b, r) /\ UNCHANGED <<made, ending, upsets>> /\ pc[b] = "storing"
    BY <1>2 DEF StoreLink
  <2>4. FollowsPairing(b, r) /\ r.kind # "unpair"
    BY <1>2, <2>3 DEF StoreLink, FollowsPairing, Request
  <2> QED
    BY <2>2, <2>3, <2>4, SendsOut DEF Asked
<1>3. CASE StoreFails(b)
  <2> DEFINE r == Request(b, "unpair", sent[b].dev, sent[b].no + 1, 0, "cleanup")
  <2>1. sent[b].dev \in Devices /\ sent[b].no + 1 \in Numbers
    BY <1>3 DEF StoreFails, TypeInv, Typed, Sent, Requests
  <2>2. r \in Requests
    BY <2>1, RequestType
  <2>3. Sends(b, r) /\ UNCHANGED <<made, conn, record>> /\ ending' = ending \cup {r.dev}
    BY <1>3 DEF StoreFails, Request
  <2>4. FollowsPairing(b, r)
    BY <1>3, <2>3 DEF StoreFails, FollowsPairing, Request
  <2> QED
    BY <2>2, <2>3, <2>4, SendsOut DEF Asked
<1>4. CASE Refresh(b)
  <2> DEFINE r == Request(b, "status", conn[b], made.request + 1, 0, "refresh")
  <2>1. conn[b] \in Devices /\ made.request + 1 \in Numbers
    BY <1>4 DEF Refresh, Linked, TypeInv, Typed
  <2>2. r \in Requests
    BY <2>1, RequestType
  <2>3. /\ Sends(b, r) /\ UNCHANGED <<conn, record, ending>>
        /\ made' = [made EXCEPT !.request = @ + 1] /\ conn[b] # None
    BY <1>4 DEF Refresh, Linked
  <2>4. made \in [device : Nat, request : Nat, code : Nat]
    BY DEF TypeInv, Typed
  <2>5. NewRequest(b, r) /\ r.kind = "status" /\ made'.code = made.code
    BY <2>3, <2>4 DEF NewRequest, Request, LastNo
  <2> QED
    BY <2>2, <2>3, <2>5, SendsOut DEF Asked
<1>5. CASE Disconnect(b)
  <2> DEFINE r == Request(b, "unpair", conn[b], made.request + 1, 0, "disconnect")
  <2>1. conn[b] \in Devices /\ made.request + 1 \in Numbers
    BY <1>5 DEF Disconnect, Linked, TypeInv, Typed
  <2>2. r \in Requests
    BY <2>1, RequestType
  <2>3. /\ Sends(b, r) /\ UNCHANGED <<conn, record>> /\ ending' = ending \cup {r.dev}
        /\ made' = [made EXCEPT !.request = @ + 1] /\ conn[b] # None
    BY <1>5 DEF Disconnect, Linked, Request
  <2>4. made \in [device : Nat, request : Nat, code : Nat]
    BY DEF TypeInv, Typed
  <2>5. NewRequest(b, r) /\ made'.code = made.code
    BY <2>3, <2>4 DEF NewRequest, Request, LastNo
  <2> QED
    BY <2>2, <2>3, <2>5, SendsOut DEF Asked
<1> QED
  BY <1>1, <1>2, <1>3, <1>4, <1>5 DEF Asks

-----------------------------------------------------------------------------
(* Numbers and codes.                                                       *)

LEMMA AcceptedStep ==
  ASSUME TypeInv, HomeLinkAssumption, [Next]_vars
  PROVE  \/ accepted' = accepted
         \/ \E w \in working : AcceptSigned(w)
BY DEF Next, LaneStep, Upset, SurfaceStep, Pair, CheckSigned, RefuseSigned, IssuePairingCode,
       RevokeBrowser, SignedNotSaved, AdminOpens, AdminAsks, Tick, Restart, AdminRevokes,
       Reload, Lose, Arrives, StoreLink, StoreFails, Forget, TimesOut, AskPair, Refresh,
       Disconnect, Sends, NodeUnchanged, node, vars

LEMMA NumberedStep ==
  ASSUME TypeInv, TypeInv', HomeLinkAssumption, Numbered, [Next]_vars
  PROVE  Numbered'
<1> USE DEF LastNo
<1>n. /\ \A r \in Requests : r.no \in Nat /\ r.no \in Numbers
      /\ made.request \in Nat /\ made'.request \in Nat /\ Numbers \subseteq Nat
  BY DEF Requests, TypeInv, Typed, HomeLinkAssumption
<1>o. Out \subseteq Requests /\ Out' \subseteq Requests
  BY DEF Out
<1>1. CASE Quiet /\ accepted' = accepted
  BY <1>1, <1>n, <1>o DEF Quiet, Numbered, Apart
<1>2. ASSUME Quiet, NEW w \in working, AcceptSigned(w) PROVE Numbered'
  <2>1. w.req \in Out /\ accepted' = [accepted EXCEPT ![w.req.no] = @ + 1]
    BY <1>2, OutMembers DEF AcceptSigned
  <2>2. ASSUME NEW n \in Numbers, accepted'[n] > 0 PROVE accepted[n] > 0 \/ n = w.req.no
    BY <2>1, <2>2 DEF TypeInv, Typed
  <2>3. w.req.no <= made.request
    BY <2>1 DEF Numbered
  <2>4. ASSUME NEW b \in Browsers, sent[b] \in Requests, sent[b].kind = "pair"
        PROVE  w.req.no # sent[b].no + 1
    BY <2>1, <2>4, <1>n, <1>o DEF Numbered
  <2> QED
    BY <1>2, <2>2, <2>3, <2>4, <1>n, <1>o DEF Quiet, Numbered, Apart
<1>3. ASSUME NEW b \in Browsers, NEW r \in Requests, Asked(b, r) PROVE Numbered'
  <2>1. /\ Out' \subseteq Out \cup {r} /\ sent' = [sent EXCEPT ![b] = r]
        /\ accepted' = accepted
    BY <1>3 DEF Asked
  <2>2. /\ r.no \in Nat /\ LastNo(r) <= made'.request /\ made.request <= made'.request
        /\ \A q \in Out : q.no < r.no \/ LastNo(r) < q.no
        /\ \A c \in Browsers \ {b} : sent[c] \in Requests => Apart(sent[c], r)
        /\ \A n \in Numbers : accepted[n] > 0 => n < r.no \/ LastNo(r) < n
    <3>1. CASE NewRequest(b, r)
      BY <3>1, <1>n, <1>o DEF NewRequest, Numbered, Apart
    <3>2. CASE FollowsPairing(b, r)
      <4>1. /\ sent[b] \in Requests /\ sent[b].kind = "pair" /\ r.kind # "pair"
            /\ r.no = sent[b].no + 1 /\ made' = made
        BY <3>2 DEF FollowsPairing, TypeInv, Sent
      <4>2. LastNo(sent[b]) = r.no /\ LastNo(r) = r.no
        BY <4>1
      <4>3. \A q \in Out : q.no < r.no \/ LastNo(r) < q.no
        BY <4>1, <4>2, <1>n, <1>o DEF Numbered
      <4>4. ASSUME NEW c \in Browsers \ {b}, sent[c] \in Requests PROVE Apart(sent[c], r)
        <5>1. Apart(sent[b], sent[c])
          BY <4>1, <4>4 DEF Numbered
        <5> QED
          BY <5>1, <4>1, <4>2, <4>4, <1>n DEF Apart
      <4>5. ASSUME NEW n \in Numbers, accepted[n] > 0 PROVE n < r.no \/ LastNo(r) < n
        BY <4>1, <4>2, <4>5, <1>n DEF Numbered
      <4>6. LastNo(sent[b]) <= made.request
        BY <4>1 DEF Numbered
      <4> QED
        BY <4>1, <4>2, <4>3, <4>4, <4>5, <4>6, <1>n
    <3> QED
      BY <1>3, <3>1, <3>2 DEF Asked
  <2>3. \A q \in Out' : q.no <= made'.request
    BY <2>1, <2>2, <1>n, <1>o DEF Numbered
  <2>4. \A p, q \in Out' : p.no = q.no => p = q
    BY <2>1, <2>2, <1>n, <1>o DEF Numbered
  <2>5. ASSUME NEW c \in Browsers, sent'[c] \in Requests
        PROVE  /\ LastNo(sent'[c]) <= made'.request
               /\ \A q \in Out' : q = sent'[c] \/ q.no < sent'[c].no \/ LastNo(sent'[c]) < q.no
               /\ \A n \in Numbers : accepted[n] > 0 /\ sent'[c].kind = "pair" => n # sent'[c].no + 1
    <3>1. CASE c = b
      <4>1. sent'[c] = r
        BY <2>1, <3>1 DEF TypeInv, Typed
      <4> QED
        BY <4>1, <2>1, <2>2, <1>n, <1>o DEF Numbered
    <3>2. CASE c # b
      <4>1. sent'[c] = sent[c] /\ Apart(sent[c], r)
        BY <2>1, <2>2, <2>5, <3>2 DEF TypeInv, Typed
      <4> QED
        BY <4>1, <2>1, <2>2, <2>5, <1>n, <1>o DEF Numbered, Apart
    <3> QED
      BY <3>1, <3>2
  <2>6. ASSUME NEW c \in Browsers, NEW d \in Browsers \ {c}, sent'[c] \in Requests, sent'[d] \in Requests
        PROVE  Apart(sent'[c], sent'[d])
    <3>1. CASE c = b
      <4>1. sent'[c] = r /\ sent'[d] = sent[d] /\ Apart(sent[d], r)
        BY <2>1, <2>2, <2>6, <3>1 DEF TypeInv, Typed
      <4> QED
        BY <4>1 DEF Apart
    <3>2. CASE d = b
      <4>1. sent'[d] = r /\ sent'[c] = sent[c] /\ Apart(sent[c], r)
        BY <2>1, <2>2, <2>6, <3>2 DEF TypeInv, Typed
      <4> QED
        BY <4>1
    <3>3. CASE c # b /\ d # b
      BY <2>1, <2>6, <3>3 DEF Numbered
    <3> QED
      BY <3>1, <3>2, <3>3
  <2>7. \A n \in Numbers : accepted'[n] > 0 => n <= made'.request
    BY <2>1, <2>2, <1>n DEF Numbered
  <2> QED
    BY <2>1, <2>3, <2>4, <2>5, <2>6, <2>7 DEF Numbered
<1> QED
  <2>1. ASSUME NEW w \in working, AcceptSigned(w) PROVE Quiet
    BY <2>1 DEF Quiet, AcceptSigned, Answers, Out, UnderWay
  <2>2. ASSUME NEW b \in Browsers, Asks(b) PROVE Numbered'
    BY <2>2, AsksStep, <1>3
  <2> QED
    BY <1>1, <1>2, <2>1, <2>2, QuietStep, AcceptedStep

LEMMA LaneStepEffect ==
  ASSUME TypeInv, HomeLinkAssumption, [Next]_vars
  PROVE  \/ lane' = lane \/ lane' = <<>> \/ (lane # <<>> /\ lane' = Tail(lane))
         \/ \E op \in Requests \cup Orders :
              /\ op.kind # "open" /\ lane' = Append(lane, op)
              /\ op.kind = "revoke" => op.dev \in ending'
         \/ AdminOpens
<1>1. CASE Pair \/ CheckSigned \/ RefuseSigned \/ IssuePairingCode \/ RevokeBrowser
  <2>1. PICK kind : Begins(kind)
    BY <1>1 DEF Pair, CheckSigned, RefuseSigned, IssuePairingCode, RevokeBrowser
  <2> QED
    BY <2>1 DEF Begins
<1>2. CASE AdminRevokes
  <2>1. PICK d \in mem.devices : /\ AdminAsks([kind |-> "revoke", dev |-> d])
                                 /\ ending' = ending \cup {d}
    BY <1>2 DEF AdminRevokes
  <2>2. [kind |-> "revoke", dev |-> d] \in Orders
    <3>1. d \in Devices
      BY DEF TypeInv, Typed, Memories
    <3> QED
      BY <3>1 DEF Orders
  <2>3. lane' = Append(lane, [kind |-> "revoke", dev |-> d]) /\ d \in ending'
    BY <2>1 DEF AdminAsks
  <2> QED
    BY <2>2, <2>3
<1>3. ASSUME NEW r \in net, Arrives(r)
      PROVE  \E op \in Requests \cup Orders :
               op.kind \notin {"open", "revoke"} /\ lane' = Append(lane, op)
  BY <1>3 DEF Arrives, TypeInv, Typed, Requests
<1>4. CASE \/ Tick \/ Restart \/ UNCHANGED vars
           \/ \E w \in working : AcceptSigned(w) \/ SignedNotSaved(w)
           \/ \E r \in net : Lose(r)
           \/ \E b \in Browsers : Reload(b) \/ Forget(b) \/ TimesOut(b)
  BY <1>4 DEF Tick, Restart, AcceptSigned, SignedNotSaved, Lose, Reload, Forget, TimesOut, node, vars
<1>5. CASE \E b \in Browsers : Asks(b)
  BY <1>5, AsksStep DEF Asked
<1> QED
  BY <1>1, <1>2, <1>3, <1>4, <1>5 DEF Next, LaneStep, Upset, SurfaceStep, Asks

LEMMA PairingStep ==
  ASSUME TypeInv, HomeLinkAssumption, Checking, [Next]_vars
  PROVE  mem'.pairing = mem.pairing \/ mem'.pairing = None \/ IssuePairingCode
<1>m. mem \in Memories
  BY DEF TypeInv, Typed
<1>1. CASE Pair
  <2> DEFINE after == [mem EXCEPT !.devices = @ \cup {Head(lane).dev}, !.pairing = None]
  <2>1. Head(lane).dev \in Devices
    BY <1>1, HeadKinds DEF Pair, Begins, Requests
  <2>2. after \in Memories /\ after.pairing = None
    BY <1>m, <2>1, OperationTypes DEF Memories
  <2>3. mem' = Pruned(after) \/ mem' = mem
    BY <1>1 DEF Pair, Commits, Fails, Undone
  <2> QED
    BY <2>2, <2>3, PrunedType
<1>2. CASE CheckSigned \/ RefuseSigned
  BY <1>2, <1>m, PrunedType DEF CheckSigned, RefuseSigned, Commits, Undone
<1>3. CASE RevokeBrowser
  <2> DEFINE d == Head(lane).dev
             after == [mem EXCEPT !.devices = @ \ {d}, !.nonces = {n \in @ : n.dev # d}]
  <2>1. d \in Devices
    BY <1>3, HeadKinds DEF RevokeBrowser, Begins
  <2>2. after \in Memories /\ after.pairing = mem.pairing
    BY <1>m, <2>1, OperationTypes DEF Memories
  <2>3. mem' = Pruned(after) \/ mem' = mem
    BY <1>3 DEF RevokeBrowser, Commits, Undone
  <2> QED
    BY <2>2, <2>3, PrunedType
<1>4. ASSUME NEW w \in working, AcceptSigned(w) PROVE mem'.pairing = mem.pairing
  BY <1>4, AuthenticatedType, PrunedType DEF AcceptSigned, Commits, TypeInv, Typed
<1>5. ASSUME NEW w \in working, SignedNotSaved(w) PROVE mem'.pairing = mem.pairing
  BY <1>5 DEF SignedNotSaved, Fails, Undone, Checking
<1>6. CASE Restart
  <2>1. [pairing |-> None, devices |-> disk.devices, nonces |-> disk.nonces] \in Memories
    BY DEF TypeInv, Typed, Files, Memories
  <2> QED
    BY <1>6, <2>1, PrunedType DEF Restart
<1>7. CASE AdminOpens \/ AdminRevokes \/ Tick \/ UNCHANGED vars
           \/ (\E r \in net : Lose(r) \/ Arrives(r))
           \/ \E b \in Browsers : Reload(b) \/ Forget(b) \/ TimesOut(b)
  BY <1>7 DEF AdminOpens, AdminRevokes, AdminAsks, Tick, Lose, Arrives, Reload, Forget, TimesOut,
              NodeUnchanged, node, vars
<1>8. CASE \E b \in Browsers : Asks(b)
  BY <1>8, AsksStep DEF Asked
<1> QED
  BY <1>1, <1>2, <1>3, <1>4, <1>5, <1>6, <1>7, <1>8 DEF Next, LaneStep, Upset, SurfaceStep, Asks

\* A code that is closed stays closed: it may only open by the order of the lane that
\* was given for it.
LEMMA OpensStep ==
  ASSUME TypeInv, TypeInv', HomeLinkAssumption, Checking, Coded, [Next]_vars
  PROVE  /\ \A c \in Nat : Opens(c)' => Opens(c) \/ (AdminOpens /\ c = made.code + 1)
         /\ \A i, j \in DOMAIN lane' : lane'[i].kind = "open" /\ lane'[j].kind = "open" /\ i # j
              => lane'[i].code # lane'[j].code
<1>1. CASE lane' = lane \/ lane' = <<>>
  BY <1>1 DEF Opens, Coded
<1>2. CASE lane # <<>> /\ lane' = Tail(lane)
  <2>1. \A i \in DOMAIN lane' : i + 1 \in DOMAIN lane /\ lane'[i] = lane[i + 1] /\ i \in Int
    BY <1>2, HeadOfLane
  <2>2. \A i, j \in DOMAIN lane' : i # j => i + 1 # j + 1
    BY <2>1
  <2> QED
    BY <2>1, <2>2 DEF Opens, Coded
<1>3. ASSUME NEW op \in Requests \cup Orders, op.kind # "open", lane' = Append(lane, op)
      PROVE  /\ \A c \in Nat : Opens(c)' => Opens(c)
             /\ \A i, j \in DOMAIN lane' : lane'[i].kind = "open" /\ lane'[j].kind = "open" /\ i # j
                  => lane'[i].code # lane'[j].code
  <2>1. \A i \in DOMAIN lane' : lane'[i].kind = "open" => i \in DOMAIN lane /\ lane'[i] = lane[i]
    BY <1>3, LaneType, AppendAt
  <2> QED
    BY <2>1 DEF Opens, Coded
<1>4. CASE AdminOpens
  <2> DEFINE op == [kind |-> "open", code |-> made.code + 1]
  <2>1. lane' = Append(lane, op) /\ made.code \in Nat
    BY <1>4 DEF AdminOpens, AdminAsks, TypeInv, Typed
  <2>2. \A i \in DOMAIN lane' :
           \/ i \in DOMAIN lane /\ lane'[i] = lane[i]
           \/ i = Len(lane) + 1 /\ lane'[i] = op
    BY <2>1, LaneType, AppendAt
  <2>3. \A i \in DOMAIN lane : lane[i].kind = "open" => lane[i].code \in Codes
    BY LaneType DEF Requests, Orders
  <2>4. \A i \in DOMAIN lane : lane[i].kind = "open" => lane[i].code # op.code
    BY <2>1, <2>3 DEF Coded, Opens, HomeLinkAssumption
  <2>5. op.kind = "open" /\ op.code = made.code + 1
    OBVIOUS
  <2>6. \A c \in Nat : Opens(c)' => Opens(c) \/ c = made.code + 1
    BY <2>2, <2>5 DEF Opens
  <2> HIDE DEF op
  <2>7. \A i, j \in DOMAIN lane' : lane'[i].kind = "open" /\ lane'[j].kind = "open" /\ i # j
          => lane'[i].code # lane'[j].code
    BY <2>2, <2>4 DEF Coded
  <2> QED
    BY <1>4, <2>6, <2>7
<1> QED
  BY <1>1, <1>2, <1>3, <1>4, LaneStepEffect

LEMMA MadeStep ==
  ASSUME TypeInv, HomeLinkAssumption, [Next]_vars
  PROVE  /\ made'.code = made.code \/ (AdminOpens /\ made'.code = made.code + 1)
         /\ AdminOpens => mem' = mem
<1>a. AdminOpens => mem' = mem
  BY DEF AdminOpens, AdminAsks, NodeUnchanged
<1>1. CASE AdminOpens
  BY <1>1, <1>a DEF AdminOpens, TypeInv, Typed
<1>2. ASSUME \/ Pair \/ CheckSigned \/ RefuseSigned \/ IssuePairingCode \/ RevokeBrowser
             \/ AdminRevokes \/ Tick \/ Restart \/ UNCHANGED vars
           \/ (\E w \in working : AcceptSigned(w) \/ SignedNotSaved(w))
           \/ (\E r \in net : Lose(r) \/ Arrives(r))
           \/ \E b \in Browsers : Reload(b) \/ Forget(b) \/ TimesOut(b)
      PROVE  made'.code = made.code
  BY <1>2 DEF Pair, CheckSigned, RefuseSigned, IssuePairingCode, RevokeBrowser,
     AdminRevokes, AdminAsks, Tick, Restart, AcceptSigned, SignedNotSaved, Lose, Arrives, Reload,
     Forget, TimesOut, BrowserUnchanged, browser, node, vars
<1>3. ASSUME NEW b \in Browsers, Asks(b) PROVE made'.code = made.code
  BY <1>3, AsksStep DEF Asked
<1> QED
  BY <1>a, <1>1, <1>2, <1>3 DEF Next, LaneStep, Upset, SurfaceStep, Asks

LEMMA CodedStep ==
  ASSUME TypeInv, TypeInv', HomeLinkAssumption, Checking, Coded, [Next]_vars
  PROVE  Coded'
<1>t. /\ made.code \in Nat /\ made'.code \in Nat /\ Codes \subseteq Nat /\ made.device \in Nat
      /\ mem.pairing \in Pairings \cup {None} /\ mem'.pairing \in Pairings \cup {None}
  BY DEF TypeInv, Typed, HomeLinkAssumption, Memories
<1>m. made.code <= made'.code
  BY <1>t, MadeStep
<1>1. ASSUME NEW c \in Codes, Opens(c)'
      PROVE  c <= made'.code /\ (mem'.pairing # None => mem'.pairing.code # c)
  <2>1. CASE AdminOpens /\ c = made.code + 1
    <3>1. made' = [made EXCEPT !.code = @ + 1] /\ mem' = mem
      BY <2>1 DEF AdminOpens, AdminAsks, NodeUnchanged
    <3>2. made'.code = made.code + 1
      BY <3>1 DEF TypeInv, Typed
    <3>3. mem.pairing # None => mem.pairing.code \in Nat /\ mem.pairing.code <= made.code
      BY <1>t DEF Coded, Pairings
    <3> QED
      BY <2>1, <3>1, <3>2, <3>3, <1>t
  <2>2. CASE Opens(c)
    <3>1. c <= made'.code
      BY <2>2, <1>t, <1>m DEF Coded
    <3>2. CASE IssuePairingCode
      <4>1. /\ lane # <<>> /\ Head(lane).kind = "open" /\ lane' = Tail(lane)
            /\ mem'.pairing.code = Head(lane).code
        BY <3>2 DEF IssuePairingCode, Begins, TypeInv, Typed, Memories
      <4>2. PICK i \in DOMAIN lane' : lane'[i].kind = "open" /\ lane'[i].code = c
        BY <1>1 DEF Opens
      <4>3. i + 1 \in DOMAIN lane /\ lane'[i] = lane[i + 1] /\ i + 1 # 1 /\ Head(lane) = lane[1]
            /\ 1 \in DOMAIN lane
        <5>a. lane' \in Seq(Requests \cup Orders)
          BY DEF TypeInv, Typed
        <5>1. i \in Nat \ {0}
          BY <4>2, <5>a
        <5> QED
          BY <5>1, <4>1, <4>2, HeadOfLane
      <4>4. lane[i + 1].code # lane[1].code
        BY <4>1, <4>2, <4>3 DEF Coded
      <4> QED
        BY <3>1, <4>1, <4>2, <4>3, <4>4
    <3>3. CASE mem'.pairing = mem.pairing \/ mem'.pairing = None
      BY <2>2, <3>1, <3>3 DEF Coded
    <3> QED
      BY <3>2, <3>3, PairingStep
  <2> QED
    BY <1>1, <1>t, <2>1, <2>2, OpensStep
<1>2. mem'.pairing # None => mem'.pairing.code <= made'.code
  <2>1. CASE IssuePairingCode
    <3>1. /\ lane # <<>> /\ Head(lane).kind = "open"
          /\ mem'.pairing.code = Head(lane).code
      BY <2>1 DEF IssuePairingCode, Begins, TypeInv, Typed, Memories
    <3>2. Opens(Head(lane).code) /\ Head(lane).code \in Codes
      BY <3>1, HeadOfLane, HeadKinds DEF Opens
    <3> QED
      BY <3>1, <3>2, <1>t, <1>m DEF Coded
  <2>2. CASE mem'.pairing = mem.pairing /\ mem.pairing # None
    <3>1. mem.pairing.code \in Codes
      BY <2>2, <1>t DEF Pairings
    <3> QED
      BY <2>2, <3>1, <1>t, <1>m DEF Coded
  <2> QED
    BY <2>1, <2>2, PairingStep
<1>3. /\ \A p \in Pairs' : p.code <= made'.code /\ p.dev <= made'.device
      /\ \A p, q \in Pairs' : p.dev = q.dev => p = q
  <2>1. \A p \in Requests : p.code \in Nat /\ p.dev \in Nat
    BY DEF Requests, HomeLinkAssumption
  <2>2. Out \subseteq Requests
    BY DEF Out
  <2>3. CASE Quiet
    BY <2>1, <2>2, <2>3, <1>t, <1>m DEF Quiet, Pairs, Coded
  <2>4. ASSUME NEW b \in Browsers, NEW r \in Requests, Asked(b, r)
        PROVE  /\ \A p \in Pairs' : p.code <= made'.code /\ p.dev <= made'.device
               /\ \A p, q \in Pairs' : p.dev = q.dev => p = q
    <3>1. Out' \subseteq Out \cup {r}
      BY <2>4 DEF Asked
    <3>2. CASE r.kind = "pair"
      <4>1. r.dev = made.device + 1 /\ made'.device = made.device + 1 /\ r.code = made.code
        BY <2>4, <3>2 DEF Asked, NewRequest, FollowsPairing
      <4> QED
        BY <2>1, <2>2, <3>1, <4>1, <1>t, <1>m DEF Pairs, Coded
    <3>3. CASE r.kind # "pair"
      <4>1. made'.device = made.device
        BY <2>4, <3>3 DEF Asked, NewRequest, FollowsPairing
      <4> QED
        BY <2>1, <2>2, <3>1, <3>3, <4>1, <1>t, <1>m DEF Pairs, Coded
    <3> QED
      BY <3>2, <3>3
  <2> QED
    BY <2>3, <2>4, QuietStep, AsksStep
<1> QED
  BY <1>1, <1>2, <1>3, OpensStep DEF Coded

-----------------------------------------------------------------------------
(* Devices.                                                                 *)

\* What a step does to the devices of the node.
Restarts ==
  /\ mem'.devices = disk.devices /\ disk'.devices = disk.devices /\ gone' = gone
  /\ mem'.pairing = None /\ lane' = <<>>
PairsUp ==
  /\ lane # <<>> /\ lane' = Tail(lane) /\ gone' = gone
  /\ Head(lane) \in Pairs /\ MayPair(Head(lane))
  /\ \/ /\ mem'.devices = mem.devices \cup {Head(lane).dev} /\ mem'.pairing = None
        /\ disk'.devices = mem'.devices
     \/ /\ mem'.devices = mem.devices
        /\ disk'.devices \in {disk.devices, mem.devices \cup {Head(lane).dev}}
Removes(d) ==
  /\ d \in ending /\ (d \in mem.devices \/ \E r \in Signed : r.dev = d)
  /\ \/ /\ mem'.devices = mem.devices \ {d} /\ disk'.devices = mem.devices \ {d}
        /\ gone' = gone \cup {d}
     \/ /\ mem'.devices = mem.devices /\ gone' = gone
        /\ disk'.devices \in {disk.devices, mem.devices \ {d}}
Keeps ==
  /\ mem'.devices = mem.devices /\ disk'.devices \in {disk.devices, mem.devices}
  /\ gone' = gone

LEMMA DevicesStep ==
  ASSUME TypeInv, HomeLinkAssumption, Checking, EndsAsked, [Next]_vars
  PROVE  Restarts \/ PairsUp \/ Keeps \/ \E d \in Devices : Removes(d)
<1>m. mem \in Memories /\ disk \in Files
  BY DEF TypeInv, Typed
<1>1. CASE Pair
  <2> DEFINE d == Head(lane).dev
             after == [mem EXCEPT !.devices = @ \cup {d}, !.pairing = None]
  <2>1. /\ d \in Devices /\ lane # <<>> /\ lane' = Tail(lane) /\ gone' = gone
        /\ Head(lane) \in Requests /\ Head(lane).kind = "pair"
    BY <1>1, HeadKinds DEF Pair, Begins, Requests
  <2>2. Head(lane) \in Pairs
    BY <2>1, HeadOfLane, OutMembers DEF Pairs
  <2>3. after \in Memories /\ after.pairing = None /\ after.devices = mem.devices \cup {d}
    BY <1>m, <2>1, OperationTypes DEF Memories
  <2>4. CASE MayPair(Head(lane)) /\ Commits(mem, after)
    <3>1. mem' = Pruned(after) /\ disk' = Durable(Pruned(after))
      BY <2>4 DEF Commits
    <3>2. /\ mem'.devices = mem.devices \cup {d} /\ mem'.pairing = None
          /\ disk'.devices = mem.devices \cup {d}
      BY <3>1, <2>3, PrunedType
    <3> QED
      BY <2>1, <2>2, <2>4, <3>2 DEF PairsUp
  <2>5. CASE MayPair(Head(lane)) /\ Fails(mem, after)
    <3>1. mem' = mem /\ (disk' = disk \/ disk' = Durable(Pruned(after)))
      BY <2>5 DEF Fails, Undone
    <3>a. Durable(Pruned(after)).devices = mem.devices \cup {d}
      BY <2>3, PrunedType
    <3>2. disk'.devices \in {disk.devices, mem.devices \cup {d}}
      BY <3>1, <3>a
    <3> QED
      BY <2>1, <2>2, <2>5, <3>1, <3>2 DEF PairsUp
  <2>6. CASE UNCHANGED <<mem, disk>>
    BY <2>1, <2>6 DEF Keeps
  <2> QED
    BY <1>1, <2>4, <2>5, <2>6 DEF Pair
<1>2. CASE CheckSigned
  BY <1>2, <1>m, PrunedType DEF CheckSigned, Keeps
<1>3. CASE RefuseSigned
  <2>1. /\ mem' = mem \/ mem' = Pruned(mem)
        /\ disk' = disk \/ disk' = Durable(Pruned(mem))
        /\ gone' = gone
    BY <1>3 DEF RefuseSigned, Commits, Undone
  <2> QED
    BY <2>1, <1>m, PrunedType DEF Keeps
<1>4. CASE RevokeBrowser
  <2> DEFINE d == Head(lane).dev
             after == [mem EXCEPT !.devices = @ \ {d}, !.nonces = {n \in @ : n.dev # d}]
  <2>1. d \in Devices /\ d \in ending
    BY <1>4, HeadKinds, HeadOfLane DEF RevokeBrowser, Begins, EndsAsked
  <2>2. after \in Memories /\ after.devices = mem.devices \ {d}
    BY <1>m, <2>1, OperationTypes DEF Memories
  <2>3. CASE d \in mem.devices /\ Commits(mem, after) /\ gone' = gone \cup {d}
    <3>1. mem' = Pruned(after) /\ disk' = Durable(Pruned(after))
      BY <2>3 DEF Commits
    <3>2. mem'.devices = mem.devices \ {d} /\ disk'.devices = mem.devices \ {d}
      BY <3>1, <2>2, PrunedType
    <3> QED
      BY <2>1, <2>3, <3>2 DEF Removes
  <2>4. CASE d \in mem.devices /\ Undone(mem, after) /\ UNCHANGED gone
    <3>1. mem' = mem /\ (disk' = disk \/ disk' = Durable(Pruned(after)))
      BY <2>4 DEF Undone
    <3>2. disk'.devices \in {disk.devices, mem.devices \ {d}}
      <4>1. Durable(Pruned(after)).devices = mem.devices \ {d}
        BY <2>2, PrunedType
      <4> QED
        BY <3>1, <4>1
    <3> QED
      BY <2>1, <2>4, <3>1, <3>2 DEF Removes
  <2>5. CASE UNCHANGED <<mem, disk, gone>>
    BY <2>5 DEF Keeps
  <2> QED
    BY <1>4, <2>3, <2>4, <2>5 DEF RevokeBrowser
<1>5. ASSUME NEW w \in working, AcceptSigned(w) \/ SignedNotSaved(w)
      PROVE  Keeps \/ \E d \in Devices : Removes(d)
  <2>1. /\ w.req \in Requests /\ w.req.dev \in Devices /\ w.req \in Signed
        /\ w.req.kind = "unpair" => w.req.dev \in ending
        /\ w.before.devices = mem.devices /\ w.before \in Memories
    BY OutMembers DEF TypeInv, Typed, Requests, Checking, Signed, EndsAsked
  <2> DEFINE after == Authenticated(w.req)
  <2>2. /\ after \in Memories
        /\ after.devices = IF w.req.kind = "unpair" THEN mem.devices \ {w.req.dev} ELSE mem.devices
    BY <2>1, AuthenticatedType
  <2>3. CASE AcceptSigned(w)
    <3>1. mem' = Pruned(after) /\ disk' = Durable(Pruned(after))
      BY <2>3 DEF AcceptSigned, Commits
    <3>2. mem'.devices = after.devices /\ disk'.devices = after.devices
      BY <3>1, <2>2, PrunedType
    <3>3. gone' = IF w.req.kind = "unpair" THEN gone \cup {w.req.dev} ELSE gone
      BY <2>3 DEF AcceptSigned
    <3> QED
      BY <2>1, <2>2, <3>2, <3>3 DEF Removes, Keeps
  <2>4. CASE SignedNotSaved(w)
    <3>1. mem' = w.before /\ (disk' = disk \/ disk' = Durable(Pruned(after))) /\ gone' = gone
      BY <2>4 DEF SignedNotSaved, Fails, Undone
    <3>2. disk'.devices \in {disk.devices, after.devices} /\ mem'.devices = mem.devices
      BY <3>1, <2>1, <2>2, PrunedType
    <3> QED
      BY <2>1, <2>2, <3>1, <3>2 DEF Removes, Keeps
  <2> QED
    BY <1>5, <2>3, <2>4
<1>6. CASE IssuePairingCode
  BY <1>6, <1>m DEF IssuePairingCode, Memories, Keeps
<1>7. CASE Restart
  <2>1. [pairing |-> None, devices |-> disk.devices, nonces |-> disk.nonces] \in Memories
    BY <1>m DEF Files, Memories
  <2> QED
    BY <1>7, <2>1, PrunedType DEF Restart, Restarts
<1>8. CASE AdminOpens \/ AdminRevokes \/ Tick \/ UNCHANGED vars
           \/ (\E r \in net : Lose(r) \/ Arrives(r))
           \/ \E b \in Browsers : Reload(b) \/ Forget(b) \/ TimesOut(b)
  BY <1>8 DEF AdminOpens, AdminRevokes, AdminAsks, Tick, Lose, Arrives, Reload, Forget, TimesOut,
              NodeUnchanged, node, vars, Keeps
<1>9. CASE \E b \in Browsers : Asks(b)
  BY <1>9, AsksStep DEF Asked, Keeps
<1> QED
  BY <1>1, <1>2, <1>3, <1>4, <1>5, <1>6, <1>7, <1>8, <1>9 DEF Next, LaneStep, Upset, SurfaceStep, Asks

\* A surface stores only what the node has paired for it, and it links only that.
LEMMA StoringStep ==
  ASSUME TypeInv, HomeLinkAssumption, Checking, [Next]_vars, NEW b \in Browsers, pc'[b] = "storing"
  PROVE  /\ sent'[b] = sent[b]
         /\ \/ pc[b] = "storing"
            \/ /\ PairsUp /\ Head(lane) = sent[b]
               /\ sent[b].dev \in mem'.devices /\ sent[b].dev \in disk'.devices
<1>1. CASE Pair
  <2> DEFINE r == Head(lane)
             after == [mem EXCEPT !.devices = @ \cup {r.dev}, !.pairing = None]
  <2>1. /\ r.dev \in Devices /\ lane # <<>> /\ lane' = Tail(lane) /\ gone' = gone
        /\ r \in Requests /\ r.kind = "pair" /\ sent' = sent
    BY <1>1, HeadKinds DEF Pair, Begins, Requests, Answers
  <2>2. CASE MayPair(r) /\ Commits(mem, after) /\ Answers(r, AfterWell(r))
    <3>1. r \in Pairs
      BY <2>1, HeadOfLane, OutMembers DEF Pairs
    <3>2. after \in Memories /\ after.pairing = None /\ after.devices = mem.devices \cup {r.dev}
      BY <2>1, OperationTypes DEF Memories, TypeInv, Typed
    <3>3. /\ mem'.devices = mem.devices \cup {r.dev} /\ mem'.pairing = None
          /\ disk'.devices = mem.devices \cup {r.dev}
      BY <2>2, <3>2, PrunedType DEF Commits
    <3>4. PairsUp
      BY <2>1, <2>2, <3>1, <3>3 DEF PairsUp
    <3>5. pc[b] = "storing" \/ sent[b] = r
      BY <2>2 DEF Answers
    <3> QED
      BY <2>1, <3>3, <3>4, <3>5
  <2>3. CASE Answers(r, AfterIll(r))
    BY <2>1, <2>3, AfterType DEF Answers
  <2> QED
    BY <1>1, <2>2, <2>3 DEF Pair
<1>2. CASE RefuseSigned
  <2>1. Head(lane) \in Requests /\ Answers(Head(lane), AfterIll(Head(lane)))
    BY <1>2, HeadKinds DEF RefuseSigned, Begins
  <2> QED
    BY <2>1, AfterType DEF Answers
<1>3. ASSUME NEW w \in working, AcceptSigned(w) \/ SignedNotSaved(w)
      PROVE  sent'[b] = sent[b] /\ pc[b] = "storing"
  <2>1. w.req \in Requests /\ w.req.kind # "pair"
    BY DEF Checking, TypeInv, Typed
  <2>2. Answers(w.req, AfterWell(w.req)) \/ Answers(w.req, AfterIll(w.req))
    BY <1>3 DEF AcceptSigned, SignedNotSaved
  <2> QED
    BY <2>1, <2>2, AfterType DEF Answers
<1>4. CASE CheckSigned \/ IssuePairingCode \/ RevokeBrowser \/ Restart
           \/ AdminOpens \/ AdminRevokes \/ Tick \/ UNCHANGED vars
           \/ (\E r \in net : Lose(r) \/ Arrives(r))
  BY <1>4 DEF CheckSigned, IssuePairingCode, RevokeBrowser, Restart, AdminOpens, AdminRevokes,
     AdminAsks, Tick, Lose, Arrives, BrowserUnchanged, browser, vars
<1>5. ASSUME NEW c \in Browsers, Reload(c) \/ Forget(c) PROVE sent'[b] = sent[b] /\ pc[b] = "storing"
  BY <1>5 DEF Reload, Forget, Goes, TypeInv, Typed
<1>6. ASSUME NEW c \in Browsers, TimesOut(c) PROVE sent'[b] = sent[b] /\ pc[b] = "storing"
  <2>1. AfterIll(sent[c]) # "storing"
    BY <1>6, AfterType DEF TimesOut, Deadline, TypeInv, Sent
  <2> QED
    BY <1>6, <2>1 DEF TimesOut, Goes, TypeInv, Typed
<1>7. ASSUME NEW c \in Browsers, Asks(c) PROVE sent'[b] = sent[b] /\ pc[b] = "storing"
  <2>1. PICK r \in Requests : Asked(c, r)
    BY <1>7, AsksStep
  <2> QED
    BY <2>1 DEF Asked, TypeInv, Typed
<1> QED
  BY <1>1, <1>2, <1>3, <1>4, <1>5, <1>6, <1>7 DEF Next, LaneStep, Upset, SurfaceStep, Asks

LEMMA LinkStep ==
  ASSUME TypeInv, HomeLinkAssumption, [Next]_vars, NEW b \in Browsers
  PROVE  /\ record'[b] \in {record[b], None} \/ (pc[b] = "storing" /\ record'[b] = sent[b].dev)
         /\ conn'[b] \in {conn[b], record[b], None} \/ (pc[b] = "storing" /\ conn'[b] = sent[b].dev)
<1>1. CASE \/ Pair \/ CheckSigned \/ RefuseSigned \/ IssuePairingCode \/ RevokeBrowser
           \/ AdminOpens \/ AdminRevokes \/ Tick \/ Restart \/ UNCHANGED vars
           \/ (\E w \in working : AcceptSigned(w) \/ SignedNotSaved(w))
           \/ (\E r \in net : Lose(r) \/ Arrives(r))
           \/ \E c \in Browsers : TimesOut(c)
  BY <1>1 DEF Pair, CheckSigned, RefuseSigned, IssuePairingCode, RevokeBrowser, AdminOpens,
     AdminRevokes, AdminAsks, Tick, Restart, AcceptSigned, SignedNotSaved, Lose, Arrives,
     TimesOut, BrowserUnchanged, browser, vars
<1>2. ASSUME NEW c \in Browsers, Reload(c) \/ Forget(c)
      PROVE  record'[b] \in {record[b], None} /\ conn'[b] \in {conn[b], record[b], None}
  BY <1>2 DEF Reload, Forget, TypeInv, Typed
<1>3. ASSUME NEW c \in Browsers, Asks(c)
      PROVE  /\ record'[b] = record[b] \/ (pc[b] = "storing" /\ record'[b] = sent[b].dev)
             /\ conn'[b] = conn[b] \/ (pc[b] = "storing" /\ conn'[b] = sent[b].dev)
  <2>1. PICK r \in Requests : Asked(c, r)
    BY <1>3, AsksStep
  <2>2. CASE NewRequest(c, r)
    BY <2>2 DEF NewRequest
  <2>3. CASE FollowsPairing(c, r)
    BY <2>3 DEF FollowsPairing, TypeInv, Typed
  <2> QED
    BY <2>1, <2>2, <2>3 DEF Asked
<1> QED
  BY <1>1, <1>2, <1>3 DEF Next, LaneStep, Upset, SurfaceStep, Asks

\* A code that was closed stays so.
LEMMA ClosedStays ==
  ASSUME TypeInv, TypeInv', HomeLinkAssumption, Checking, Coded, [Next]_vars,
         NEW c \in Nat, c <= made.code, Closed(c)
  PROVE  Closed(c)'
<1>a. made.code \in Nat
  BY DEF TypeInv, Typed
<1>b. c # made.code + 1
  BY <1>a
<1>1. ~ Opens(c)'
  BY <1>b, OpensStep DEF Closed
<1>2. CASE IssuePairingCode
  <2>1. Opens(Head(lane).code) /\ mem'.pairing.code = Head(lane).code
    BY <1>2, HeadOfLane DEF IssuePairingCode, Begins, Opens, TypeInv, Typed, Memories
  <2> QED
    BY <1>1, <2>1 DEF Closed
<1>3. CASE mem'.pairing = mem.pairing \/ mem'.pairing = None
  BY <1>1, <1>3 DEF Closed
<1> QED
  BY <1>2, <1>3, PairingStep

\* Only a pairing makes a device known, and a restart closes every code.
LEMMA MetStep ==
  ASSUME TypeInv, TypeInv', HomeLinkAssumption, Checking, EndsAsked, [Next]_vars
  PROVE  \A d \in Met' : \/ d \in Met \/ (Restarts /\ d \in disk.devices)
                         \/ (PairsUp /\ d = Head(lane).dev /\ mem'.pairing = None)
<1>1. ASSUME NEW d \in mem'.devices
      PROVE  \/ d \in Met \/ (Restarts /\ d \in disk.devices)
             \/ (PairsUp /\ d = Head(lane).dev /\ mem'.pairing = None)
  BY <1>1, DevicesStep DEF Restarts, PairsUp, Removes, Keeps, Met
<1>2. ASSUME NEW d \in gone' PROVE d \in Met
  BY <1>2, DevicesStep DEF Restarts, PairsUp, Removes, Keeps, Met
<1>3. ASSUME NEW r \in Signed' PROVE r.dev \in Met
  <2>1. CASE Quiet
    BY <1>3, <2>1 DEF Quiet, Signed, Met
  <2>2. ASSUME NEW b \in Browsers, NEW q \in Requests, Asked(b, q), r = q PROVE r.dev \in Met
    <3>1. CASE NewRequest(b, q)
      <4>1. q.kind # "pair"
        BY <1>3, <2>2 DEF Signed
      <4> QED
        BY <2>2, <3>1, <4>1 DEF NewRequest, Met
    <3>2. CASE FollowsPairing(b, q)
      BY <2>2, <3>2 DEF FollowsPairing, Met
    <3> QED
      BY <2>2, <3>1, <3>2 DEF Asked
  <2> QED
    BY <1>3, <2>1, <2>2, QuietStep, AsksStep DEF Asked, Signed, Met
<1>4. ASSUME NEW b \in Browsers
      PROVE  /\ record'[b] # None => record'[b] \in Met
             /\ conn'[b] # None => conn'[b] \in Met
  BY LinkStep DEF Met
<1>5. ASSUME NEW b \in Browsers, pc'[b] = "storing"
      PROVE  \/ sent'[b].dev \in Met \/ (Restarts /\ sent'[b].dev \in disk.devices)
             \/ PairsUp /\ sent'[b].dev = Head(lane).dev /\ mem'.pairing = None
  <2>1. CASE pc[b] = "storing"
    BY <1>5, <2>1, StoringStep DEF Met
  <2>2. CASE PairsUp /\ Head(lane) = sent[b] /\ sent[b].dev \in mem'.devices /\ sent'[b] = sent[b]
    BY <2>2, <1>1
  <2> QED
    BY <1>5, <2>1, <2>2, StoringStep
<1> QED
  BY <1>1, <1>2, <1>3, <1>4, <1>5 DEF Met

LEMMA SpentStep ==
  ASSUME TypeInv, TypeInv', HomeLinkAssumption, Checking, EndsAsked, Coded, Spent, [Next]_vars
  PROVE  Spent'
<1>t. /\ made.device \in Nat /\ made'.device \in Nat /\ made.code \in Nat /\ Devices \subseteq Nat
      /\ \A r \in Requests : r.dev \in Devices /\ r.code \in Nat
      /\ Out \subseteq Requests /\ disk.devices \subseteq Devices /\ mem.devices \subseteq Devices
  BY DEF TypeInv, Typed, HomeLinkAssumption, Requests, Out, Memories, Files
<1>d. made.device <= made'.device
  <2>1. CASE Quiet
    BY <2>1, <1>t DEF Quiet
  <2>2. ASSUME NEW b \in Browsers, NEW r \in Requests, Asked(b, r) PROVE made.device <= made'.device
    BY <2>2, <1>t DEF Asked, NewRequest, FollowsPairing
  <2> QED
    BY <2>1, <2>2, QuietStep, AsksStep
<1>h. PairsUp => Head(lane).dev <= made.device /\ Head(lane) \in Pairs
  BY DEF PairsUp, Coded
<1>1. ASSUME NEW d \in Devices, d \in Met' \cup disk'.devices PROVE d <= made.device
  <2>1. d \in Met' => d \in Met \/ d \in disk.devices \/ (PairsUp /\ d = Head(lane).dev)
    BY MetStep
  <2>2. d \in disk'.devices => \/ d \in disk.devices \/ d \in mem.devices
                               \/ (PairsUp /\ d = Head(lane).dev)
    <3>1. CASE PairsUp
      BY <3>1 DEF PairsUp
    <3>2. CASE Restarts \/ Keeps \/ \E x \in Devices : Removes(x)
      BY <3>2 DEF Restarts, Removes, Keeps
    <3> QED
      BY <3>1, <3>2, DevicesStep
  <2> QED
    BY <1>1, <1>h, <2>1, <2>2 DEF Spent, Met
<1>2. ASSUME NEW b \in Browsers, sent'[b] \in Requests PROVE sent'[b].dev <= made'.device
  <2>1. CASE Quiet
    BY <1>2, <2>1, <1>t DEF Quiet, Spent
  <2>2. ASSUME NEW c \in Browsers, NEW r \in Requests, Asked(c, r)
        PROVE  sent'[b].dev <= made'.device
    <3>1. CASE b # c
      <4>1. sent'[b] = sent[b]
        BY <2>2, <3>1 DEF Asked, TypeInv, Typed
      <4> QED
        BY <1>2, <4>1, <1>t, <1>d DEF Spent
    <3>2. CASE b = c
      <4>1. sent'[b] = r
        BY <2>2, <3>2 DEF Asked, TypeInv, Typed
      <4>2. CASE NewRequest(c, r)
        BY <4>1, <4>2, <1>t, <1>d DEF NewRequest, Spent, Met
      <4>3. CASE FollowsPairing(c, r)
        BY <4>1, <4>3, <1>t, <1>d DEF FollowsPairing, Spent, TypeInv, Sent
      <4> QED
        BY <2>2, <4>2, <4>3 DEF Asked
    <3> QED
      BY <3>1, <3>2
  <2> QED
    BY <2>1, <2>2, QuietStep, AsksStep
<1>3. ASSUME NEW p \in Pairs', p.dev \in Met' PROVE Closed(p.code)'
  <2>1. CASE Restarts
    BY <2>1 DEF Restarts, Closed, Opens
  <2>2. CASE ~ Restarts
    <3>1. CASE p \in Pairs
      <4>1. p.code \in Nat /\ p.code <= made.code
        BY <3>1, <1>t DEF Coded, Pairs
      <4>2. CASE p.dev \in Met
        BY <3>1, <4>1, <4>2, ClosedStays DEF Spent
      <4>3. CASE PairsUp /\ p.dev = Head(lane).dev /\ mem'.pairing = None
        <5>1. p = Head(lane) /\ lane # <<>> /\ lane' = Tail(lane)
          BY <3>1, <4>3, <1>h DEF Coded, PairsUp
        <5>2. mem.pairing # None /\ p.code = mem.pairing.code /\ mem.pairing.code \in Codes
          BY <4>3, <5>1 DEF PairsUp, MayPair, CodeOpens, PairingAvailable, TypeInv, Typed, Memories, Pairings
        <5>3. ~ Opens(p.code)
          BY <5>2 DEF Coded
        <5>4. ~ Opens(p.code)'
          <6>1. p.code # made.code + 1
            BY <4>1, <1>t
          <6> QED
            BY <4>1, <5>3, <6>1, OpensStep
        <5> QED
          BY <4>3, <5>4 DEF Closed
      <4> QED
        BY <1>3, <2>2, <4>2, <4>3, MetStep
    <3>2. CASE p \notin Pairs
      <4>1. PICK b \in Browsers, r \in Requests : Asked(b, r)
        BY <1>3, <3>2, QuietStep, AsksStep DEF Quiet, Pairs
      <4>2. p = r /\ r.kind = "pair"
        BY <1>3, <3>2, <4>1 DEF Asked, Pairs
      <4>3. p.dev = made.device + 1 /\ p.dev \in Devices
        BY <4>1, <4>2, <1>t DEF Asked, NewRequest, FollowsPairing
      <4> QED
        BY <1>1, <1>3, <4>3, <1>t
    <3> QED
      BY <3>1, <3>2
  <2> QED
    BY <2>1, <2>2
<1> QED
  BY <1>1, <1>2, <1>3, <1>t, <1>d DEF Spent

-----------------------------------------------------------------------------
(* Nonces.                                                                  *)

LEMMA NowStep ==
  ASSUME TypeInv, HomeLinkAssumption, [Next]_vars
  PROVE  now \in Int /\ now' \in Int /\ now <= now'
<1>a. now \in Int
  BY DEF TypeInv, Typed
<1>1. CASE Tick
  BY <1>a, <1>1 DEF Tick
<1>2. ASSUME \/ Pair \/ CheckSigned \/ RefuseSigned \/ IssuePairingCode \/ RevokeBrowser
           \/ AdminOpens \/ AdminRevokes \/ Restart \/ UNCHANGED vars
           \/ (\E w \in working : AcceptSigned(w) \/ SignedNotSaved(w))
           \/ (\E r \in net : Lose(r) \/ Arrives(r))
           \/ \E b \in Browsers : Reload(b) \/ Forget(b) \/ TimesOut(b)
      PROVE  now' = now
  BY <1>2 DEF Pair, CheckSigned, RefuseSigned, IssuePairingCode, RevokeBrowser, AdminOpens,
     AdminRevokes, AdminAsks, Restart, AcceptSigned, SignedNotSaved, Lose, Arrives, Reload,
     Forget, TimesOut, vars
<1>3. ASSUME NEW b \in Browsers, Asks(b) PROVE now' = now
  BY <1>3, AsksStep DEF Asked
<1> QED
  BY <1>a, <1>1, <1>2, <1>3 DEF Next, LaneStep, Upset, SurfaceStep, Asks

\* A nonce that a request in its window could meet is not pruned.
LEMMA NonceKept ==
  ASSUME TypeInv, HomeLinkAssumption, NEW r \in Requests, ~ Outdated(r),
         NEW m \in Memories, Holds(m, r)
  PROVE  Holds(Pruned(m), r) /\ Holds(Durable(m), r) /\ Holds(Durable(Pruned(m)), r)
<1>1. ASSUME NEW n \in m.nonces, r.ts - Skew <= n.at PROVE Kept(n)
  <2>1. n.at \in Int /\ r.ts \in Int /\ now \in Int /\ Skew \in Nat /\ NonceAge \in Nat
    BY DEF Memories, Nonces, Requests, TypeInv, Typed, HomeLinkAssumption
  <2>2. NonceAge >= 2 * Skew
    BY DEF HomeLinkAssumption
  <2> QED
    BY <1>1, <2>1, <2>2 DEF Kept, Outdated
<1>2. Pruned(m) \in Memories
  BY PrunedType
<1>3. Holds(Pruned(m), r)
  BY <1>1, PrunedType DEF Holds
<1>4. /\ Durable(m).devices = m.devices /\ Durable(m).nonces = m.nonces
      /\ Durable(Pruned(m)).devices = Pruned(m).devices
      /\ Durable(Pruned(m)).nonces = Pruned(m).nonces
  BY <1>2, PrunedType
<1>5. Holds(Durable(m), r)
  BY <1>4 DEF Holds
<1>6. Holds(Durable(Pruned(m)), r)
  BY <1>3, <1>4 DEF Holds
<1> QED
  BY <1>3, <1>5, <1>6

LEMMA HoldsStep ==
  ASSUME TypeInv, TypeInv', HomeLinkAssumption, Checking, EndsAsked, Coded, Spent, [Next]_vars,
         NEW r \in Signed, ~ Outdated(r), Holds(mem, r), Holds(disk, r)
  PROVE  Holds(mem', r) /\ Holds(disk', r)
<1>m. mem \in Memories /\ disk \in Files /\ r \in Requests /\ r.dev \in Met
  BY DEF TypeInv, Typed, Signed, Out, Met
<1>1. CASE Pair
  <2> DEFINE d == Head(lane).dev
             after == [mem EXCEPT !.devices = @ \cup {d}, !.pairing = None]
  <2>1. d \in Devices /\ lane # <<>> /\ Head(lane) \in Requests /\ Head(lane).kind = "pair"
    BY <1>1, HeadKinds DEF Pair, Begins, Requests
  <2>2. CASE MayPair(Head(lane)) /\ (Commits(mem, after) \/ Fails(mem, after))
    <3>1. Head(lane) \in Pairs
      BY <2>1, HeadOfLane, OutMembers DEF Pairs
    <3>2. ~ Closed(Head(lane).code)
      BY <2>2 DEF MayPair, CodeOpens, PairingAvailable, Closed
    <3>3. r.dev # d
      BY <1>m, <3>1, <3>2 DEF Spent
    <3>4. /\ after \in Memories /\ after.nonces = mem.nonces
          /\ after.devices = mem.devices \cup {d}
      BY <1>m, <2>1, OperationTypes DEF Memories
    <3>5. Holds(after, r)
      BY <3>3, <3>4 DEF Holds
    <3>6. Holds(Pruned(after), r) /\ Holds(Durable(Pruned(after)), r)
      BY <1>m, <3>4, <3>5, NonceKept
    <3> QED
      BY <2>2, <3>6 DEF Commits, Fails, Undone
  <2>3. CASE UNCHANGED <<mem, disk>>
    BY <2>3
  <2> QED
    BY <1>1, <2>2, <2>3 DEF Pair
<1>2. CASE CheckSigned
  BY <1>2, <1>m, NonceKept DEF CheckSigned
<1>3. CASE RefuseSigned
  <2>1. /\ mem' = mem \/ mem' = Pruned(mem)
        /\ disk' = disk \/ disk' = Durable(Pruned(mem))
    BY <1>3 DEF RefuseSigned, Commits, Undone
  <2> QED
    BY <2>1, <1>m, NonceKept
<1>4. CASE RevokeBrowser
  <2> DEFINE d == Head(lane).dev
             after == [mem EXCEPT !.devices = @ \ {d}, !.nonces = {n \in @ : n.dev # d}]
  <2>1. d \in Devices
    BY <1>4, HeadKinds DEF RevokeBrowser, Begins
  <2>2. /\ after \in Memories /\ after.devices = mem.devices \ {d}
        /\ after.nonces = {n \in mem.nonces : n.dev # d}
    BY <1>m, <2>1, OperationTypes DEF Memories
  <2>3. Holds(after, r)
    BY <2>2 DEF Holds
  <2>4. Holds(Pruned(after), r) /\ Holds(Durable(Pruned(after)), r)
    BY <1>m, <2>2, <2>3, NonceKept
  <2>5. /\ mem' = mem \/ mem' = Pruned(after)
        /\ disk' = disk \/ disk' = Durable(Pruned(after))
    BY <1>4 DEF RevokeBrowser, Commits, Undone
  <2> QED
    BY <2>4, <2>5
<1>5. ASSUME NEW w \in working, AcceptSigned(w) \/ SignedNotSaved(w)
      PROVE  Holds(mem', r) /\ Holds(disk', r)
  <2> DEFINE after == Authenticated(w.req)
  <2>1. w.req \in Requests /\ w.before \in Memories
    BY DEF TypeInv, Typed
  <2>2. /\ after \in Memories /\ after.devices \subseteq mem.devices
        /\ mem.nonces \subseteq after.nonces
    BY <2>1, AuthenticatedType
  <2>3. Holds(after, r)
    BY <2>2 DEF Holds
  <2>4. Holds(Pruned(after), r) /\ Holds(Durable(Pruned(after)), r)
    BY <1>m, <2>2, <2>3, NonceKept
  <2>5. Holds(w.before, r)
    BY DEF Checking, Holds
  <2>6. /\ mem' = w.before \/ mem' = Pruned(after)
        /\ disk' = disk \/ disk' = Durable(Pruned(after))
    BY <1>5 DEF AcceptSigned, SignedNotSaved, Fails, Commits, Undone
  <2> QED
    BY <2>4, <2>5, <2>6
<1>6. CASE IssuePairingCode
  <2>1. mem'.devices = mem.devices /\ mem'.nonces = mem.nonces /\ disk' = disk
    BY <1>6, <1>m DEF IssuePairingCode, Memories
  <2> QED
    BY <2>1 DEF Holds
<1>7. CASE Restart
  <2> DEFINE m == [pairing |-> None, devices |-> disk.devices, nonces |-> disk.nonces]
  <2>1. m \in Memories
    BY <1>m DEF Files, Memories
  <2>2. Holds(m, r)
    BY DEF Holds
  <2> QED
    BY <1>7, <1>m, <2>1, <2>2, NonceKept DEF Restart
<1>8. CASE AdminOpens \/ AdminRevokes \/ Tick \/ UNCHANGED vars
           \/ (\E q \in net : Lose(q) \/ Arrives(q))
           \/ \E b \in Browsers : Reload(b) \/ Forget(b) \/ TimesOut(b)
  BY <1>8 DEF AdminOpens, AdminRevokes, AdminAsks, Tick, Lose, Arrives, Reload, Forget, TimesOut,
              NodeUnchanged, node, vars
<1>9. CASE \E b \in Browsers : Asks(b)
  BY <1>9, AsksStep DEF Asked
<1> QED
  BY <1>1, <1>2, <1>3, <1>4, <1>5, <1>6, <1>7, <1>8, <1>9 DEF Next, LaneStep, Upset, SurfaceStep, Asks

LEMMA RememberedStep ==
  ASSUME TypeInv, TypeInv', HomeLinkAssumption, Checking, EndsAsked, Numbered, Coded, Spent,
         Remembered, [Next]_vars
  PROVE  Remembered'
<1> SUFFICES ASSUME NEW r \in Signed', accepted'[r.no] > 0, ~ Outdated(r)'
             PROVE  Holds(mem', r) /\ Holds(disk', r)
  BY DEF Remembered, Holds
<1>t. r \in Requests /\ r.kind # "pair" /\ r.no \in Numbers /\ r.no \in Nat /\ r.ts \in Int
  BY DEF Signed, Out, Requests, HomeLinkAssumption
<1>o. ~ Outdated(r)
  BY <1>t, NowStep DEF Outdated, HomeLinkAssumption
<1>1. CASE r \in Signed /\ accepted[r.no] > 0
  BY <1>1, <1>o, HoldsStep DEF Remembered
<1>2. CASE r \in Signed /\ ~ (accepted[r.no] > 0)
  <2>1. PICK w \in working : AcceptSigned(w)
    BY <1>2, AcceptedStep
  <2>2. /\ w.req \in Requests /\ w.req \in Out /\ w.req.no \in Numbers
        /\ w.req.ts - Skew <= now
    BY OutMembers DEF TypeInv, Typed, Requests, Checking
  <2>3. accepted' = [accepted EXCEPT ![w.req.no] = @ + 1]
    BY <2>1 DEF AcceptSigned
  <2>4. r.no = w.req.no
    BY <1>t, <1>2, <2>2, <2>3 DEF TypeInv, Typed
  <2>5. r = w.req
    BY <1>2, <2>2, <2>4 DEF Numbered, Signed
  <2> DEFINE after == Authenticated(w.req)
             n == [of |-> r.no, dev |-> r.dev, at |-> now]
  <2>6. after \in Memories /\ n \in after.nonces
    BY <2>2, <2>5, AuthenticatedType
  <2>7. Holds(after, r)
    BY <2>2, <2>5, <2>6 DEF Holds
  <2> QED
    BY <1>t, <1>o, <2>1, <2>6, <2>7, NonceKept DEF AcceptSigned, Commits
<1>3. CASE r \notin Signed
  <2>1. PICK b \in Browsers, q \in Requests : Asked(b, q)
    BY <1>3, QuietStep, AsksStep DEF Quiet, Signed
  <2>2. r = q /\ accepted' = accepted
    BY <1>3, <2>1 DEF Asked, Signed
  <2>3. made.request \in Nat
    BY DEF TypeInv, Typed
  <2>4. CASE NewRequest(b, r)
    BY <1>t, <2>2, <2>3, <2>4 DEF NewRequest, Numbered
  <2>5. CASE FollowsPairing(b, r)
    <3>1. sent[b] \in Requests /\ sent[b].kind = "pair" /\ r.no = sent[b].no + 1
      BY <2>5 DEF FollowsPairing, TypeInv, Sent
    <3> QED
      BY <1>t, <2>2, <3>1 DEF Numbered
  <2> QED
    BY <2>1, <2>2, <2>4, <2>5 DEF Asked
<1> QED
  BY <1>1, <1>2, <1>3

LEMMA WorkingStep ==
  ASSUME TypeInv, HomeLinkAssumption, Checking, [Next]_vars
  PROVE  \/ working' = {} \/ CheckSigned
         \/ working' = working /\ mem' = mem /\ accepted' = accepted
<1>1. CASE Pair \/ RefuseSigned \/ IssuePairingCode \/ RevokeBrowser
  BY <1>1 DEF Pair, RefuseSigned, IssuePairingCode, RevokeBrowser, Begins, MayBegin
<1>2. ASSUME NEW w \in working, AcceptSigned(w) \/ SignedNotSaved(w) PROVE working' = {}
  BY <1>2 DEF AcceptSigned, SignedNotSaved, Checking
<1>3. CASE AdminOpens \/ AdminRevokes \/ Tick \/ Restart \/ UNCHANGED vars
           \/ (\E r \in net : Lose(r) \/ Arrives(r))
           \/ \E b \in Browsers : Reload(b) \/ Forget(b) \/ TimesOut(b)
  BY <1>3 DEF AdminOpens, AdminRevokes, AdminAsks, Tick, Restart, Lose, Arrives, Reload, Forget,
              TimesOut, NodeUnchanged, node, vars
<1>4. CASE \E b \in Browsers : Asks(b)
  BY <1>4, AsksStep DEF Asked
<1> QED
  BY <1>1, <1>2, <1>3, <1>4 DEF Next, LaneStep, Upset, SurfaceStep, Asks

LEMMA CheckingStep ==
  ASSUME TypeInv, TypeInv', HomeLinkAssumption, Checking, Remembered, [Next]_vars
  PROVE  Checking'
<1>1. CASE working' = {}
  BY <1>1 DEF Checking
<1>2. CASE working' = working /\ mem' = mem /\ accepted' = accepted
  <2>1. \A w \in working : w.req.ts \in Int /\ Skew \in Nat
    BY DEF TypeInv, Typed, Requests, HomeLinkAssumption
  <2> QED
    BY <1>2, <2>1, NowStep DEF Checking
<1>3. CASE CheckSigned
  <2> DEFINE r == Head(lane)
  <2>1. /\ r \in Requests /\ r.kind # "pair" /\ lane # <<>> /\ working = {}
        /\ working' = {[req |-> r, before |-> mem]} /\ mem' = Pruned(mem)
        /\ now' = now /\ accepted' = accepted /\ Admissible(Pruned(mem), r)
    BY <1>3, HeadKinds DEF CheckSigned, Begins, MayBegin
  <2>2. r \in Signed
    BY <2>1, HeadOfLane, OutMembers DEF Signed
  <2>3. /\ mem \in Memories /\ now \in Int /\ Skew \in Nat /\ accepted \in [Numbers -> Nat]
        /\ r.ts \in Int /\ r.no \in Numbers
    <3>1. r.ts \in Int /\ r.no \in Numbers
      BY <2>1 DEF Requests
    <3> QED
      BY <3>1, NowStep DEF TypeInv, Typed, HomeLinkAssumption
  <2>4. r.ts - Skew <= now /\ ~ Outdated(r)
    BY <2>1, <2>3 DEF Admissible, InWindow, Abs, Outdated
  <2>5. accepted[r.no] = 0
    <3>1. SUFFICES ASSUME accepted[r.no] > 0 PROVE FALSE
      <4>1. accepted[r.no] \in Nat
        BY <2>3
      <4> QED
        BY <4>1
    <3>a. Holds(mem, r)
      BY <2>2, <2>4, <3>1 DEF Remembered
    <3>2. Holds(Pruned(mem), r)
      BY <2>1, <2>3, <2>4, <3>a, NonceKept
    <3> QED
      BY <2>1, <3>2 DEF Admissible, Fresh, Holds
  <2> QED
    BY <2>1, <2>3, <2>4, <2>5, PrunedType DEF Checking
<1> QED
  BY <1>1, <1>2, <1>3, WorkingStep

LEMMA OnceStep ==
  ASSUME TypeInv, HomeLinkAssumption, Checking, AcceptedOnce, [Next]_vars
  PROVE  AcceptedOnce'
<1>1. CASE accepted' = accepted
  BY <1>1 DEF AcceptedOnce
<1>2. ASSUME NEW w \in working, AcceptSigned(w) PROVE AcceptedOnce'
  <2>1. accepted[w.req.no] = 0 /\ w.req.no \in Numbers
    BY DEF Checking, TypeInv, Typed, Requests
  <2>2. accepted' = [accepted EXCEPT ![w.req.no] = @ + 1]
    BY <1>2 DEF AcceptSigned
  <2> QED
    BY <2>1, <2>2 DEF AcceptedOnce, TypeInv, Typed
<1> QED
  BY <1>1, <1>2, AcceptedStep

LEMMA EndsAskedStep ==
  ASSUME TypeInv, TypeInv', HomeLinkAssumption, EndsAsked, [Next]_vars
  PROVE  EndsAsked' /\ ending \subseteq ending'
<1>e. ending \subseteq ending'
  BY AsksStep DEF Next, LaneStep, Upset, SurfaceStep, Pair, CheckSigned, RefuseSigned,
     IssuePairingCode, RevokeBrowser, AcceptSigned, SignedNotSaved, AdminOpens, Tick, Restart,
     AdminRevokes, Reload, Lose, Arrives, StoreLink, StoreFails, Forget, TimesOut, AskPair,
     Refresh, Disconnect, vars
<1>1. ASSUME NEW r \in Out', r.kind = "unpair" PROVE r.dev \in ending'
  <2>1. CASE Quiet
    BY <1>e, <1>1, <2>1 DEF Quiet, EndsAsked
  <2>2. ASSUME NEW b \in Browsers, NEW q \in Requests, Asked(b, q) PROVE r.dev \in ending'
    BY <1>e, <1>1, <2>2 DEF Asked, EndsAsked
  <2> QED
    BY <2>1, <2>2, QuietStep, AsksStep
<1>2. ASSUME NEW i \in DOMAIN lane', lane'[i].kind = "revoke" PROVE lane'[i].dev \in ending'
  <2>1. CASE lane' = lane \/ lane' = <<>>
    BY <1>e, <1>2, <2>1 DEF EndsAsked
  <2>2. CASE lane # <<>> /\ lane' = Tail(lane)
    BY <1>e, <1>2, <2>2, HeadOfLane DEF EndsAsked
  <2>3. ASSUME NEW op, lane' = Append(lane, op), op.kind = "revoke" => op.dev \in ending'
        PROVE  lane'[i].dev \in ending'
    <3>1. (i \in DOMAIN lane /\ lane'[i] = lane[i]) \/ lane'[i] = op
      BY <1>2, <2>3, LaneType, AppendAt
    <3> QED
      BY <1>e, <1>2, <2>3, <3>1 DEF EndsAsked
  <2>4. CASE AdminOpens
    <3>1. PICK op : lane' = Append(lane, op) /\ op.kind = "open"
      BY <2>4 DEF AdminOpens, AdminAsks
    <3> QED
      BY <2>3, <3>1
  <2> QED
    BY <2>1, <2>2, <2>3, <2>4, LaneStepEffect
<1> QED
  BY <1>e, <1>1, <1>2 DEF EndsAsked

\* A device that the node lost was to end, unless the process started from the file.
LEMMA LinksStep ==
  ASSUME TypeInv, TypeInv', HomeLinkAssumption, Checking, EndsAsked, LinksHold, [Next]_vars
  PROVE  LinksHold'
<1>e. ending \subseteq ending'
  BY EndsAskedStep
<1>1. ASSUME NEW d, d \notin ending, Paired(d) PROVE d \in mem'.devices /\ d \in disk'.devices
  BY <1>1, DevicesStep DEF Paired, Restarts, PairsUp, Removes, Keeps
<1>2. ASSUME NEW b \in Browsers, record'[b] # None, record'[b] \notin ending'
      PROVE  record'[b] \in mem'.devices /\ record'[b] \in disk'.devices
  BY <1>e, <1>1, <1>2, LinkStep DEF LinksHold
<1>3. ASSUME NEW b \in Browsers, pc'[b] = "storing", sent'[b].dev \notin ending'
      PROVE  sent'[b].dev \in mem'.devices /\ sent'[b].dev \in disk'.devices
  BY <1>e, <1>1, <1>3, StoringStep DEF LinksHold
<1> QED
  BY <1>2, <1>3 DEF LinksHold, Paired

LEMMA GoneStep ==
  ASSUME TypeInv, HomeLinkAssumption, Checking, EndsAsked, Spent, GoneStaysGone, [Next]_vars
  PROVE  GoneStaysGone'
<1>1. CASE PairsUp
  <2>1. ~ Closed(Head(lane).code)
    BY <1>1 DEF PairsUp, MayPair, CodeOpens, PairingAvailable, Closed
  <2>2. Head(lane).dev \notin gone
    BY <1>1, <2>1 DEF PairsUp, Spent, Met
  <2> QED
    BY <1>1, <2>2 DEF PairsUp, GoneStaysGone
<1> QED
  BY <1>1, DevicesStep DEF Restarts, Removes, Keeps, GoneStaysGone

-----------------------------------------------------------------------------
(* The theorems.                                                            *)

LEMMA LinkInit == Init => IInv
<1> SUFFICES ASSUME Init PROVE IInv
  OBVIOUS
<1>1. /\ Out = {} /\ Pairs = {} /\ Signed = {} /\ lane = <<>> /\ DOMAIN lane = {} /\ working = {}
      /\ \A c \in Codes : ~ Opens(c)
  BY DEF Init, Out, Pairs, Signed, UnderWay, Opens
<1>2. \A b \in Browsers : sent[b] \notin Requests /\ pc[b] = "idle" /\ conn[b] = None /\ record[b] = None
  BY NoneAssumption DEF Init
<1>3. TypeInv
  <2>1. mem \in Memories /\ disk \in Files
    BY DEF Init, Memories, Files
  <2>2. Typed
    BY <2>1, HomeLinkAssumption DEF Init, Typed
  <2>3. Sent
    BY <1>2 DEF Sent
  <2> QED
    BY <2>2, <2>3 DEF TypeInv
<1>4. mem.pairing = None /\ mem.devices = {} /\ disk.devices = {} /\ gone = {}
  BY DEF Init
<1>5. \A n \in Numbers : accepted[n] = 0
  BY DEF Init
<1>6. Met = {}
  BY <1>1, <1>2, <1>4 DEF Met
<1>7. Numbered
  BY <1>1, <1>2, <1>5 DEF Numbered
<1>8. Coded /\ Checking /\ EndsAsked /\ Remembered
  BY <1>1, <1>4 DEF Coded, Checking, EndsAsked, Remembered
<1>9. Spent
  BY <1>1, <1>2, <1>4, <1>6 DEF Spent
<1>10. LinksHold /\ GoneStaysGone /\ AcceptedOnce
  BY <1>2, <1>4, <1>5 DEF LinksHold, GoneStaysGone, AcceptedOnce
<1> QED
  BY <1>3, <1>7, <1>8, <1>9, <1>10 DEF IInv

\* The invariant from which the properties follow.
THEOREM LinkInvariant == Spec => []IInv
<1>1. Init => IInv
  BY LinkInit
<1>2. IInv /\ [Next]_vars => IInv'
  <2> SUFFICES ASSUME IInv, [Next]_vars PROVE IInv'
    OBVIOUS
  <2> USE HomeLinkAssumption
  <2>1. TypeInv'
    BY TypeStep DEF IInv
  <2>2. Numbered' /\ Coded' /\ Spent' /\ EndsAsked'
    BY <2>1, NumberedStep, CodedStep, SpentStep, EndsAskedStep DEF IInv
  <2>3. Checking' /\ Remembered' /\ AcceptedOnce'
    BY <2>1, CheckingStep, RememberedStep, OnceStep DEF IInv
  <2>4. LinksHold' /\ GoneStaysGone'
    BY <2>1, LinksStep, GoneStep DEF IInv
  <2> QED
    BY <2>1, <2>2, <2>3, <2>4 DEF IInv
<1> QED
  BY <1>1, <1>2, PTL DEF Spec

\* The variables of the node and of the surfaces keep their types.
THEOREM TypeCorrect == Spec => []TypeOK
<1>1. IInv => TypeOK
  BY DEF IInv, TypeInv, Typed, TypeOK, Memories, Files
<1> QED
  BY <1>1, LinkInvariant, PTL

\* A signed request is accepted once (authenticate of home-node), for every offset
\* of a browser's clock, as long as nonces are kept for twice the skew.
THEOREM SignedOnce == Spec => []AcceptedOnce
<1>1. IInv => AcceptedOnce
  BY DEF IInv
<1> QED
  BY <1>1, LinkInvariant, PTL

\* A link that a browser keeps, and nobody asked to end, is paired in the node's
\* memory and in its file.
THEOREM LinkKept == Spec => []LinkIsKept
<1>1. IInv => LinkIsKept
  BY DEF IInv, LinksHold, Paired, LinkIsKept
<1> QED
  BY <1>1, LinkInvariant, PTL

\* An unpaired or revoked device is never paired again.
THEOREM GoneForGood == Spec => []GoneStaysGone
<1>1. IInv => GoneStaysGone
  BY DEF IInv
<1> QED
  BY <1>1, LinkInvariant, PTL
=============================================================================
