------------------------------- MODULE HomeLink -------------------------------
(***************************************************************************)
(* The legacy Home Link: browser profiles paired with a Home Node.         *)
(*                                                                         *)
(* The node (services/home-node) keeps the paired devices and the nonces it *)
(* has seen in memory and in one state file, and takes pairings, signed    *)
(* requests and local administration one after another in a lane           *)
(* (server.js).  A signed request waits for its signature check in the     *)
(* lane; a commit that fails puts the memory back as it was before.        *)
(*                                                                         *)
(* The browser (home-link-client.js, home-link-surface.js) pairs under a   *)
(* new device each time, keeps one link, and signs a presence or an unpair *)
(* request with a nonce of its own.  Requests may arrive late or twice.    *)
(***************************************************************************)
EXTENDS Integers, Sequences, FiniteSets

CONSTANTS
  Browsers,     \* browser profiles, each with the surface of one page
  Devices,      \* device ids, created one after another: numbers from 1
  Numbers,      \* requests, with their nonces: numbers from 1
  Codes,        \* pairing codes, issued one after another: numbers from 1
  Offset,       \* how far a browser's clock is from the node's
  Skew,         \* MAX_CLOCK_SKEW_MS
  NonceAge,     \* MAX_NONCE_AGE_MS
  CodeLife,     \* pairingLifetimeMs
  MaxNonces,    \* MAX_NONCES of a state file
  MaxTime,      \* bound of the clock
  MaxUpsets,    \* bound of the operations of Upset, below
  None

ASSUME HomeLinkAssumption ==
  /\ {Skew, NonceAge, CodeLife, MaxNonces, MaxTime, MaxUpsets} \subseteq Nat
  /\ Offset \in [Browsers -> Int]
  /\ NonceAge >= 2 * Skew
  /\ \A S \in {Devices, Numbers, Codes} :
       S \subseteq Nat \ {0} /\ \A n \in S : 1 .. n \subseteq S

\* What a browser sends to the node.
Requests ==
  [kind : {"pair", "status", "unpair"}, dev : Devices, no : Numbers, ts : Int, code : Nat,
   for : {"pair", "presence", "cleanup", "refresh", "disconnect"}]

ASSUME NoneAssumption == None \notin Requests

VARIABLES
  now,
  mem,       \* the node's memory: pairing, devices and usedNonces
  disk,      \* the state file: devices and usedNonces
  lane,      \* operations that wait in the lane
  working,   \* signed requests whose signature is being checked
  net,       \* requests on their way to the node
  pc,        \* where the surface of a browser is
  sent,      \* the last request of a surface
  conn,      \* connection: the device of the link, in the page
  record,    \* the device of the stored link
  made,      \* how many devices, requests and codes there are
  accepted,  \* how often the node has accepted the nonce of a request
  gone,      \* devices that the node has told to be unpaired or revoked
  ending,    \* devices somebody has asked the node to unpair or to revoke
  upsets

node == <<mem, disk, lane, working, accepted, gone>>
browser == <<pc, sent, conn, record>>
vars == <<now, node, net, browser, made, ending, upsets>>

-----------------------------------------------------------------------------
(* The node's state. *)

Durable(m) == [devices |-> m.devices, nonces |-> m.nonces]

\* pruneNonces().
\* Mutant of Kept: a nonce is dropped at its age, not after it.
KeptUntil(n) == n.at > now - NonceAge
Kept(n) == n.at >= now - NonceAge
Pruned(m) == [m EXCEPT !.nonces = {n \in @ : Kept(n)}]

PairingAvailable(m) == m.pairing # None /\ m.pairing.expires >= now

\* HomeNodeStateFile.load refuses a file with more entries than this.
Loads(d) == Cardinality(d.nonces) <= MaxNonces

Init ==
  /\ now = 0
  /\ mem = [pairing |-> None, devices |-> {}, nonces |-> {}]
  /\ disk = [devices |-> {}, nonces |-> {}]
  /\ lane = <<>> /\ working = {} /\ net = {}
  /\ pc = [b \in Browsers |-> "idle"]
  /\ sent = [b \in Browsers |-> None]
  /\ conn = [b \in Browsers |-> None]
  /\ record = [b \in Browsers |-> None]
  /\ made = [device |-> 0, request |-> 0, code |-> 0]
  /\ accepted = [n \in Numbers |-> 0]
  /\ gone = {} /\ ending = {}
  /\ upsets = 0

NodeUnchanged == UNCHANGED <<mem, disk, accepted, gone>>
BrowserUnchanged == UNCHANGED <<browser, made>>

\* The answer reaches the surface that waits for it, or nobody.
Answers(r, step) ==
  /\ pc' = [b \in Browsers |-> IF pc[b] = "waiting" /\ sent[b] = r THEN step ELSE pc[b]]
  /\ UNCHANGED sent

\* What a surface does when its request was answered, well or ill.
AfterWell(r) == CASE r.kind = "pair" -> "storing"
                  [] r.kind = "unpair" /\ r.for = "disconnect" -> "forgetting"
                  [] OTHER -> "idle"
AfterIll(r) == IF r.kind = "unpair" /\ r.for = "disconnect" THEN "forgetting" ELSE "idle"

Upsets == upsets < MaxUpsets /\ upsets' = upsets + 1

\* save(): the new state is written to a temporary file, which is renamed over
\* the state file.  A failure may come before the rename or after it; either
\* way the memory is put back as it was before the operation.
Commits(before, after) ==
  /\ mem' = Pruned(after) /\ disk' = Durable(Pruned(after)) /\ UNCHANGED upsets
Undone(before, after) ==
  /\ mem' = before
  /\ \/ disk' = Durable(Pruned(after))
     \/ UNCHANGED disk
Fails(before, after) == Upsets /\ Undone(before, after)

-----------------------------------------------------------------------------
(* The lane. *)

\* Mutant of MayBegin: an operation does not wait for the one before it.
BeginsAtOnce == TRUE
MayBegin == working = {}

Begins(kind) == lane # <<>> /\ Head(lane).kind = kind /\ MayBegin /\ lane' = Tail(lane)

\* A request comes in and takes its place in the lane; the network may deliver
\* it once more, or lose it.
Arrives(r) ==
  /\ r \in net
  /\ lane' = Append(lane, r)
  /\ \/ net' = net \ {r} /\ UNCHANGED upsets
     \/ Upsets /\ UNCHANGED net
  /\ UNCHANGED <<now, working, ending>>
  /\ NodeUnchanged /\ BrowserUnchanged

Lose(r) ==
  /\ r \in net /\ net' = net \ {r}
  /\ UNCHANGED <<now, lane, working, ending>>
  /\ NodeUnchanged /\ BrowserUnchanged

\* pair(): the code that is open, and a device that is not paired.
\* Mutant of CodeOpens: any code does while a pairing is open.
AnyCodeOpens(r) == PairingAvailable(mem)
CodeOpens(r) == PairingAvailable(mem) /\ r.code = mem.pairing.code
MayPair(r) == CodeOpens(r) /\ r.dev \notin mem.devices

Pair ==
  /\ Begins("pair")
  /\ LET r == Head(lane)
         after == [mem EXCEPT !.devices = @ \cup {r.dev}, !.pairing = None] IN
     \/ /\ MayPair(r) /\ Commits(mem, after) /\ Answers(r, AfterWell(r))
     \/ /\ MayPair(r) /\ Fails(mem, after) /\ Answers(r, AfterIll(r))
     \/ /\ ~ MayPair(r) /\ Answers(r, AfterIll(r)) /\ UNCHANGED <<mem, disk, upsets>>
  /\ UNCHANGED <<now, working, net, conn, record, made, accepted, gone, ending>>

\* authenticate(): the checks that come before the signature is waited for.
Abs(x) == IF x < 0 THEN - x ELSE x
InWindow(r) == Abs(now - r.ts) <= Skew
Fresh(m, r) == \A n \in m.nonces : n.of # r.no
Admissible(m, r) == r.dev \in m.devices /\ InWindow(r) /\ Fresh(m, r)

CheckSigned ==
  /\ \E kind \in {"status", "unpair"} : Begins(kind)
  /\ LET r == Head(lane) IN
     /\ Admissible(Pruned(mem), r)
     /\ working' = working \cup {[req |-> r, before |-> mem]}
  /\ mem' = Pruned(mem)
  /\ UNCHANGED <<now, disk, accepted, gone, net, ending, upsets>>
  /\ BrowserUnchanged

\* A refusal is saved too when it has pruned nonces.
RefuseSigned ==
  /\ \E kind \in {"status", "unpair"} : Begins(kind)
  /\ LET r == Head(lane) IN
     /\ ~ Admissible(Pruned(mem), r)
     /\ \/ Pruned(mem) = mem /\ UNCHANGED <<mem, disk, upsets>>
        \/ Pruned(mem) # mem /\ (Commits(mem, mem) \/ (Undone(mem, mem) /\ UNCHANGED upsets))
     /\ Answers(r, AfterIll(r))
  /\ UNCHANGED <<now, working, net, conn, record, made, accepted, gone, ending>>

\* The signature is good: the nonce is recorded, unpair() deletes the device,
\* and the whole is saved before it is answered.
Authenticated(r) ==
  LET seen == [mem EXCEPT !.nonces = @ \cup {[of |-> r.no, dev |-> r.dev, at |-> now]}]
  IN IF r.kind = "unpair" THEN [seen EXCEPT !.devices = @ \ {r.dev}] ELSE seen

AcceptSigned(w) ==
  /\ w \in working
  /\ working' = working \ {w}
  /\ Commits(w.before, Authenticated(w.req))
  /\ accepted' = [accepted EXCEPT ![w.req.no] = @ + 1]
  /\ gone' = IF w.req.kind = "unpair" THEN gone \cup {w.req.dev} ELSE gone
  /\ Answers(w.req, AfterWell(w.req))
  /\ UNCHANGED <<now, lane, net, conn, record, made, ending>>

SignedNotSaved(w) ==
  /\ w \in working
  /\ working' = working \ {w}
  /\ Fails(w.before, Authenticated(w.req))
  /\ Answers(w.req, AfterIll(w.req))
  /\ UNCHANGED <<now, lane, net, conn, record, made, accepted, gone, ending>>

\* The administrator opens a pairing: it is not saved.
IssuePairingCode ==
  /\ Begins("open")
  /\ mem' = [mem EXCEPT !.pairing = [code |-> Head(lane).code, expires |-> now + CodeLife]]
  /\ UNCHANGED <<now, disk, working, accepted, gone, net, ending, upsets>>
  /\ BrowserUnchanged

\* ... and revokes a browser: its nonces go with it.
RevokeBrowser ==
  /\ Begins("revoke")
  /\ LET d == Head(lane).dev
         after == [mem EXCEPT !.devices = @ \ {d}, !.nonces = {n \in @ : n.dev # d}] IN
     \/ d \in mem.devices /\ Commits(mem, after) /\ gone' = gone \cup {d}
     \/ d \in mem.devices /\ Undone(mem, after) /\ UNCHANGED <<gone, upsets>>
     \/ d \notin mem.devices /\ UNCHANGED <<mem, disk, gone, upsets>>
  /\ UNCHANGED <<now, working, accepted, net, ending>>
  /\ BrowserUnchanged

\* The process ends at any moment and starts from the file: what waited in the
\* lane and the open pairing are lost.
Restart ==
  /\ Loads(disk)
  /\ mem' = Pruned([pairing |-> None, devices |-> disk.devices, nonces |-> disk.nonces])
  /\ disk' = Durable(mem')
  /\ lane' = <<>> /\ working' = {}
  /\ UNCHANGED <<now, accepted, gone, net, ending>>
  /\ BrowserUnchanged

AdminAsks(op) ==
  /\ lane' = Append(lane, op)
  /\ UNCHANGED <<now, working, net, browser>>
  /\ NodeUnchanged

AdminOpens ==
  /\ made.code + 1 \in Codes
  /\ made' = [made EXCEPT !.code = @ + 1]
  /\ AdminAsks([kind |-> "open", code |-> made.code + 1])
  /\ UNCHANGED <<ending, upsets>>

AdminRevokes ==
  /\ \E d \in mem.devices :
       AdminAsks([kind |-> "revoke", dev |-> d]) /\ ending' = ending \cup {d}
  /\ UNCHANGED made

-----------------------------------------------------------------------------
(* The surface of a browser. *)

Goes(b, step) == pc' = [pc EXCEPT ![b] = step]

\* A request leaves for the node: createSignedHomeRequest stamps it by the
\* browser's clock and gives it a new nonce.
Request(b, kind, d, n, code, for) ==
  [kind |-> kind, dev |-> d, no |-> n, ts |-> now + Offset[b], code |-> code, for |-> for]
Sends(b, r) ==
  /\ sent' = [sent EXCEPT ![b] = r] /\ net' = net \cup {r}
  /\ Goes(b, "waiting")
  /\ UNCHANGED <<now, lane, working>>
  /\ NodeUnchanged

\* "Pair": when the node's discovery record says that a pairing is open, a new
\* device is created and sent with the code that was typed.  The next number is
\* for the request that will follow.
AskPair(b) ==
  /\ pc[b] = "idle" /\ conn[b] = None /\ PairingAvailable(mem)
  /\ made.device + 1 \in Devices /\ made.request + 2 \in Numbers
  /\ Sends(b, Request(b, "pair", made.device + 1, made.request + 1, made.code, "pair"))
  /\ made' = [made EXCEPT !.request = @ + 2, !.device = @ + 1]
  /\ UNCHANGED <<conn, record, ending, upsets>>

\* The receipt came: the link is stored and presence sent ...
StoreLink(b) ==
  LET d == sent[b].dev IN
  /\ pc[b] = "storing"
  /\ record' = [record EXCEPT ![b] = d] /\ conn' = [conn EXCEPT ![b] = d]
  /\ Sends(b, Request(b, "status", d, sent[b].no + 1, 0, "presence"))
  /\ UNCHANGED <<made, ending, upsets>>

\* ... or it cannot be stored, and the node is asked to unpair the device.
StoreFails(b) ==
  LET d == sent[b].dev IN
  /\ pc[b] = "storing" /\ Upsets
  /\ Sends(b, Request(b, "unpair", d, sent[b].no + 1, 0, "cleanup"))
  /\ ending' = ending \cup {d}
  /\ UNCHANGED <<conn, record, made>>

Linked(b) == pc[b] = "idle" /\ conn[b] # None /\ made.request + 1 \in Numbers

\* "Refresh".
Refresh(b) ==
  /\ Linked(b)
  /\ Sends(b, Request(b, "status", conn[b], made.request + 1, 0, "refresh"))
  /\ made' = [made EXCEPT !.request = @ + 1]
  /\ UNCHANGED <<conn, record, ending, upsets>>

\* "Remove": the node is asked first, and whatever it says the link is deleted.
Disconnect(b) ==
  /\ Linked(b)
  /\ Sends(b, Request(b, "unpair", conn[b], made.request + 1, 0, "disconnect"))
  /\ made' = [made EXCEPT !.request = @ + 1]
  /\ ending' = ending \cup {conn[b]}
  /\ UNCHANGED <<conn, record, upsets>>

Forget(b) ==
  /\ pc[b] = "forgetting"
  /\ \/ record' = [record EXCEPT ![b] = None] /\ conn' = [conn EXCEPT ![b] = None]
        /\ UNCHANGED upsets
     \/ Upsets /\ UNCHANGED <<record, conn>>
  /\ Goes(b, "idle")
  /\ UNCHANGED <<now, node, net, sent, made, ending>>

\* Every exchange has a deadline, whether the request is lost or only late: the
\* late ones are bounded, with the other operations of Upset.
\* Mutant of Deadline: it waits until the node answers.
NoDeadline(b) == FALSE
Deadline(b) == pc[b] = "waiting"

UnderWay(r) ==
  r \in net \cup {lane[i] : i \in DOMAIN lane} \cup {w.req : w \in working}

TimesOut(b) ==
  /\ Deadline(b)
  /\ IF UnderWay(sent[b]) THEN Upsets ELSE UNCHANGED upsets
  /\ Goes(b, AfterIll(sent[b]))
  /\ UNCHANGED <<now, node, net, sent, conn, record, made, ending>>

\* The page is loaded again and reads the stored link.
Reload(b) ==
  /\ Goes(b, "idle") /\ conn' = [conn EXCEPT ![b] = record[b]]
  /\ UNCHANGED <<now, node, net, sent, record, made, ending>>

-----------------------------------------------------------------------------
Tick == now < MaxTime /\ now' = now + 1
          /\ UNCHANGED <<node, net, browser, made, ending, upsets>>

LaneStep ==
  \/ Pair \/ CheckSigned \/ RefuseSigned \/ IssuePairingCode \/ RevokeBrowser
  \/ \E w \in working : AcceptSigned(w) \/ SignedNotSaved(w)

SurfaceStep(b) == StoreLink(b) \/ StoreFails(b) \/ Forget(b) \/ TimesOut(b)

Upset ==
  /\ Upsets
  /\ \/ Restart \/ AdminRevokes
     \/ \E b \in Browsers : Reload(b)
     \/ \E r \in net : Lose(r)

Next ==
  \/ LaneStep \/ AdminOpens \/ Tick \/ Upset
  \/ \E r \in net : Arrives(r)
  \/ \E b \in Browsers : SurfaceStep(b) \/ AskPair(b) \/ Refresh(b) \/ Disconnect(b)

Spec == Init /\ [][Next]_vars

\* The surface goes on with what was asked of it, a request that is not lost
\* comes in, and the node goes on with its lane.
Fairness ==
  /\ \A b \in Browsers : WF_vars(SurfaceStep(b))
  /\ WF_vars(LaneStep)
  /\ WF_vars(\E r \in net : Arrives(r))
FairSpec == Spec /\ Fairness

-----------------------------------------------------------------------------
(* Properties. *)

TypeOK ==
  /\ now \in 0 .. MaxTime
  /\ mem.devices \subseteq Devices /\ disk.devices \subseteq Devices
  /\ \A b \in Browsers : pc[b] \in {"idle", "waiting", "storing", "forgetting"}
  /\ \A b \in Browsers : {conn[b], record[b]} \subseteq Devices \cup {None}

\* A signed request is accepted once, over restarts, failed commits and both
\* clocks: a nonce is remembered for as long as its request is in the window.
AcceptedOnce == \A n \in Numbers : accepted[n] <= 1

\* A device whose link a browser keeps is paired, in the node's memory and in
\* its file, unless somebody has asked for its end: no commit that fails takes
\* back what another operation was told.
LinkIsKept ==
  \A b \in Browsers :
    record[b] # None /\ record[b] \notin ending =>
      record[b] \in mem.devices /\ record[b] \in disk.devices

\* A device that the node has told to be unpaired or revoked stays so: neither a
\* late pairing request nor a restart brings it back.
GoneStaysGone == gone \cap (mem.devices \cup disk.devices) = {}

\* The surface comes free again, whatever the node does: every request has a deadline
\* (the timeout of home-link-client.js:34).
SurfaceComesFree == \A b \in Browsers : pc[b] # "idle" ~> pc[b] = "idle"

\* The node opens the state that it has written.  Violated when more nonces are in
\* their window than the file may hold: save() writes them and load() refuses them.
OpensAgain == Loads(disk)
=============================================================================
