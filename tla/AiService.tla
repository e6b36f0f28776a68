------------------------------ MODULE AiService ------------------------------
(***************************************************************************)
(* Model requests of Hara Playground: the AI service of the extension      *)
(* (ai-service.js), its foreground provider (chatgpt-ai-provider.js,       *)
(* chatgpt-provider-runtime.js) and the page adapter in each ChatGPT tab   *)
(* (chatgpt-provider-bridge.js).                                           *)
(*                                                                         *)
(* A call uses a provider with an API, and is in flight in the memory of   *)
(* the service worker, or the ChatGPT page, and is a durable session that  *)
(* the caller polls.  Every handler of the worker reads the sessions, waits*)
(* and later writes whole records: handlers overlap, and a write can       *)
(* replace what another handler has written since the read.                *)
(***************************************************************************)
EXTENDS Naturals, Sequences, SequencesExt, FiniteSets

CONSTANTS
  Callers,      \* callers, each with one model request: numbers
  RequestIds,   \* request ids
  Cancels,      \* cancel operations
  Switches,     \* uses of the provider's switch on its surface
  Slots,        \* page requests the worker can have in hand at once
  Sessions,     \* session ids
  Tabs,         \* ChatGPT tabs
  MaxTime,      \* bound of the clock
  Timeout,      \* timeoutMs of a request
  MaxTurns,     \* bound of assistant turns per tab
  MaxUpsets,    \* bound of the operations of Upset, below
  None

\* An assistant turn, with the session on the card when it was observed (which
\* no code looks at: the properties do).
Observations == [turn : 1 .. MaxTurns, of : Sessions]

\* What a page asks of the worker, and the answer: ok, and the session for a hello.
PageRequests ==
  [op : {"hello", "staged", "ready", "returned", "dismissed"},
   sid : Sessions \cup {None}, ans : Observations \cup {None}, tab : Tabs,
   doc : Nat, conv : Nat, ok : BOOLEAN]

ASSUME ServiceAssumption ==
  /\ {MaxTime, Timeout, MaxTurns, MaxUpsets} \subseteq Nat
  /\ Timeout > 0
  /\ Callers \cap (Cancels \cup Switches \cup Slots) = {}
  /\ Slots \cap (Cancels \cup Switches) = {} /\ Cancels \cap Switches = {}
  /\ None \notin Sessions \cup Callers
  /\ None \notin Observations /\ None \notin PageRequests
  /\ Callers \subseteq Nat /\ Cardinality(Callers) <= Cardinality(Sessions)
  /\ IsFiniteSet(Callers) /\ IsFiniteSet(Slots)

VARIABLES
  now,        \* the clock
  asked,      \* the request of each call: id and provider
  store,      \* the durable sessions
  enabled,    \* the content script is registered
  open,       \* the open ChatGPT tabs
  page,       \* the page adapter of each tab
  turns,      \* assistant turns shown in each tab
  at,         \* where each handler is
  snapshot,   \* the sessions a handler has read
  arg,        \* a page request, the tab of a new session, the call to cancel
  reply,      \* what each caller was last told
  registered, \* the API calls the service has registered, by id
  aborted,    \* API calls whose controller was aborted, and why
  upsets      \* how often Upset has happened

workerState == <<at, snapshot, arg, reply, registered, aborted>>
pages == <<page, turns, open>>
serviceVars == <<now, asked, store, enabled, pages, workerState, upsets>>

Procs == Callers \cup Cancels \cup Switches \cup Slots

ACTIVE_STATES == {"created", "attached", "staged", "ready"}
Terminal == {"returned", "cancelled", "expired"}
SESSION_STATES == ACTIVE_STATES \cup Terminal

\* A request, and whether it passes the checks of its form and of its grant.
Asked == [id : RequestIds, provider : {"api", "web"}, passes : BOOLEAN]

Nothing == [s \in Sessions |-> None]

\* What a caller is told of a session: how it ended, or that it is pending.
AiResult(state) == IF state \in Terminal THEN state ELSE "pending"

Active(r) == r # None /\ r.state \in ACTIVE_STATES
\* Mutant of Due: a session that its page has attached does not expire.
DueUnlessShown(r) == Active(r) /\ r.state # "attached" /\ r.expires <= now
Due(r) == Active(r) /\ r.expires <= now

\* A record as a terminal write leaves it: only a returned one has an output.
Ended(r, state) == [r EXCEPT !.state = state, !.cand = None]

ValidSession(r) ==
  /\ r.state \in SESSION_STATES
  /\ r.state = "ready" => r.cand # None
  /\ r.state = "returned" => r.out # None /\ r.cand = None

NewPage(t) == [doc |-> 0, conv |-> 0, sid |-> None, phase |-> "idle",
               cand |-> None, base |-> 0, wipe |-> FALSE]

SessionRecords ==
  [state : SESSION_STATES, id : RequestIds, expires : Nat, tab : Tabs, doc : Nat,
   conv : Nat, cand : Observations \cup {None}, out : Observations \cup {None}]
Adapters ==
  [doc : Nat, conv : Nat, sid : Sessions \cup {None},
   phase : {"idle", "review", "staged", "ready", "returned"},
   cand : Observations \cup {None}, base : 0 .. MaxTurns, wipe : BOOLEAN]

HandlerSteps == {"idle", "profile", "fetching", "looked", "picked", "staging",
                 "waiting", "polled", "done", "got", "again", "disabling",
                 "sent", "read", "answering"}

ServiceTypeOK ==
  /\ now \in 0 .. MaxTime /\ enabled \in BOOLEAN /\ open \subseteq Tabs
  /\ asked \in [Callers -> Asked]
  /\ store \in [Sessions -> SessionRecords \cup {None}]
  /\ \A s \in Sessions : store[s] # None => ValidSession(store[s])
  /\ snapshot \in [Procs -> [Sessions -> SessionRecords \cup {None}]]
  /\ page \in [Tabs -> Adapters] /\ turns \in [Tabs -> 0 .. MaxTurns]
  /\ at \in [Procs -> HandlerSteps]
  /\ \A e \in Slots : arg[e] \in PageRequests \cup {None}
  /\ registered \in [RequestIds -> Callers \cup {None}]
  /\ aborted \in [Callers -> {"no", "timeout", "cancelled"}]
  /\ upsets \in 0 .. MaxUpsets

ServiceInit ==
  /\ now = 0
  /\ asked \in [Callers -> Asked]
  /\ store = Nothing
  /\ enabled = TRUE
  /\ open \in SUBSET Tabs
  /\ page = [t \in Tabs |-> NewPage(t)]
  /\ turns = [t \in Tabs |-> 0]
  /\ at = [p \in Procs |-> "idle"]
  /\ snapshot = [p \in Procs |-> Nothing]
  /\ arg = [p \in Procs |-> None]
  /\ reply = [c \in Callers |-> "none"]
  /\ registered = [i \in RequestIds |-> None]
  /\ aborted = [c \in Callers |-> "no"]
  /\ upsets = 0

-----------------------------------------------------------------------------
(* Moves of a handler. *)

Goes(p, a) == at' = [at EXCEPT ![p] = a]
Reads(p) == snapshot' = [snapshot EXCEPT ![p] = store]
Forgets(p) == snapshot' = [snapshot EXCEPT ![p] = Nothing]
Tells(c, told) == reply' = [reply EXCEPT ![c] = told]
Saves(s, r) == store' = [store EXCEPT ![s] = r]

\* stage(): the card shows a session, and the turns shown so far are the
\* baseline.
Card(p, t, s) ==
  [p EXCEPT !.sid = s, !.cand = None, !.phase = "review", !.base = turns[t]]
Cleared(p) == [p EXCEPT !.sid = None, !.cand = None]

\* tabs.sendMessage: the adapter of the tab takes it, if there is one.
Stages(t, s) ==
  page' = IF page[t].doc = 0 THEN page ELSE [page EXCEPT ![t] = Card(@, t, s)]
Clears(t, s) ==
  page' = IF page[t].sid # s THEN page ELSE [page EXCEPT ![t] = Cleared(@)]

ElsewhereUnchanged == UNCHANGED <<now, asked, enabled, turns, open>>
OnlyMoves == ElsewhereUnchanged /\ UNCHANGED <<store, page>>

Ends(c, told) ==
  /\ Goes(c, "done") /\ Tells(c, told) /\ Forgets(c)
  /\ arg' = [arg EXCEPT ![c] = None]
  /\ UNCHANGED <<registered, aborted>>

\* Sessions of the snapshot that have come due are expired one after another
\* before the handler goes on.
Expiring(p) ==
  \/ at[p] \in {"looked", "polled", "got", "again"}
  \/ p \in Slots /\ at[p] = "read" /\ arg[p].op = "hello"
Expired(p) == \A s \in Sessions : ~ Due(snapshot[p][s])

Expire(p) ==
  /\ Expiring(p)
  /\ \E s \in Sessions :
       /\ Due(snapshot[p][s])
       /\ LET r == Ended(snapshot[p][s], "expired") IN
          /\ Saves(s, r)
          /\ Clears(r.tab, s)
          /\ snapshot' = [snapshot EXCEPT ![p][s] = r]
  /\ UNCHANGED <<at, arg, reply, registered, aborted>>
  /\ ElsewhereUnchanged

SessionsOf(p, i) == {s \in Sessions : snapshot[p][s] # None /\ snapshot[p][s].id = i}

-----------------------------------------------------------------------------
(* A call of Hara Playground. *)

Pending(c) == at[c] = "waiting" /\ reply[c] \notin Terminal

\* Calls are numbered as they come.
Starts(c) == at[c] = "idle" /\ \A x \in Callers : x < c => at[x] # "idle"
Accepted(c) == Starts(c) /\ asked[c].passes

\* A message or a request that is malformed, of another sender or outside its
\* grant is refused before anything is touched.
Refuse(c) ==
  /\ Starts(c) /\ ~ asked[c].passes
  /\ Ends(c, "refused")
  /\ OnlyMoves

\* The grant of the caller and that of the provider are checked on each
\* operation, polls included: either may have been revoked.
Deny(c) ==
  /\ Starts(c) \/ Pending(c)
  /\ Ends(c, "denied")
  /\ OnlyMoves

\* generate() of a provider with an API.
Generate(c) ==
  /\ Accepted(c) /\ asked[c].provider = "api"
  /\ IF registered[asked[c].id] # None THEN Ends(c, "reuse")
     ELSE Goes(c, "profile") /\ UNCHANGED <<snapshot, arg, reply, registered, aborted>>
  /\ OnlyMoves

\* The profile and the permission have been read: the call is registered and
\* its timer armed.
Register(c) ==
  /\ at[c] = "profile"
  /\ Goes(c, "fetching")
  /\ registered' = [registered EXCEPT ![asked[c].id] = c]
  /\ UNCHANGED <<snapshot, arg, reply, aborted>>
  /\ OnlyMoves

TimerFires(c) == aborted' = [aborted EXCEPT ![c] = "timeout"]

TimesOut(c) ==
  /\ at[c] = "fetching" /\ aborted[c] = "no"
  /\ TimerFires(c)
  /\ UNCHANGED <<at, snapshot, arg, reply, registered>>
  /\ OnlyMoves

\* readProviderJson() and providerOutput(): an answer is output, or it is refused as an
\* error, too large or without a text.
ProviderAnswers == {"output", "failed"}

\* fetch and the reading of its body have settled; finally deletes the entry
\* of the id, whoever it is of.
Fetched(c) ==
  /\ at[c] = "fetching"
  /\ \E told \in IF aborted[c] = "no" THEN ProviderAnswers ELSE {aborted[c]} :
       Tells(c, told)
  /\ Goes(c, "done")
  /\ registered' = [registered EXCEPT ![asked[c].id] = None]
  /\ UNCHANGED <<snapshot, arg, aborted>>
  /\ OnlyMoves

\* generate() through ChatGPT: create() reads the sessions ...
Look(c) ==
  /\ Accepted(c) /\ asked[c].provider = "web" /\ now + Timeout <= MaxTime
  /\ Goes(c, "looked") /\ Reads(c)
  /\ arg' = [arg EXCEPT ![c] = [expires |-> now + Timeout]]
  /\ UNCHANGED <<reply, registered, aborted>>
  /\ OnlyMoves

\* ... and answers with the one that has the id, when the whole request is the
\* same, the millisecond it expires in included (in one tick of the model's
\* clock there are many) ...
MayReplay(c, r) == r.expires = arg[c].expires

Replay(c) ==
  /\ at[c] = "looked" /\ Expired(c)
  /\ \E s \in SessionsOf(c, asked[c].id) :
       \/ Ends(c, "reuse")
       \/ /\ MayReplay(c, snapshot[c][s])
          /\ Goes(c, "waiting") /\ Tells(c, AiResult(snapshot[c][s].state)) /\ Forgets(c)
          /\ arg' = [arg EXCEPT ![c] = None]
          /\ UNCHANGED <<registered, aborted>>
  /\ OnlyMoves

\* ... or else, if the provider is enabled, takes an idle tab or opens one.  The
\* sessions are read again for that; the model takes them as read before ...
Busy(c) == {snapshot[c][s].tab : s \in {x \in Sessions : Active(snapshot[c][x])}}

PickTab(c) ==
  /\ at[c] = "looked" /\ Expired(c) /\ SessionsOf(c, asked[c].id) = {} /\ enabled
  /\ \E t \in IF open \ Busy(c) # {} THEN open \ Busy(c) ELSE Tabs \ open :
       /\ open' = open \cup {t}
       /\ arg' = [arg EXCEPT ![c] = [expires |-> @.expires, tab |-> t]]
  /\ Goes(c, "picked") /\ Forgets(c)
  /\ UNCHANGED <<now, asked, store, enabled, page, turns, reply, registered,
                 aborted>>

\* Tabs are bounded: without another one, tabs.create fails.
NoTab(c) ==
  /\ at[c] = "looked" /\ Expired(c) /\ SessionsOf(c, asked[c].id) = {}
  /\ ~ enabled \/ (open = Tabs /\ Tabs \subseteq Busy(c))
  /\ Ends(c, "refused")
  /\ OnlyMoves

\* ... saves the session, under a new id ...
NewSession(c) ==
  [state |-> "created", id |-> asked[c].id, expires |-> arg[c].expires,
   tab |-> arg[c].tab, doc |-> 0, conv |-> 0, cand |-> None, out |-> None]

Create(c) ==
  /\ at[c] = "picked"
  /\ \E x \in Sessions : store[x] = None
  /\ LET s == CHOOSE x \in Sessions : store[x] = None IN
       /\ Saves(s, NewSession(c))
       /\ arg' = [arg EXCEPT ![c] = [tab |-> @.tab, sid |-> s]]
  /\ Goes(c, "staging")
  /\ UNCHANGED <<page, snapshot, reply, registered, aborted>>
  /\ ElsewhereUnchanged

\* ... sends it to the page, and answers.
Stage(c) ==
  /\ at[c] = "staging"
  /\ Stages(arg[c].tab, arg[c].sid)
  /\ Goes(c, "waiting") /\ Tells(c, "pending")
  /\ arg' = [arg EXCEPT ![c] = None]
  /\ UNCHANGED <<store, snapshot, registered, aborted>>
  /\ ElsewhereUnchanged

\* The caller polls result() until it is told a terminal state.  A poll that
\* expires nothing changes nothing: its reading and its answer are one step.
PollTold(c, sessions) ==
  \E s \in Sessions :
    /\ sessions[s] # None /\ sessions[s].id = asked[c].id
    /\ Goes(c, "waiting") /\ Tells(c, AiResult(sessions[s].state)) /\ Forgets(c)

Poll(c) ==
  /\ Pending(c)
  /\ IF \A s \in Sessions : ~ Due(store[s]) THEN PollTold(c, store)
     ELSE Goes(c, "polled") /\ Reads(c) /\ UNCHANGED reply
  /\ UNCHANGED <<arg, registered, aborted>>
  /\ OnlyMoves

PollAnswered(c) ==
  /\ at[c] = "polled" /\ Expired(c)
  /\ PollTold(c, snapshot[c])
  /\ UNCHANGED <<arg, registered, aborted>>
  /\ OnlyMoves

-----------------------------------------------------------------------------
(* Cancellation and the switch. *)

\* cancel(): an API call in flight is aborted; else the session with the id is
\* read, to check whose it is.
Cancel(k) ==
  /\ at[k] = "idle"
  /\ \E c \in Callers :
       /\ arg' = [arg EXCEPT ![k] = c]
       /\ LET running == registered[asked[c].id] IN
          IF running # None
          THEN /\ aborted' = [aborted EXCEPT ![running] =
                               IF @ = "no" THEN "cancelled" ELSE @]
               /\ Goes(k, "done") /\ UNCHANGED snapshot
          ELSE Goes(k, "got") /\ Reads(k) /\ UNCHANGED aborted
  /\ UNCHANGED <<reply, registered>>
  /\ OnlyMoves

\* cancelRequest() reads the sessions once more ...
CancelRequest(k) ==
  /\ at[k] = "got" /\ Expired(k)
  /\ IF SessionsOf(k, asked[arg[k]].id) = {} THEN Goes(k, "done") /\ Forgets(k)
     ELSE Goes(k, "again") /\ Reads(k)
  /\ UNCHANGED <<arg, reply, registered, aborted>>
  /\ OnlyMoves

\* ... and cancels the one it finds, if that is active.
CancelCurrent(k) ==
  /\ at[k] = "again" /\ Expired(k)
  /\ \E s \in SessionsOf(k, asked[arg[k]].id) :
       IF Active(snapshot[k][s])
       THEN /\ Saves(s, Ended(snapshot[k][s], "cancelled"))
            /\ Clears(snapshot[k][s].tab, s)
       ELSE UNCHANGED <<store, page>>
  /\ Goes(k, "done") /\ Forgets(k)
  /\ UNCHANGED <<arg, reply, registered, aborted>>
  /\ ElsewhereUnchanged

\* setEnabled: the script is unregistered, then the active sessions read ...
SetEnabled(w) ==
  /\ at[w] = "idle"
  /\ \/ enabled /\ enabled' = FALSE /\ Goes(w, "disabling") /\ Reads(w)
     \/ ~ enabled /\ enabled' = TRUE /\ Goes(w, "done") /\ UNCHANGED snapshot
  /\ UNCHANGED <<now, asked, store, pages, arg, reply, registered, aborted>>

\* ... are cancelled one after another.
DisableCancels(w) ==
  /\ at[w] = "disabling"
  /\ \E s \in Sessions :
       /\ Active(snapshot[w][s])
       /\ Saves(s, Ended(snapshot[w][s], "cancelled"))
       /\ Clears(snapshot[w][s].tab, s)
       /\ snapshot' = [snapshot EXCEPT ![w][s] = None]
  /\ UNCHANGED <<at, arg, reply, registered, aborted>>
  /\ ElsewhereUnchanged

Disabled(w) ==
  /\ at[w] = "disabling" /\ \A s \in Sessions : ~ Active(snapshot[w][s])
  /\ Goes(w, "done") /\ Forgets(w)
  /\ UNCHANGED <<arg, reply, registered, aborted>>
  /\ OnlyMoves

-----------------------------------------------------------------------------
(* Page requests at the worker. *)

PageRead(e) ==
  /\ at[e] = "sent"
  /\ Goes(e, "read")
  /\ IF arg[e].op = "hello" THEN Reads(e)
     ELSE snapshot' = [snapshot EXCEPT ![e][arg[e].sid] = store[arg[e].sid]]
  /\ UNCHANGED <<arg, reply, registered, aborted>>
  /\ OnlyMoves

\* The session of a page event is bound to its tab and, once placed, to the
\* document.
Bound(m, r) ==
  /\ r.tab = m.tab
  /\ r.doc # 0 /\ r.doc # m.doc => r.state \in {"created", "attached"}

\* Mutant of Reviewed: the candidate is not asked for.
ReviewedLater(m, r) == r.state \in ACTIVE_STATES \ {"ready"}

\* The candidate of a returned answer was recorded, in this conversation.
Reviewed(m, r) ==
  /\ r.state = "ready"
  /\ r.cand.turn = m.ans.turn
  /\ r.conv # 0 => r.conv = m.conv

MayApply(m, r) ==
  /\ r # None /\ Bound(m, r)
  /\ m.op = "staged" => r.state \in {"created", "attached", "staged"}
  /\ m.op = "ready" => r.state \in {"staged", "ready"}
  /\ m.op = "returned" => Reviewed(m, r)

\* The record as the event leaves it.
Applied(m, r) ==
  LET common == [r EXCEPT !.doc = m.doc, !.conv = IF m.conv = 0 THEN @ ELSE m.conv]
  IN CASE m.op = "staged" -> [common EXCEPT !.state = "staged"]
       [] m.op = "ready" -> [common EXCEPT !.state = "ready", !.cand = m.ans]
       [] m.op = "returned" -> [Ended(common, "returned") EXCEPT !.out = m.ans]
       [] m.op = "dismissed" -> Ended(common, "cancelled")

Replies(e, ok, s) ==
  /\ Goes(e, "answering") /\ Forgets(e)
  /\ arg' = [arg EXCEPT ![e] = [@ EXCEPT !.ok = ok, !.sid = s]]
  /\ UNCHANGED <<reply, registered, aborted>>

PageApply(e) ==
  LET m == arg[e]  r == snapshot[e][m.sid] IN
  /\ at[e] = "read" /\ m.op # "hello"
  /\ IF MayApply(m, r)
     THEN Saves(m.sid, Applied(m, r)) /\ Replies(e, TRUE, m.sid)
     ELSE Replies(e, FALSE, m.sid) /\ UNCHANGED store
  /\ UNCHANGED page
  /\ ElsewhereUnchanged

\* hello: the active session of the tab is attached and given to the page.
PendingForTab(e) ==
  {s \in Sessions : Active(snapshot[e][s]) /\ snapshot[e][s].tab = arg[e].tab}

PageHello(e) ==
  LET m == arg[e] IN
  /\ at[e] = "read" /\ m.op = "hello" /\ Expired(e)
  /\ IF PendingForTab(e) = {}
     THEN Replies(e, TRUE, None) /\ UNCHANGED store
     ELSE \E s \in PendingForTab(e) :
            /\ Saves(s, [snapshot[e][s] EXCEPT
                           !.state = IF @ = "created" THEN "attached" ELSE @,
                           !.doc = m.doc, !.conv = m.conv])
            /\ Replies(e, TRUE, s)
  /\ UNCHANGED page
  /\ ElsewhereUnchanged

-----------------------------------------------------------------------------
(* The page adapter of a tab. *)

WorkerUnchanged == UNCHANGED <<now, asked, store, enabled, snapshot, reply, registered,
                               aborted>>
Shows(t, p) == page' = [page EXCEPT ![t] = p]

Requests(t, p, operation) ==
  LET e == CHOOSE x \in Slots : at[x] = "idle" IN
    /\ \E x \in Slots : at[x] = "idle"
    /\ Goes(e, "sent")
    /\ arg' = [arg EXCEPT ![e] =
                 [op |-> operation, sid |-> p.sid, ans |-> p.cand, tab |-> t,
                  doc |-> p.doc, conv |-> p.conv, ok |-> FALSE]]

LoadPage(t) ==
  /\ t \in open /\ enabled
  /\ LET p == [NewPage(t) EXCEPT !.doc = page[t].doc + 1, !.conv = page[t].conv] IN
     Shows(t, p) /\ Requests(t, p, "hello")
  /\ UNCHANGED <<turns, open>>
  /\ WorkerUnchanged

\* The URL of the tab changes: hello again, with the card as it is.
UrlChanges(t) ==
  /\ page[t].doc # 0
  /\ LET p == [page[t] EXCEPT !.conv = @ + 1] IN
     Shows(t, p) /\ Requests(t, p, "hello")
  /\ UNCHANGED <<turns, open>>
  /\ WorkerUnchanged

\* The buttons of the card.
Buttons(p) ==
  IF p.sid = None THEN {}
  ELSE {"dismiss"} \cup (IF p.phase = "review" THEN {"place"} ELSE {})
         \cup (IF p.phase = "ready" /\ p.cand # None THEN {"return"} ELSE {})

\* "Place in composer".
PlacePrompt(t) ==
  LET p == page[t] IN
  /\ "place" \in Buttons(p)
  /\ Shows(t, [p EXCEPT !.phase = "staged"]) /\ Requests(t, p, "staged")
  /\ UNCHANGED <<turns, open>>
  /\ WorkerUnchanged

HasNewTurn(t) == turns[t] > page[t].base

\* detectResponse(): once ChatGPT has responded, a turn after the baseline is
\* reported as the candidate.  It is called again with every change of the page
\* until the worker has answered.
DetectResponse(t) ==
  LET p == page[t] IN
  /\ p.sid # None /\ p.phase = "staged" /\ HasNewTurn(t)
  /\ Requests(t, [p EXCEPT !.cand = [turn |-> turns[t], of |-> p.sid]], "ready")
  /\ UNCHANGED pages
  /\ WorkerUnchanged

\* "Use this response in Greenways".
ReturnResponse(t) ==
  LET p == page[t] IN
  /\ "return" \in Buttons(p)
  /\ Requests(t, p, "returned")
  /\ UNCHANGED pages
  /\ WorkerUnchanged

\* "Cancel request", on the card of any phase.
Dismiss(t) ==
  LET p == page[t] IN
  /\ "dismiss" \in Buttons(p)
  /\ Shows(t, Cleared(p)) /\ Requests(t, p, "dismissed")
  /\ UNCHANGED <<turns, open>>
  /\ WorkerUnchanged

\* What an answer of the worker changes in the page that asked.
Answered(p, t, m) ==
  CASE m.op = "hello" /\ m.sid # None -> Card(p, t, m.sid)
    [] m.op = "ready" -> [p EXCEPT !.cand = m.ans, !.phase = "ready"]
    [] m.op = "returned" -> [p EXCEPT !.phase = "returned", !.wipe = TRUE]
    [] OTHER -> p

PageAnswered(e) ==
  LET m == arg[e]  p == page[m.tab] IN
  /\ at[e] = "answering"
  /\ Shows(m.tab, IF m.ok /\ p.doc = m.doc THEN Answered(p, m.tab, m) ELSE p)
  /\ Goes(e, "idle") /\ arg' = [arg EXCEPT ![e] = None]
  /\ UNCHANGED <<turns, open>>
  /\ WorkerUnchanged

\* 1600 ms after a return the card is taken away, whichever it is then.
Wipe(t) ==
  /\ page[t].wipe
  /\ Shows(t, [Cleared(page[t]) EXCEPT !.wipe = FALSE])
  /\ UNCHANGED <<turns, open, at, arg>>
  /\ WorkerUnchanged

\* The person sends a prompt, placed or their own, and ChatGPT responds.
Responds(t) ==
  /\ t \in open /\ turns[t] < MaxTurns
  /\ turns' = [turns EXCEPT ![t] = @ + 1]
  /\ UNCHANGED <<page, open, at, arg>>
  /\ WorkerUnchanged

-----------------------------------------------------------------------------
Tick ==
  /\ now < MaxTime /\ now' = now + 1
  /\ UNCHANGED <<asked, store, enabled, pages, workerState>>

\* The browser stops the worker: its handlers and its memory are gone, and
\* whoever waits for an answer is told so.
InHand(p) == at[p] \notin {"idle", "waiting", "done", "answering"}

WorkerStops ==
  /\ \E p \in Procs : InHand(p)
  /\ at' = [p \in Procs |-> IF ~ InHand(p) THEN at[p]
                            ELSE IF p \in Slots THEN "answering" ELSE "done"]
  /\ reply' = [c \in Callers |-> IF InHand(c) THEN "lost" ELSE reply[c]]
  /\ snapshot' = [p \in Procs |-> Nothing]
  /\ registered' = [i \in RequestIds |-> None]
  /\ UNCHANGED <<now, asked, store, enabled, pages, arg, aborted>>

CallStep(c) ==
  \/ Register(c) \/ TimesOut(c) \/ (aborted[c] # "no" /\ Fetched(c))
  \/ Replay(c) \/ PickTab(c) \/ NoTab(c) \/ Create(c)
  \/ Stage(c) \/ Poll(c) \/ PollAnswered(c) \/ Expire(c)
CancelStep(k) == CancelRequest(k) \/ CancelCurrent(k) \/ Expire(k)
SwitchStep(w) == DisableCancels(w) \/ Disabled(w)
SlotStep(e) == PageRead(e) \/ PageApply(e) \/ PageHello(e) \/ PageAnswered(e) \/ Expire(e)
PageStep(t) ==
  \/ (page[t].doc = 0 /\ LoadPage(t)) \/ PlacePrompt(t)
  \/ DetectResponse(t) \/ ReturnResponse(t) \/ Wipe(t) \/ Responds(t)

Upset ==
  \/ \E c \in Callers : Deny(c)
  \/ \E k \in Cancels : Cancel(k)
  \/ \E w \in Switches : SetEnabled(w)
  \/ \E t \in Tabs : (page[t].doc # 0 /\ LoadPage(t)) \/ UrlChanges(t) \/ Dismiss(t)
  \/ WorkerStops

\* What may come in between is bounded: MaxUpsets counts those steps, each call
\* after the first, and each page request that overlaps another.
Beyond(n) == IF n > 1 THEN n - 1 ELSE 0
Crowd == Beyond(Cardinality({c \in Callers : at[c] # "idle"}))
           + Beyond(Cardinality({e \in Slots : at[e] # "idle"}))

Counts(n) ==
  /\ upsets' = upsets + n + (IF Crowd' > Crowd THEN Crowd' - Crowd ELSE 0)
  /\ upsets' <= MaxUpsets

ServiceNext ==
  \/ \E c \in Callers : (CallStep(c) \/ Generate(c) \/ Look(c) \/ Fetched(c) \/ Refuse(c)) /\ Counts(0)
  \/ \E k \in Cancels : CancelStep(k) /\ Counts(0)
  \/ \E w \in Switches : SwitchStep(w) /\ Counts(0)
  \/ \E e \in Slots : SlotStep(e) /\ Counts(0)
  \/ \E t \in Tabs : PageStep(t) /\ Counts(0)
  \/ Tick /\ Counts(0)
  \/ Upset /\ Counts(1)

ServiceSpec == ServiceInit /\ [][ServiceNext]_serviceVars

\* The worker goes on with a call that was made, and the clock goes on; people
\* do as they please, and a provider may never answer.
ServiceFairness == 
  /\ WF_serviceVars(Tick /\ UNCHANGED upsets)
  /\ \A c \in Callers : WF_serviceVars(CallStep(c) /\ UNCHANGED upsets)

ServiceFairSpec == ServiceSpec /\ ServiceFairness

-----------------------------------------------------------------------------
(* Properties. *)

\* What a session returns was observed in its page while its own prompt was
\* placed: not under another session, whose request was under way when the card
\* changed.
ReturnsOwnAnswer ==
  \A s \in Sessions : store[s] # None /\ store[s].out # None => store[s].out.of = s

\* A call that was made comes to an end: a provider that never answers is given
\* up at the timeout, and a foreground session nobody finishes is read as
\* expired by the caller that polls it.
RequestsEnd ==
  \A c \in Callers :
    at[c] # "idle" ~> (at[c] = "done" \/ (at[c] = "waiting" /\ reply[c] \in Terminal))

\* A session that has ended stays as it ended, as the state machine of
\* protocol/chatgpt-provider.md has it.  Violated: a handler saves what it read
\* before the session ended.
EndedStays ==
  [][\A s \in Sessions : store[s] # None /\ store[s].state \in Terminal =>
       store'[s].state = store[s].state]_serviceVars
=============================================================================
