---------------------------- MODULE RemoteHost ----------------------------
(* The remote Hara host of the Chrome extension: the outbound relay client *)
(* (extension/hara-chrome/src/remote-host-client.js), the restricted       *)
(* executor it drives (remote-sandbox-executor.js), and the runtime        *)
(* factory (remote-sandbox-wasm.js).  A session is one start() and the     *)
(* loop it begins; the loop registers, submits a pending result, polls and *)
(* handles one command, and starts again after a lost exchange.            *)
(*                                                                         *)
(* The relay is external and works on one request at a time.  It repeats a *)
(* command until the host acknowledges it or answers the request, and      *)
(* starts again with the execute command when the host registers.          *)
EXTENDS Naturals, Sequences, FiniteSets, SequencesExt

CONSTANTS
  Requests,       \* execution requests, each under one execute command
  Stoppers,       \* who calls stop() and close(), one call after another
  Reasons,        \* reasons of a cancel command
  HistoryLimit,   \* entries each of the client's maps keeps
  MaxSessions,    \* bound: start() calls that begin a loop
  MaxFaults,      \* bound: exchanges lost, answers refused, relay restarts
  RepeatsAnswered,  \* whether a restarted relay repeats answered requests
  Nil

ASSUME RemoteHostAssumption ==
  /\ Reasons \subseteq {"client-cancelled", "deadline-exceeded", "relay-closing"}
  /\ HistoryLimit \in Nat \ {0} /\ MaxSessions \in Nat /\ MaxFaults \in Nat
  /\ RepeatsAnswered \in BOOLEAN

VARIABLES
  desired, closed,
  controller,     \* session of lifecycleController, 0 for null
  promise,        \* session of loopPromise, 0 for null
  loop,           \* where the loop of a session stands
  sent,           \* what the exchange of a loop carries
  aborted,        \* the signal of a session
  ack,            \* acknowledgedCommandId
  active, pending, seenCommands, seenRequests, terminals,
  task,           \* executor.execute of a request in a session
  runtime,        \* the runtime that execution owns
  stop,           \* where a caller's stop() or close() stands
  relay,          \* the request the relay works on
  answers,        \* results the relay received, never forgotten
  cancelled,      \* requests whose cancel command the client took
  begun,          \* executions begun for a request in a session
  faults

lifecycle == <<desired, closed, controller, promise, aborted>>
history == <<seenCommands, seenRequests, terminals>>
executor == <<task, runtime, begun>>
external == <<relay, answers, cancelled>>
remoteVars == <<lifecycle, loop, sent, ack, active, pending, history, executor,
          stop, external, faults>>

Sessions == 1..MaxSessions
Statuses == {"completed", "failed", "cancelled", "timed-out"}
Working == {"digest", "creating", "calling"}

Command(kind, r, reason) == [kind |-> kind, req |-> r, reason |-> reason]
NoCommand == Command("idle", Nil, Nil)
Execute(r) == Command("execute", r, Nil)
Cancels(r) == {Command("cancel", r, reason) : reason \in Reasons}
Commands == {Execute(r) : r \in Requests} \cup UNION {Cancels(r) : r \in Requests}
Result(r, s, status) == [req |-> r, session |-> s, status |-> status]
Results == [req : Requests, session : Sessions, status : Statuses]
Entries == [req : Requests, session : Sessions, reason : Reasons \cup {"relay-closing", Nil}]

ASSUME NilAssumption ==
  /\ Nil \notin Requests /\ Nil \notin Reasons \cup {"relay-closing"}
  /\ Nil \notin Commands /\ Nil \notin Results /\ Nil \notin Entries

NoWork(lost) ==
  [req |-> Nil, executed |-> FALSE, reason |-> Nil, told |-> FALSE, lost |-> lost]
NoStop == [pc |-> "idle", kind |-> Nil, entry |-> Nil, promise |-> 0]

Has(window, x) == \E i \in DOMAIN window : window[i] = x
Newest(window) ==
  IF Len(window) > HistoryLimit THEN Tail(window) ELSE window
\* boundedMapSet: a key that is set again becomes the newest
Renewed(window, x) == Newest(Append(window, x))
Without(window, same) ==
  IF same = {} THEN window ELSE RemoveAt(window, CHOOSE i \in same : TRUE)
Remembered(window, t) ==
  Renewed(Without(window, {i \in DOMAIN window : window[i].req = t.req}), t)
Retained(r) == {t \in {terminals[i] : i \in DOMAIN terminals} : t.req = r}

RemoteInit ==
  /\ desired = FALSE /\ closed = FALSE /\ controller = 0 /\ promise = 0
  /\ loop = [s \in Sessions |-> "none"]
  /\ sent = [s \in Sessions |-> Nil]
  /\ aborted = [s \in Sessions |-> FALSE]
  /\ ack = Nil /\ active = Nil /\ pending = Nil
  /\ seenCommands = <<>> /\ seenRequests = <<>> /\ terminals = <<>>
  /\ task = [s \in Sessions |-> [r \in Requests |-> "none"]]
  /\ runtime = [s \in Sessions |-> [r \in Requests |-> "none"]]
  /\ begun = [s \in Sessions |-> [r \in Requests |-> 0]]
  /\ stop = [c \in Stoppers |-> NoStop]
  /\ relay = NoWork(FALSE) /\ answers = {} /\ cancelled = {} /\ faults = 0

-----------------------------------------------------------------------------
(* The executor.  A race of the work with its cancellation: whichever      *)
(* comes first fixes the outcome, the runtime is closed afterwards.        *)

\* cancel() of a running execution; of any other it does nothing
Abandoned(t, reason) ==
  IF t \notin Working THEN t
  ELSE IF reason = "deadline-exceeded" THEN "timed-out" ELSE "cancelled"

Busy(r) == \E s \in Sessions : task[s][r] \in Working

BeginExecution(s, r) ==
  /\ task' = [task EXCEPT ![s][r] = IF closed \/ Busy(r) THEN "failed" ELSE "digest"]
  /\ begun' = [begun EXCEPT ![s][r] = @ + 1]
  /\ UNCHANGED runtime

Idled == <<lifecycle, loop, sent, ack, active, pending, history, stop, external, faults>>

\* The request does not fit the descriptor of the host, or its source has another digest.
Refuses(s, r) == task' = [task EXCEPT ![s][r] = "failed"] /\ UNCHANGED runtime

\* The request is checked, then a runtime is asked for.
CheckDigest(s, r) ==
  /\ task[s][r] = "digest"
  /\ \/ Refuses(s, r)
     \/ /\ task' = [task EXCEPT ![s][r] = "creating"]
        /\ runtime' = [runtime EXCEPT ![s][r] = "creating"]
  /\ UNCHANGED <<Idled, begun>>

\* Mutant of Arrived: a late runtime is kept.
ArrivedOpen(t) == "open"

\* A runtime that arrives after its execution was cancelled is closed.
Arrived(t) == IF t = "creating" THEN "open" ELSE "closed"

CreateRuntime(s, r) ==
  /\ runtime[s][r] = "creating"
  /\ \/ /\ runtime' = [runtime EXCEPT ![s][r] = Arrived(task[s][r])]
        /\ task' = [task EXCEPT ![s][r] = IF @ = "creating" THEN "calling" ELSE @]
     \/ /\ runtime' = [runtime EXCEPT ![s][r] = "none"]
        /\ task' = [task EXCEPT ![s][r] = IF @ = "creating" THEN "failed" ELSE @]
  /\ UNCHANGED <<Idled, begun>>

\* A value is projected within the bounds of the request, or refused.
Outcomes == {"completed", "failed"}

\* The call returns, fails, or the wall clock limit ends the execution.
Evaluate(s, r) ==
  /\ \/ task[s][r] = "calling" /\ \E o \in Outcomes :
          task' = [task EXCEPT ![s][r] = o]
     \/ task[s][r] \in Working /\ task' = [task EXCEPT ![s][r] = "timed-out"]
  /\ UNCHANGED <<Idled, runtime, begun>>

\* The outcome after a cancellation the client asked for.
Final(entry, outcome) ==
  CASE entry.reason = Nil -> outcome
    [] entry.reason = "deadline-exceeded" -> "timed-out"
    [] OTHER -> "cancelled"

Released(x) == IF x = "open" THEN "closed" ELSE x
OwnEntry(s, r) == active # Nil /\ active.session = s /\ active.req = r

\* The runtime is closed, and the client takes the result of the request
\* that is still its active one; a result that differs from the one it has
\* retained ends the session.
Settle(s, r) ==
  /\ task[s][r] \in Statuses
  /\ task' = [task EXCEPT ![s][r] = "settled"]
  /\ runtime' = [runtime EXCEPT ![s][r] = Released(@)]
  /\ IF ~OwnEntry(s, r)
     THEN UNCHANGED <<lifecycle, pending, history>>
     ELSE LET t == Result(r, s, Final(active, task[s][r])) IN
          IF Retained(r) \subseteq {t}
          THEN /\ terminals' = Remembered(terminals, t)
               /\ pending' = t
               /\ UNCHANGED <<lifecycle, seenCommands, seenRequests>>
          ELSE /\ desired' = FALSE
               /\ aborted' = [x \in Sessions |-> aborted[x] \/ x = controller]
               /\ UNCHANGED <<closed, controller, promise, pending, history>>
  /\ UNCHANGED <<loop, sent, ack, active, begun, stop, external, faults>>

-----------------------------------------------------------------------------
(* start, stop and close                                                   *)

Start(s) ==
  /\ ~closed /\ ~desired /\ promise = 0
  /\ loop[s] = "none" /\ \A x \in 1..(s - 1) : loop[x] # "none"
  /\ desired' = TRUE /\ controller' = s /\ promise' = s
  /\ loop' = [loop EXCEPT ![s] = "register"]
  /\ UNCHANGED <<closed, aborted, sent, ack, active, pending, history, executor,
                 stop, external, faults>>

AbortActive ==
  IF active = Nil \/ active.reason # Nil
  THEN UNCHANGED <<active, task>>
  ELSE /\ active' = [active EXCEPT !.reason = "relay-closing"]
       /\ task' = [task EXCEPT ![active.session][active.req] =
                     Abandoned(@, "relay-closing")]

\* executor.close() cancels what runs; the client's own stop came before
CloseExecutor(t) ==
  [s \in Sessions |-> [r \in Requests |-> Abandoned(t[s][r], "relay-closing")]]

\* What close() adds to the end of stop()
Ends(kind) ==
  IF kind = "close"
  THEN closed' = TRUE /\ task' = CloseExecutor(task)
  ELSE UNCHANGED <<closed, task>>

StopStopped(c, kind) ==
  /\ stop[c] = NoStop /\ ~closed /\ ~desired /\ promise = 0
  /\ Ends(kind)
  /\ UNCHANGED <<desired, controller, promise, aborted, loop, sent, ack, active,
                 pending, history, runtime, begun, stop, external, faults>>

StopBegins(c, kind) ==
  /\ stop[c] = NoStop /\ ~closed /\ (desired \/ promise # 0)
  /\ desired' = FALSE
  /\ stop' = [stop EXCEPT ![c] = [pc |-> "loop", kind |-> kind, entry |-> active,
                                 promise |-> promise]]
  /\ AbortActive
  /\ aborted' = [x \in Sessions |-> aborted[x] \/ x = controller]
  /\ UNCHANGED <<closed, controller, promise, loop, sent, ack, pending, history,
                 runtime, begun, external, faults>>

StopSawLoopEnd(c) ==
  /\ stop[c].pc = "loop"
  /\ stop[c].promise # 0 => loop[stop[c].promise] = "ended"
  /\ stop' = [stop EXCEPT ![c].pc = IF stop[c].entry = Nil THEN "clear" ELSE "task"]
  /\ UNCHANGED <<lifecycle, loop, sent, ack, active, pending, history, executor,
                 external, faults>>

\* The task of the entry has ended, or the grace period has.
StopClears(c) ==
  /\ stop[c].pc \in {"task", "clear"}
  /\ stop' = [stop EXCEPT ![c] = NoStop]
  /\ ack' = Nil /\ active' = Nil /\ pending' = Nil
  /\ seenCommands' = <<>> /\ seenRequests' = <<>> /\ terminals' = <<>>
  /\ controller' = 0 /\ promise' = 0
  /\ Ends(stop[c].kind)
  /\ UNCHANGED <<desired, aborted, loop, sent, runtime, begun, external, faults>>

-----------------------------------------------------------------------------
(* The loop of a session                                                   *)

At(s, pc) == loop[s] = pc
Goes(s, pc) == loop' = [loop EXCEPT ![s] = pc] /\ sent' = [sent EXCEPT ![s] = Nil]
Runs(s) == desired /\ ~aborted[s]

\* run's catch: a fatal error ends the session unless it is ending already
Fault(s) == Goes(s, "ended") /\ desired' = (desired /\ aborted[s])
\* Mutant of Broken: a lost exchange ends the loop.
GivesUp(s) == Goes(s, "ended")
\* any other error: register again after a delay
Broken(s) ==
  IF Runs(s) THEN Goes(s, "backoff") ELSE Goes(s, "ended")

Fails == faults < MaxFaults /\ faults' = faults + 1
\* An exchange that a stop aborts is not a fault of the network.
Lost(s) == IF Runs(s) THEN Fails ELSE UNCHANGED faults

Register(s) ==
  /\ At(s, "register")
  /\ relay' = [relay EXCEPT !.executed = FALSE, !.told = FALSE]
  /\ Goes(s, "top")
  /\ UNCHANGED <<lifecycle, ack, active, pending, history, executor, stop,
                 answers, cancelled, faults>>

\* No answer, an abort of the request, or an answer worth another attempt
Unanswered(s) ==
  /\ loop[s] \in {"register", "poll", "read", "submit"} /\ Broken(s) /\ Lost(s)
  /\ UNCHANGED <<lifecycle, ack, active, pending, history, executor, stop, external>>

\* An answer the client refuses: another identity, a changed command, a
\* command that does not parse, a status that forbids another attempt
Refused(s) ==
  /\ loop[s] \in {"register", "poll", "submit"} /\ Runs(s)
  /\ Fault(s) /\ Fails
  /\ UNCHANGED <<closed, controller, promise, aborted, ack, active, pending,
                 history, executor, stop, external>>

Reconnect(s) ==
  /\ At(s, "backoff")
  /\ IF Runs(s) THEN Goes(s, "register") ELSE Goes(s, "ended")
  /\ UNCHANGED <<lifecycle, ack, active, pending, history, executor, stop, external, faults>>

Send(s) ==
  /\ At(s, "top")
  /\ IF ~Runs(s) THEN Goes(s, "ended")
     ELSE /\ loop' = [loop EXCEPT ![s] = IF pending # Nil THEN "submit" ELSE "poll"]
          /\ sent' = [sent EXCEPT ![s] = IF pending # Nil THEN pending ELSE ack]
  /\ UNCHANGED <<lifecycle, ack, active, pending, history, executor, stop, external, faults>>

\* What the relay makes of a poll that reaches it, and what it answers
SeesAck(w, a) ==
  CASE a = Execute(w.req) -> [w EXCEPT !.executed = TRUE]
    [] a \in Cancels(w.req) -> [w EXCEPT !.told = TRUE]
    [] OTHER -> w
Offer(w) ==
  IF w.req = Nil THEN NoCommand
  ELSE CASE ~w.executed -> Execute(w.req)
         [] w.executed /\ w.reason # Nil /\ ~w.told -> Command("cancel", w.req, w.reason)
         [] OTHER -> NoCommand
TakesAck(s) ==
  /\ At(s, "poll")
  /\ relay' = SeesAck(relay, sent[s])
  /\ UNCHANGED <<answers, cancelled>>

\* The answer to a poll begins to arrive: from here the body is read with
\* no abort signal and no timeout.
PollAnswered(s) ==
  /\ TakesAck(s) /\ ~aborted[s]
  /\ loop' = [loop EXCEPT ![s] = "read"]
  /\ sent' = [sent EXCEPT ![s] = Offer(SeesAck(relay, sent[s]))]
  /\ UNCHANGED <<lifecycle, ack, active, pending, history, executor, stop, faults>>

PollAnswerLost(s) ==
  /\ TakesAck(s) /\ Broken(s) /\ Lost(s)
  /\ UNCHANGED <<lifecycle, ack, active, pending, history, executor, stop>>

Seen(command) ==
  seenCommands' = IF Has(seenCommands, command) THEN seenCommands
                  ELSE Renewed(seenCommands, command)
SeenRequest(r) ==
  seenRequests' = IF Has(seenRequests, r) THEN seenRequests
                  ELSE Renewed(seenRequests, r)

\* The wait uses the signal of lifecycleController.  The answer to the poll
\* has also cleared the acknowledgement that the poll carried.
HandleIdle(s) ==
  /\ At(s, "read") /\ sent[s] = NoCommand
  /\ ack' = Nil
  /\ IF controller = 0 THEN Broken(s) ELSE Goes(s, "top")
  /\ UNCHANGED <<lifecycle, active, pending, history, executor, stop, external, faults>>

\* Mutant of Duplicate: only the command window is asked.
DuplicateCommand(r) == Has(seenCommands, Execute(r))
Duplicate(r) == Has(seenCommands, Execute(r)) \/ Has(seenRequests, r)

\* A new request is begun; one already active is acknowledged; one already
\* answered is answered again; anything else is fatal.
HandleExecute(s) ==
  LET command == sent[s]
      r == command.req
      mine == active # Nil /\ active.req = r
  IN /\ At(s, "read") /\ command.kind = "execute"
     /\ Seen(command) /\ SeenRequest(r)
     /\ \/ /\ ~Duplicate(r) /\ active = Nil
           /\ active' = [req |-> r, session |-> s, reason |-> Nil]
           /\ ack' = command /\ BeginExecution(s, r) /\ Goes(s, "top")
           /\ UNCHANGED <<pending, desired>>
        \/ /\ Duplicate(r) /\ mine
           /\ ack' = command /\ Goes(s, "top")
           /\ UNCHANGED <<active, pending, executor, desired>>
        \/ /\ Duplicate(r) /\ ~mine /\ Retained(r) # {}
           /\ pending' = CHOOSE t \in Retained(r) : TRUE
           /\ ack' = command /\ Goes(s, "top")
           /\ UNCHANGED <<active, executor, desired>>
        \/ /\ IF Duplicate(r) THEN ~mine /\ Retained(r) = {} ELSE active # Nil
           /\ ack' = Nil /\ Fault(s)
           /\ UNCHANGED <<active, pending, executor>>
     /\ UNCHANGED <<closed, controller, promise, aborted, terminals, stop, external, faults>>

\* Mutant of MayCancel: the status of a pending result is not looked at.
CancelsAnyActive(command) == active # Nil /\ active.req = command.req

\* A cancel that differs from the one delivered before, that does not find
\* its request, or finds it answered with another status, is fatal; one
\* already delivered is acknowledged.
MayCancel(command) ==
  /\ \A other \in Cancels(command.req) \ {command} : ~Has(seenCommands, other)
  /\ active # Nil /\ active.req = command.req
  /\ pending # Nil => pending.status \in {"cancelled", "timed-out"}

HandleCancel(s) ==
  LET command == sent[s]
      again == Has(seenCommands, command) \/ active.reason # Nil
  IN /\ At(s, "read") /\ command.kind = "cancel"
     /\ Seen(command)
     /\ IF ~MayCancel(command)
        THEN ack' = Nil /\ Fault(s) /\ UNCHANGED <<active, task, cancelled>>
        ELSE /\ ack' = command /\ Goes(s, "top") /\ UNCHANGED desired
             /\ cancelled' = cancelled \cup {[req |-> command.req, session |-> s]}
             /\ IF again THEN UNCHANGED <<active, task>>
                ELSE /\ active' = [active EXCEPT !.reason = command.reason]
                     /\ task' = [task EXCEPT ![active.session][active.req] =
                                   Abandoned(@, command.reason)]
     /\ UNCHANGED <<closed, controller, promise, aborted, pending, seenRequests,
                    terminals, runtime, begun, stop, relay, answers, faults>>

\* The relay has a result: the request is over for it.
TakesResult(t) ==
  /\ answers' = answers \cup {t}
  /\ relay' = IF relay.req = t.req THEN NoWork(relay.lost) ELSE relay
  /\ UNCHANGED cancelled

SubmitAccepted(s) ==
  /\ At(s, "submit") /\ TakesResult(sent[s])
  /\ IF pending # sent[s]
     THEN Fault(s) /\ UNCHANGED <<pending, ack, active>>
     ELSE Goes(s, "top") /\ pending' = Nil /\ ack' = Nil /\ active' = Nil /\ UNCHANGED desired
  /\ UNCHANGED <<closed, controller, promise, aborted, history, executor, stop, faults>>

SubmitAnswerLost(s) ==
  /\ At(s, "submit") /\ TakesResult(sent[s]) /\ Broken(s) /\ Lost(s)
  /\ UNCHANGED <<lifecycle, ack, active, pending, history, executor, stop>>

-----------------------------------------------------------------------------
(* The relay                                                               *)

Client == <<lifecycle, loop, sent, ack, active, pending, history, executor, stop, faults>>

\* A request that was answered may be asked again, under the same command.
AskFor(r) ==
  /\ relay.req = Nil
  /\ relay.lost /\ ~RepeatsAnswered => \A t \in answers : t.req # r
  /\ relay' = [relay EXCEPT !.req = r]
  /\ UNCHANGED <<Client, answers, cancelled>>

WantCancelled(reason) ==
  /\ relay.req # Nil /\ relay.reason = Nil
  /\ relay' = [relay EXCEPT !.reason = reason]
  /\ UNCHANGED <<Client, answers, cancelled>>

\* The relay forgets the request it works on.
RelayRestarts ==
  /\ relay.req # Nil /\ relay' = NoWork(TRUE) /\ Fails
  /\ UNCHANGED <<lifecycle, loop, sent, ack, active, pending, history, executor,
                 stop, answers, cancelled>>

ExecutorStep ==
  \E s \in Sessions, r \in Requests :
    CheckDigest(s, r) \/ CreateRuntime(s, r) \/ Evaluate(s, r) \/ Settle(s, r)

LoopStep ==
  \E s \in Sessions :
    \/ Register(s) \/ Unanswered(s) \/ Refused(s) \/ Reconnect(s) \/ Send(s)
    \/ PollAnswered(s) \/ PollAnswerLost(s)
    \/ HandleIdle(s) \/ HandleExecute(s) \/ HandleCancel(s)
    \/ SubmitAccepted(s) \/ SubmitAnswerLost(s)

StopStep ==
  \E c \in Stoppers :
    \/ \E kind \in {"stop", "close"} : StopStopped(c, kind) \/ StopBegins(c, kind)
    \/ StopSawLoopEnd(c) \/ StopClears(c)

RelayStep ==
  \/ \E r \in Requests : AskFor(r)
  \/ \E reason \in Reasons : WantCancelled(reason)
  \/ RelayRestarts

RemoteNext == ExecutorStep \/ LoopStep \/ StopStep \/ RelayStep \/ \E s \in Sessions : Start(s)

RemoteSpec == RemoteInit /\ [][RemoteNext]_remoteVars

(* The loop and the executor are driven by the event loop; every wait they *)
(* make is bounded by a timer.  Nobody has to start, stop or ask.          *)
RemoteFairness ==
  /\ \A s \in Sessions :
       WF_remoteVars(\/ Register(s) \/ Unanswered(s) \/ Reconnect(s) \/ Send(s)
               \/ PollAnswered(s) \/ HandleIdle(s) \/ HandleExecute(s)
               \/ HandleCancel(s) \/ SubmitAccepted(s))
  /\ \A s \in Sessions, r \in Requests :
       WF_remoteVars(CheckDigest(s, r) \/ CreateRuntime(s, r) \/ Evaluate(s, r) \/ Settle(s, r))

RemoteFairSpec == RemoteSpec /\ RemoteFairness

-----------------------------------------------------------------------------
(* Properties                                                              *)

\* Type invariant: the kinds of value each variable of the host holds.
RemoteTypeOK ==
  /\ desired \in BOOLEAN /\ closed \in BOOLEAN
  /\ controller \in 0..MaxSessions /\ promise \in 0..MaxSessions
  /\ loop \in [Sessions -> {"none", "register", "top", "poll", "read", "submit",
                            "backoff", "ended"}]
  /\ ack \in Commands \cup {Nil}
  /\ active \in Entries \cup {Nil} /\ pending \in Results \cup {Nil}
  /\ task \in [Sessions -> [Requests -> Working \cup Statuses \cup {"none", "settled"}]]
  /\ runtime \in [Sessions -> [Requests -> {"none", "creating", "open", "closed"}]]
  /\ answers \subseteq Results

\* Within a session no request is executed twice, whatever the relay repeats
\* after lost answers, new registrations and requests asked again.
ExecutedOnce == \A s \in Sessions, r \in Requests : begun[s][r] <= 1

\* A request whose cancel the client took is never answered as if it had run
\* to its end, although its execution may have ended on its own while the
\* cancel was on its way.
CancelSettles ==
  \A x \in cancelled, t \in answers :
    t.req = x.req /\ t.session = x.session => t.status \in {"cancelled", "timed-out"}

\* An execution that is over holds no runtime, also when its runtime arrives
\* after it was cancelled or timed out.
NoRuntimeLeft ==
  \A s \in Sessions, r \in Requests :
    runtime[s][r] = "open" => task[s][r] \in Statuses \cup {"calling"}

\* Every execution that begins ends in a result the relay has, unless its
\* session was stopped or faulted first.
EveryRunAnswered ==
  \A s \in Sessions, r \in Requests :
    task[s][r] # "none" ~>
      (promise # s \/ ~desired \/ \E t \in answers : t.req = r /\ t.session = s)

\* extension/hara-chrome/docs/remote-hara-host.md:103 says that stopping aborts
\* active work: when no session is wanted and no stop is under way, every
\* execution was cancelled or is over.  Violated: a stop during the reading of a
\* poll's body leaves an execute command to be handled.
StoppedIsQuiet ==
  ~desired /\ promise = 0 =>
    \A s \in Sessions, r \in Requests : task[s][r] \notin Working
=============================================================================
