---------------------------- MODULE DaemonBridge ----------------------------
(***************************************************************************)
(* The connection card of the extension (extension/src/daemon-bridge.js    *)
(* and daemon-connection-surface.js), the native host that Chrome starts   *)
(* for it (services/browser-bridge) and the sessions that the host opens   *)
(* with greenwaysd.                                                        *)
(*                                                                         *)
(* Each port of the page is a host process of its own.  A host handles one *)
(* message at a time, in order; its socket to the daemon is its session.   *)
(* A request of the page that is not answered within ten seconds is given  *)
(* up, and its answer is dropped when it comes.  When the page leaves a    *)
(* port, stdin of the host ends; Chrome terminates the process in the end. *)
(*                                                                         *)
(* All failures of a connect or a refresh are one state here: the page     *)
(* treats every state but connecting and connected alike.  What a          *)
(* projection says of the daemon, the client and the identity, and how     *)
(* many requests a session still has, are left out.                        *)
(***************************************************************************)
EXTENDS Naturals, Sequences

CONSTANTS MaxHosts,     \* bound on the ports that the page opens
          MaxRequests,  \* bound on the requests of the page
          MaxFaults,    \* bound on failures, crashes and ended sessions
          Nil

ASSUME BridgeAssumption == Nil \notin Nat

VARIABLES
  shown,    \* the status that the page shows
  port,     \* the host the page is connected to
  request,  \* the requests of the page: command, port and state
  toHost,   \* per host: the requests it has not begun
  toPage,   \* per host: the answers its page has not received
  host,     \* the host processes
  session,  \* the sessions of the daemon: open or ended
  faults

bridgeVars == <<shown, port, request, toHost, toPage, host, session, faults>>
-----------------------------------------------------------------------------
Hosts == 1..MaxHosts
Commands == {"connect", "status", "disconnect"}

\* Only a connected status names a session (validateBridgeStatus).
Connected(s) == [state |-> "connected", session |-> s]
Empty(state) == [state |-> state, session |-> Nil]
Failed == Empty("daemon-unavailable")
Disconnected == Empty("disconnected")
States == {"connecting", "connected", "daemon-unavailable", "native-host-unavailable",
           "disconnected"}
Statuses == {Connected(s) : s \in 1..MaxRequests} \cup {Empty(state) : state \in States \ {"connected"}}

\* transport is a socket whose session is not yet the connection.
NotStarted == [at |-> "none", closing |-> FALSE, doing |-> Nil, step |-> "idle",
               connection |-> Nil, transport |-> Nil, status |-> Disconnected]
Started(at) == [NotStarted EXCEPT !.at = at]

BridgeTypeOK ==
  /\ shown \in Statuses
  /\ port \in Hosts \cup {Nil}
  /\ \A r \in DOMAIN request :
       /\ request[r].command \in Commands
       /\ request[r].port \in Hosts
       /\ request[r].at \in {"waiting", "settled", "late"}
  /\ \A h \in Hosts :
       /\ \A i \in DOMAIN toHost[h] : toHost[h][i] \in DOMAIN request
       /\ \A i \in DOMAIN toPage[h] : toPage[h][i].status \in Statuses
       /\ host[h].at \in {"none", "running", "missing", "gone"}
       /\ host[h].step \in {"idle", "opening", "projecting", "refreshing"}
       /\ host[h].connection \in DOMAIN session \cup {Nil}
       /\ host[h].status \in Statuses
  /\ \A s \in DOMAIN session : session[s] \in {"open", "ended"}
  /\ faults \in 0..MaxFaults

BridgeInit ==
  /\ shown = Disconnected
  /\ port = Nil
  /\ request = <<>>
  /\ toHost = [h \in Hosts |-> <<>>]
  /\ toPage = [h \in Hosts |-> <<>>]
  /\ host = [h \in Hosts |-> NotStarted]
  /\ session = <<>>
  /\ faults = 0

Fault == faults < MaxFaults /\ faults' = faults + 1
-----------------------------------------------------------------------------
(* The page.                                                                *)

Waiting(r) == r \in DOMAIN request /\ request[r].at = "waiting"

\* request(): the message goes to the host at once.
SendTo(command, h) ==
  /\ Len(request) < MaxRequests
  /\ request' = Append(request, [command |-> command, port |-> h, at |-> "waiting"])
  /\ toHost' = [toHost EXCEPT ![h] = Append(@, Len(request) + 1)]

\* ensurePort(): without a port Chrome starts another host, or finds none.
OpenPort(h) ==
  IF port # Nil
    THEN h = port /\ UNCHANGED <<host, faults>>
    ELSE /\ host[h].at = "none" /\ \A g \in 1..(h - 1) : host[g].at # "none"
         /\ \/ host' = [host EXCEPT ![h] = Started("running")] /\ UNCHANGED faults
            \/ host' = [host EXCEPT ![h] = Started("missing")] /\ Fault

\* The button of a card that neither is connected nor connects, or the opening of
\* the page.
Connect ==
  /\ shown.state \notin {"connecting", "connected"}
  /\ \E h \in Hosts : OpenPort(h) /\ SendTo("connect", h) /\ port' = h
  /\ shown' = Empty("connecting")
  /\ UNCHANGED <<toPage, session>>

\* The buttons of a connected card.
Press(command) ==
  /\ shown.state = "connected" /\ port # Nil
  /\ SendTo(command, port)
  /\ UNCHANGED <<shown, port, toPage, host, session, faults>>

\* Every pending request is rejected.
Settled(how) ==
  [r \in DOMAIN request |->
     IF Waiting(r) THEN [request[r] EXCEPT !.at = how] ELSE request[r]]
Settle(r, how) == request' = [request EXCEPT ![r].at = how]

\* The finally block of disconnect().
Leave ==
  /\ port' = Nil
  /\ request' = Settled("settled")
  /\ shown' = Disconnected

GivesUpOnly(r) == Settle(r, "late") /\ UNCHANGED <<shown, port>>
GivesUp(r) ==
  IF request[r].command = "disconnect" THEN Leave ELSE GivesUpOnly(r)
TimeOut(r) ==
  /\ Waiting(r)
  /\ GivesUp(r)
  /\ UNCHANGED <<toHost, toPage, host, session, faults>>

ShowsSuccess(m) ==
  IF ~Waiting(m.id) THEN UNCHANGED <<shown, port, request>>
  ELSE IF request[m.id].command = "disconnect" THEN Leave
  ELSE /\ shown' = IF m.status.state = "connected" \/ shown.state = "connecting"
                   THEN m.status ELSE shown
       /\ Settle(m.id, "settled") /\ UNCHANGED port
\* onMessage(): the status is shown and the request settled; the answer of a request
\* that was given up is dropped.
OnMessage(m) ==
  IF ~Waiting(m.id) THEN UNCHANGED <<shown, port, request>>
  ELSE IF request[m.id].command = "disconnect" THEN Leave
  ELSE shown' = m.status /\ Settle(m.id, "settled") /\ UNCHANGED port

Receive ==
  /\ port # Nil /\ toPage[port] # <<>>
  /\ OnMessage(Head(toPage[port]))
  /\ toPage' = [toPage EXCEPT ![port] = Tail(@)]
  /\ UNCHANGED <<toHost, host, session, faults>>

\* onDisconnect(): the host is gone, or was never there.  A disconnect() that waits
\* shows its own status.
HostLost ==
  /\ port # Nil /\ host[port].at \in {"missing", "gone"} /\ toPage[port] = <<>>
  /\ port' = Nil
  /\ request' = Settled("settled")
  /\ shown' = IF host[port].at = "missing"
                 /\ ~\E r \in DOMAIN request : Waiting(r) /\ request[r].command = "disconnect"
              THEN Empty("native-host-unavailable") ELSE Disconnected
  /\ UNCHANGED <<toHost, toPage, host, session, faults>>
-----------------------------------------------------------------------------
(* The host.                                                                *)

Closed(s) == IF s = Nil THEN session ELSE [session EXCEPT ![s] = "ended"]

\* The host has finished a message: it keeps and answers the status.
Answer(h, connection, status) ==
  /\ host' = [host EXCEPT ![h].doing = Nil, ![h].step = "idle", ![h].status = status,
                          ![h].connection = connection, ![h].transport = Nil]
  /\ toPage' = [toPage EXCEPT ![h] = IF port = h
                  THEN Append(@, [id |-> host[h].doing, status |-> status]) ELSE @]

At(h, step) == host[h].at = "running" /\ host[h].step = step

\* The next message of the queue.
Begin(h) ==
  /\ At(h, "idle") /\ host[h].doing = Nil /\ toHost[h] # <<>>
  /\ host' = [host EXCEPT ![h].doing = Head(toHost[h])]
  /\ toHost' = [toHost EXCEPT ![h] = Tail(@)]
  /\ UNCHANGED <<shown, port, request, toPage, session, faults>>

Does(h, command) ==
  At(h, "idle") /\ host[h].doing # Nil /\ request[host[h].doing].command = command

HandleConnect(h) ==
  /\ Does(h, "connect")
  /\ session' = Closed(host[h].connection)
  /\ host' = [host EXCEPT ![h].connection = Nil, ![h].step = "opening",
                          ![h].status = Empty("connecting")]
  /\ UNCHANGED <<shown, port, request, toHost, toPage, faults>>

HandleStatus(h) ==
  /\ Does(h, "status")
  /\ IF host[h].connection = Nil
       THEN Answer(h, Nil, host[h].status)
       ELSE host' = [host EXCEPT ![h].step = "refreshing"] /\ UNCHANGED toPage
  /\ UNCHANGED <<shown, port, request, toHost, session, faults>>

HandleDisconnect(h) ==
  /\ Does(h, "disconnect")
  /\ session' = Closed(host[h].connection)
  /\ Answer(h, Nil, Disconnected)
  /\ UNCHANGED <<shown, port, request, toHost, faults>>

\* DaemonBrowserConnection.connect(): the credential cannot be read or is not one of a
\* browser bridge, or the daemon is not there or does not accept it.
Refused(h) == Fault /\ Answer(h, Nil, Failed) /\ UNCHANGED session

OpenSession(h) ==
  /\ At(h, "opening")
  /\ \/ /\ session' = Append(session, "open")
        /\ host' = [host EXCEPT ![h].transport = Len(session) + 1, ![h].step = "projecting"]
        /\ UNCHANGED <<toPage, faults>>
     \/ Refused(h)
  /\ UNCHANGED <<shown, port, request, toHost>>

\* A request on the socket of the session is answered in time, exactly, and accepted.
Responds(s) == s # Nil /\ session[s] = "open"
Fails(s) == IF Responds(s) THEN Fault ELSE UNCHANGED faults

\* snapshot(): the status, the client and the identity, as far as a page may see them.
Snapshot(h, s) ==
  Responds(s) /\ Answer(h, s, Connected(s)) /\ UNCHANGED <<session, faults>>

\* The first snapshot: the session becomes the connection, or its socket is closed.
LeftOpen(h) == UNCHANGED session
Dropped(h) == session' = Closed(host[h].transport)
Project(h) ==
  /\ At(h, "projecting")
  /\ \/ Snapshot(h, host[h].transport)
     \/ Fails(host[h].transport) /\ Dropped(h) /\ Answer(h, Nil, Failed)
  /\ UNCHANGED <<shown, port, request, toHost>>

\* refresh(): a snapshot of the connection, which is closed when it fails.
Refresh(h) ==
  /\ At(h, "refreshing")
  /\ \/ Snapshot(h, host[h].connection)
     \/ /\ Fails(host[h].connection) /\ session' = Closed(host[h].connection)
        /\ Answer(h, Nil, Failed)
  /\ UNCHANGED <<shown, port, request, toHost>>

\* stdin ends: the connection is closed.  What is in progress, and the messages that
\* were read before, go on.
StdinEnds(h) ==
  /\ host[h].at = "running" /\ port # h /\ ~host[h].closing
  /\ session' = Closed(host[h].connection)
  /\ host' = [host EXCEPT ![h].closing = TRUE, ![h].connection = Nil, ![h].status = Disconnected]
  /\ UNCHANGED <<shown, port, request, toHost, toPage, faults>>

\* The process ends, with its sockets: terminated by Chrome, or by a crash.
Exit(h) ==
  /\ host[h].at = "running"
  /\ IF port = h THEN Fault ELSE UNCHANGED faults
  /\ host' = [host EXCEPT ![h] = Started("gone")]
  /\ session' = [s \in DOMAIN session |->
                   IF s \in {host[h].connection, host[h].transport} THEN "ended" ELSE session[s]]
  /\ UNCHANGED <<shown, port, request, toHost, toPage>>

\* The daemon ends a session: it expired, was used up, or the daemon stopped.
SessionEnds ==
  /\ Fault
  /\ \E s \in DOMAIN session : session[s] = "open" /\ session' = [session EXCEPT ![s] = "ended"]
  /\ UNCHANGED <<shown, port, request, toHost, toPage, host>>

HostStep(h) ==
  \/ Begin(h) \/ HandleConnect(h) \/ HandleStatus(h) \/ HandleDisconnect(h)
  \/ OpenSession(h) \/ Project(h) \/ Refresh(h)

BridgeNext ==
  \/ Connect \/ Press("status") \/ Press("disconnect") \/ Receive \/ HostLost
  \/ \E r \in 1..MaxRequests : TimeOut(r)
  \/ \E h \in Hosts : HostStep(h) \/ StdinEnds(h) \/ Exit(h)
  \/ SessionEnds

BridgeSpec == BridgeInit /\ [][BridgeNext]_bridgeVars

\* Timers fire and Chrome delivers what a host wrote; nothing makes a host answer.
BridgeFairSpec ==
  BridgeSpec /\ WF_bridgeVars(Receive) /\ WF_bridgeVars(\E r \in 1..MaxRequests : TimeOut(r))
-----------------------------------------------------------------------------
InFlight == \E r \in DOMAIN request : Waiting(r)
GaveUpOnPort == \E r \in DOMAIN request : request[r].at = "late" /\ request[r].port = port

\* When no request is in flight and none of this port was given up, the card does not
\* say connecting, and the session of a connected card is the one its host holds: the
\* status that is shown is that of the last answer (onMessage, refresh of host.js).
ShownIsHeld ==
  ~InFlight /\ ~GaveUpOnPort =>
    /\ shown.state # "connecting"
    /\ shown.state = "connected" =>
         /\ port # Nil
         /\ host[port].at = "running" => host[port].connection = shown.session

\* Every session that is open at the daemon is held by a process that runs, as its
\* connection or on the way to become it, and a process holds one at most: none is
\* left behind by a connect that fails, a page that leaves, or a stdin that ends
\* while a connect is in progress.
SessionsAreHeld ==
  /\ \A s \in DOMAIN session : session[s] = "open" =>
       \E h \in Hosts : host[h].at = "running" /\ s \in {host[h].connection, host[h].transport}
  /\ \A h \in Hosts : host[h].connection = Nil \/ host[h].transport = Nil

\* A disconnect ends: the card is no longer connected by the port, although the host
\* may never answer (the finally block of disconnect).
DisconnectEnds ==
  \A r \in 1..MaxRequests :
    (Waiting(r) /\ request[r].command = "disconnect")
      ~> (r \in DOMAIN request /\ port # request[r].port)
=============================================================================
