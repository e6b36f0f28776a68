----------------------------- MODULE TahtoNodes -----------------------------
(***************************************************************************)
(* The Tahto nodes that a browser has approved: the saved list, the Chrome *)
(* access, the device key and the monitor record of each                   *)
(* (extension/src/tahto-surface.js, tahto-client.js, tahto-keyring.js,     *)
(* tahto-monitor.js).                                                      *)
(*                                                                         *)
(* An open surface runs one operation at a time, but a tab whose surface   *)
(* was closed and opened again runs two, and every tab works on the copy   *)
(* of the list that it loaded.  The background worker checks the default   *)
(* node meanwhile.  Each await of an operation ends a step here: storage,  *)
(* permission prompts, requests to the node and the locked sections of the *)
(* keyring.  Locks cover one call of the keyring or one put of the list.   *)
(* A request can fail, its answer can be lost, and a tab can be closed at  *)
(* any await.                                                              *)
(*                                                                         *)
(* Which invitation a pairing spends, and what a descriptor says, is left  *)
(* out.                                                                    *)
(***************************************************************************)
EXTENDS Naturals, FiniteSets

CONSTANTS Nodes,      \* origins
          Tabs,
          Tasks,      \* surfaces that may run an operation
          TabOf,      \* the tab of each surface
          Monitor,    \* the background worker
          MaxKeys,    \* bound on keys made per node
          MaxStarts,  \* bound on operations
          MaxFaults,  \* bound on failures, lost answers and closed tabs
          Nil

ASSUME TahtoAssumption ==
  /\ TabOf \in [Tasks -> Tabs]
  /\ Monitor \notin Tasks
  /\ Nil \notin Nodes
  /\ MaxKeys \in Nat

VARIABLES
  saved,   \* the stored list of nodes with its default
  copy,    \* per tab: the list it works on
  access,  \* the origins Chrome lets the extension reach
  key,     \* per node: the stored device key, with the device it is bound to
  made,    \* per node: how many keys were made
  paired,  \* per node: the keys it has paired
  record,  \* per node: the monitor record
  task,    \* the operations
  starts,
  faults

vars == <<saved, copy, access, key, made, paired, record, task, starts, faults>>
-----------------------------------------------------------------------------
Runners == Tasks \cup {Monitor}
Keys == [id : 0..MaxKeys, device : 0..MaxKeys]
Lists == [nodes : SUBSET Nodes, default : Nodes \cup {Nil}]
NoNodes == [nodes |-> {}, default |-> Nil]
NoKey == [id |-> 0, device |-> 0]
NoRecord == [failures |-> 0, open |-> FALSE, latest |-> "none"]
\* A node that is degraded or unreachable has failed.
Observations == {"ready", "not-ready", "failed"}
Records == [failures : 0..2, open : BOOLEAN, latest : {"none"} \cup Observations]
Operations == {"add", "refresh", "pair", "forget", "default"}
FirstStep == [add |-> "asking", refresh |-> "inspecting", pair |-> "looking",
              forget |-> "revoking", default |-> "saving", check |-> "inspecting"]
Steps == {"idle", "asking", "withdrawing", "inspecting", "saving", "reading", "recording",
          "looking", "creating", "preparing", "signing", "completing", "binding",
          "revoking", "removing"}
Works == [kind : Operations \cup {"none", "check"}, node : Nodes \cup {Nil}, at : Steps,
          stored : BOOLEAN, next : Lists, key : 0..MaxKeys,
          sample : {"none"} \cup Observations, seen : Records, caught : BOOLEAN]
Idle == [kind |-> "none", node |-> Nil, at |-> "idle", stored |-> FALSE, next |-> NoNodes,
         key |-> 0, sample |-> "none", seen |-> NoRecord, caught |-> FALSE]

TypeOK ==
  /\ saved \in Lists /\ copy \in [Tabs -> Lists]
  /\ access \subseteq Nodes
  /\ key \in [Nodes -> Keys]
  /\ made \in [Nodes -> 0..MaxKeys]
  /\ paired \in [Nodes -> SUBSET (0..MaxKeys)]
  /\ record \in [Nodes -> Records]
  /\ task \in [Runners -> Works]

Init ==
  /\ saved \in {NoNodes} \cup {[nodes |-> {n}, default |-> n] : n \in Nodes}
  /\ copy = [t \in Tabs |-> saved]
  /\ access = saved.nodes
  /\ key = [n \in Nodes |-> NoKey]
  /\ made = [n \in Nodes |-> 0]
  /\ paired = [n \in Nodes |-> {}]
  /\ record = [n \in Nodes |-> NoRecord]
  /\ task = [w \in Runners |-> Idle]
  /\ starts = 0 /\ faults = 0

Fault == faults < MaxFaults /\ faults' = faults + 1
-----------------------------------------------------------------------------
(* The list.                                                                *)

\* upsertTahtoNode(), setDefaultTahtoNode() and removeTahtoNode().
Upsert(list, n) ==
  [nodes |-> list.nodes \cup {n}, default |-> IF list.default = Nil THEN n ELSE list.default]
WithDefault(list, n) == [list EXCEPT !.default = n]
Removed(list, n) ==
  LET rest == list.nodes \ {n} IN
  {[nodes |-> rest, default |-> d] :
     d \in IF list.default # n THEN {list.default} ELSE IF rest = {} THEN {Nil} ELSE rest}

(* The monitor.                                                             *)

\* applyTahtoMonitorSample(): a second failure in a row opens an incident, and a
\* ready sample closes it.
Apply(r, s) ==
  LET failures == IF s = "failed" THEN r.failures + 1 ELSE 0 IN
  [failures |-> IF failures > 2 THEN 2 ELSE failures, latest |-> s,
   open |-> IF failures >= 2 THEN TRUE ELSE IF s = "ready" THEN FALSE ELSE r.open]
-----------------------------------------------------------------------------
(* Steps of an operation.                                                   *)

Goes(w, at) == task' = [task EXCEPT ![w].at = at]
Ends(w) == task' = [task EXCEPT ![w] = Idle]
At(w, kinds, at) == task[w].kind \in kinds /\ task[w].at = at
Tab(w) == TabOf[w]

\* Without access no request is sent; one that is may fail, and its answer may be none
\* that the client accepts.
Reaches(w) == task[w].node \in access
Fails(w) == IF Reaches(w) THEN Fault ELSE UNCHANGED faults

\* A button of the surface.  The form takes any origin, the others a node of the list.
Start(w, kind, n) ==
  /\ task[w] = Idle /\ starts < MaxStarts
  /\ kind # "add" => n \in copy[Tab(w)].nodes
  /\ starts' = starts + 1
  /\ task' = [task EXCEPT ![w] = [Idle EXCEPT
       !.kind = kind, !.node = n, !.at = FirstStep[kind],
       !.stored = kind = "add" /\ n \in copy[Tab(w)].nodes,
       !.next = IF kind = "default" THEN WithDefault(copy[Tab(w)], n) ELSE NoNodes]]
  /\ UNCHANGED <<saved, copy, access, key, made, paired, record, faults>>

\* The alarm: check() of the stored default node.
Alarm ==
  /\ task[Monitor] = Idle /\ starts < MaxStarts /\ saved.default # Nil
  /\ starts' = starts + 1
  /\ task' = [task EXCEPT ![Monitor] =
       [Idle EXCEPT !.kind = "check", !.node = saved.default, !.at = FirstStep["check"]]]
  /\ UNCHANGED <<saved, copy, access, key, made, paired, record, faults>>

\* The catch blocks: an add withdraws the access it was given, unless its tab knew
\* the node; a refresh, or a check that cannot inspect, records one failure.
Catches(w) ==
  \/ task[w].kind = "refresh" /\ ~task[w].caught
  \/ task[w].kind = "check" /\ task[w].at = "inspecting"
Throws(w) ==
  CASE task[w].kind = "add" /\ ~task[w].stored -> Goes(w, "withdrawing")
    [] Catches(w) -> task' = [task EXCEPT ![w].at = "reading", ![w].sample = "failed",
                                         ![w].next = NoNodes, ![w].caught = TRUE]
    [] OTHER -> Ends(w)

\* requestTahtoOriginAccess()
Ask(w) ==
  /\ At(w, {"add"}, "asking")
  /\ \/ access' = access \cup {task[w].node} /\ Goes(w, "inspecting") /\ UNCHANGED faults
     \/ Fault /\ Ends(w) /\ UNCHANGED access
  /\ UNCHANGED <<saved, copy, key, made, paired, record, starts>>

Withdraw(w) ==
  /\ At(w, {"add"}, "withdrawing")
  /\ access' = access \ {task[w].node}
  /\ Ends(w)
  /\ UNCHANGED <<saved, copy, key, made, paired, record, starts, faults>>

\* inspect(): discovery, health and status.  What is saved next is computed from the
\* copy of the tab when the answer is there.
Inspect(w) ==
  /\ At(w, {"add", "refresh", "check"}, "inspecting")
  /\ \/ /\ Reaches(w)
        /\ \E s \in Observations :
             task' = [task EXCEPT ![w].sample = s,
               ![w].at = IF w = Monitor THEN "reading" ELSE "saving",
               ![w].next = IF w = Monitor THEN @ ELSE Upsert(copy[Tab(w)], task[w].node)]
        /\ UNCHANGED faults
     \/ Fails(w) /\ Throws(w)
  /\ UNCHANGED <<saved, copy, access, key, made, paired, record, starts>>

\* saveState(): the whole list is put and becomes the copy of the tab.
Save(w) ==
  /\ At(w, Operations, "saving")
  /\ \/ /\ saved' = task[w].next
        /\ copy' = [copy EXCEPT ![Tab(w)] = task[w].next]
        /\ IF task[w].kind \in {"add", "refresh"}
             THEN task' = [task EXCEPT ![w].at = "reading", ![w].next = NoNodes] ELSE Ends(w)
        /\ UNCHANGED faults
     \/ Fault /\ Throws(w) /\ UNCHANGED <<saved, copy>>
  /\ UNCHANGED <<access, key, made, paired, record, starts>>

\* record(): the monitor record is read, and put with the sample.
ReadRecord(w) ==
  /\ At(w, {"add", "refresh", "check"}, "reading")
  /\ task' = [task EXCEPT ![w].seen = record[task[w].node], ![w].at = "recording"]
  /\ UNCHANGED <<saved, copy, access, key, made, paired, record, starts, faults>>

WriteRecord(w) ==
  /\ At(w, {"add", "refresh", "check"}, "recording")
  /\ \/ /\ record' = [record EXCEPT ![task[w].node] = Apply(task[w].seen, task[w].sample)]
        /\ Ends(w) /\ UNCHANGED faults
     \/ Fault /\ Throws(w) /\ UNCHANGED record
  /\ UNCHANGED <<saved, copy, access, key, made, paired, starts>>
-----------------------------------------------------------------------------
(* Pairing.                                                                 *)

Pair(w, at) == At(w, {"pair"}, at)

\* pair(): a bound key is refused, and a key that is not bound is used again.
Look(w) ==
  /\ Pair(w, "looking")
  /\ LET k == key[task[w].node] IN
     IF k = NoKey THEN Goes(w, "creating")
     ELSE IF k.device # 0 THEN Ends(w)
     ELSE task' = [task EXCEPT ![w].key = k.id, ![w].at = "preparing"]
  /\ UNCHANGED <<saved, copy, access, key, made, paired, record, starts, faults>>

\* create(), under the lock of the key: a key that another operation made is kept.
Creates(n) == TRUE
MayCreate(n) == key[n] = NoKey
Create(w) ==
  /\ Pair(w, "creating")
  /\ LET n == task[w].node IN
     IF MayCreate(n)
       THEN /\ made[n] < MaxKeys
            /\ made' = [made EXCEPT ![n] = @ + 1]
            /\ key' = [key EXCEPT ![n] = [id |-> made[n] + 1, device |-> 0]]
            /\ task' = [task EXCEPT ![w].key = made[n] + 1, ![w].at = "preparing"]
       ELSE Ends(w) /\ UNCHANGED <<key, made>>
  /\ UNCHANGED <<saved, copy, access, paired, record, starts, faults>>

\* The prepare request, and the intent of the node compared with what was asked.
Prepare(w) ==
  /\ Pair(w, "preparing")
  /\ \/ Reaches(w) /\ Goes(w, "signing") /\ UNCHANGED faults
     \/ Fails(w) /\ Ends(w)
  /\ UNCHANGED <<saved, copy, access, key, made, paired, record, starts>>

\* signPairingIntent(): the stored key is read again and must be that of the intent.
Sign(w) ==
  /\ Pair(w, "signing")
  /\ IF key[task[w].node] = [id |-> task[w].key, device |-> 0]
       THEN Goes(w, "completing") ELSE Ends(w)
  /\ UNCHANGED <<saved, copy, access, key, made, paired, record, starts, faults>>

\* The complete request: the node pairs the key and the answer arrives or is lost, or
\* the node refuses.
BoundFirst(w) == Goes(w, "binding") /\ UNCHANGED <<paired, faults>>
NodePairs(w) ==
  \/ /\ Reaches(w)
     /\ paired' = [paired EXCEPT ![task[w].node] = @ \cup {task[w].key}]
     /\ \/ Goes(w, "binding") /\ UNCHANGED faults
        \/ Fault /\ Ends(w)
  \/ Fails(w) /\ Ends(w) /\ UNCHANGED paired
Complete(w) ==
  /\ Pair(w, "completing")
  /\ NodePairs(w)
  /\ UNCHANGED <<saved, copy, access, key, made, record, starts>>

\* bind(), under the lock of the key: whatever key is stored by now takes the device.
Bind(w) ==
  /\ Pair(w, "binding")
  /\ key' = IF key[task[w].node] = NoKey THEN key
            ELSE [key EXCEPT ![task[w].node].device = task[w].key]
  /\ Ends(w)
  /\ UNCHANGED <<saved, copy, access, made, paired, record, starts, faults>>
-----------------------------------------------------------------------------
(* Forgetting.                                                              *)

Revoke(w) ==
  /\ At(w, {"forget"}, "revoking")
  /\ \/ access' = access \ {task[w].node} /\ Goes(w, "removing") /\ UNCHANGED faults
     \/ Fault /\ Ends(w) /\ UNCHANGED access
  /\ UNCHANGED <<saved, copy, key, made, paired, record, starts>>

\* keyring.remove(), and the list without the node, if the tab still has it.
RemoveNode(w) ==
  /\ At(w, {"forget"}, "removing")
  /\ key' = [key EXCEPT ![task[w].node] = NoKey]
  /\ IF task[w].node \in copy[Tab(w)].nodes
       THEN \E list \in Removed(copy[Tab(w)], task[w].node) :
              task' = [task EXCEPT ![w].at = "saving", ![w].next = list]
       ELSE Ends(w)
  /\ UNCHANGED <<saved, copy, access, made, paired, record, starts, faults>>

\* A tab is closed, or the worker stopped, in the middle of its operations; a tab
\* that is opened again loads the list.
Stop(W) == task' = [w \in Runners |-> IF w \in W THEN Idle ELSE task[w]]
Reload(t) ==
  /\ \/ (\A w \in Tasks : TabOf[w] = t => task[w] = Idle) /\ UNCHANGED faults
     \/ Fault
  /\ Stop({w \in Tasks : TabOf[w] = t})
  /\ copy' = [copy EXCEPT ![t] = saved]
  /\ UNCHANGED <<saved, access, key, made, paired, record, starts>>
WorkerStops ==
  /\ Fault /\ Stop({Monitor})
  /\ UNCHANGED <<saved, copy, access, key, made, paired, record, starts>>

Step(w) ==
  \/ Ask(w) \/ Withdraw(w) \/ Inspect(w) \/ Save(w) \/ ReadRecord(w) \/ WriteRecord(w)
  \/ Look(w) \/ Create(w) \/ Prepare(w) \/ Sign(w) \/ Complete(w) \/ Bind(w)
  \/ Revoke(w) \/ RemoveNode(w)

Next ==
  \/ \E w \in Tasks, kind \in Operations, n \in Nodes : Start(w, kind, n)
  \/ \E w \in Runners : Step(w)
  \/ \E t \in Tabs : Reload(t)
  \/ Alarm \/ WorkerStops

Spec == Init /\ [][Next]_vars
-----------------------------------------------------------------------------
\* A device key is replaced only after a forget removed it: of two pairings that both
\* found no key, one is refused, and a pairing whose answer was lost is tried again
\* with the key that the node may have paired (create and bind of tahto-keyring.js).
KeyIsKept ==
  [][\A n \in Nodes : key[n] # NoKey =>
       \/ key'[n].id = key[n].id
       \/ key'[n] = NoKey /\ \E w \in Tasks : At(w, {"forget"}, "removing") /\ task[w].node = n]_vars

\* signRequest(): a bound key signs in the name of its device.
Signs(n) == key[n].device # 0

\* Requests are signed in the name of a device that the node has paired only, whatever
\* pairings, forgets and lost answers came before (pair of tahto-client.js).
DeviceWasPaired == \A n \in Nodes : Signs(n) => key[n].device \in paired[n]

\* The stored key is the one that its device was paired with.  Violated: a key that
\* was forgotten and created anew during a pairing is bound to the device of the old
\* one, and the node refuses what it signs.
KeyIsItsDevice == \A n \in Nodes : key[n].device \in {0, key[n].id}

\* A list that names a node names a default that is on it, whichever tab saved its
\* copy last: the monitor, and the tabs that load it, depend on it.
DefaultIsListed ==
  saved.default \in saved.nodes \/ (saved.nodes = {} /\ saved.default = Nil)
=============================================================================
