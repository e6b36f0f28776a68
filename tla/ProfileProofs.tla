---------------------------- MODULE ProfileProofs -----------------------------
(*****************************************************************************)
(* Theorems about what a profile of the extension stores and shares between  *)
(* its tabs: the Tahto nodes (TahtoNodes) and the personal chain             *)
(* (PersonalChain), without their bounds.                                    *)
(*                                                                           *)
(* Tahto nodes: every list names a default that is on it (ListInv), and a    *)
(* device is bound only to a key that its node has paired (KeyInv).          *)
(*                                                                           *)
(* Personal chain: all inclusions, wherever they are, are the links of one   *)
(* sequence of different actions (WholeInv); what a tab has read under the   *)
(* lock is what is stored (LockInv); what is with the node, or on its way,   *)
(* is of the signed chain and leaves no gap (NodeInv).  With one controller  *)
(* key all is of that key, stored before anything else (OwnerInv).           *)
(*****************************************************************************)
EXTENDS TahtoNodes, PersonalChain, SequenceTheorems, TLAPS

-----------------------------------------------------------------------------
(* Tahto nodes.                                                             *)

\* A list that names a node names a default that is on it.
Sound(list) == list.default \in list.nodes \/ (list.nodes = {} /\ list.default = Nil)

\* An operation is about a node, and the worker only checks.
Placed == /\ \A w \in Runners : task[w].kind # "none" => task[w].node \in Nodes
          /\ task[Monitor].kind \in {"none", "check"}

TypeInv == TypeOK /\ Placed

\* Every list is sound: the stored one, the copies and what operations will save.
ListInv == /\ Sound(saved)
           /\ \A t \in Tabs : Sound(copy[t])
           /\ \A w \in Runners : Sound(task[w].next)

\* A pairing binds a device only for a key that its node has paired.
Binds(w) == task[w].kind = "pair" /\ task[w].at = "binding"
KeyInv == /\ DeviceWasPaired
          /\ \A w \in Runners : Binds(w) => task[w].key \in paired[task[w].node]
-----------------------------------------------------------------------------
(* Types.                                                                   *)

\* The empty values, and what the list and the monitor compute.
LEMMA ValueTypes ==
  /\ NoNodes \in Lists /\ NoKey \in Keys /\ NoRecord \in Records /\ Idle \in Works
  /\ \A list \in Lists, n \in Nodes : Upsert(list, n) \in Lists /\ WithDefault(list, n) \in Lists
  /\ \A list \in Lists, n \in Nodes : Removed(list, n) \subseteq Lists
  /\ \A r \in Records, s \in {"none"} \cup Observations : Apply(r, s) \in Records
<1>1. NoNodes \in Lists /\ NoKey \in Keys /\ NoRecord \in Records
  BY TahtoAssumption DEF NoNodes, Lists, NoKey, Keys, NoRecord, Records
<1>2. Idle \in Works
  BY <1>1, TahtoAssumption DEF Idle, Works, Steps
<1>3. \A list \in Lists, n \in Nodes : Upsert(list, n) \in Lists /\ WithDefault(list, n) \in Lists
  BY DEF Upsert, WithDefault, Lists
<1>4. \A list \in Lists, n \in Nodes : Removed(list, n) \subseteq Lists
  BY DEF Removed, Lists
<1>5. ASSUME NEW r \in Records, NEW s \in {"none"} \cup Observations PROVE Apply(r, s) \in Records
  <2>1. r.failures \in 0..2 /\ r.open \in BOOLEAN
    BY DEF Records
  <2>2. CASE s = "failed"
    <3>1. PICK n \in 0..2 : Apply(r, s).failures = n
      BY <2>1, <2>2 DEF Apply
    <3>2. Apply(r, s).open \in BOOLEAN
      BY <2>1, <2>2 DEF Apply
    <3> QED BY <3>1, <3>2 DEF Apply, Records
  <2>3. CASE s # "failed"
    <3>1. Apply(r, s).failures = 0
      BY <2>3 DEF Apply
    <3>2. Apply(r, s).open \in BOOLEAN
      BY <2>1, <2>3 DEF Apply
    <3>3. Apply(r, s) = [failures |-> 0, latest |-> s, open |-> Apply(r, s).open]
      BY <2>3, <3>1 DEF Apply
    <3> QED BY <3>2, <3>3 DEF Records
  <2> QED BY <2>2, <2>3
<1> QED BY <1>1, <1>2, <1>3, <1>4, <1>5

\* What becomes of an operation in a step: it ends, or it stays of its kind and node.
Continues(w, v) ==
  /\ v \in Works /\ task' = [task EXCEPT ![w] = v]
  /\ v = Idle \/ (v.kind = task[w].kind /\ v.node = task[w].node)

\* The ways on.
LEMMA WaysOn ==
  ASSUME TypeOK, NEW w \in Runners
  PROVE  /\ \A at \in Steps : Goes(w, at) => Continues(w, [task[w] EXCEPT !.at = at])
         /\ Ends(w) => Continues(w, Idle)
         /\ Throws(w) => \E v \in Works : Continues(w, v) /\ v.at # "binding"
                                          /\ v.next \in {NoNodes, task[w].next}
<1>1. task \in [Runners -> Works] /\ task[w] \in Works /\ Idle \in Works
  BY ValueTypes DEF TypeOK
<1>2. \A at \in Steps : [task[w] EXCEPT !.at = at] \in Works
  BY <1>1 DEF Works
<1>3. ASSUME NEW at \in Steps, Goes(w, at) PROVE Continues(w, [task[w] EXCEPT !.at = at])
  <2>1. task' = [task EXCEPT ![w] = [task[w] EXCEPT !.at = at]]
    BY <1>1, <1>3 DEF Goes
  <2> QED BY <1>1, <1>2, <2>1 DEF Continues, Works
<1>4. Ends(w) => Continues(w, Idle)
  BY <1>1 DEF Ends, Continues
<1>5. ASSUME Throws(w)
      PROVE  \E v \in Works : Continues(w, v) /\ v.at # "binding" /\ v.next \in {NoNodes, task[w].next}
  <2>1. CASE Goes(w, "withdrawing")
    <3>1. Continues(w, [task[w] EXCEPT !.at = "withdrawing"])
      BY <1>3, <2>1 DEF Steps
    <3> QED BY <1>1, <1>2, <3>1 DEF Works, Steps
  <2>2. CASE task' = [task EXCEPT ![w].at = "reading", ![w].sample = "failed",
                                  ![w].next = NoNodes, ![w].caught = TRUE]
    <3> DEFINE v == [task[w] EXCEPT !.at = "reading", !.sample = "failed",
                                    !.next = NoNodes, !.caught = TRUE]
    <3>1. v \in Works /\ v.kind = task[w].kind /\ v.node = task[w].node
      BY <1>1, ValueTypes DEF Works, Steps, Observations
    <3>2. task' = [task EXCEPT ![w] = v]
      BY <1>1, <2>2
    <3>3. v.at = "reading" /\ v.next = NoNodes
      BY <1>1 DEF Works
    <3> QED BY <3>1, <3>2, <3>3 DEF Continues
  <2>3. CASE Ends(w)
    BY <1>1, <1>4, <2>3 DEF Idle
  <2> QED BY <1>5, <2>1, <2>2, <2>3 DEF Throws
<1> QED BY <1>3, <1>4, <1>5

\* A step of an operation continues it; what it saves next is a list of its tab's, and
\* a pairing binds only once its node has paired the key.
LEMMA Continued ==
  ASSUME TypeInv, NEW w \in Runners, Step(w)
  PROVE  \E v \in Works :
           /\ Continues(w, v)
           /\ \/ v.next \in {NoNodes, task[w].next}
              \/ w # Monitor /\ v.next = Upsert(copy[Tab(w)], task[w].node)
              \/ w # Monitor /\ v.next \in Removed(copy[Tab(w)], task[w].node)
           /\ v.kind = "pair" /\ v.at = "binding" => v.key \in paired'[v.node]
<1> DEFINE W == task[w]
           Plain(v) == /\ Continues(w, v) /\ v.next \in {NoNodes, W.next}
                       /\ v.at # "binding"
<1>1. TypeOK /\ task \in [Runners -> Works] /\ W \in Works
  BY DEF TypeInv, TypeOK
<1>2. ASSUME NEW at \in Steps \ {"binding"}, Goes(w, at) PROVE \E v \in Works : Plain(v)
  <2>1. Continues(w, [W EXCEPT !.at = at])
    BY <1>1, <1>2, WaysOn
  <2>2. [W EXCEPT !.at = at].at = at /\ [W EXCEPT !.at = at].next = W.next
    BY <1>1 DEF Works
  <2> QED BY <2>1, <2>2 DEF Continues
<1>3. ASSUME Ends(w) PROVE \E v \in Works : Plain(v)
  <2>1. Continues(w, Idle)
    BY <1>1, <1>3, WaysOn
  <2> QED BY <2>1, ValueTypes DEF Idle
<1>4. ASSUME Throws(w) PROVE \E v \in Works : Plain(v)
  BY <1>1, <1>4, WaysOn
<1>5. CASE \/ Goes(w, "inspecting") \/ Goes(w, "creating") \/ Goes(w, "signing")
           \/ Goes(w, "completing") \/ Goes(w, "removing") \/ Ends(w) \/ Throws(w)
  BY <1>2, <1>3, <1>4, <1>5 DEF Steps
<1>6. CASE Ask(w) \/ Withdraw(w) \/ Prepare(w) \/ Sign(w) \/ Bind(w) \/ Revoke(w)
  BY <1>5, <1>6 DEF Ask, Withdraw, Prepare, Sign, Bind, Revoke
<1>7. CASE Inspect(w)
  <2>1. CASE \E s \in Observations :
             task' = [task EXCEPT ![w].sample = s,
               ![w].at = IF w = Monitor THEN "reading" ELSE "saving",
               ![w].next = IF w = Monitor THEN @ ELSE Upsert(copy[Tab(w)], task[w].node)]
    <3>1. PICK s \in Observations :
             task' = [task EXCEPT ![w].sample = s,
               ![w].at = IF w = Monitor THEN "reading" ELSE "saving",
               ![w].next = IF w = Monitor THEN @ ELSE Upsert(copy[Tab(w)], task[w].node)]
      BY <2>1
    <3> DEFINE next == IF w = Monitor THEN W.next ELSE Upsert(copy[Tab(w)], W.node)
               at == IF w = Monitor THEN "reading" ELSE "saving"
               v == [W EXCEPT !.sample = s, !.at = at, !.next = next]
    <3>2. next \in Lists
      <4>1. CASE w = Monitor
        BY <1>1, <4>1 DEF Works
      <4>2. CASE w # Monitor
        <5>1. copy[Tab(w)] \in Lists /\ W.node \in Nodes
          BY <1>1, <1>7, <4>2, TahtoAssumption
             DEF Runners, Tab, TypeOK, TypeInv, Placed, Inspect, At
        <5> QED BY <4>2, <5>1, ValueTypes
      <4> QED BY <4>1, <4>2
    <3>3. at \in Steps \ {"binding"}
      BY DEF Steps
    <3> HIDE DEF next, at
    <3>4. v \in Works /\ v.kind = W.kind /\ v.node = W.node /\ v.at = at /\ v.next = next
      BY <1>1, <3>2, <3>3 DEF Works
    <3>5. task' = [task EXCEPT ![w] = v]
      BY <1>1, <3>1 DEF next, at
    <3>6. next = W.next \/ (w # Monitor /\ next = Upsert(copy[Tab(w)], W.node))
      BY DEF next
    <3> QED BY <3>3, <3>4, <3>5, <3>6 DEF Continues
  <2> QED BY <1>5, <1>7, <2>1 DEF Inspect
<1>8. CASE Save(w)
  <2>1. CASE task' = [task EXCEPT ![w].at = "reading", ![w].next = NoNodes]
    <3> DEFINE v == [W EXCEPT !.at = "reading", !.next = NoNodes]
    <3>1. v \in Works /\ v.kind = W.kind /\ v.node = W.node /\ v.at = "reading" /\ v.next = NoNodes
      BY <1>1, ValueTypes DEF Works, Steps
    <3>2. task' = [task EXCEPT ![w] = v]
      BY <1>1, <2>1
    <3> QED BY <3>1, <3>2 DEF Continues
  <2> QED BY <1>5, <1>8, <2>1 DEF Save
<1>9. CASE ReadRecord(w)
  <2> DEFINE v == [W EXCEPT !.seen = record[W.node], !.at = "recording"]
  <2>1. record[W.node] \in Records
    BY <1>1, <1>9 DEF ReadRecord, At, TypeInv, Placed, TypeOK
  <2>2. v \in Works /\ v.kind = W.kind /\ v.node = W.node /\ v.at = "recording" /\ v.next = W.next
    BY <1>1, <2>1 DEF Works, Steps
  <2>3. task' = [task EXCEPT ![w] = v]
    BY <1>1, <1>9 DEF ReadRecord
  <2> QED BY <2>2, <2>3 DEF Continues
<1>10. CASE WriteRecord(w)
  BY <1>5, <1>10 DEF WriteRecord
<1>11. ASSUME NEW k \in 0..MaxKeys, task' = [task EXCEPT ![w].key = k, ![w].at = "preparing"]
       PROVE  \E v \in Works : Plain(v)
  <2> DEFINE v == [W EXCEPT !.key = k, !.at = "preparing"]
  <2>1. v \in Works /\ v.kind = W.kind /\ v.node = W.node /\ v.at = "preparing" /\ v.next = W.next
    BY <1>1 DEF Works, Steps
  <2>2. task' = [task EXCEPT ![w] = v]
    BY <1>1, <1>11
  <2> QED BY <2>1, <2>2 DEF Continues
<1>12. CASE Look(w)
  <2>1. key[W.node].id \in 0..MaxKeys
    BY <1>1, <1>12 DEF Look, Pair, At, TypeInv, Placed, TypeOK, Keys
  <2>2. \/ Goes(w, "creating") \/ Ends(w)
        \/ task' = [task EXCEPT ![w].key = key[W.node].id, ![w].at = "preparing"]
    BY <1>12 DEF Look
  <2> QED BY <1>5, <1>11, <2>1, <2>2
<1>13. CASE Create(w)
  <2>1. made[W.node] < MaxKeys => made[W.node] + 1 \in 0..MaxKeys
    BY <1>1, <1>13, TahtoAssumption DEF Create, Pair, At, TypeInv, Placed, TypeOK
  <2>2. \/ Ends(w)
        \/ /\ made[W.node] < MaxKeys
           /\ task' = [task EXCEPT ![w].key = made[W.node] + 1, ![w].at = "preparing"]
    BY <1>13 DEF Create
  <2> QED BY <1>5, <1>11, <2>1, <2>2
<1>14. CASE Complete(w)
  <2>1. CASE Goes(w, "binding") /\ paired' = [paired EXCEPT ![W.node] = @ \cup {W.key}]
    <3> DEFINE v == [W EXCEPT !.at = "binding"]
    <3>1. Continues(w, v)
      BY <1>1, <2>1, WaysOn DEF Steps
    <3>2. v.next = W.next /\ v.key = W.key /\ v.node = W.node /\ v \in Works
      BY <1>1, <3>1 DEF Works, Continues
    <3>3. W.key \in paired'[W.node]
      BY <1>1, <1>14, <2>1 DEF Complete, Pair, At, TypeInv, Placed, TypeOK
    <3> QED BY <3>1, <3>2, <3>3
  <2> QED BY <1>5, <1>14, <2>1 DEF Complete, NodePairs
<1>15. CASE RemoveNode(w)
  <2>1. CASE Ends(w)
    BY <1>5, <2>1
  <2>2. CASE \E list \in Removed(copy[Tab(w)], W.node) :
               task' = [task EXCEPT ![w].at = "saving", ![w].next = list]
    <3>1. PICK list \in Removed(copy[Tab(w)], W.node) :
               task' = [task EXCEPT ![w].at = "saving", ![w].next = list]
      BY <2>2
    <3>2. w # Monitor /\ W.node \in Nodes
      BY <1>15 DEF RemoveNode, At, TypeInv, Placed
    <3>3. list \in Lists
      BY <1>1, <3>2, ValueTypes, TahtoAssumption DEF Runners, Tab, TypeOK
    <3> DEFINE v == [W EXCEPT !.at = "saving", !.next = list]
    <3>4. v \in Works /\ v.kind = W.kind /\ v.node = W.node /\ v.at = "saving" /\ v.next = list
      BY <1>1, <3>3 DEF Works, Steps
    <3>5. task' = [task EXCEPT ![w] = v]
      BY <1>1, <3>1
    <3> QED BY <3>1, <3>2, <3>4, <3>5 DEF Continues
  <2> QED BY <1>15, <2>1, <2>2 DEF RemoveNode
<1> QED BY <1>6, <1>7, <1>8, <1>9, <1>10, <1>12, <1>13, <1>14, <1>15 DEF Step

\* An operation that is where it was, of a kind and node, or is idle.
LEMMA WorkTypes ==
  ASSUME TypeInv, NEW w \in Runners, Step(w)
  PROVE  task' \in [Runners -> Works] /\ Placed'
<1>1. PICK v \in Works : Continues(w, v)
  BY Continued
<1>2. task \in [Runners -> Works] /\ task' = [task EXCEPT ![w] = v]
  BY <1>1 DEF TypeInv, TypeOK, Continues
<1>3. v.kind # "none" => v.kind = task[w].kind /\ v.node = task[w].node
  BY <1>1 DEF Continues, Idle
<1>4. Monitor \in Runners
  BY DEF Runners
<1> QED BY <1>2, <1>3, <1>4 DEF TypeInv, Placed

\* A step of an operation keeps the types.
LEMMA StepTypes == ASSUME TypeInv, NEW w \in Runners, Step(w) PROVE TypeInv'
<1> USE DEF TypeInv
<1> DEFINE n == task[w].node
<1>1. TypeOK /\ task[w] \in Works /\ task' \in [Runners -> Works] /\ Placed'
  BY WorkTypes DEF TypeOK
<1>2. ASSUME NEW kinds, NEW at, At(w, kinds, at), kinds \subseteq Operations \cup {"check"} PROVE n \in Nodes
  BY <1>2 DEF At, Placed, Operations
<1>3. CASE Ask(w) \/ Withdraw(w) \/ Revoke(w)
  <2>1. n \in Nodes
    BY <1>2, <1>3 DEF Ask, Withdraw, Revoke, Operations
  <2>2. access' \subseteq Nodes
    BY <1>1, <1>3, <2>1 DEF Ask, Withdraw, Revoke, TypeOK
  <2> QED BY <1>1, <1>3, <2>2 DEF Ask, Withdraw, Revoke, TypeOK
<1>4. CASE Inspect(w) \/ ReadRecord(w) \/ Look(w) \/ Prepare(w) \/ Sign(w)
  BY <1>1, <1>4 DEF Inspect, ReadRecord, Look, Prepare, Sign, TypeOK
<1>5. CASE Save(w)
  <2>1. task[w].next \in Lists /\ w # Monitor
    BY <1>1, <1>5 DEF Works, Save, At, Placed, Operations
  <2>2. Tab(w) \in Tabs
    BY <2>1, TahtoAssumption DEF Tab, Runners
  <2>3. saved' \in Lists /\ copy' \in [Tabs -> Lists]
    BY <1>1, <1>5, <2>1, <2>2 DEF Save, TypeOK
  <2> QED BY <1>1, <1>5, <2>3 DEF Save, TypeOK
<1>6. CASE WriteRecord(w)
  <2>1. CASE record' = [record EXCEPT ![n] = Apply(task[w].seen, task[w].sample)]
    <3>1. task[w].seen \in Records /\ task[w].sample \in {"none"} \cup Observations
      BY <1>1 DEF Works
    <3>2. Apply(task[w].seen, task[w].sample) \in Records
      BY <3>1, ValueTypes
    <3>3. record' \in [Nodes -> Records]
      BY <1>1, <2>1, <3>2 DEF TypeOK
    <3> QED BY <1>1, <1>6, <3>3 DEF WriteRecord, TypeOK
  <2>2. CASE UNCHANGED record
    BY <1>1, <1>6, <2>2 DEF WriteRecord, TypeOK
  <2> QED BY <1>6, <2>1, <2>2 DEF WriteRecord
<1>7. CASE Create(w)
  <2>1. CASE UNCHANGED <<key, made>>
    BY <1>1, <1>7, <2>1 DEF Create, TypeOK
  <2>2. CASE /\ made[n] < MaxKeys
             /\ made' = [made EXCEPT ![n] = @ + 1]
             /\ key' = [key EXCEPT ![n] = [id |-> made[n] + 1, device |-> 0]]
    <3>1. n \in Nodes
      BY <1>2, <1>7 DEF Create, Pair, Operations
    <3>2. made[n] + 1 \in 0..MaxKeys
      BY <1>1, <2>2, <3>1, TahtoAssumption DEF TypeOK
    <3>3. made' \in [Nodes -> 0..MaxKeys]
      BY <1>1, <2>2, <3>2 DEF TypeOK
    <3>4. [id |-> made[n] + 1, device |-> 0] \in Keys
      BY <3>2, TahtoAssumption DEF Keys
    <3>5. key' \in [Nodes -> Keys]
      BY <1>1, <2>2, <3>4 DEF TypeOK
    <3> QED BY <1>1, <1>7, <3>3, <3>5 DEF Create, TypeOK
  <2> QED BY <1>7, <2>1, <2>2 DEF Create
<1>8. CASE Complete(w)
  <2>1. task[w].key \in 0..MaxKeys
    BY <1>1 DEF Works
  <2>2. paired' \in [Nodes -> SUBSET (0..MaxKeys)]
    BY <1>1, <1>8, <2>1 DEF Complete, NodePairs, TypeOK
  <2> QED BY <1>1, <1>8, <2>2 DEF Complete, TypeOK
<1>9. CASE Bind(w)
  <2>1. task[w].key \in 0..MaxKeys
    BY <1>1 DEF Works
  <2>2. key' \in [Nodes -> Keys]
    BY <1>1, <1>9, <2>1 DEF Bind, TypeOK, Keys
  <2> QED BY <1>1, <1>9, <2>2 DEF Bind, TypeOK
<1>10. CASE RemoveNode(w)
  <2>1. key' \in [Nodes -> Keys]
    BY <1>1, <1>10, ValueTypes DEF RemoveNode, TypeOK
  <2> QED BY <1>1, <1>10, <2>1 DEF RemoveNode, TypeOK
<1> QED BY <1>3, <1>4, <1>5, <1>6, <1>7, <1>8, <1>9, <1>10 DEF Step

\* The other steps: a button, the alarm, a tab that is loaded again, a worker that stops.
Others == \/ \E w \in Tasks, kind \in Operations, n \in Nodes : Start(w, kind, n)
          \/ \E t \in Tabs : Reload(t)
          \/ Alarm \/ WorkerStops

\* They touch no key, no pairing and no stored list, and what they begin saves a list
\* of its tab's.
LEMMA OthersEffect ==
  ASSUME TypeInv, Others
  PROVE  /\ UNCHANGED <<saved, access, key, made, paired, record>>
         /\ \A t \in Tabs : copy'[t] \in {copy[t], saved}
         /\ copy' \in [Tabs -> Lists] /\ task' \in [Runners -> Works] /\ Placed'
         /\ \A w \in Runners :
              \/ task'[w] = task[w]
              \/ ~Binds(w)' /\ task'[w].next = NoNodes
              \/ /\ ~Binds(w)' /\ Tab(w) \in Tabs /\ task'[w].node \in copy[Tab(w)].nodes
                 /\ task'[w].next = WithDefault(copy[Tab(w)], task'[w].node)
<1> USE DEF TypeInv
<1>1. /\ copy \in [Tabs -> Lists] /\ saved \in Lists /\ task \in [Runners -> Works]
      /\ Idle \in Works /\ Monitor \in Runners
  BY ValueTypes DEF TypeOK, Runners
<1>2. ASSUME NEW w \in Tasks, NEW kind \in Operations, NEW n \in Nodes, Start(w, kind, n)
      PROVE  /\ UNCHANGED copy
             /\ \E v \in Works :
                  /\ task' = [task EXCEPT ![w] = v] /\ v.kind = kind /\ v.node = n
                  /\ v.at # "binding"
                  /\ v.next \in {NoNodes, WithDefault(copy[Tab(w)], n)}
                  /\ v.next # NoNodes => n \in copy[Tab(w)].nodes
  <2> DEFINE next == IF kind = "default" THEN WithDefault(copy[Tab(w)], n) ELSE NoNodes
             stored == kind = "add" /\ n \in copy[Tab(w)].nodes
             v == [Idle EXCEPT !.kind = kind, !.node = n, !.at = FirstStep[kind],
                               !.stored = stored, !.next = next]
  <2>1. next \in Lists /\ stored \in BOOLEAN
    BY <1>1, ValueTypes, TahtoAssumption DEF Tab
  <2>2. FirstStep[kind] \in Steps \ {"binding"}
    BY DEF FirstStep, Operations, Steps
  <2>3. next \in {NoNodes, WithDefault(copy[Tab(w)], n)} /\ (next # NoNodes => n \in copy[Tab(w)].nodes)
    BY <1>2 DEF Start
  <2>4. task' = [task EXCEPT ![w] = v] /\ UNCHANGED copy
    BY <1>2 DEF Start
  <2> HIDE DEF next, stored
  <2>5. v \in Works /\ v.kind = kind /\ v.node = n /\ v.at = FirstStep[kind] /\ v.next = next
    BY <1>1, <2>1, <2>2 DEF Works
  <2> QED BY <2>2, <2>3, <2>4, <2>5
<1>3. CASE \E w \in Tasks, kind \in Operations, n \in Nodes : Start(w, kind, n)
  <2>1. PICK w \in Tasks, kind \in Operations, n \in Nodes : Start(w, kind, n)
    BY <1>3
  <2>2. UNCHANGED <<saved, copy, access, key, made, paired, record>>
    BY <2>1 DEF Start
  <2>3. PICK v \in Works :
          /\ task' = [task EXCEPT ![w] = v] /\ v.kind = kind /\ v.node = n
          /\ v.at # "binding"
          /\ v.next \in {NoNodes, WithDefault(copy[Tab(w)], n)}
          /\ v.next # NoNodes => n \in copy[Tab(w)].nodes
    BY <1>2, <2>1
  <2>4. w \in Runners /\ w # Monitor /\ Tab(w) \in Tabs
    BY TahtoAssumption DEF Runners, Tab
  <2>5. task' \in [Runners -> Works] /\ Placed'
    BY <1>1, <2>3, <2>4 DEF Placed
  <2>6. \A u \in Runners \ {w} : task'[u] = task[u]
    BY <1>1, <2>3
  <2>7. task'[w] = v
    BY <1>1, <2>3, <2>4
  <2> QED BY <1>1, <2>2, <2>3, <2>4, <2>5, <2>6, <2>7 DEF Binds
<1>4. CASE Alarm
  <2> DEFINE v == [Idle EXCEPT !.kind = "check", !.node = saved.default, !.at = FirstStep["check"]]
  <2>1. saved.default \in Nodes /\ FirstStep["check"] = "inspecting"
    BY <1>1, <1>4 DEF Alarm, Lists, FirstStep
  <2>2. v \in Works /\ v.kind = "check" /\ v.node = saved.default /\ v.at = "inspecting"
        /\ v.next = Idle.next
    BY <1>1, <2>1 DEF Works, Steps
  <2>3. task' = [task EXCEPT ![Monitor] = v]
    BY <1>4 DEF Alarm
  <2>4. task' \in [Runners -> Works] /\ Placed'
    BY <1>1, <2>1, <2>2, <2>3 DEF Placed
  <2>5. UNCHANGED <<saved, copy, access, key, made, paired, record>>
    BY <1>4 DEF Alarm
  <2>6. Idle.next = NoNodes
    BY DEF Idle
  <2> QED BY <1>1, <2>2, <2>3, <2>4, <2>5, <2>6 DEF Binds
<1>5. ASSUME NEW W, Stop(W)
      PROVE  /\ task' \in [Runners -> Works] /\ Placed'
             /\ \A w \in Runners : task'[w] = task[w] \/ (~Binds(w)' /\ task'[w].next = NoNodes)
  <2>1. \A w \in Runners : task'[w] \in {task[w], Idle}
    BY <1>5 DEF Stop
  <2>2. Idle.kind = "none" /\ Idle.next = NoNodes
    BY DEF Idle
  <2>3. task' \in [Runners -> Works]
    BY <1>1, <1>5 DEF Stop
  <2> QED BY <1>1, <2>1, <2>2, <2>3 DEF Placed, Binds
<1>6. CASE WorkerStops
  BY <1>1, <1>5, <1>6 DEF WorkerStops
<1>7. CASE \E t \in Tabs : Reload(t)
  <2>1. PICK t \in Tabs : Reload(t)
    BY <1>7
  <2>2. /\ copy' = [copy EXCEPT ![t] = saved]
        /\ UNCHANGED <<saved, access, key, made, paired, record>>
        /\ Stop({w \in Tasks : TabOf[w] = t})
    BY <2>1 DEF Reload
  <2> QED BY <1>1, <1>5, <2>2
<1> QED BY <1>3, <1>4, <1>6, <1>7 DEF Others

\* Every step keeps the types.
LEMMA TypeStep == ASSUME TypeInv, [Next]_vars PROVE TypeInv'
<1>1. CASE Others
  BY <1>1, OthersEffect DEF TypeInv, TypeOK
<1>2. CASE UNCHANGED vars
  BY <1>2 DEF vars, TypeInv, TypeOK, Placed
<1> QED BY <1>1, <1>2, StepTypes DEF Next, Others

\* The types are an invariant.
LEMMA TypesInvariant == Spec => []TypeInv
<1>1. Init => TypeInv
  <2> SUFFICES ASSUME Init PROVE TypeInv
    OBVIOUS
  <2>1. saved \in Lists
    BY ValueTypes, TahtoAssumption DEF Init, Lists
  <2>2. saved.nodes \subseteq Nodes /\ 0 \in 0..MaxKeys
    BY <2>1, TahtoAssumption DEF Lists
  <2>3. TypeOK
    BY <2>1, <2>2, ValueTypes DEF Init, TypeOK
  <2>4. Placed
    BY DEF Init, Placed, Idle, Runners
  <2> QED BY <2>3, <2>4 DEF TypeInv
<1>2. TypeInv /\ [Next]_vars => TypeInv'
  BY TypeStep
<1> QED BY <1>1, <1>2, PTL DEF Spec

\* The lists, keys, records and operations stay within their types.
THEOREM TypeCorrect == Spec => []TypeOK
<1>1. TypeInv => TypeOK
  BY DEF TypeInv
<1> QED BY <1>1, TypesInvariant, PTL
-----------------------------------------------------------------------------
(* The list and its default.                                                *)

\* What the operations make of a sound list is sound.
LEMMA SoundLists ==
  /\ Sound(NoNodes)
  /\ \A list \in Lists, n \in Nodes : Sound(list) => Sound(Upsert(list, n))
  /\ \A list \in Lists : \A n \in list.nodes : Sound(WithDefault(list, n))
  /\ \A list \in Lists, n \in Nodes : Sound(list) => \A other \in Removed(list, n) : Sound(other)
<1>1. Sound(NoNodes)
  BY DEF Sound, NoNodes
<1>2. \A list \in Lists, n \in Nodes : Sound(list) => Sound(Upsert(list, n))
  BY TahtoAssumption DEF Sound, Upsert, Lists
<1>3. \A list \in Lists : \A n \in list.nodes : Sound(WithDefault(list, n))
  BY DEF Sound, WithDefault, Lists
<1>4. ASSUME NEW list \in Lists, NEW n \in Nodes, Sound(list), NEW other \in Removed(list, n)
      PROVE  Sound(other)
  <2> DEFINE rest == list.nodes \ {n}
  <2>1. PICK d \in IF list.default # n THEN {list.default} ELSE IF rest = {} THEN {Nil} ELSE rest :
          other = [nodes |-> rest, default |-> d]
    BY <1>4 DEF Removed
  <2>2. d \in rest \/ (rest = {} /\ d = Nil)
    BY <1>4, <2>1 DEF Sound
  <2> QED BY <2>1, <2>2 DEF Sound
<1> QED BY <1>1, <1>2, <1>3, <1>4

\* Every step keeps the lists sound, those that operations are about to save included.
LEMMA ListStep == ASSUME TypeInv, ListInv, [Next]_vars PROVE ListInv'
<1>1. /\ saved \in Lists /\ copy \in [Tabs -> Lists] /\ task \in [Runners -> Works]
      /\ Monitor \in Runners
  BY DEF TypeInv, TypeOK, Runners
<1>2. ASSUME NEW w \in Runners, Step(w) PROVE ListInv'
  <2>1. PICK v \in Works :
          /\ Continues(w, v)
          /\ \/ v.next \in {NoNodes, task[w].next}
             \/ w # Monitor /\ v.next = Upsert(copy[Tab(w)], task[w].node)
             \/ w # Monitor /\ v.next \in Removed(copy[Tab(w)], task[w].node)
    BY <1>2, Continued
  <2>2. w # Monitor => Tab(w) \in Tabs
    BY TahtoAssumption DEF Runners, Tab
  <2>3. task[w].node \in Nodes
    BY <1>2 DEF Step, Ask, Withdraw, Inspect, Save, ReadRecord, WriteRecord, Look, Create, Prepare,
                Sign, Complete, Bind, Revoke, RemoveNode, Pair, At, Operations, TypeInv, Placed
  <2>4. Sound(v.next)
    BY <1>1, <2>1, <2>2, <2>3, SoundLists DEF ListInv
  <2>5. \A u \in Runners : Sound(task'[u].next)
    BY <1>1, <2>1, <2>4 DEF Continues, ListInv
  <2>6. CASE UNCHANGED <<saved, copy>>
    BY <2>5, <2>6 DEF ListInv
  <2>7. CASE saved' = task[w].next /\ copy' = [copy EXCEPT ![Tab(w)] = task[w].next]
    BY <1>1, <2>5, <2>7 DEF ListInv
  <2> QED BY <1>2, <2>6, <2>7
          DEF Step, Ask, Withdraw, Inspect, Save, ReadRecord, WriteRecord, Look, Create, Prepare,
              Sign, Complete, Bind, Revoke, RemoveNode
<1>3. CASE Others
  <2>1. \A t \in Tabs : Sound(copy'[t])
    BY <1>3, OthersEffect DEF ListInv
  <2>2. \A w \in Runners : Sound(task'[w].next)
    BY <1>1, <1>3, OthersEffect, SoundLists DEF ListInv
  <2> QED BY <1>3, <2>1, <2>2, OthersEffect DEF ListInv
<1>4. CASE UNCHANGED vars
  BY <1>4 DEF vars, ListInv
<1> QED BY <1>2, <1>3, <1>4 DEF Next, Others

\* A stored list that names a node names a default that is on it, whichever tab saved
\* its copy last (upsertTahtoNode, setDefaultTahtoNode and removeTahtoNode).
THEOREM DefaultStays == Spec => []DefaultIsListed
<1>1. Init => ListInv
  <2> SUFFICES ASSUME Init PROVE ListInv
    OBVIOUS
  <2>1. Sound(saved)
    BY SoundLists DEF Init, Sound
  <2> QED BY <2>1, SoundLists DEF Init, ListInv, Idle
<1>2. TypeInv /\ ListInv /\ [Next]_vars => ListInv'
  BY ListStep
<1>3. ListInv => DefaultIsListed
  BY DEF ListInv, Sound, DefaultIsListed
<1> QED BY <1>1, <1>2, <1>3, TypesInvariant, PTL DEF Spec

-----------------------------------------------------------------------------
(* Device keys.                                                             *)

\* What KeyIsKept says of a step.
Kept == \A n \in Nodes : key[n] # NoKey =>
          \/ key'[n].id = key[n].id
          \/ key'[n] = NoKey /\ \E w \in Tasks : At(w, {"forget"}, "removing") /\ task[w].node = n

\* A step changes the key of its own node: made where there was none, bound to the
\* device that the operation paired, or removed by a forget.
LEMMA KeyEffect ==
  ASSUME TypeInv, NEW w \in Runners, Step(w)
  PROVE  /\ UNCHANGED key \/ task[w].node \in Nodes
         /\ \/ UNCHANGED key
            \/ /\ key[task[w].node] = NoKey
               /\ \E i \in Nat : key' = [key EXCEPT ![task[w].node] = [id |-> i, device |-> 0]]
            \/ /\ Binds(w)
               /\ key' = [key EXCEPT ![task[w].node].device = task[w].key]
            \/ /\ w # Monitor /\ At(w, {"forget"}, "removing")
               /\ key' = [key EXCEPT ![task[w].node] = NoKey]
<1>1. CASE Create(w)
  <2>1. task[w].node \in Nodes
    BY <1>1 DEF Create, Pair, At, TypeInv, Placed
  <2>2. made[task[w].node] + 1 \in Nat
    BY <2>1, TahtoAssumption DEF TypeInv, TypeOK
  <2> QED BY <1>1, <2>1, <2>2 DEF Create, MayCreate
<1>2. CASE Bind(w)
  BY <1>2 DEF Bind, Pair, At, Binds, TypeInv, Placed
<1>3. CASE RemoveNode(w)
  BY <1>3 DEF RemoveNode, At, TypeInv, Placed
<1>4. CASE ~Create(w) /\ ~Bind(w) /\ ~RemoveNode(w)
  BY <1>4 DEF Step, Ask, Withdraw, Inspect, Save, ReadRecord, WriteRecord, Look, Prepare, Sign,
              Complete, Revoke
<1> QED BY <1>1, <1>2, <1>3, <1>4

\* No step forgets a pairing.
LEMMA PairedGrows ==
  ASSUME TypeInv, [Next]_vars PROVE \A n \in Nodes : paired[n] \subseteq paired'[n]
<1>1. ASSUME NEW w \in Runners, Step(w) PROVE \A n \in Nodes : paired[n] \subseteq paired'[n]
  <2>1. UNCHANGED paired \/ paired' = [paired EXCEPT ![task[w].node] = @ \cup {task[w].key}]
    BY <1>1 DEF Step, Ask, Withdraw, Inspect, Save, ReadRecord, WriteRecord, Look, Create, Prepare,
                Sign, Complete, NodePairs, Bind, Revoke, RemoveNode
  <2> QED BY <2>1 DEF TypeInv, TypeOK
<1>2. CASE Others
  BY <1>2, OthersEffect
<1>3. CASE UNCHANGED vars
  BY <1>3 DEF vars
<1> QED BY <1>1, <1>2, <1>3 DEF Next, Others

\* Every step keeps the devices of keys among what was paired.
LEMMA KeyStep == ASSUME TypeInv, KeyInv, [Next]_vars PROVE KeyInv' /\ Kept
<1>1. /\ key \in [Nodes -> Keys] /\ task \in [Runners -> Works]
      /\ \A n \in Nodes : paired[n] \subseteq paired'[n]
  BY PairedGrows DEF TypeInv, TypeOK
<1>2. ASSUME NEW w \in Runners, Step(w) PROVE KeyInv' /\ Kept
  <2> DEFINE n == task[w].node
  <2>1. PICK v \in Works :
          Continues(w, v) /\ (v.kind = "pair" /\ v.at = "binding" => v.key \in paired'[v.node])
    BY <1>2, Continued
  <2>2. \A u \in Runners : Binds(u) => task[u].node \in Nodes
    BY DEF Binds, TypeInv, Placed
  <2>3. \A u \in Runners : task'[u] = IF u = w THEN v ELSE task[u]
    BY <1>1, <2>1 DEF Continues
  <2>4. \A u \in Runners : Binds(u)' => task'[u].key \in paired'[task'[u].node]
    BY <1>1, <2>1, <2>2, <2>3 DEF Binds, KeyInv
  <2>5. ASSUME NEW m \in Nodes, key'[m] = key[m] PROVE Signs(m)' => key'[m].device \in paired'[m]
    BY <1>1, <2>5 DEF KeyInv, DeviceWasPaired, Signs
  <2>6. CASE UNCHANGED key
    <3>1. Kept
      BY <2>6 DEF Kept
    <3> QED BY <2>4, <2>5, <2>6, <3>1 DEF KeyInv, DeviceWasPaired
  <2>7. CASE n \in Nodes /\ key[n] = NoKey /\ \E i \in Nat : key' = [key EXCEPT ![n] = [id |-> i, device |-> 0]]
    <3>1. key'[n].device = 0 /\ \A m \in Nodes \ {n} : key'[m] = key[m]
      BY <1>1, <2>7
    <3>2. Kept
      BY <2>7, <3>1 DEF Kept
    <3> QED BY <2>4, <2>5, <3>1, <3>2 DEF KeyInv, DeviceWasPaired, Signs
  <2>8. CASE n \in Nodes /\ Binds(w) /\ key' = [key EXCEPT ![n].device = task[w].key]
    <3>1. /\ key'[n].device = task[w].key /\ key'[n].id = key[n].id
          /\ \A m \in Nodes \ {n} : key'[m] = key[m]
      BY <1>1, <2>8 DEF Keys
    <3>2. task[w].key \in paired'[n]
      BY <1>1, <2>8 DEF KeyInv
    <3>3. Kept
      BY <3>1 DEF Kept
    <3> QED BY <2>4, <2>5, <3>1, <3>2, <3>3 DEF KeyInv, DeviceWasPaired, Signs
  <2>9. CASE n \in Nodes /\ w # Monitor /\ At(w, {"forget"}, "removing") /\ key' = [key EXCEPT ![n] = NoKey]
    <3>1. key'[n] = NoKey /\ w \in Tasks /\ \A m \in Nodes \ {n} : key'[m] = key[m]
      BY <1>1, <2>9 DEF Runners
    <3>2. Kept
      BY <2>9, <3>1 DEF Kept
    <3>3. key'[n].device = 0
      BY <3>1 DEF NoKey
    <3> QED BY <2>4, <2>5, <3>1, <3>2, <3>3 DEF KeyInv, DeviceWasPaired, Signs
  <2> QED BY <1>2, <2>6, <2>7, <2>8, <2>9, KeyEffect
<1>3. CASE Others \/ UNCHANGED vars
  <2>1. UNCHANGED <<key, paired>>
    BY <1>3, OthersEffect DEF vars
  <2>2. \A u \in Runners : task'[u] = task[u] \/ ~Binds(u)'
    BY <1>3, OthersEffect DEF vars
  <2>3. \A u \in Runners : Binds(u)' => task'[u].key \in paired'[task'[u].node]
    BY <2>1, <2>2 DEF KeyInv, Binds
  <2> QED BY <2>1, <2>3 DEF KeyInv, DeviceWasPaired, Signs, Kept
<1> QED BY <1>2, <1>3 DEF Next, Others

\* What is signed in the name of a device is signed for one the node has paired
\* (DeviceWasPaired of the run), whatever pairings and forgets were interrupted.
THEOREM OnlyPairedSign == Spec => []DeviceWasPaired
<1>1. Init => KeyInv
  BY DEF Init, KeyInv, DeviceWasPaired, Signs, NoKey, Binds, Idle
<1>2. TypeInv /\ KeyInv /\ [Next]_vars => KeyInv'
  BY KeyStep
<1>3. KeyInv => DeviceWasPaired
  BY DEF KeyInv
<1> QED BY <1>1, <1>2, <1>3, TypesInvariant, PTL DEF Spec

\* A key is replaced only after a forget removed it (KeyIsKept of the run).
THEOREM KeysKept == Spec => KeyIsKept
<1>1. Init => KeyInv
  BY DEF Init, KeyInv, DeviceWasPaired, Signs, NoKey, Binds, Idle
<1>2. TypeInv /\ KeyInv /\ [Next]_vars => KeyInv' /\ [Kept]_vars
  BY KeyStep
<1> QED BY <1>1, <1>2, TypesInvariant, PTL DEF Spec, KeyIsKept, Kept

-----------------------------------------------------------------------------
(* The personal chain.                                                      *)

\* All inclusions are the links of one sequence of different actions, under one
\* key and of one kind, and the stored actions are those of the sequence.
Whole(A, k, b) ==
  /\ A \in Seq(Acts) /\ k \in Nat /\ b \in BOOLEAN
  /\ IsInjective(A)
  /\ inclusions = Links(k, A, b)
  /\ {a.id : a \in actions} = Range(A)
WholeInv == \E A \in Seq(Acts), k \in Nat, b \in BOOLEAN : Whole(A, k, b)

AllSigned == \A i \in inclusions : i.signed

AtWork == {"ready", "creating", "wanting", "recording"}
Has(p) == pc[p] \in {"wanting", "recording"}

\* What a tab has read under the lock is what is stored; the outbox can only
\* have shrunk since.
ReadMem == [owner : Owners, is : SUBSET Inclusions, out : SUBSET Inclusions]
LockInv(p) ==
  /\ lock = p <=> pc[p] \in {"migrating", "recording"}
  /\ pc[p] = "migrating" =>
       /\ mem[p] \in ReadMem
       /\ mem[p].is = inclusions
       /\ outbox \subseteq mem[p].out /\ mem[p].out \subseteq inclusions
  /\ pc[p] = "recording" =>
       mem[p].read = inclusions /\ \A i \in inclusions : i.key = mem[p].key

\* A tab that has got past the migration finds a signed chain, and the action it
\* holds is in no store.
TabMem == [key : Nat \cup {None}, known : SUBSET Inclusions,
           act : Acts \cup {None}, read : SUBSET Inclusions]
TabInv(p) ==
  /\ pc[p] \in AtWork => mem[p] \in TabMem
  /\ pc[p] \in AtWork \cup {"loaded"} => AllSigned
  /\ pc[p] = "creating" => mem[p].key \in Nat
  /\ Has(p) => /\ mem[p].act \in Acts /\ mem[p].key \in Nat
               /\ mem[p].act \notin {a.id : a \in actions}

\* No two tabs hold one action.
Apart == \A p, q \in Pages : Has(p) /\ Has(q) /\ p # q => mem[p].act # mem[q].act

\* What is with the node, or on its way, is of the signed chain and leaves no gap.
NodeInv ==
  /\ retained \subseteq inclusions /\ \A b \in posts : b \subseteq inclusions
  /\ retained # {} \/ posts # {} => AllSigned
  /\ \A b \in posts : \A i \in b : Sequence(i) = 1 \/ Previous(i) \in b \cup retained
  /\ \A l \in Launchers : lpc[l] = "accepted" => batch[l] \subseteq retained
  /\ KeptUntilAcknowledged /\ EveryBatchFits

ChainInv ==
  /\ ChainTypeOK /\ WholeInv /\ NodeInv /\ Apart
  /\ \A p \in Pages : LockInv(p) /\ TabInv(p)

\* With one key for the profile, all is of this key, and nothing is stored before it.
Maker(p) == pc[p] = "creating"
OwnerInv ==
  /\ keysMade \in {0, 1}
  /\ owner # None => owner.key = 1 /\ keysMade = 1 /\ BridgeHolds(owner, inclusions)
  /\ owner = None => actions = {} /\ inclusions = {}
  /\ keyring # None => keyring = 1 /\ keysMade = 1 /\ owner = None
  /\ \A p \in Pages : Maker(p) =>
       /\ mem[p].key = 1 /\ keysMade = 1 /\ owner = None /\ keyring = None
       /\ \A q \in Pages \ {p} : ~ Maker(q)
  /\ \A a \in actions : a.key = 1
  /\ \A i \in inclusions : i.key = 1
  /\ \A p \in Pages : pc[p] \in {"ready", "wanting", "recording"} /\ mem[p].key # None =>
       mem[p].key = 1 /\ owner # None
  /\ \A p \in Pages : pc[p] = "migrating" => mem[p].owner = owner /\ owner # None
-----------------------------------------------------------------------------
(* The links of a sequence of actions.                                      *)

\* The beginnings of a sequence are sequences, and those of a beginning are its own.
LEMMA Beginnings ==
  ASSUME NEW A \in Seq(Acts), NEW n \in 0 .. Len(A)
  PROVE  /\ SubSeq(A, 1, n) \in Seq(Acts) /\ Len(SubSeq(A, 1, n)) = n
         /\ DOMAIN SubSeq(A, 1, n) = 1 .. n
         /\ \A j \in 1 .. n : SubSeq(A, 1, n)[j] = A[j]
         /\ \A m \in 0 .. n : SubSeq(SubSeq(A, 1, n), 1, m) = SubSeq(A, 1, m)
         /\ SubSeq(A, 1, Len(A)) = A
<1>1. \A j \in 1 .. n : A[j] \in Acts
  OBVIOUS
<1>2. /\ SubSeq(A, 1, n) \in Seq(Acts)
      /\ Len(SubSeq(A, 1, n)) = IF 1 <= n THEN n - 1 + 1 ELSE 0
      /\ \A j \in 1 .. n - 1 + 1 : SubSeq(A, 1, n)[j] = A[1 + j - 1]
  BY <1>1, SubSeqProperties, n \in Int
<1>3. Len(SubSeq(A, 1, n)) = n
  BY <1>2
<1>4. \A j \in 1 .. n : SubSeq(A, 1, n)[j] = A[j]
  BY <1>2
<1>5. ASSUME NEW m \in 0 .. n PROVE SubSeq(SubSeq(A, 1, n), 1, m) = SubSeq(A, 1, m)
  <2>1. CASE m = 0
    BY <2>1, SubSeqEmpty, 0 < 1
  <2>2. CASE m > 0
    <3>1. /\ 1 \in 1 .. Len(A) /\ n \in 1 .. Len(A)
          /\ 1 \in 1 .. n - 1 + 1 /\ m \in 1 .. n - 1 + 1
      BY <2>2
    <3>2. SubSeq(SubSeq(A, 1, n), 1, m) = SubSeq(A, 1 + 1 - 1, 1 + m - 1)
      BY <3>1, SubSeqOfSubSeq
    <3> QED BY <3>2
  <2> QED BY <2>1, <2>2
<1>6. SubSeq(A, 1, Len(A)) = A
  BY SubSeqFull
<1> QED BY <1>2, <1>3, <1>4, <1>5, <1>6

\* What the code changes in a link.
LEMMA ChangedLink ==
  ASSUME NEW i \in Inclusions
  PROVE  /\ [i EXCEPT !.signed = TRUE] = Inclusion(i.acts, i.key, TRUE)
         /\ Previous(i) = Inclusion(Front(i.acts), i.key, i.signed)
<1>1. i = [acts |-> i.acts, key |-> i.key, signed |-> i.signed]
  BY DEF Inclusions
<1>2. [i EXCEPT !.signed = TRUE] = [acts |-> i.acts, key |-> i.key, signed |-> TRUE]
  <2>1. \A v : [i EXCEPT !.signed = v] = [acts |-> i.acts, key |-> i.key, signed |-> v]
    BY DEF Inclusions
  <2> QED BY <2>1, Zenon
<1>3. [i EXCEPT !.acts = Front(@)] = [acts |-> Front(i.acts), key |-> i.key, signed |-> i.signed]
  BY DEF Inclusions
<1> QED BY <1>2, <1>3 DEF Inclusion, Previous

\* A link is known by its place in the chain.
LEMMA LinkFacts ==
  ASSUME NEW A \in Seq(Acts), NEW k \in Nat, NEW b \in BOOLEAN, NEW i \in Links(k, A, b)
  PROVE  /\ i \in Inclusions /\ i.key = k /\ i.signed = b
         /\ Sequence(i) \in 1 .. Len(A)
         /\ i.acts = SubSeq(A, 1, Sequence(i))
         /\ i = Inclusion(SubSeq(A, 1, Sequence(i)), k, b)
<1>1. PICK n \in 1 .. Len(A) : i = Inclusion(SubSeq(A, 1, n), k, b)
  BY DEF Links
<1>2. SubSeq(A, 1, n) \in Seq(Acts) /\ Len(SubSeq(A, 1, n)) = n
  BY Beginnings, n \in 0 .. Len(A)
<1>3. Sequence(i) = n
  BY <1>1, <1>2 DEF Inclusion, Sequence
<1> QED BY <1>1, <1>2, <1>3 DEF Inclusion, Inclusions

\* Each place has its link, and the one before it.
LEMMA LinkAt ==
  ASSUME NEW A \in Seq(Acts), NEW k \in Nat, NEW b \in BOOLEAN, NEW n \in 1 .. Len(A)
  PROVE  Inclusion(SubSeq(A, 1, n), k, b) \in Links(k, A, b)
BY DEF Links

LEMMA LinkBefore ==
  ASSUME NEW A \in Seq(Acts), NEW k \in Nat, NEW b \in BOOLEAN, NEW i \in Links(k, A, b),
         Sequence(i) # 1
  PROVE  Previous(i) \in Links(k, A, b)
<1> DEFINE n == Sequence(i)
<1>1. n \in 1 .. Len(A) /\ i = Inclusion(SubSeq(A, 1, n), k, b)
  BY LinkFacts
<1>2. n - 1 \in 1 .. Len(A) /\ n \in 0 .. Len(A) /\ n - 1 \in 0 .. n
  BY <1>1
<1>3. Len(SubSeq(A, 1, n)) = n /\ SubSeq(SubSeq(A, 1, n), 1, n - 1) = SubSeq(A, 1, n - 1)
  BY <1>2, Beginnings
<1>4. Front(SubSeq(A, 1, n)) = SubSeq(A, 1, n - 1)
  BY <1>3 DEF Front
<1>5. Previous(i) = Inclusion(SubSeq(A, 1, n - 1), k, b)
  <2>1. /\ i \in Inclusions /\ i.key = k /\ i.signed = b
        /\ i.acts = SubSeq(A, 1, n)
    BY LinkFacts
  <2> QED BY <1>4, <2>1, ChangedLink
<1> QED BY <1>2, <1>5, LinkAt

\* The links of a sequence of different actions are one chain.
LEMMA LinksAreChain ==
  ASSUME NEW A \in Seq(Acts), NEW k \in Nat, NEW b \in BOOLEAN
  PROVE  /\ IsChain(Links(k, A, b))
         /\ IsInjective(A) => \A i \in Links(k, A, b) : IsInjective(i.acts)
<1>1. ASSUME NEW i \in Links(k, A, b), NEW j \in Links(k, A, b), Sequence(i) = Sequence(j)
      PROVE  i = j
  BY <1>1, LinkFacts
<1>2. \A i \in Links(k, A, b) : Sequence(i) = 1 \/ Previous(i) \in Links(k, A, b)
  BY LinkBefore
<1>3. ASSUME IsInjective(A), NEW i \in Links(k, A, b) PROVE IsInjective(i.acts)
  <2>1. Sequence(i) \in 0 .. Len(A) /\ i.acts = SubSeq(A, 1, Sequence(i))
    BY LinkFacts
  <2>2. /\ DOMAIN i.acts = 1 .. Sequence(i) /\ 1 .. Sequence(i) \subseteq DOMAIN A
        /\ \A j \in 1 .. Sequence(i) : i.acts[j] = A[j]
    BY <2>1, Beginnings
  <2> QED BY <1>3, <2>2 DEF IsInjective
<1> QED BY <1>1, <1>2, <1>3 DEF IsChain

\* The head is the link of the last action.
LEMMA HeadOfLinks ==
  ASSUME NEW A \in Seq(Acts), NEW k \in Nat, NEW b \in BOOLEAN, Links(k, A, b) # {}
  PROVE  /\ HeadOf(Links(k, A, b)) \in Links(k, A, b)
         /\ HeadOf(Links(k, A, b)).acts = A /\ HeadOf(Links(k, A, b)).key = k
<1> DEFINE S == Links(k, A, b)
           last == Inclusion(SubSeq(A, 1, Len(A)), k, b)
<1>1. \A i \in S : Sequence(i) \in 1 .. Len(A) /\ i.acts = SubSeq(A, 1, Sequence(i)) /\ i.key = k
  BY LinkFacts
<1>2. Len(A) \in 1 .. Len(A)
  BY <1>1
<1>3. last \in S /\ SubSeq(A, 1, Len(A)) = A
  BY <1>2, LinkAt, Beginnings, Len(A) \in 0 .. Len(A)
<1>4. Sequence(last) = Len(A)
  BY <1>3 DEF Inclusion, Sequence
<1>5. \E i \in S : \A j \in S : Sequence(j) <= Sequence(i)
  BY <1>1, <1>3, <1>4
<1>6. HeadOf(S) = CHOOSE i \in S : \A j \in S : Sequence(j) <= Sequence(i)
  BY DEF HeadOf
<1>7. HeadOf(S) \in S /\ \A j \in S : Sequence(j) <= Sequence(HeadOf(S))
  BY <1>5, <1>6
<1>8. Sequence(HeadOf(S)) = Len(A)
  BY <1>1, <1>3, <1>4, <1>7
<1> QED BY <1>1, <1>3, <1>7, <1>8

\* One more action is one more link.
LEMMA LinksAppend ==
  ASSUME NEW A \in Seq(Acts), NEW k \in Nat, NEW b \in BOOLEAN, NEW a \in Acts
  PROVE  Links(k, Append(A, a), b) = Links(k, A, b) \cup {Inclusion(Append(A, a), k, b)}
<1> DEFINE B == Append(A, a)
<1>1. /\ B \in Seq(Acts) /\ Len(B) = Len(A) + 1 /\ \A n \in 1 .. Len(A) : B[n] = A[n]
  BY AppendProperties
<1>2. ASSUME NEW n \in 1 .. Len(A) PROVE SubSeq(B, 1, n) = SubSeq(A, 1, n)
  <2>1. /\ SubSeq(A, 1, n) \in Seq(Acts) /\ Len(SubSeq(A, 1, n)) = n
        /\ \A j \in 1 .. n : SubSeq(A, 1, n)[j] = A[j]
    BY Beginnings, n \in 0 .. Len(A)
  <2>2. /\ SubSeq(B, 1, n) \in Seq(Acts) /\ Len(SubSeq(B, 1, n)) = n
        /\ \A j \in 1 .. n : SubSeq(B, 1, n)[j] = B[j]
    BY <1>1, Beginnings, n \in 0 .. Len(B)
  <2>3. \A j \in 1 .. n : SubSeq(B, 1, n)[j] = SubSeq(A, 1, n)[j]
    BY <1>1, <2>1, <2>2
  <2> QED BY <2>1, <2>2, <2>3, SeqEqual
<1>3. SubSeq(B, 1, Len(B)) = B
  BY <1>1, SubSeqFull
<1>4. Links(k, B, b) = {Inclusion(SubSeq(B, 1, n), k, b) : n \in 1 .. Len(A)} \cup {Inclusion(B, k, b)}
  <2>1. 1 .. Len(B) = 1 .. Len(A) \cup {Len(B)}
    BY <1>1
  <2> QED BY <1>3, <2>1 DEF Links
<1> QED BY <1>2, <1>4 DEF Links

\* The migration signs each link, whatever it signed before.
LEMMA SignedLinks ==
  ASSUME NEW A \in Seq(Acts), NEW k \in Nat, NEW b \in BOOLEAN
  PROVE  Signed(Links(k, A, b)) = Links(k, A, TRUE)
<1>1. ASSUME NEW n \in 1 .. Len(A)
      PROVE  [Inclusion(SubSeq(A, 1, n), k, b) EXCEPT !.signed = TRUE]
               = Inclusion(SubSeq(A, 1, n), k, TRUE)
  <2>1. SubSeq(A, 1, n) \in Seq(Acts)
    BY Beginnings, n \in 0 .. Len(A)
  <2>2. Inclusion(SubSeq(A, 1, n), k, b) \in Inclusions
    BY <2>1 DEF Inclusion, Inclusions
  <2> QED BY <2>2, ChangedLink DEF Inclusion
<1>2. Signed(Links(k, A, b)) =
        {[Inclusion(SubSeq(A, 1, n), k, b) EXCEPT !.signed = TRUE] : n \in 1 .. Len(A)}
  BY DEF Signed, Links
<1>3. Links(k, A, TRUE) = {Inclusion(SubSeq(A, 1, n), k, TRUE) : n \in 1 .. Len(A)}
  BY DEF Links
<1> QED BY <1>1, <1>2, <1>3

\* The actions that the links name are those of the sequence.
LEMMA LastsOfLinks ==
  ASSUME NEW A \in Seq(Acts), NEW k \in Nat, NEW b \in BOOLEAN
  PROVE  {Last(i.acts) : i \in Links(k, A, b)} = Range(A)
<1>1. ASSUME NEW n \in 1 .. Len(A) PROVE Last(Inclusion(SubSeq(A, 1, n), k, b).acts) = A[n]
  <2>1. Len(SubSeq(A, 1, n)) = n /\ \A j \in 1 .. n : SubSeq(A, 1, n)[j] = A[j]
    BY Beginnings, n \in 0 .. Len(A)
  <2> QED BY <2>1 DEF Inclusion, Last
<1>2. DOMAIN A = 1 .. Len(A)
  OBVIOUS
<1>3. {Last(i.acts) : i \in Links(k, A, b)}
        = {Last(Inclusion(SubSeq(A, 1, n), k, b).acts) : n \in 1 .. Len(A)}
  BY DEF Links
<1> QED BY <1>1, <1>2, <1>3 DEF Range
-----------------------------------------------------------------------------
(* The tabs.                                                                *)

TabSteps == {"closed", "loading", "recovery", "migrating", "loaded",
          "ready", "creating", "wanting", "recording"}

\* What a step of a tab keeps that touches no store but the owner's record.
LEMMA StoresKept ==
  ASSUME ChainInv, UNCHANGED <<actions, inclusions, outbox, connector>>
  PROVE  WholeInv' /\ NodeInv' /\ (AllSigned <=> AllSigned')
<1>1. WholeInv'
  BY DEF ChainInv, WholeInv, Whole
<1>2. NodeInv'
  BY DEF ChainInv, NodeInv, connector, AllSigned, KeptUntilAcknowledged, EveryBatchFits
<1> QED BY <1>1, <1>2 DEF AllSigned

\* A tab that another one leaves alone.
LEMMA OtherTab ==
  ASSUME ChainTypeOK, NEW p \in Pages, LockInv(p), TabInv(p),
         pc'[p] = pc[p], mem'[p] = mem[p], lock' = p <=> lock = p,
         inclusions' = inclusions, actions' = actions, outbox' \subseteq outbox
  PROVE  LockInv(p)' /\ TabInv(p)'
<1>1. LockInv(p)'
  BY DEF LockInv
<1>2. TabInv(p)'
  BY DEF TabInv, AllSigned, Has
<1> QED BY <1>1, <1>2

\* One tab moves, and may take or free the lock.
LEMMA TabMoves ==
  ASSUME ChainInv, NEW p \in Pages, NEW step \in TabSteps,
         NEW m \in ReadMem \cup TabMem \cup {None},
         UNCHANGED <<actions, inclusions, outbox, connector>>,
         pc' = [pc EXCEPT ![p] = step], mem' = [mem EXCEPT ![p] = m],
         owner' \in Owners \cup {None}, keyring' \in Nat \cup {None},
         keysMade' \in Nat, upsets' \in 0 .. MaxUpsets,
         lock' \in Pages \cup {None}, \A q \in Pages \ {p} : lock' = q <=> lock = q,
         LockInv(p)', TabInv(p)',
         step \in {"wanting", "recording"} =>
           \A q \in Pages \ {p} : Has(q) => mem[q].act # m.act
  PROVE  ChainInv'
<1> USE DEF ChainInv
<1>1. pc \in [Pages -> TabSteps] /\ mem \in [Pages -> ReadMem \cup TabMem \cup {None}]
  BY DEF ChainTypeOK, TabSteps, ReadMem, TabMem
<1>2. /\ pc'[p] = step /\ mem'[p] = m
      /\ \A q \in Pages \ {p} : pc'[q] = pc[q] /\ mem'[q] = mem[q]
  BY <1>1
<1>3. pc' \in [Pages -> TabSteps] /\ mem' \in [Pages -> ReadMem \cup TabMem \cup {None}]
  BY <1>1
<1>4. ChainTypeOK'
  BY <1>3 DEF ChainTypeOK, TabSteps, ReadMem, TabMem, connector
<1>5. WholeInv' /\ NodeInv'
  BY StoresKept
<1>6. \A q \in Pages : LockInv(q)' /\ TabInv(q)'
  BY <1>2, OtherTab
<1>7. Apart'
  BY <1>2 DEF Apart, Has
<1> QED BY <1>4, <1>5, <1>6, <1>7

\* load() goes to the migration.
LEMMA OpenKeeps == ASSUME ChainInv, NEW p \in Pages, Open(p) PROVE ChainInv'
<1>1. mem' = [mem EXCEPT ![p] = mem[p]] /\ mem[p] \in ReadMem \cup TabMem \cup {None}
  BY DEF Open, ChainInv, ChainTypeOK, ReadMem, TabMem
<1>2. pc' = [pc EXCEPT ![p] = "loading"] /\ pc'[p] = "loading" /\ pc[p] = "closed"
  BY DEF Open, Go, ChainInv, ChainTypeOK
<1>3. LockInv(p)' /\ TabInv(p)'
  BY <1>2 DEF ChainInv, LockInv, TabInv, Has, AtWork, Open
<1> QED BY <1>1, <1>2, <1>3, TabMoves, "loading" \in TabSteps DEF TabSteps, Open, disk, ChainInv, ChainTypeOK

\* The migration finds nothing to do, or reads all stores under the lock.
LEMMA MigrateKeeps == ASSUME ChainInv, NEW p \in Pages, Migrate(p) PROVE ChainInv'
<1> USE DEF ChainInv
<1>1. /\ pc[p] = "loading" /\ lock = None /\ UNCHANGED <<disk, keyring, keysMade, connector, upsets>>
      /\ mem \in [Pages -> ReadMem \cup TabMem \cup {None}] /\ pc \in [Pages -> TabSteps]
  BY DEF Migrate, MayLock, ChainTypeOK, ReadMem, TabMem, TabSteps
<1>2. UNCHANGED <<actions, inclusions, outbox, connector, owner, keyring, keysMade, upsets>>
  BY <1>1 DEF disk
<1>3. p # None /\ \A q \in Pages : q # None
  BY ChainAssumption
<1>4. /\ owner' \in Owners \cup {None} /\ keyring' \in Nat \cup {None}
      /\ keysMade' \in Nat /\ upsets' \in 0 .. MaxUpsets
  BY <1>2 DEF ChainTypeOK
<1>5. CASE Go(p, "recovery") /\ UNCHANGED <<lock, mem>>
  <2>1. mem' = [mem EXCEPT ![p] = mem[p]] /\ mem[p] \in ReadMem \cup TabMem \cup {None}
    BY <1>1, <1>5
  <2>2. pc' = [pc EXCEPT ![p] = "recovery"] /\ pc'[p] = "recovery"
    BY <1>1, <1>5 DEF Go
  <2>3. LockInv(p)' /\ TabInv(p)'
    BY <1>1, <1>3, <1>5, <2>2 DEF LockInv, TabInv, Has, AtWork
  <2> QED BY <1>1, <1>2, <1>3, <1>4, <1>5, <2>1, <2>2, <2>3, TabMoves, "recovery" \in TabSteps
       DEF TabSteps
<1>6. CASE /\ owner = None \/ (Kind # "legacy" /\ ~ owner.extractable)
           /\ Loadable(owner, actions, inclusions, outbox)
           /\ Go(p, "loaded") /\ UNCHANGED <<lock, mem>>
  <2>1. mem' = [mem EXCEPT ![p] = mem[p]] /\ mem[p] \in ReadMem \cup TabMem \cup {None}
    BY <1>1, <1>6
  <2>2. pc' = [pc EXCEPT ![p] = "loaded"] /\ pc'[p] = "loaded"
    BY <1>1, <1>6 DEF Go
  <2>3. AllSigned'
    BY <1>2, <1>6 DEF Loadable, Kind, AllSigned
  <2>4. LockInv(p)' /\ TabInv(p)'
    BY <1>1, <1>3, <1>6, <2>2, <2>3 DEF LockInv, TabInv, Has, AtWork
  <2> QED BY <1>1, <1>2, <1>3, <1>4, <1>6, <2>1, <2>2, <2>4, TabMoves, "loaded" \in TabSteps
       DEF TabSteps
<1>7. CASE owner # None /\ Go(p, "migrating") /\ lock' = p /\ Read(p)
  <2> DEFINE m == [owner |-> owner, is |-> inclusions, out |-> outbox]
  <2>1. mem' = [mem EXCEPT ![p] = m] /\ mem'[p] = m
    BY <1>1, <1>7 DEF Read
  <2>2. m \in ReadMem
    BY <1>7 DEF ChainTypeOK, ReadMem
  <2>3. pc' = [pc EXCEPT ![p] = "migrating"] /\ pc'[p] = "migrating"
    BY <1>1, <1>7 DEF Go
  <2>4. LockInv(p)'
    BY <1>2, <1>7, <2>1, <2>2, <2>3 DEF LockInv, ChainTypeOK
  <2>5. TabInv(p)'
    BY <2>3 DEF TabInv, Has, AtWork
  <2>6. \A q \in Pages \ {p} : lock' = q <=> lock = q
    BY <1>1, <1>3, <1>7
  <2> HIDE DEF m
  <2> QED BY <1>2, <1>4, <1>7, <2>1, <2>2, <2>3, <2>4, <2>5, <2>6, TabMoves, "migrating" \in TabSteps
       DEF TabSteps
<1> QED BY <1>5, <1>6, <1>7 DEF Migrate
\* load() ends: what is stored is signed, and stays so.
LEMMA LoadStateKeeps == ASSUME ChainInv, NEW p \in Pages, LoadState(p) PROVE ChainInv'
<1> USE DEF ChainInv
<1> DEFINE m == Resting(KeyOf(owner), inclusions)
<1>1. /\ pc[p] = "loaded" /\ UNCHANGED <<disk, lock, keyring, keysMade, connector, upsets>>
      /\ pc \in [Pages -> TabSteps]
      /\ mem \in [Pages -> ReadMem \cup TabMem \cup {None}]
  BY DEF LoadState, ChainTypeOK, ReadMem, TabMem, TabSteps
<1>2. UNCHANGED <<actions, inclusions, outbox, connector, lock, owner, keyring, keysMade, upsets>>
  BY <1>1 DEF disk
<1>3. pc' = [pc EXCEPT ![p] = "ready"] /\ pc'[p] = "ready"
  BY <1>1 DEF LoadState, Go
<1>4. mem' = [mem EXCEPT ![p] = m] /\ mem'[p] = m
  BY <1>1 DEF LoadState
<1>5. m \in TabMem
  BY DEF TabMem, Resting, KeyOf, ChainTypeOK, Owners
<1>6. AllSigned'
  BY <1>1, <1>2 DEF TabInv, AllSigned
<1>7. LockInv(p)' /\ TabInv(p)'
  BY <1>1, <1>2, <1>3, <1>4, <1>5, <1>6 DEF LockInv, TabInv, Has, AtWork
<1>8. /\ owner' \in Owners \cup {None} /\ keyring' \in Nat \cup {None}
      /\ keysMade' \in Nat /\ upsets' \in 0 .. MaxUpsets /\ lock' \in Pages \cup {None}
  BY <1>2 DEF ChainTypeOK
<1> HIDE DEF m
<1> QED BY <1>2, <1>3, <1>4, <1>5, <1>7, <1>8, TabMoves, "ready" \in TabSteps DEF TabSteps

\* A closed tab holds nothing.
LEMMA CloseKeeps == ASSUME ChainInv, NEW p \in Pages, Close(p) PROVE ChainInv'
<1> USE DEF ChainInv
<1>1. /\ UNCHANGED <<disk, keyring, keysMade, connector>>
      /\ lock' = (IF lock = p THEN None ELSE lock)
      /\ pc \in [Pages -> TabSteps] /\ mem \in [Pages -> ReadMem \cup TabMem \cup {None}]
  BY DEF Close, ChainTypeOK, ReadMem, TabMem, TabSteps
<1>2. UNCHANGED <<actions, inclusions, outbox, connector, owner, keyring, keysMade>>
  BY <1>1 DEF disk
<1>3. pc' = [pc EXCEPT ![p] = "closed"] /\ pc'[p] = "closed"
  BY <1>1 DEF Close, Go
<1>4. mem' = [mem EXCEPT ![p] = None]
  BY DEF Close
<1>5. p # None /\ \A q \in Pages : q # None
  BY ChainAssumption
<1>6. /\ lock' \in Pages \cup {None} /\ lock' # p /\ \A q \in Pages \ {p} : lock' = q <=> lock = q
  BY <1>1, <1>5 DEF ChainTypeOK
<1>7. LockInv(p)' /\ TabInv(p)'
  BY <1>3, <1>6 DEF LockInv, TabInv, Has, AtWork
<1>8. /\ owner' \in Owners \cup {None} /\ keyring' \in Nat \cup {None} /\ keysMade' \in Nat
  BY <1>2 DEF ChainTypeOK
<1>9. upsets' \in 0 .. MaxUpsets
  BY ChainAssumption DEF Close, Upset, ChainTypeOK
<1> QED BY <1>2, <1>3, <1>4, <1>6, <1>7, <1>8, <1>9, TabMoves, "closed" \in TabSteps DEF TabSteps

\* The form of a tab makes a key and stores it.
LEMMA SubmitIdentityKeeps == ASSUME ChainInv, NEW p \in Pages, SubmitIdentity(p) PROVE ChainInv'
<1> USE DEF ChainInv
<1> DEFINE m == [mem[p] EXCEPT !.key = keysMade']
<1>1. /\ pc[p] = "ready" /\ UNCHANGED <<disk, lock, keyring, connector, upsets>>
      /\ pc \in [Pages -> TabSteps] /\ mem \in [Pages -> ReadMem \cup TabMem \cup {None}]
      /\ keysMade' \in Nat /\ mem[p] \in TabMem
  BY DEF SubmitIdentity, MakesKey, ChainTypeOK, ReadMem, TabMem, TabSteps, TabInv, AtWork
<1>2. UNCHANGED <<actions, inclusions, outbox, connector, owner, lock, keyring, upsets>>
  BY <1>1 DEF disk
<1>3. pc' = [pc EXCEPT ![p] = "creating"] /\ pc'[p] = "creating"
  BY <1>1 DEF SubmitIdentity, Go
<1>4. mem' = [mem EXCEPT ![p] = m] /\ mem'[p] = m
  BY <1>1 DEF SubmitIdentity
<1>5. m \in TabMem /\ m.key \in Nat
  BY <1>1 DEF TabMem
<1>6. LockInv(p)' /\ TabInv(p)'
  BY <1>1, <1>2, <1>3, <1>4, <1>5 DEF LockInv, TabInv, Has, AtWork, AllSigned
<1>7. /\ owner' \in Owners \cup {None} /\ keyring' \in Nat \cup {None}
      /\ upsets' \in 0 .. MaxUpsets /\ lock' \in Pages \cup {None}
  BY <1>2 DEF ChainTypeOK
<1> HIDE DEF m
<1> QED BY <1>1, <1>2, <1>3, <1>4, <1>5, <1>6, <1>7, TabMoves, "creating" \in TabSteps DEF TabSteps

LEMMA StoreIdentityKeeps == ASSUME ChainInv, NEW p \in Pages, StoreIdentity(p) PROVE ChainInv'
<1> USE DEF ChainInv
<1>1. /\ pc[p] = "creating"
      /\ UNCHANGED <<actions, inclusions, outbox, connector, lock, mem, keyring, keysMade, upsets>>
      /\ pc \in [Pages -> TabSteps] /\ mem \in [Pages -> ReadMem \cup TabMem \cup {None}]
      /\ mem[p] \in TabMem /\ mem[p].key \in Nat
  BY DEF StoreIdentity, ChainTypeOK, ReadMem, TabMem, TabSteps, TabInv, AtWork
<1>2. pc' = [pc EXCEPT ![p] = "ready"] /\ pc'[p] = "ready"
  BY <1>1 DEF StoreIdentity, Go
<1>3. mem' = [mem EXCEPT ![p] = mem[p]]
  BY <1>1
<1>4. owner' \in Owners
  BY <1>1, EmptySeq DEF StoreIdentity, NewOwner, Owners
<1>5. LockInv(p)' /\ TabInv(p)'
  BY <1>1, <1>2 DEF LockInv, TabInv, Has, AtWork, AllSigned
<1>6. /\ keyring' \in Nat \cup {None} /\ keysMade' \in Nat
      /\ upsets' \in 0 .. MaxUpsets /\ lock' \in Pages \cup {None}
  BY <1>1 DEF ChainTypeOK
<1> QED BY <1>1, <1>2, <1>3, <1>4, <1>5, <1>6, TabMoves, "ready" \in TabSteps DEF TabSteps
\* The keyring makes a key and stores it: no tab is moved.
LEMMA ControllerKeeps == ASSUME ChainInv, CreateController \/ StoreController PROVE ChainInv'
<1> USE DEF ChainInv
<1>1. UNCHANGED <<actions, inclusions, outbox, connector, lock, pc, mem, upsets>>
  BY DEF CreateController, StoreController, disk
<1>2. keyring' \in Nat \cup {None} /\ keysMade' \in Nat
  BY DEF CreateController, StoreController, MakesKey, ChainTypeOK
<1>3. owner' \in Owners \cup {None}
  <2>1. CASE CreateController
    BY <2>1 DEF CreateController, disk, ChainTypeOK
  <2>2. CASE StoreController
    BY <2>2, EmptySeq DEF StoreController, NewOwner, Owners, ChainTypeOK
  <2> QED BY <2>1, <2>2
<1>4. ChainTypeOK'
  BY <1>1, <1>2, <1>3 DEF ChainTypeOK, connector
<1>5. WholeInv' /\ NodeInv'
  BY <1>1, StoresKept
<1>6. \A q \in Pages : LockInv(q)' /\ TabInv(q)'
  BY <1>1, OtherTab
<1>7. Apart'
  BY <1>1 DEF Apart, Has
<1> QED BY <1>4, <1>5, <1>6, <1>7

\* A tab takes an action that no store and no other tab has.
LEMMA SubmitKeeps == ASSUME ChainInv, NEW p \in Pages, NEW a \in Acts, Submit(p, a) PROVE ChainInv'
<1> USE DEF ChainInv
<1> DEFINE m == [mem[p] EXCEPT !.act = a]
<1>1. /\ pc[p] = "ready" /\ UNCHANGED <<disk, lock, keyring, keysMade, connector, upsets>>
      /\ pc \in [Pages -> TabSteps] /\ mem \in [Pages -> ReadMem \cup TabMem \cup {None}]
      /\ mem[p] \in TabMem /\ mem[p].key # None
  BY DEF Submit, ChainTypeOK, ReadMem, TabMem, TabSteps, TabInv, AtWork
<1>2. UNCHANGED <<actions, inclusions, outbox, connector, owner, lock, keyring, keysMade, upsets>>
  BY <1>1 DEF disk
<1>3. pc' = [pc EXCEPT ![p] = "wanting"] /\ pc'[p] = "wanting"
  BY <1>1 DEF Submit, Go
<1>4. mem' = [mem EXCEPT ![p] = m] /\ mem'[p] = m
  BY <1>1 DEF Submit
<1>5. m \in TabMem /\ m.act = a /\ m.key \in Nat
  BY <1>1 DEF TabMem
<1>6. a \notin {x.id : x \in actions} /\ \A q \in Pages : Has(q) => mem[q].act # a
  BY DEF Submit, Used, Has
<1>7. LockInv(p)' /\ TabInv(p)'
  BY <1>1, <1>2, <1>3, <1>4, <1>5, <1>6 DEF LockInv, TabInv, Has, AtWork, AllSigned
<1>8. /\ owner' \in Owners \cup {None} /\ keyring' \in Nat \cup {None} /\ keysMade' \in Nat
      /\ upsets' \in 0 .. MaxUpsets /\ lock' \in Pages \cup {None}
  BY <1>2 DEF ChainTypeOK
<1> HIDE DEF m
<1> QED BY <1>1, <1>2, <1>3, <1>4, <1>5, <1>6, <1>7, <1>8, TabMoves, "wanting" \in TabSteps DEF TabSteps

\* The key of the head is the key of all links.
LEMMA HeadFacts ==
  ASSUME NEW A, NEW k, NEW b, Whole(A, k, b)
  PROVE  /\ inclusions = {} => HeadOf(inclusions) = None /\ A = <<>>
         /\ inclusions # {} => /\ HeadOf(inclusions) \in inclusions
                               /\ HeadOf(inclusions).acts = A
                               /\ HeadOf(inclusions) # None
         /\ \A i \in inclusions : i.key = HeadOf(inclusions).key
<1>1. A \in Seq(Acts) /\ k \in Nat /\ b \in BOOLEAN /\ inclusions = Links(k, A, b)
  BY DEF Whole
<1>2. ASSUME inclusions = {} PROVE A = <<>>
  <2>1. SUFFICES ASSUME A # <<>> PROVE FALSE
    OBVIOUS
  <2>2. Len(A) \in 1 .. Len(A)
    BY <1>1, <2>1, EmptySeq
  <2> QED BY <1>1, <1>2, <2>2, LinkAt
<1>3. inclusions # {} => /\ HeadOf(inclusions) \in inclusions
                         /\ HeadOf(inclusions).acts = A
                         /\ HeadOf(inclusions).key = k
  BY <1>1, HeadOfLinks
<1>4. \A i \in inclusions : i.key = k /\ i \in Inclusions
  BY <1>1, LinkFacts
<1>5. inclusions = {} => HeadOf(inclusions) = None
  BY DEF HeadOf
<1> QED BY <1>2, <1>3, <1>4, <1>5, ChainAssumption

\* Under the lock a tab reads the chain it goes on from, or gives up.
LEMMA BeginRecordKeeps == ASSUME ChainInv, NEW p \in Pages, BeginRecord(p) PROVE ChainInv'
<1> USE DEF ChainInv
<1>1. /\ pc[p] = "wanting" /\ lock = None
      /\ UNCHANGED <<disk, keyring, keysMade, connector, upsets>>
      /\ pc \in [Pages -> TabSteps] /\ mem \in [Pages -> ReadMem \cup TabMem \cup {None}]
      /\ mem[p] \in TabMem /\ mem[p].act \in Acts /\ mem[p].key \in Nat
      /\ mem[p].act \notin {x.id : x \in actions}
  BY DEF BeginRecord, MayLock, ChainTypeOK, ReadMem, TabMem, TabSteps, TabInv, AtWork, Has
<1>2. UNCHANGED <<actions, inclusions, outbox, connector, owner, keyring, keysMade, upsets>>
  BY <1>1 DEF disk
<1>3. p # None /\ \A q \in Pages : q # None
  BY ChainAssumption
<1>4. /\ owner' \in Owners \cup {None} /\ keyring' \in Nat \cup {None} /\ keysMade' \in Nat
      /\ upsets' \in 0 .. MaxUpsets /\ inclusions \subseteq Inclusions
  BY <1>2 DEF ChainTypeOK
<1>5. AllSigned'
  BY <1>1, <1>2 DEF TabInv, AtWork, AllSigned
<1>6. CASE Go(p, "ready") /\ mem' = [mem EXCEPT ![p].act = None] /\ UNCHANGED lock
  <2> DEFINE m == [mem[p] EXCEPT !.act = None]
  <2>1. pc' = [pc EXCEPT ![p] = "ready"] /\ pc'[p] = "ready"
    BY <1>1, <1>6 DEF Go
  <2>2. mem' = [mem EXCEPT ![p] = m] /\ mem'[p] = m /\ m \in TabMem
    BY <1>1, <1>6 DEF TabMem
  <2>3. LockInv(p)' /\ TabInv(p)'
    BY <1>1, <1>3, <1>5, <1>6, <2>1, <2>2 DEF LockInv, TabInv, Has, AtWork
  <2> HIDE DEF m
  <2> QED BY <1>1, <1>2, <1>3, <1>4, <1>6, <2>1, <2>2, <2>3, TabMoves, "ready" \in TabSteps DEF TabSteps
<1>7. CASE /\ HeadOf(inclusions) = None \/ HeadOf(inclusions).key = mem[p].key
           /\ Go(p, "recording") /\ lock' = p /\ mem' = [mem EXCEPT ![p].read = inclusions]
  <2> DEFINE m == [mem[p] EXCEPT !.read = inclusions]
  <2>1. pc' = [pc EXCEPT ![p] = "recording"] /\ pc'[p] = "recording"
    BY <1>1, <1>7 DEF Go
  <2>2. mem' = [mem EXCEPT ![p] = m] /\ mem'[p] = m
    BY <1>1, <1>7
  <2>3. /\ m \in TabMem /\ m.read = inclusions /\ m.key = mem[p].key /\ m.act = mem[p].act
    BY <1>1, <1>4 DEF TabMem
  <2>4. \A i \in inclusions : i.key = mem[p].key
    <3>1. PICK A, k, b : Whole(A, k, b)
      BY DEF WholeInv
    <3> QED BY <1>7, <3>1, HeadFacts
  <2>5. LockInv(p)'
    BY <1>2, <1>7, <2>1, <2>2, <2>3, <2>4 DEF LockInv
  <2>6. TabInv(p)'
    BY <1>1, <1>2, <1>5, <2>1, <2>2, <2>3 DEF TabInv, Has, AtWork
  <2>7. \A q \in Pages \ {p} : Has(q) => mem[q].act # m.act
    BY <1>1, <2>3 DEF Apart, Has
  <2>8. \A q \in Pages \ {p} : lock' = q <=> lock = q
    BY <1>1, <1>3, <1>7
  <2> HIDE DEF m
  <2> QED BY <1>2, <1>4, <1>7, <2>1, <2>2, <2>3, <2>5, <2>6, <2>7, <2>8, TabMoves,
             "recording" \in TabSteps DEF TabSteps
<1> QED BY <1>6, <1>7 DEF BeginRecord
\* What putSignedRecord() adds is the next link, and the stored actions follow.
LEMMA NextLink ==
  ASSUME ChainInv, NEW p \in Pages, pc[p] = "recording", NEW A, NEW k, NEW b, Whole(A, k, b)
  PROVE  /\ Include(HeadFor(p), mem[p].key, mem[p].act)
              = Inclusion(Append(A, mem[p].act), mem[p].key, TRUE)
         /\ inclusions = Links(mem[p].key, A, TRUE)
         /\ inclusions \cup {Include(HeadFor(p), mem[p].key, mem[p].act)}
              = Links(mem[p].key, Append(A, mem[p].act), TRUE)
         /\ Append(A, mem[p].act) \in Seq(Acts) /\ IsInjective(Append(A, mem[p].act))
         /\ Range(A) \cup {mem[p].act}
              = Range(Append(A, mem[p].act))
<1> USE DEF ChainInv
<1> DEFINE a == mem[p].act
           signer == mem[p].key
           B == Append(A, a)
<1>1. /\ a \in Acts /\ signer \in Nat /\ a \notin {x.id : x \in actions}
      /\ mem[p].read = inclusions /\ AllSigned /\ \A i \in inclusions : i.key = signer
  BY DEF LockInv, TabInv, Has, AtWork
<1>2. /\ A \in Seq(Acts) /\ k \in Nat /\ b \in BOOLEAN /\ IsInjective(A)
      /\ inclusions = Links(k, A, b) /\ {x.id : x \in actions} = Range(A)
  BY DEF Whole
<1> HIDE DEF a, signer
<1>3. HeadFor(p) = HeadOf(inclusions)
  BY <1>1 DEF HeadFor
<1>4. Include(HeadFor(p), signer, a) = Inclusion(B, signer, TRUE)
  BY <1>3, HeadFacts DEF Include
<1>5. inclusions = Links(signer, A, TRUE)
  <2>1. CASE inclusions = {}
    <3>1. A = <<>>
      BY <2>1, HeadFacts
    <3>2. 1 .. Len(A) = {}
      BY <3>1, EmptySeq
    <3> QED BY <2>1, <3>2 DEF Links
  <2>2. CASE inclusions # {}
    <3>1. PICK i \in inclusions : TRUE
      BY <2>2
    <3>2. i.key = k /\ i.signed = b
      BY <1>2, <3>1, LinkFacts
    <3>3. k = signer /\ b = TRUE
      BY <1>1, <1>2, <3>1, <3>2 DEF AllSigned
    <3> QED BY <1>2, <3>3
  <2> QED BY <2>1, <2>2
<1>6. Links(signer, B, TRUE) = Links(signer, A, TRUE) \cup {Inclusion(B, signer, TRUE)}
  BY <1>1, <1>2, LinksAppend
<1>7. /\ B \in Seq(Acts) /\ Len(B) = Len(A) + 1
      /\ \A n \in 1 .. Len(A) : B[n] = A[n]
      /\ B[Len(A) + 1] = a /\ DOMAIN B = 1 .. Len(A) + 1
  BY <1>1, <1>2, AppendProperties
<1>8. a \notin {A[n] : n \in DOMAIN A} /\ DOMAIN A = 1 .. Len(A) /\ Len(A) \in Nat
  <2>1. a \notin {A[n] : n \in DOMAIN A}
    BY <1>1, <1>2 DEF Range
  <2>2. DOMAIN A = 1 .. Len(A) /\ Len(A) \in Nat
    BY <1>2
  <2> QED BY <2>1, <2>2
<1>9. IsInjective(B)
  <2>1. ASSUME NEW m \in DOMAIN B, NEW n \in DOMAIN B, B[m] = B[n], m # n PROVE FALSE
    <3>1. m \in 1 .. Len(A) \/ m = Len(A) + 1
      BY <1>7, <1>8
    <3>2. n \in 1 .. Len(A) \/ n = Len(A) + 1
      BY <1>7, <1>8
    <3>3. CASE m \in 1 .. Len(A) /\ n \in 1 .. Len(A)
      BY <1>2, <1>7, <1>8, <2>1, <3>3 DEF IsInjective
    <3>4. CASE m \in 1 .. Len(A) /\ n = Len(A) + 1
      BY <1>7, <1>8, <2>1, <3>4
    <3>5. CASE m = Len(A) + 1 /\ n \in 1 .. Len(A)
      BY <1>7, <1>8, <2>1, <3>5
    <3> QED BY <2>1, <3>1, <3>2, <3>3, <3>4, <3>5
  <2> QED BY <2>1 DEF IsInjective
<1>10. Range(A) \cup {a} = Range(B)
  <2>1. DOMAIN B = DOMAIN A \cup {Len(A) + 1}
    BY <1>7, <1>8
  <2> QED BY <1>7, <1>8, <2>1 DEF Range
<1> QED BY <1>4, <1>5, <1>6, <1>7, <1>9, <1>10 DEF a, signer

\* The head of the chain is a link like any other: what is with the node stays there.
LEMMA NodeGrows ==
  ASSUME NodeInv, NEW i, i.signed, inclusions' = inclusions \cup {i},
         outbox' = outbox \cup {i}, AllSigned, UNCHANGED connector
  PROVE  NodeInv' /\ AllSigned'
BY DEF NodeInv, AllSigned, connector, KeptUntilAcknowledged, EveryBatchFits

\* putSignedRecord().
LEMMA PutRecordKeeps == ASSUME ChainInv, NEW p \in Pages, PutRecord(p) PROVE ChainInv'
<1>a. pc[p] = "recording" /\ ChainInv
  BY DEF PutRecord
<1>b. PICK A \in Seq(Acts), k \in Nat, b \in BOOLEAN : Whole(A, k, b)
  BY <1>a DEF WholeInv, ChainInv
<1>c. /\ Include(HeadFor(p), mem[p].key, mem[p].act)
           = Inclusion(Append(A, mem[p].act), mem[p].key, TRUE)
      /\ inclusions \cup {Include(HeadFor(p), mem[p].key, mem[p].act)}
           = Links(mem[p].key, Append(A, mem[p].act), TRUE)
      /\ Append(A, mem[p].act) \in Seq(Acts) /\ IsInjective(Append(A, mem[p].act))
      /\ Range(A) \cup {mem[p].act}
           = Range(Append(A, mem[p].act))
  BY <1>a, <1>b, NextLink
<1> USE DEF ChainInv
<1>0. PICK a, signer, i : /\ a = mem[p].act /\ signer = mem[p].key
                      /\ i = Include(HeadFor(p), mem[p].key, mem[p].act)
  OBVIOUS
<1> DEFINE m == Resting(mem[p].key, mem[p].read \cup {i})
<1>1. /\ pc[p] = "recording" /\ lock' = None
      /\ UNCHANGED <<owner, keyring, keysMade, connector, upsets>>
      /\ actions' = actions \cup {[id |-> a, key |-> signer]}
      /\ inclusions' = inclusions \cup {i} /\ outbox' = outbox \cup {i}
      /\ pc \in [Pages -> TabSteps] /\ mem \in [Pages -> ReadMem \cup TabMem \cup {None}]
  BY <1>0 DEF PutRecord, ChainTypeOK, ReadMem, TabMem, TabSteps
<1>2. /\ a \in Acts /\ signer \in Nat /\ mem[p] \in TabMem /\ AllSigned /\ lock = p
      /\ a \notin {x.id : x \in actions}
  BY <1>0, <1>1 DEF LockInv, TabInv, Has, AtWork
<1> DEFINE B == Append(A, a)
<1>4. /\ i = Inclusion(B, signer, TRUE) /\ inclusions' = Links(signer, B, TRUE)
      /\ B \in Seq(Acts) /\ IsInjective(B)
      /\ Range(A) \cup {a} = Range(B)
  BY <1>0, <1>1, <1>c
<1>5. {x.id : x \in actions'} = {x.id : x \in actions} \cup {a}
  <2>1. actions' = actions \cup {[id |-> a, key |-> signer]} /\ [id |-> a, key |-> signer].id = a
    BY <1>1
  <2> QED BY <2>1, Zenon
<1>6. {x.id : x \in actions'} = Range(B)
  BY <1>b, <1>4, <1>5 DEF Whole
<1>7. WholeInv'
  <2>1. Whole(B, signer, TRUE)'
    BY <1>2, <1>4, <1>6 DEF Whole
  <2> QED BY <1>2, <1>4, <2>1 DEF WholeInv
<1>8. i \in Inclusions /\ i.signed
  BY <1>2, <1>4 DEF Inclusion, Inclusions
<1>9. NodeInv' /\ AllSigned'
  BY <1>1, <1>2, <1>8, NodeGrows
<1>10. pc' = [pc EXCEPT ![p] = "ready"] /\ mem' = [mem EXCEPT ![p] = m]
  BY <1>0, <1>1 DEF PutRecord, Go
<1>11. m \in TabMem
  BY <1>0, <1>2, <1>8 DEF Resting, TabMem
<1>12. pc'[p] = "ready" /\ mem'[p] = m
  BY <1>1, <1>10
<1>13. \A q \in Pages \ {p} : pc'[q] = pc[q] /\ mem'[q] = mem[q]
  BY <1>1, <1>10
<1> HIDE DEF m, B
<1>14. /\ pc' \in [Pages -> TabSteps] /\ mem' \in [Pages -> ReadMem \cup TabMem \cup {None}]
  BY <1>1, <1>10, <1>11 DEF TabSteps
<1>15. /\ inclusions' \in SUBSET Inclusions /\ outbox' \subseteq inclusions'
       /\ actions' \in SUBSET [id : Acts, key : Nat]
  BY <1>1, <1>2, <1>8 DEF ChainTypeOK
<1>16. ChainTypeOK'
  BY <1>1, <1>14, <1>15 DEF ChainTypeOK, TabSteps, ReadMem, TabMem, connector
<1>17. p # None /\ \A q \in Pages : q # None
  BY ChainAssumption
<1>18. LockInv(p)' /\ TabInv(p)'
  BY <1>1, <1>9, <1>11, <1>12, <1>17 DEF LockInv, TabInv, Has, AtWork
<1>19. ASSUME NEW q \in Pages \ {p} PROVE LockInv(q)' /\ TabInv(q)'
  <2>1. pc[q] \notin {"migrating", "recording"} /\ lock' # q
    BY <1>1, <1>2, <1>17 DEF LockInv
  <2>2. LockInv(q)'
    BY <1>13, <2>1 DEF LockInv
  <2>3. Has(q) => mem[q].act # a
    BY <1>0, <1>1 DEF Apart, Has
  <2>4. mem'[q] = mem[q] /\ pc'[q] = pc[q] /\ (Has(q) => mem[q].act \notin {x.id : x \in actions'})
    BY <1>5, <1>13, <2>3 DEF TabInv
  <2>5. TabInv(q)'
    BY <1>9, <2>4 DEF TabInv, Has
  <2> QED BY <2>2, <2>5
<1>20. Apart'
  BY <1>12, <1>13 DEF Apart, Has
<1> QED BY <1>7, <1>9, <1>16, <1>18, <1>19, <1>20

\* The record that the migration stores is one of an owner.
LEMMA MigratedOwner == ASSUME ChainInv, NEW p \in Pages, ReplaceChain(p) PROVE owner' \in Owners
<1> USE DEF ChainInv
<1>1. /\ pc[p] = "migrating"
      /\ owner' = [Hardened(mem[p].owner) EXCEPT !.bridge = Bridge(mem[p])]
  BY DEF ReplaceChain
<1>2. mem[p] \in ReadMem /\ mem[p].is = inclusions
  BY <1>1 DEF LockInv
<1>3. PICK A \in Seq(Acts), k \in Nat, b \in BOOLEAN : Whole(A, k, b)
  BY DEF WholeInv
<1>4. mem[p].owner \in Owners
  BY <1>2 DEF ReadMem
<1>5. Bridge(mem[p]) \in Seq(Acts)
  <2>1. CASE \A i \in mem[p].is : i.signed
    BY <1>4, <2>1 DEF Bridge, Owners
  <2>2. CASE ~ \A i \in mem[p].is : i.signed
    <3>1. inclusions # {} /\ Bridge(mem[p]) = HeadOf(inclusions).acts
      BY <1>2, <2>2 DEF Bridge
    <3> QED BY <1>3, <3>1, HeadFacts
  <2> QED BY <2>1, <2>2
<1>6. Hardened(mem[p].owner) \in Owners
  BY <1>4 DEF Hardened, Owners
<1> QED BY <1>1, <1>5, <1>6 DEF Owners

\* replacePersonalChain(): the same chain, signed again.  What leaves the outbox
\* was with the node before.
LEMMA ReplaceChainKeeps == ASSUME ChainInv, NEW p \in Pages, ReplaceChain(p) PROVE ChainInv'
<1> USE DEF ChainInv
<1>1. /\ pc[p] = "migrating" /\ lock' = None
      /\ UNCHANGED <<actions, mem, keyring, keysMade, connector, upsets>>
      /\ pc \in [Pages -> TabSteps] /\ mem \in [Pages -> ReadMem \cup TabMem \cup {None}]
      /\ owner' = [Hardened(mem[p].owner) EXCEPT !.bridge = Bridge(mem[p])]
      /\ inclusions' = Signed(mem[p].is) /\ outbox' = Requeued(mem[p])
  BY DEF ReplaceChain, ChainTypeOK, ReadMem, TabMem, TabSteps
<1>2. /\ mem[p] \in ReadMem /\ mem[p].is = inclusions /\ lock = p
      /\ outbox \subseteq mem[p].out /\ mem[p].out \subseteq inclusions
  BY <1>1 DEF LockInv
<1>3. PICK A \in Seq(Acts), k \in Nat, b \in BOOLEAN : Whole(A, k, b)
  BY DEF WholeInv
<1>4. inclusions = Links(k, A, b) /\ inclusions' = Links(k, A, TRUE)
  BY <1>1, <1>2, <1>3, SignedLinks DEF Whole
<1>5. AllSigned' /\ inclusions' \in SUBSET Inclusions
  BY <1>4, LinkFacts DEF AllSigned
<1>6. WholeInv'
  <2>1. Whole(A, k, TRUE)'
    BY <1>1, <1>3, <1>4 DEF Whole
  <2> QED BY <2>1 DEF WholeInv
<1>7. AllSigned => inclusions' = inclusions /\ outbox' = mem[p].out
  <2>1. SUFFICES ASSUME AllSigned PROVE inclusions' = inclusions /\ outbox' = mem[p].out
    OBVIOUS
  <2>2. inclusions' = inclusions
    <3>1. CASE inclusions = {}
      BY <1>1, <1>2, <3>1 DEF Signed
    <3>2. CASE inclusions # {}
      <4>1. PICK i \in inclusions : TRUE
        BY <3>2
      <4>2. i.signed = b /\ i.signed
        BY <1>4, <2>1, LinkFacts DEF AllSigned
      <4>3. b = TRUE
        BY <4>2
      <4> QED BY <1>4, <4>3
    <3> QED BY <3>1, <3>2
  <2> QED BY <1>1, <1>2, <2>1, <2>2 DEF Requeued, AllSigned
<1>8. ~ AllSigned => outbox' = inclusions' /\ retained = {} /\ posts = {}
  BY <1>1, <1>2 DEF Requeued, AllSigned, NodeInv
<1>9. outbox' \subseteq inclusions'
  BY <1>2, <1>7, <1>8
<1>10. NodeInv'
  <2>1. CASE AllSigned
    BY <1>1, <1>2, <1>5, <1>7, <2>1 DEF NodeInv, connector, KeptUntilAcknowledged, EveryBatchFits
  <2>2. CASE ~ AllSigned
    BY <1>1, <1>5, <1>8, <2>2 DEF NodeInv, connector, KeptUntilAcknowledged, EveryBatchFits
  <2> QED BY <2>1, <2>2
<1>11. owner' \in Owners
  BY MigratedOwner
<1>12. pc' = [pc EXCEPT ![p] = "loaded"]
  BY DEF ReplaceChain, Go
<1>13. pc'[p] = "loaded" /\ pc' \in [Pages -> TabSteps] /\ \A q \in Pages \ {p} : pc'[q] = pc[q]
  BY <1>1, <1>12 DEF TabSteps
<1>14. ChainTypeOK'
  BY <1>1, <1>5, <1>9, <1>11, <1>13 DEF ChainTypeOK, TabSteps, connector
<1>15. p # None /\ \A q \in Pages : q # None
  BY ChainAssumption
<1>16. LockInv(p)' /\ TabInv(p)'
  BY <1>1, <1>5, <1>13, <1>15 DEF LockInv, TabInv, Has, AtWork
<1>17. ASSUME NEW q \in Pages \ {p} PROVE LockInv(q)' /\ TabInv(q)'
  <2>1. pc[q] \notin {"migrating", "recording"} /\ lock' # q /\ pc'[q] = pc[q] /\ mem'[q] = mem[q]
    BY <1>1, <1>2, <1>13, <1>15 DEF LockInv
  <2>2. LockInv(q)'
    BY <2>1 DEF LockInv
  <2>3. TabInv(q)'
    BY <1>1, <1>5, <2>1 DEF TabInv, Has
  <2> QED BY <2>2, <2>3
<1>18. Apart'
  BY <1>1, <1>13 DEF Apart, Has
<1> QED BY <1>6, <1>10, <1>14, <1>16, <1>17, <1>18
-----------------------------------------------------------------------------
(* The connector and the node.                                              *)

Surfaces == {"idle", "pairing", "posting", "accepted", "kept"}

\* Whatever the connector does, the tabs find what they have read.
LEMMA TabsKept ==
  ASSUME ChainInv, UNCHANGED <<owner, actions, inclusions, tabs>>, outbox' \subseteq outbox,
         /\ conn' \in BOOLEAN /\ granted' \in BOOLEAN /\ refused' \in BOOLEAN
         /\ turn' \in Launchers \cup {None} /\ lpc' \in [Launchers -> Surfaces]
         /\ batch' \in [Launchers -> SUBSET Inclusions]
         /\ posts' \in SUBSET SUBSET Inclusions /\ retained' \subseteq Inclusions
         /\ upsets' \in 0 .. MaxUpsets,
         NodeInv'
  PROVE  ChainInv'
<1> USE DEF ChainInv
<1>1. UNCHANGED <<lock, pc, mem, keyring, keysMade>>
  BY DEF tabs
<1>2. ChainTypeOK'
  <2>1. outbox' \subseteq inclusions'
    BY DEF ChainTypeOK
  <2> QED BY <1>1, <2>1 DEF ChainTypeOK, Surfaces
<1>3. WholeInv'
  BY DEF WholeInv, Whole
<1>4. \A q \in Pages : LockInv(q)' /\ TabInv(q)'
  BY <1>1, OtherTab
<1>5. Apart'
  BY <1>1 DEF Apart, Has
<1> QED BY <1>2, <1>3, <1>4, <1>5

\* Pairing, disconnecting and failing send nothing and delete nothing.
LEMMA PairingKeeps ==
  ASSUME ChainInv, NEW l \in Launchers,
         AskAccess(l) \/ PairNode(l) \/ PairFails(l) \/ Disconnect(l) \/ SyncFails(l)
  PROVE  ChainInv'
<1> USE DEF ChainInv
<1>1. /\ UNCHANGED <<disk, tabs, posts, retained, refused>>
      /\ lpc \in [Launchers -> Surfaces] /\ batch \in [Launchers -> SUBSET Inclusions]
  BY DEF AskAccess, PairNode, PairFails, Disconnect, SyncFails, ChainTypeOK, Surfaces
<1>2. UNCHANGED <<owner, actions, inclusions, outbox>>
  BY <1>1 DEF disk
<1>3. conn' \in BOOLEAN /\ granted' \in BOOLEAN
  BY DEF AskAccess, PairNode, PairFails, Disconnect, SyncFails, ChainTypeOK
<1>4. turn' \in Launchers \cup {None}
  BY DEF AskAccess, PairNode, PairFails, Disconnect, SyncFails, EndSync, ChainTypeOK
<1>5. upsets' \in 0 .. MaxUpsets
  BY ChainAssumption DEF AskAccess, PairNode, PairFails, Disconnect, SyncFails, Upset, ChainTypeOK
<1>6. /\ lpc' = lpc \/ lpc' = [lpc EXCEPT ![l] = "pairing"] \/ lpc' = [lpc EXCEPT ![l] = "idle"]
      /\ batch' = batch \/ (batch' = [batch EXCEPT ![l] = {}] /\ lpc' = [lpc EXCEPT ![l] = "idle"])
  BY DEF AskAccess, PairNode, PairFails, Disconnect, SyncFails, EndSync, Surface
<1>7. lpc' \in [Launchers -> Surfaces] /\ batch' \in [Launchers -> SUBSET Inclusions]
  BY <1>1, <1>6 DEF Surfaces
<1>8. \A x \in Launchers : lpc'[x] = "accepted" => lpc[x] = "accepted" /\ batch'[x] = batch[x]
  BY <1>1, <1>6
<1>9. NodeInv'
  BY <1>1, <1>2, <1>8 DEF NodeInv, AllSigned, KeptUntilAcknowledged, EveryBatchFits
<1>10. posts' \in SUBSET SUBSET Inclusions /\ retained' \subseteq Inclusions /\ refused' \in BOOLEAN
  BY <1>1 DEF ChainTypeOK
<1> QED BY <1>1, <1>2, <1>3, <1>4, <1>5, <1>7, <1>9, <1>10, TabsKept

\* sync(): each link of the outbox comes after one that is sent too or is with the node.
LEMMA SyncKeeps == ASSUME ChainInv, NEW l \in Launchers, Sync(l) PROVE ChainInv'
<1> USE DEF ChainInv
<1>1. /\ UNCHANGED <<disk, tabs, conn, granted, retained, refused, upsets>>
      /\ outbox # {} /\ \A i \in outbox : i.signed
      /\ turn' = l /\ posts' = posts \cup {outbox}
      /\ lpc' = [lpc EXCEPT ![l] = "posting"] /\ batch' = [batch EXCEPT ![l] = outbox]
      /\ lpc \in [Launchers -> Surfaces] /\ batch \in [Launchers -> SUBSET Inclusions]
      /\ outbox \subseteq inclusions /\ inclusions \subseteq Inclusions
  BY DEF Sync, Batchable, Surface, ChainTypeOK, Surfaces
<1>2. UNCHANGED <<owner, actions, inclusions, outbox>>
  BY <1>1 DEF disk
<1>3. PICK A \in Seq(Acts), k \in Nat, b \in BOOLEAN : Whole(A, k, b)
  BY DEF WholeInv
<1>4. AllSigned
  <2>1. PICK i \in outbox : i.signed
    BY <1>1
  <2>2. \A j \in inclusions : j.signed = b
    BY <1>3, LinkFacts DEF Whole
  <2> QED BY <1>1, <2>1, <2>2 DEF AllSigned
<1>5. \A i \in outbox : Sequence(i) = 1 \/ Previous(i) \in outbox \cup retained
  <2>1. IsChain(inclusions)
    BY <1>3, LinksAreChain DEF Whole
  <2> QED BY <1>1, <1>4, <2>1 DEF IsChain, AllSigned, NodeInv, KeptUntilAcknowledged
<1>6. lpc' \in [Launchers -> Surfaces] /\ batch' \in [Launchers -> SUBSET Inclusions]
  BY <1>1 DEF Surfaces
<1>7. \A x \in Launchers : lpc'[x] = "accepted" => lpc[x] = "accepted" /\ batch'[x] = batch[x]
  BY <1>1
<1>8. NodeInv'
  BY <1>1, <1>2, <1>4, <1>5, <1>7 DEF NodeInv, AllSigned, KeptUntilAcknowledged, EveryBatchFits
<1>9. /\ conn' \in BOOLEAN /\ granted' \in BOOLEAN /\ refused' \in BOOLEAN
      /\ turn' \in Launchers \cup {None} /\ upsets' \in 0 .. MaxUpsets
      /\ posts' \in SUBSET SUBSET Inclusions /\ retained' \subseteq Inclusions
  BY <1>1 DEF ChainTypeOK
<1> QED BY <1>1, <1>2, <1>6, <1>8, <1>9, TabsKept

\* The batch that the node has accepted leaves the outbox; what was signed since stays.
LEMMA DeleteSentKeeps == ASSUME ChainInv, NEW l \in Launchers, DeleteSent(l) PROVE ChainInv'
<1> USE DEF ChainInv
<1>1. /\ UNCHANGED <<owner, actions, inclusions, tabs, conn, granted, posts, retained, refused, upsets>>
      /\ lpc[l] = "accepted" /\ outbox' = outbox \ batch[l]
      /\ turn' = None /\ lpc' = [lpc EXCEPT ![l] = "idle"] /\ batch' = [batch EXCEPT ![l] = {}]
      /\ lpc \in [Launchers -> Surfaces] /\ batch \in [Launchers -> SUBSET Inclusions]
  BY DEF DeleteSent, EndSync, Surface, Acknowledged, ChainTypeOK, Surfaces
<1>2. lpc' \in [Launchers -> Surfaces] /\ batch' \in [Launchers -> SUBSET Inclusions]
  BY <1>1 DEF Surfaces
<1>3. \A x \in Launchers : lpc'[x] = "accepted" => lpc[x] = "accepted" /\ batch'[x] = batch[x]
  BY <1>1
<1>4. batch[l] \subseteq retained
  BY <1>1 DEF NodeInv
<1>5. NodeInv'
  BY <1>1, <1>3, <1>4 DEF NodeInv, AllSigned, KeptUntilAcknowledged, EveryBatchFits
<1>6. /\ conn' \in BOOLEAN /\ granted' \in BOOLEAN /\ refused' \in BOOLEAN
      /\ turn' \in Launchers \cup {None} /\ upsets' \in 0 .. MaxUpsets
      /\ posts' \in SUBSET SUBSET Inclusions /\ retained' \subseteq Inclusions
  BY <1>1 DEF ChainTypeOK
<1> QED BY <1>1, <1>2, <1>5, <1>6, TabsKept

\* A batch of the one chain is no news or goes on where the node's chain ends.
LEMMA BatchFits == ASSUME ChainInv, NEW b \in posts PROVE Fits(b)
<1> USE DEF ChainInv
<1>1. b \subseteq inclusions /\ retained \subseteq inclusions
  BY DEF NodeInv
<1>2. PICK A \in Seq(Acts), k \in Nat, c \in BOOLEAN : Whole(A, k, c)
  BY DEF WholeInv
<1>3. IsChain(inclusions)
  BY <1>2, LinksAreChain DEF Whole
<1>4. \A i \in b : i \in retained \/ \A j \in retained : j.key = i.key => Sequence(j) # Sequence(i)
  BY <1>1, <1>3 DEF IsChain
<1> QED BY <1>4 DEF NodeInv, Fits

LEMMA NodeAnswersKeeps == ASSUME ChainInv, NEW b \in posts, NodeAnswers(b) PROVE ChainInv'
<1>0. Fits(b)
  BY BatchFits
<1> USE DEF ChainInv
<1>1. /\ UNCHANGED <<disk, tabs, conn, granted, turn, batch, upsets>>
      /\ posts' = posts \ {b} /\ retained' = retained \cup b /\ refused' = refused
      /\ lpc' = [l \in Launchers |-> IF lpc[l] = "posting" /\ batch[l] = b THEN "accepted" ELSE lpc[l]]
      /\ lpc \in [Launchers -> Surfaces] /\ batch \in [Launchers -> SUBSET Inclusions]
  <2>1. refused \in BOOLEAN /\ (refused' = (refused \/ ~ Fits(b)))
    BY DEF NodeAnswers, ChainTypeOK
  <2>2. refused' = refused
    BY <1>0, <2>1
  <2> QED BY <1>0, <2>2 DEF NodeAnswers, ChainTypeOK, Surfaces
<1>2. UNCHANGED <<owner, actions, inclusions, outbox>>
  BY <1>1 DEF disk
<1>3. lpc' \in [Launchers -> Surfaces]
  BY <1>1 DEF Surfaces
<1>4. \A l \in Launchers : lpc'[l] = "accepted" => batch'[l] \subseteq retained'
  BY <1>1 DEF NodeInv
<1>5. NodeInv'
  BY <1>1, <1>2, <1>4 DEF NodeInv, AllSigned, KeptUntilAcknowledged, EveryBatchFits
<1>6. /\ conn' \in BOOLEAN /\ granted' \in BOOLEAN /\ refused' \in BOOLEAN
      /\ turn' \in Launchers \cup {None} /\ upsets' \in 0 .. MaxUpsets
      /\ posts' \in SUBSET SUBSET Inclusions /\ retained' \subseteq Inclusions
      /\ batch' \in [Launchers -> SUBSET Inclusions]
  BY <1>1 DEF ChainTypeOK
<1> QED BY <1>1, <1>2, <1>3, <1>5, <1>6, TabsKept

-----------------------------------------------------------------------------
(* The theorems.                                                            *)

\* What a profile holds at first is one chain: none, or that of the old actions.
LEMMA ChainStarts == ChainInit => ChainInv
<1> SUFFICES ASSUME ChainInit PROVE ChainInv
  OBVIOUS
<1>1. PICK profile \in Profiles : InitDisk(profile)
  BY DEF ChainInit
<1>2. /\ owner \in Owners \cup {None} /\ actions \in SUBSET [id : Acts, key : Nat]
      /\ keysMade \in Nat /\ WholeInv
      /\ outbox = {HeadOf(inclusions)} \ {None} \/ (outbox = {} /\ inclusions = {})
  <2>1. CASE profile = "new"
    <3>1. owner = None /\ actions = {} /\ inclusions = {} /\ outbox = {} /\ keysMade = 0
      BY <1>1, <2>1 DEF InitDisk
    <3>2. <<>> \in Seq(Acts) /\ Len(<<>>) = 0 /\ DOMAIN <<>> = {}
      OBVIOUS
    <3>3. IsInjective(<<>>) /\ Range(<<>>) = {}
      BY <3>2 DEF IsInjective, Range
    <3>4. Links(0, <<>>, TRUE) = {}
      BY <3>2 DEF Links
    <3>5. {a.id : a \in actions} = {}
      BY <3>1
    <3>6. Whole(<<>>, 0, TRUE)
      BY <3>1, <3>2, <3>3, <3>4, <3>5 DEF Whole
    <3>7. WholeInv
      BY <3>2, <3>6 DEF WholeInv
    <3> QED BY <3>1, <3>7
  <2>2. CASE profile # "new"
    <3>1. /\ owner = [key |-> 1, extractable |-> TRUE, bridge |-> <<>>]
          /\ actions = {[id |-> OldActs[n], key |-> 1] : n \in DOMAIN OldActs}
          /\ inclusions = Links(1, OldActs, profile = "signed")
          /\ outbox = {HeadOf(inclusions)} \ {None}
          /\ keysMade = 1
      BY <1>1, <2>2 DEF InitDisk
    <3>2. PICK c \in BOOLEAN : c = (profile = "signed")
      OBVIOUS
    <3>3. OldActs \in Seq(Acts) /\ IsInjective(OldActs)
      BY ChainAssumption
    <3>4. {a.id : a \in actions} = Range(OldActs)
      <4>1. ASSUME NEW n \in DOMAIN OldActs PROVE \E a \in actions : a.id = OldActs[n]
        <5>1. [id |-> OldActs[n], key |-> 1] \in actions
          BY <3>1
        <5> QED BY <5>1
      <4>2. \A a \in actions : \E n \in DOMAIN OldActs : a.id = OldActs[n]
        BY <3>1
      <4> QED BY <4>1, <4>2 DEF Range
    <3>5. inclusions = Links(1, OldActs, c)
      BY <3>1, <3>2
    <3>6. Whole(OldActs, 1, c)
      BY <3>3, <3>4, <3>5 DEF Whole
    <3>7. owner \in Owners
      BY <3>1, EmptySeq DEF Owners
    <3>8. actions \in SUBSET [id : Acts, key : Nat]
      BY <3>1, <3>3
    <3>9. WholeInv
      BY <3>3, <3>6 DEF WholeInv
    <3> QED BY <3>1, <3>7, <3>8, <3>9
  <2> QED BY <2>1, <2>2
<1>3. PICK A \in Seq(Acts), k \in Nat, b \in BOOLEAN : Whole(A, k, b)
  BY <1>2 DEF WholeInv
<1>4. inclusions \subseteq Inclusions /\ \A i \in inclusions : i.signed = b
  BY <1>3, LinkFacts DEF Whole
<1>5. outbox \subseteq inclusions
  BY <1>2, <1>3, HeadFacts
<1>6. NodeInv
  <2>1. retained = {i \in inclusions \ outbox : i.signed} /\ posts = {} /\ refused = FALSE
        /\ lpc = [l \in Launchers |-> "idle"]
    BY DEF ChainInit
  <2>2. retained # {} => AllSigned
    <3>1. SUFFICES ASSUME retained # {} PROVE AllSigned
      OBVIOUS
    <3>2. PICK i \in retained : TRUE
      BY <3>1
    <3>3. i \in inclusions /\ i.signed
      BY <2>1
    <3> QED BY <1>4, <3>3 DEF AllSigned
  <2> QED BY <2>1, <2>2 DEF NodeInv, KeptUntilAcknowledged, EveryBatchFits
<1>7. /\ pc = [p \in Pages |-> "closed"] /\ lock = None /\ upsets = 0 /\ keyring = None
      /\ mem = [p \in Pages |-> None] /\ conn = FALSE /\ granted = FALSE /\ refused = FALSE
      /\ turn = None /\ lpc = [l \in Launchers |-> "idle"] /\ batch = [l \in Launchers |-> {}]
      /\ posts = {} /\ retained \subseteq inclusions
  BY DEF ChainInit
<1>8. upsets \in 0 .. MaxUpsets
  BY <1>7, ChainAssumption
<1>9. ChainTypeOK
  BY <1>2, <1>4, <1>5, <1>7, <1>8 DEF ChainTypeOK
<1>10. \A p \in Pages : LockInv(p) /\ TabInv(p)
  BY <1>7, ChainAssumption DEF LockInv, TabInv, Has, AtWork
<1>11. Apart
  BY <1>7 DEF Apart, Has
<1> QED BY <1>2, <1>6, <1>9, <1>10, <1>11 DEF ChainInv

\* Every step of tabs, keyring, connector and node keeps the invariant.
LEMMA ChainSteps == ChainInv /\ [ChainNext]_chainVars => ChainInv'
<1> SUFFICES ASSUME ChainInv, [ChainNext]_chainVars PROVE ChainInv'
  OBVIOUS
<1>1. CASE \E p \in Pages : TabNext(p)
  <2>1. PICK p \in Pages : TabNext(p)
    BY <1>1
  <2> QED BY <2>1, OpenKeeps, MigrateKeeps, ReplaceChainKeeps, LoadStateKeeps, CloseKeeps,
             SubmitIdentityKeeps, StoreIdentityKeeps, SubmitKeeps, BeginRecordKeeps,
             PutRecordKeeps DEF TabNext
<1>2. CASE CreateController \/ StoreController
  BY <1>2, ControllerKeeps
<1>3. CASE \E l \in Launchers : ConnectorNext(l)
  <2>1. PICK l \in Launchers : ConnectorNext(l)
    BY <1>3
  <2> QED BY <2>1, PairingKeeps, SyncKeeps, DeleteSentKeeps DEF ConnectorNext
<1>4. CASE \E b \in posts : NodeAnswers(b)
  BY <1>4, NodeAnswersKeeps
<1>5. CASE UNCHANGED chainVars
  <2>1. UNCHANGED <<owner, actions, inclusions, tabs, outbox, connector, upsets>>
    BY <1>5 DEF chainVars, disk
  <2>2. NodeInv'
    BY <2>1, StoresKept
  <2>3. /\ conn' \in BOOLEAN /\ granted' \in BOOLEAN /\ refused' \in BOOLEAN
        /\ turn' \in Launchers \cup {None} /\ lpc' \in [Launchers -> Surfaces]
        /\ batch' \in [Launchers -> SUBSET Inclusions]
        /\ posts' \in SUBSET SUBSET Inclusions /\ retained' \subseteq Inclusions
        /\ upsets' \in 0 .. MaxUpsets
    BY <2>1 DEF connector, ChainInv, ChainTypeOK, Surfaces
  <2> QED BY <2>1, <2>2, <2>3, TabsKept
<1> QED BY <1>1, <1>2, <1>3, <1>4, <1>5 DEF ChainNext

\* The inductive invariant of the personal chain holds: for any number of tabs,
\* launchers, actions and controller keys, and without its bound on upsets.
THEOREM ChainInvariant == ChainSpec => []ChainInv
BY ChainStarts, ChainSteps, PTL DEF ChainSpec
\* Tabs that sign at the same time, that migrate while others sign, or that are
\* closed on the way never fork the stored chain, leave a gap, or include an
\* action twice: for any number of tabs and of controller keys.
THEOREM ChainLinearity == ChainSpec => []ChainIsLinear
<1>1. ChainInv => ChainIsLinear
  <2>1. SUFFICES ASSUME ChainInv PROVE ChainIsLinear
    OBVIOUS
  <2>2. PICK A \in Seq(Acts), k \in Nat, b \in BOOLEAN : Whole(A, k, b)
    BY <2>1 DEF ChainInv, WholeInv
  <2> QED BY <2>2, LinksAreChain DEF Whole, ChainIsLinear
<1> QED BY <1>1, ChainInvariant, PTL

\* The states are of the types of the stores, and the outbox holds stored links.
THEOREM ChainTypes == ChainSpec => []ChainTypeOK
<1>1. ChainInv => ChainTypeOK
  BY DEF ChainInv
<1> QED BY <1>1, ChainInvariant, PTL

\* Whatever is signed, migrated, lost or answered late while a batch is on its
\* way: a signed link leaves the outbox only when the node retains it.
THEOREM OutboxKeeps == ChainSpec => []KeptUntilAcknowledged
<1>1. ChainInv => KeptUntilAcknowledged
  BY DEF ChainInv, NodeInv
<1> QED BY <1>1, ChainInvariant, PTL

\* The node never has a reason to refuse a batch, of any number of launchers.
THEOREM BatchesFit == ChainSpec => []EveryBatchFits
<1>1. ChainInv => EveryBatchFits
  BY DEF ChainInv, NodeInv
<1> QED BY <1>1, ChainInvariant, PTL

-----------------------------------------------------------------------------
(* One controller key.                                                      *)

\* Onboarding or the keyring makes one key, not both one.
OneController == MaxControllers <= 1

\* Nothing is stored before the key is, and all is of this key.
LEMMA KeyStarts == ChainInit => OwnerInv
<1> SUFFICES ASSUME ChainInit PROVE OwnerInv
  OBVIOUS
<1>1. PICK profile \in Profiles : InitDisk(profile)
  BY DEF ChainInit
<1>2. /\ pc = [p \in Pages |-> "closed"] /\ keyring = None
  BY DEF ChainInit
<1>3. /\ keysMade \in {0, 1}
      /\ owner # None => owner.key = 1 /\ keysMade = 1 /\ owner.bridge = <<>>
      /\ owner = None => actions = {} /\ inclusions = {}
      /\ \A a \in actions : a.key = 1
  <2>1. CASE profile = "new"
    BY <1>1, <2>1 DEF InitDisk
  <2>2. CASE profile # "new"
    <3>1. /\ owner = [key |-> 1, extractable |-> TRUE, bridge |-> <<>>]
          /\ actions = {[id |-> OldActs[n], key |-> 1] : n \in DOMAIN OldActs}
          /\ keysMade = 1
      BY <1>1, <2>2 DEF InitDisk
    <3>2. owner \in Owners
      BY <3>1, EmptySeq DEF Owners
    <3>3. owner # None
      BY <3>2, ChainAssumption
    <3> QED BY <3>1, <3>3
  <2> QED BY <2>1, <2>2
<1>4. \A i \in inclusions : i.key = 1
  <2>1. CASE profile = "new"
    BY <1>1, <2>1 DEF InitDisk
  <2>2. CASE profile # "new"
    <3>1. PICK c \in BOOLEAN : c = (profile = "signed")
      OBVIOUS
    <3>2. inclusions = Links(1, OldActs, c)
      BY <1>1, <2>2, <3>1 DEF InitDisk
    <3> QED BY <3>2, LinkFacts, ChainAssumption
  <2> QED BY <2>1, <2>2
<1> QED BY <1>2, <1>3, <1>4 DEF OwnerInv, BridgeHolds, Maker

\* A step that only moves one tab, and not to a new key.
LEMMA KeyKept ==
  ASSUME ChainInv, OwnerInv, NEW p \in Pages, pc \in [Pages -> TabSteps],
         UNCHANGED <<owner, actions, inclusions, keyring, keysMade>>,
         \A q \in Pages \ {p} : pc'[q] = pc[q] /\ mem'[q] = mem[q],
         pc'[p] # "creating",
         pc'[p] \in {"ready", "wanting", "recording"} =>
           mem'[p].key = None \/ (mem'[p].key = 1 /\ owner # None),
         pc'[p] = "migrating" => mem'[p].owner = owner /\ owner # None
  PROVE  OwnerInv'
BY DEF OwnerInv, Maker, BridgeHolds
\* The steps that touch neither the owner nor the chain.
LEMMA KeySteps ==
  ASSUME ChainInv, OwnerInv, NEW p \in Pages,
         \/ Open(p) \/ Migrate(p) \/ LoadState(p) \/ Close(p) \/ BeginRecord(p)
         \/ \E a \in Acts : Submit(p, a)
  PROVE  OwnerInv'
<1> USE DEF ChainInv
<1>1. /\ pc \in [Pages -> TabSteps] /\ mem \in [Pages -> ReadMem \cup TabMem \cup {None}]
      /\ pc[p] \in AtWork => mem[p] \in TabMem
  BY DEF ChainTypeOK, TabSteps, ReadMem, TabMem, TabInv
<1>2. UNCHANGED <<owner, actions, inclusions, keyring, keysMade>>
  BY DEF Open, Migrate, LoadState, Close, BeginRecord, Submit, disk
<1>3. \A q \in Pages \ {p} : pc'[q] = pc[q] /\ mem'[q] = mem[q]
  BY <1>1 DEF Open, Migrate, LoadState, Close, BeginRecord, Submit, Go, Read
<1>4. /\ pc'[p] # "creating"
      /\ pc'[p] \in {"ready", "wanting", "recording"} =>
           mem'[p].key = None \/ (mem'[p].key = 1 /\ owner # None)
      /\ pc'[p] = "migrating" => mem'[p].owner = owner /\ owner # None
  <2>1. CASE Open(p)
    BY <1>1, <2>1 DEF Open, Go
  <2>2. CASE Migrate(p)
    BY <1>1, <2>2 DEF Migrate, Go, Read
  <2>3. CASE LoadState(p)
    <3>1. pc'[p] = "ready" /\ mem'[p] = Resting(KeyOf(owner), inclusions)
      BY <1>1, <2>3 DEF LoadState, Go
    <3>2. mem'[p].key = KeyOf(owner)
      BY <3>1 DEF Resting
    <3> QED BY <3>1, <3>2 DEF KeyOf, OwnerInv
  <2>4. CASE Close(p)
    BY <1>1, <2>4 DEF Close, Go
  <2>5. CASE BeginRecord(p)
    <3>1. pc[p] = "wanting" /\ mem[p] \in TabMem /\ pc'[p] \in {"ready", "recording"}
      BY <1>1, <2>5 DEF BeginRecord, Go, AtWork
    <3>2. mem'[p].key = mem[p].key
      BY <1>1, <2>5, <3>1 DEF BeginRecord, TabMem
    <3> QED BY <3>1, <3>2 DEF OwnerInv
  <2>6. CASE \E a \in Acts : Submit(p, a)
    <3>1. PICK a \in Acts : Submit(p, a)
      BY <2>6
    <3>2. pc[p] = "ready" /\ mem[p] \in TabMem /\ pc'[p] = "wanting"
      BY <1>1, <3>1 DEF Submit, Go, AtWork
    <3>3. mem'[p].key = mem[p].key
      BY <1>1, <3>1, <3>2 DEF Submit, TabMem
    <3> QED BY <3>2, <3>3 DEF OwnerInv
  <2> QED BY <2>1, <2>2, <2>3, <2>4, <2>5, <2>6
<1> QED BY <1>1, <1>2, <1>3, <1>4, KeyKept

\* The one key is made while there is none, and stored as the only one.
LEMMA KeyMade ==
  ASSUME ChainInv, OwnerInv, OneController, NEW p \in Pages,
         SubmitIdentity(p) \/ StoreIdentity(p) \/ CreateController \/ StoreController
  PROVE  OwnerInv'
<1> USE DEF ChainInv
<1>1. /\ pc \in [Pages -> TabSteps] /\ mem \in [Pages -> ReadMem \cup TabMem \cup {None}]
      /\ pc[p] \in AtWork => mem[p] \in TabMem
  BY DEF ChainTypeOK, TabSteps, ReadMem, TabMem, TabInv
<1>2. UNCHANGED <<actions, inclusions>>
  BY DEF SubmitIdentity, StoreIdentity, CreateController, StoreController, disk
<1>3. MakesKey => keysMade = 0 /\ keysMade' = 1
  BY ChainAssumption DEF MakesKey, OwnerInv, OneController
<1>4. \A signer : NewOwner(signer).key = signer /\ NewOwner(signer).bridge = <<>>
  BY DEF NewOwner
<1>5. NewOwner(1) # None
  <2>1. NewOwner(1) \in Owners
    BY EmptySeq DEF NewOwner, Owners
  <2> QED BY <2>1, ChainAssumption
<1>6. CASE SubmitIdentity(p)
  <2>1. /\ pc[p] = "ready" /\ mem[p] \in TabMem /\ keysMade = 0 /\ keysMade' = 1
        /\ mem' = [mem EXCEPT ![p].key = keysMade'] /\ pc' = [pc EXCEPT ![p] = "creating"]
        /\ owner' = owner /\ keyring' = keyring
    BY <1>1, <1>3, <1>6 DEF SubmitIdentity, Go, AtWork, disk
  <2>2. pc'[p] = "creating" /\ mem'[p].key = 1
    BY <1>1, <2>1 DEF TabMem
  <2>3. \A q \in Pages \ {p} : pc'[q] = pc[q] /\ mem'[q] = mem[q]
    BY <1>1, <2>1
  <2> QED BY <1>2, <2>1, <2>2, <2>3 DEF OwnerInv, Maker, BridgeHolds
<1>7. CASE StoreIdentity(p)
  <2>1. /\ pc[p] = "creating" /\ mem[p].key = 1 /\ owner' = NewOwner(1)
        /\ mem' = mem /\ keyring' = keyring /\ keysMade' = keysMade /\ pc' = [pc EXCEPT ![p] = "ready"]
    BY <1>7 DEF StoreIdentity, Go, OwnerInv, Maker
  <2>2. pc'[p] = "ready" /\ \A q \in Pages \ {p} : pc'[q] = pc[q]
    BY <1>1, <2>1
  <2> QED BY <1>2, <1>4, <1>5, <2>1, <2>2 DEF OwnerInv, Maker, BridgeHolds
<1>8. CASE CreateController
  <2>1. keysMade = 0 /\ keysMade' = 1 /\ keyring' = 1 /\ owner' = owner /\ owner = None
        /\ pc' = pc /\ mem' = mem
    BY <1>3, <1>8 DEF CreateController, disk
  <2> QED BY <1>2, <2>1 DEF OwnerInv, Maker, BridgeHolds
<1>9. CASE StoreController
  <2>1. keyring = 1 /\ keyring' = None /\ owner' = NewOwner(1) /\ pc' = pc /\ mem' = mem
        /\ keysMade' = keysMade /\ keysMade = 1
    BY <1>9 DEF StoreController, OwnerInv
  <2>2. \A q \in Pages : ~ Maker(q)
    BY <1>9 DEF StoreController, OwnerInv
  <2>3. \A q \in Pages : ~ Maker(q)'
    BY <2>1, <2>2 DEF Maker
  <2>4. owner'.key = 1 /\ owner' # None /\ BridgeHolds(owner', inclusions')
    BY <1>4, <1>5, <2>1 DEF BridgeHolds
  <2>5. \A q \in Pages : pc[q] # "migrating"
    BY <1>9 DEF StoreController, OwnerInv
  <2> QED BY <1>2, <2>1, <2>3, <2>4, <2>5 DEF OwnerInv
<1> QED BY <1>6, <1>7, <1>8, <1>9

\* A new link is of the key of the profile, and the links a bridge leads to stay.
LEMMA KeyOfNewLink == ASSUME ChainInv, OwnerInv, NEW p \in Pages, PutRecord(p) PROVE OwnerInv'
<1> USE DEF ChainInv
<1> DEFINE i == Include(HeadFor(p), mem[p].key, mem[p].act)
           m == Resting(mem[p].key, mem[p].read \cup {i})
<1>1. /\ pc[p] = "recording" /\ pc' = [pc EXCEPT ![p] = "ready"]
      /\ UNCHANGED <<owner, keyring, keysMade>>
      /\ actions' = actions \cup {[id |-> mem[p].act, key |-> mem[p].key]}
      /\ inclusions' = inclusions \cup {i} /\ mem' = [mem EXCEPT ![p] = m]
      /\ pc \in [Pages -> TabSteps] /\ mem \in [Pages -> ReadMem \cup TabMem \cup {None}]
  BY DEF PutRecord, Go, ChainTypeOK, ReadMem, TabMem, TabSteps
<1>2. mem[p].key = 1 /\ owner # None
  BY <1>1, ChainAssumption DEF TabInv, Has, OwnerInv
<1>3. i.key = 1 /\ m.key = 1
  BY <1>2 DEF Include, Inclusion, Resting
<1> HIDE DEF i, m
<1>4. pc'[p] = "ready" /\ mem'[p].key = 1 /\ \A q \in Pages \ {p} : pc'[q] = pc[q] /\ mem'[q] = mem[q]
  BY <1>1, <1>3
<1>5. \A a \in actions' : a.key = 1
  BY <1>1, <1>2 DEF OwnerInv
<1>6. \A j \in inclusions' : j.key = 1
  BY <1>1, <1>3 DEF OwnerInv
<1>7. BridgeHolds(owner', inclusions')
  BY <1>1, <1>2 DEF OwnerInv, BridgeHolds
<1> QED BY <1>1, <1>2, <1>4, <1>5, <1>6, <1>7 DEF OwnerInv, Maker

\* The migration keeps the key, and its bridge leads to the signed head.
LEMMA KeyOfMigration == ASSUME ChainInv, OwnerInv, NEW p \in Pages, ReplaceChain(p) PROVE OwnerInv'
<1> USE DEF ChainInv
<1>1. /\ pc[p] = "migrating" /\ pc' = [pc EXCEPT ![p] = "loaded"]
      /\ UNCHANGED <<actions, mem, keyring, keysMade>>
      /\ pc \in [Pages -> TabSteps]
      /\ owner' = [Hardened(mem[p].owner) EXCEPT !.bridge = Bridge(mem[p])]
      /\ inclusions' = Signed(mem[p].is)
  BY DEF ReplaceChain, Go, ChainTypeOK, TabSteps
<1>2. /\ mem[p].owner = owner /\ owner # None /\ mem[p].is = inclusions /\ owner \in Owners
  BY <1>1 DEF LockInv, OwnerInv, ChainTypeOK
<1>3. PICK A \in Seq(Acts), k \in Nat, b \in BOOLEAN : Whole(A, k, b)
  BY DEF WholeInv
<1>4. inclusions = Links(k, A, b) /\ inclusions' = Links(k, A, TRUE)
  BY <1>1, <1>2, <1>3, SignedLinks DEF Whole
<1>5. \A i \in inclusions' : i.key = 1
  <2>1. CASE inclusions = {}
    BY <1>1, <1>2, <2>1 DEF Signed
  <2>2. CASE inclusions # {}
    <3>1. PICK i \in inclusions : i.key = 1
      BY <2>2 DEF OwnerInv
    <3>2. k = 1
      BY <1>4, <3>1, LinkFacts
    <3> QED BY <1>4, <3>2, LinkFacts
  <2> QED BY <2>1, <2>2
<1>6. Hardened(owner) \in Owners /\ Hardened(owner).key = owner.key
  BY <1>2 DEF Hardened, Owners
<1>7. owner'.key = 1 /\ owner'.bridge = Bridge(mem[p])
  BY <1>1, <1>2, <1>6 DEF OwnerInv, Owners
<1>8. BridgeHolds(owner', inclusions')
  <2>1. CASE \A i \in inclusions : i.signed
    <3>1. Bridge(mem[p]) = owner.bridge
      BY <1>2, <2>1 DEF Bridge
    <3>2. inclusions' = inclusions
      <4>1. CASE inclusions = {}
        BY <1>1, <1>2, <4>1 DEF Signed
      <4>2. CASE inclusions # {}
        <5>1. PICK i \in inclusions : i.signed
          BY <2>1, <4>2
        <5>2. i.signed = b
          BY <1>4, <5>1, LinkFacts
        <5>3. b = TRUE
          BY <5>1, <5>2
        <5> QED BY <1>4, <5>3
      <4> QED BY <4>1, <4>2
    <3> QED BY <1>2, <1>7, <3>1, <3>2 DEF OwnerInv, BridgeHolds
  <2>2. CASE ~ \A i \in inclusions : i.signed
    <3>1. inclusions # {} /\ Bridge(mem[p]) = HeadOf(inclusions).acts
      BY <1>2, <2>2 DEF Bridge
    <3>2. HeadOf(inclusions).acts = A
      BY <1>3, <3>1, HeadFacts
    <3>3. Len(A) \in 1 .. Len(A)
      BY <1>4, <3>1, LinkFacts
    <3>4. Inclusion(A, k, TRUE) \in inclusions'
      BY <1>4, <3>3, LinkAt, Beginnings, Len(A) \in 0 .. Len(A)
    <3>5. Inclusion(A, k, TRUE).signed /\ Inclusion(A, k, TRUE).acts = A
      BY DEF Inclusion
    <3> QED BY <1>7, <3>1, <3>2, <3>4, <3>5 DEF BridgeHolds
  <2> QED BY <2>1, <2>2
<1>9. owner' # None
  BY MigratedOwner, ChainAssumption
<1>10. \A q \in Pages : pc'[q] = "migrating" => q # p /\ pc[q] = "migrating"
  BY <1>1
<1>11. \A q \in Pages : pc[q] = "migrating" => q = p
  BY <1>1 DEF LockInv
<1>12. \A q \in Pages : pc'[q] # "migrating" /\ (pc'[q] # "loaded" => pc'[q] = pc[q])
  BY <1>1, <1>10, <1>11
<1>13. \A a \in actions' : a.key = 1
  BY <1>1 DEF OwnerInv
<1> QED BY <1>1, <1>2, <1>5, <1>7, <1>8, <1>9, <1>12, <1>13 DEF OwnerInv, Maker
\* The connector and the node touch neither the owner nor the chain.
LEMMA KeyApart == ASSUME OwnerInv, UNCHANGED <<owner, actions, inclusions, tabs>> PROVE OwnerInv'
<1>1. UNCHANGED <<pc, mem, keyring, keysMade>>
  BY DEF tabs
<1> QED BY <1>1 DEF OwnerInv, Maker, BridgeHolds

LEMMA KeyNext ==
  ASSUME OneController, ChainInv, OwnerInv, [ChainNext]_chainVars PROVE OwnerInv'
<1>1. CASE \E p \in Pages : TabNext(p)
  <2>1. PICK p \in Pages : TabNext(p)
    BY <1>1
  <2> QED BY <2>1, KeySteps, KeyMade, KeyOfNewLink, KeyOfMigration DEF TabNext
<1>2. CASE CreateController \/ StoreController
  <2>1. CASE Pages = {}
    <3>1. UNCHANGED <<actions, inclusions>>
      BY <1>2 DEF CreateController, StoreController, disk
    <3>2. CASE CreateController
      <4>1. keysMade = 0 /\ keysMade' = 1 /\ keyring' = 1 /\ owner' = owner /\ owner = None
        BY <3>2, ChainAssumption DEF CreateController, disk, MakesKey, OwnerInv, OneController
      <4> QED BY <2>1, <3>1, <4>1 DEF OwnerInv
    <3>3. CASE StoreController
      <4>1. keyring = 1 /\ keyring' = None /\ owner' = NewOwner(1) /\ keysMade' = keysMade /\ keysMade = 1
        BY <3>3 DEF StoreController, OwnerInv
      <4>2. owner'.key = 1 /\ BridgeHolds(owner', inclusions')
        BY <4>1 DEF NewOwner, BridgeHolds
      <4>3. owner' \in Owners
        BY <4>1, EmptySeq DEF NewOwner, Owners
      <4> QED BY <2>1, <3>1, <4>1, <4>2, <4>3, ChainAssumption DEF OwnerInv
    <3> QED BY <1>2, <3>2, <3>3
  <2>2. CASE Pages # {}
    BY <1>2, <2>2, KeyMade
  <2> QED BY <2>1, <2>2
<1>3. CASE \E l \in Launchers : ConnectorNext(l)
  <2>1. UNCHANGED <<owner, actions, inclusions, tabs>>
    BY <1>3 DEF ConnectorNext, AskAccess, PairNode, PairFails, Disconnect, Sync, DeleteSent,
                SyncFails, disk
  <2> QED BY <2>1, KeyApart
<1>4. CASE \E b \in posts : NodeAnswers(b)
  BY <1>4, KeyApart DEF NodeAnswers, disk
<1>5. CASE UNCHANGED chainVars
  BY <1>5, KeyApart DEF chainVars, disk
<1> QED BY <1>1, <1>2, <1>3, <1>4, <1>5 DEF ChainNext

\* What load() checks follows: it is one chain under the one key, for the actions
\* that are stored.
LEMMA LoadsWell == ASSUME ChainInv, OwnerInv PROVE ProfileLoads
<1>1. PICK A \in Seq(Acts), k \in Nat, b \in BOOLEAN : Whole(A, k, b)
  BY DEF ChainInv, WholeInv
<1>2. /\ inclusions = Links(k, A, b) /\ IsInjective(A) /\ {a.id : a \in actions} = Range(A)
      /\ outbox \subseteq inclusions
  BY <1>1 DEF Whole, ChainInv, ChainTypeOK
<1>3. CASE owner = None
  BY <1>2, <1>3 DEF OwnerInv, ProfileLoads, Loadable
<1>4. CASE owner # None
  <2>1. OwnActions(owner, actions)
    BY <1>4 DEF OwnerInv, OwnActions
  <2>2. \A i, j \in inclusions : i.signed = j.signed
    BY <1>2, LinkFacts
  <2>3. IsChain(inclusions)
    BY <1>2, LinksAreChain
  <2>4. \A i \in inclusions : i.key = owner.key /\ IsInjective(i.acts)
    BY <1>2, <1>4, LinksAreChain DEF OwnerInv
  <2>5. {a.id : a \in actions} = {Last(i.acts) : i \in inclusions}
    <3>1. {Last(i.acts) : i \in inclusions} = Range(A)
      BY <1>2, LastsOfLinks
    <3> QED BY <1>2, <3>1
  <2>6. BridgeHolds(owner, inclusions)
    BY <1>4 DEF OwnerInv
  <2> QED BY <1>2, <1>4, <2>1, <2>2, <2>3, <2>4, <2>5, <2>6 DEF ProfileLoads, Loadable
<1> QED BY <1>3, <1>4

\* What is stored can be opened again at any time, if one controller key is made:
\* no step of tabs, connector, migration or keyring leaves records that load()
\* refuses.  Of two keys that are made, one replaces the other (ControllerKept), and
\* then the chain of the first no longer loads.
THEOREM ProfileAlwaysLoads == ASSUME OneController PROVE ChainSpec => []ProfileLoads
<1>1. ChainInit => ChainInv /\ OwnerInv
  BY ChainStarts, KeyStarts
<1>2. ChainInv /\ OwnerInv /\ [ChainNext]_chainVars => (ChainInv /\ OwnerInv)'
  BY ChainSteps, KeyNext
<1>3. ChainInv /\ OwnerInv => ProfileLoads
  BY LoadsWell
<1> QED BY <1>1, <1>2, <1>3, PTL DEF ChainSpec
\* Under the same hypothesis the controller key is never replaced: that two can be
\* made is all that is against ControllerKept.
THEOREM OneKeyStays == ASSUME OneController PROVE ChainSpec => ControllerKept
<1>1. ChainInit => ChainInv /\ OwnerInv
  BY ChainStarts, KeyStarts
<1>2. ChainInv /\ OwnerInv /\ [ChainNext]_chainVars => (ChainInv /\ OwnerInv)'
  BY ChainSteps, KeyNext
<1>3. ChainInv /\ OwnerInv /\ [ChainNext]_chainVars => [owner # None => owner'.key = owner.key]_chainVars
  <2>1. SUFFICES ASSUME ChainInv, OwnerInv, [ChainNext]_chainVars, owner # None
                 PROVE  owner'.key = owner.key
    OBVIOUS
  <2>2. OwnerInv' /\ owner.key = 1
    BY <2>1, <1>2 DEF OwnerInv
  <2>3. owner' = owner \/ \E p \in Pages : ReplaceChain(p)
    BY <2>1 DEF OwnerInv, Maker, ChainNext, TabNext, ConnectorNext, Open, Migrate, LoadState, Close,
                SubmitIdentity, StoreIdentity, CreateController, StoreController, Submit,
                BeginRecord, PutRecord, AskAccess, PairNode, PairFails, Disconnect, Sync,
                DeleteSent, SyncFails, NodeAnswers, chainVars, disk
  <2>4. owner' # None
    BY <2>1, <2>3, MigratedOwner, ChainAssumption
  <2> QED BY <2>2, <2>4 DEF OwnerInv
<1> QED BY <1>1, <1>2, <1>3, PTL DEF ChainSpec, ControllerKept
=============================================================================
