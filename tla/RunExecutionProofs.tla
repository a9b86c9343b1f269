------------------------- MODULE RunExecutionProofs -------------------------
(***************************************************************************)
(* RunExecution keeps six of its properties for any number of nodes,       *)
(* facts and reports, with failures of the repository, aborts and crashes. *)
(*                                                                         *)
(* The argument: an update in the chain has its caller waiting for it      *)
(* (ChainTold), and execute() and the pending node wait for one update     *)
(* each (OneEach); so the caller's position says what may still happen to  *)
(* the aggregate.  While no failure was seen, the nodes before the pending *)
(* one are completed (SettledCompleted), and the review is asked for only  *)
(* when all have been started and none is pending (ReviewingReady).  In a  *)
(* running run a node's status follows its task (NodesFresh), so no update *)
(* of a node meets a finished one.                                         *)
(*                                                                         *)
(* Every event of the log fits the run (Course), and one that is appended  *)
(* did not fit it before: that is why no event is told twice.  Reports are *)
(* told their outcome in the order of the calls (ReportsAhead), so the     *)
(* fact that is saved is newer than those that were.                       *)
(***************************************************************************)
EXTENDS RunExecution, SequenceTheorems, TLAPS

ExecKinds == {"start", "review", "fail"}
NodeKinds == {"nodeStart", "nodeEnd"}

\* The caller of an update waits for it.
Tells(u) ==
    /\ u.kind = "start"  => pc = "starting"
    /\ u.kind = "review" => pc = "reviewing"
    /\ u.kind = "fail"   => pc = "failing"
    /\ u.kind = "nodeStart" => task = "starting" /\ u.node = pending
    /\ u.kind = "nodeEnd"   => task = "completing" /\ u.node = pending
ChainTold == \A i \in 1 .. Len(chain) : Tells(chain[i])

\* Of two updates not both are execute()'s, nor both the node's.
Apart(u, v) ==
    /\ ~(u.kind \in ExecKinds /\ v.kind \in ExecKinds)
    /\ ~(u.kind \in NodeKinds /\ v.kind \in NodeKinds)
OneEach == \A i, j \in 1 .. Len(chain) : i # j => Apart(chain[i], chain[j])

TaskOK ==
    /\ pending = None <=> task = "idle"
    /\ pending # None => pending = index
    /\ pc \in {"queued", "starting", "none"} => task = "idle"

SettledCompleted ==
    /\ ~failed => \A k \in Nodes : k <= index /\ k # pending => NodeStatus(k) = "completed"
    /\ task = "done" => NodeStatus(pending) = "completed"

ReviewingReady ==
    pc = "reviewing" => pending = None /\ ~failed /\ index = NodeCount

NodesFresh ==
    /\ run.status = "queued" => \A k \in Nodes : NodeStatus(k) = "pending"
    /\ pc # "none" /\ run.status = "running" =>
          /\ \A k \in Nodes : k > index => NodeStatus(k) = "pending"
          /\ task = "starting" => NodeStatus(pending) = "pending"
          /\ task \in {"callback", "completing"} => NodeStatus(pending) = "running"

StatusFollows ==
    /\ pc \in {"body", "reviewing"} => run.status # "queued"
    /\ pc \in {"finally", "done"} => run.status \notin {"queued", "running"}

ControlOK == ChainTold /\ OneEach /\ TaskOK /\ ReviewingReady
NodesOK   == SettledCompleted /\ NodesFresh /\ StatusFollows
             /\ ReviewMeansComplete /\ NothingLeftRunning
RunInv    == TypeOK /\ ControlOK /\ NodesOK

-----------------------------------------------------------------------------
(* What an accepted update does to the aggregate *)

SameNodes(S) == \A k \in S : run'.nodes[k] = run.nodes[k]

Effects(u) ==
    /\ u.kind = "start" =>
          /\ run.status = "queued" /\ run'.status = "running"
          /\ SameNodes(Nodes)
    /\ u.kind \in NodeKinds =>
          /\ run.status = "running" /\ run'.status = "running"
          /\ SameNodes(Nodes \ {u.node})
          /\ NodeStatus(u.node)' = IF u.kind = "nodeStart" THEN "running" ELSE "completed"
    /\ u.kind = "report" =>
          /\ run.status = "running" /\ run'.status = "running"
          /\ SameNodes(Nodes \ {u.node})
          /\ NodeStatus(u.node) = "running" /\ NodeStatus(u.node)' = "running"
    /\ u.kind = "review" =>
          /\ run'.status = IF run.status = "running" THEN "review" ELSE run.status
          /\ run'.current = IF run.status = "running" THEN None ELSE run.current
          /\ SameNodes(Nodes)
    /\ u.kind = "fail" =>
          /\ run'.status = IF run.status = "cancelled" THEN "cancelled" ELSE "failed"
          /\ run.status = "cancelled" => run' = run
          /\ run.status # "cancelled" =>
                /\ run'.current = None
                /\ \A k \in Nodes : IF NodeStatus(k) = "running" THEN NodeStatus(k)' = "failed"
                                    ELSE run'.nodes[k] = run.nodes[k]
    /\ u.kind = "approve" =>
          /\ run.status = "review" /\ run'.status = "completed"
          /\ run'.current = run.current
          /\ SameNodes(Nodes)
    /\ u.kind \in {"cancel", "reject"} =>
          /\ run.status \in Live /\ run'.status = "cancelled"
          /\ run'.current = None
          /\ \A k \in Nodes : IF NodeStatus(k) \in {"pending", "running"}
                              THEN NodeStatus(k)' = "cancelled"
                              ELSE run'.nodes[k] = run.nodes[k]

\* What the assumption on the constants gives the arithmetic of the proofs.
LEMMA NodeFacts ==
    /\ NodeCount \in Nat /\ NodeCount > 0 /\ MaxFacts \in Nat /\ MaxFacts > 0
    /\ MaxReports \in Nat /\ None \notin Nodes /\ Nodes \subseteq Nat
BY ExecutionConstants DEF Nodes, None

\* The fields of an aggregate and of its nodes.
LEMMA RunFields ==
    ASSUME run \in RunRecords
    PROVE  /\ run.status \in Live \cup Finished
           /\ run.current \in Nodes \cup {None}
           /\ run.nodes \in [Nodes -> NodeRecords]
           /\ run.events \in Seq([type : EventTypes, node : Nodes \cup {None}])
           /\ \A k \in Nodes : /\ run.nodes[k] \in NodeRecords
                               /\ NodeStatus(k) \in {"pending", "running"} \cup Finished
                               /\ run.nodes[k].facts \in Seq(1 .. MaxReports)
BY DEF RunRecords, NodeRecords, NodeStatus

\* The fields of an update.
LEMMA UpdateFields ==
    ASSUME NEW u \in UpdateRecords
    PROVE  /\ u.kind \in ExecKinds \cup NodeKinds \cup {"report", "cancel", "reject", "approve"}
           /\ u.kind \in NodeKinds \cup {"report"} => u.node \in Nodes
           /\ u.kind = "report" => u.fact \in 1 .. MaxReports
BY DEF UpdateRecords, ExecKinds, NodeKinds

\* What the tail of the facts keeps are facts.
LEMMA KeptType ==
    ASSUME NEW S, NEW facts \in Seq(S)
    PROVE  Kept(facts) \in Seq(S)
<1> DEFINE m == IF Len(facts) > MaxFacts THEN Len(facts) - MaxFacts + 1 ELSE 1
<1>1. Len(facts) \in Nat /\ m \in Int /\ m >= 1
  BY NodeFacts
<1>2. \A i \in m .. Len(facts) : facts[i] \in S
  BY <1>1
<1>3. Kept(facts) = SubSeq(facts, m, Len(facts))
  BY DEF Kept
<1> HIDE DEF m
<1>. QED BY <1>1, <1>2, <1>3, SubSeqProperties

\* Adding an event leaves an aggregate, and the rest of it alone.
LEMMA LoggedFields ==
    ASSUME NEW r \in RunRecords, NEW type \in EventTypes, NEW k \in Nodes \cup {None}
    PROVE  /\ Logged(r, type, k) \in RunRecords
           /\ Logged(r, type, k).status = r.status
           /\ Logged(r, type, k).current = r.current
           /\ Logged(r, type, k).nodes = r.nodes
<1>1. Append(r.events, [type |-> type, node |-> k])
          \in Seq([type : EventTypes, node : Nodes \cup {None}])
  BY DEF RunRecords
<1>. QED BY <1>1 DEF Logged, RunRecords

\* The event it adds.
LEMMA LoggedEvent ==
    ASSUME NEW r \in RunRecords, NEW type, NEW k
    PROVE  Logged(r, type, k).events = Append(r.events, [type |-> type, node |-> k])
BY DEF Logged, RunRecords

\* Moved changes the nodes whose status it names, and no other.
LEMMA MovedFields ==
    ASSUME run \in RunRecords, NEW from, NEW to \in Finished
    PROVE  /\ Moved(from, to) \in [Nodes -> NodeRecords]
           /\ \A k \in Nodes : IF NodeStatus(k) \in from THEN Moved(from, to)[k].status = to
                               ELSE Moved(from, to)[k] = run.nodes[k]
           /\ \A k \in Nodes : Moved(from, to)[k].facts = run.nodes[k].facts
<1>1. ASSUME NEW k \in Nodes
      PROVE  /\ run.nodes[k] \in NodeRecords
             /\ [run.nodes[k] EXCEPT !.status = to] \in NodeRecords
             /\ [run.nodes[k] EXCEPT !.status = to].status = to
             /\ [run.nodes[k] EXCEPT !.status = to].facts = run.nodes[k].facts
  BY DEF RunRecords, NodeRecords
<1>. QED BY <1>1 DEF Moved, NodeStatus

\* An accepted update leaves an aggregate, changed as Effects says.
LEMMA ChangedEffects ==
    ASSUME run \in RunRecords, NEW u \in UpdateRecords, Accepts(u), run' = Changed(u)
    PROVE  run' \in RunRecords /\ Effects(u)
<1>1. /\ run.status \in Live \cup Finished /\ run.current \in Nodes \cup {None}
      /\ run.nodes \in [Nodes -> NodeRecords]
      /\ \A k \in Nodes : /\ run.nodes[k] \in NodeRecords
                          /\ NodeStatus(k) \in {"pending", "running"} \cup Finished
                          /\ run.nodes[k].facts \in Seq(1 .. MaxReports)
  BY RunFields
<1>2. CASE u.kind = "start"
  <2> DEFINE r == [run EXCEPT !.status = "running"]
  <2>1. r \in RunRecords /\ r.status = "running" /\ r.nodes = run.nodes
    BY DEF RunRecords, Live
  <2>2. run' = Logged(r, "run.started", None) /\ run.status = "queued"
    BY <1>2 DEF Changed, Accepts
  <2> HIDE DEF r
  <2>3. run' \in RunRecords /\ run'.status = "running" /\ run'.nodes = run.nodes
    BY <2>1, <2>2, LoggedFields DEF EventTypes
  <2>. QED BY <1>2, <2>2, <2>3 DEF Effects, SameNodes, NodeKinds
<1>3. CASE u.kind = "nodeStart"
  <2> DEFINE n == [run.nodes[u.node] EXCEPT !.status = "running"]
             r == [run EXCEPT !.nodes = [run.nodes EXCEPT ![u.node] = n], !.current = u.node]
  <2>0. u.node \in Nodes
    BY <1>3, UpdateFields DEF NodeKinds
  <2>1. n \in NodeRecords /\ n.status = "running"
    <3>1. run.nodes[u.node] \in NodeRecords
      BY <1>1, <2>0
    <3>. QED BY <3>1 DEF NodeRecords
  <2>2. run' = Logged(r, "node.started", u.node) /\ run.status = "running"
    BY <1>3, <1>1, <2>0 DEF Changed, Accepts, Running, WithNode, RunRecords
  <2> HIDE DEF n
  <2>3. r \in RunRecords /\ r.status = run.status /\ r.nodes = [run.nodes EXCEPT ![u.node] = n]
    BY <1>1, <2>0, <2>1 DEF RunRecords
  <2> HIDE DEF r
  <2>4. /\ run' \in RunRecords /\ run'.status = run.status
        /\ run'.nodes = [run.nodes EXCEPT ![u.node] = n]
    <3>1. {"node.started", "node.completed"} \subseteq EventTypes /\ u.node \in Nodes \cup {None}
      BY <2>0 DEF EventTypes
    <3>. QED BY <2>2, <2>3, <3>1, LoggedFields
  <2>. QED BY <1>1, <1>3, <2>0, <2>1, <2>2, <2>4 DEF Effects, SameNodes, NodeKinds, NodeStatus
<1>4. CASE u.kind = "nodeEnd"
  <2> DEFINE n == [run.nodes[u.node] EXCEPT !.status = "completed"]
             r == [run EXCEPT !.nodes = [run.nodes EXCEPT ![u.node] = n]]
  <2>0. u.node \in Nodes
    BY <1>4, UpdateFields DEF NodeKinds
  <2>1. n \in NodeRecords /\ n.status = "completed"
    <3>1. run.nodes[u.node] \in NodeRecords
      BY <1>1, <2>0
    <3>. QED BY <3>1 DEF NodeRecords, Finished
  <2>2. run' = Logged(r, "node.completed", u.node) /\ run.status = "running"
    BY <1>4, <1>1, <2>0 DEF Changed, Accepts, Running, WithNode, RunRecords
  <2> HIDE DEF n
  <2>3. r \in RunRecords /\ r.status = run.status /\ r.nodes = [run.nodes EXCEPT ![u.node] = n]
    BY <1>1, <2>0, <2>1 DEF RunRecords
  <2> HIDE DEF r
  <2>4. /\ run' \in RunRecords /\ run'.status = run.status
        /\ run'.nodes = [run.nodes EXCEPT ![u.node] = n]
    <3>1. {"node.started", "node.completed"} \subseteq EventTypes /\ u.node \in Nodes \cup {None}
      BY <2>0 DEF EventTypes
    <3>. QED BY <2>2, <2>3, <3>1, LoggedFields
  <2>. QED BY <1>1, <1>4, <2>0, <2>1, <2>2, <2>4 DEF Effects, SameNodes, NodeKinds, NodeStatus
<1>5. CASE u.kind = "report"
  <2> DEFINE facts == Kept(Append(run.nodes[u.node].facts, u.fact))
             n == [run.nodes[u.node] EXCEPT !.facts = facts]
  <2>0. u.node \in Nodes /\ u.fact \in 1 .. MaxReports
    BY <1>5, UpdateFields
  <2>1. Append(run.nodes[u.node].facts, u.fact) \in Seq(1 .. MaxReports)
    BY <1>1, <2>0
  <2>2. facts \in Seq(1 .. MaxReports)
    BY <2>1, KeptType
  <2>3. /\ run' = [run EXCEPT !.nodes = [run.nodes EXCEPT ![u.node] = n]]
        /\ run.status = "running" /\ NodeStatus(u.node) = "running"
    BY <1>5, <1>1, <2>0 DEF Changed, Accepts, Reportable, Running, RunRecords, NodeStatus
  <2> HIDE DEF facts
  <2>4. n \in NodeRecords /\ n.status = NodeStatus(u.node)
    BY <1>1, <2>0, <2>2 DEF NodeRecords, NodeStatus
  <2> HIDE DEF n
  <2>5. /\ run' \in RunRecords /\ run'.status = run.status
        /\ run'.nodes = [run.nodes EXCEPT ![u.node] = n]
    BY <1>1, <2>0, <2>3, <2>4 DEF RunRecords
  <2>. QED BY <1>1, <1>5, <2>0, <2>3, <2>4, <2>5 DEF Effects, SameNodes, NodeKinds, NodeStatus
<1>6. CASE u.kind = "review"
  <2>1. CASE run.status = "running"
    <3> DEFINE r == [run EXCEPT !.status = "review", !.current = None]
    <3>1. r \in RunRecords /\ r.status = "review" /\ r.nodes = run.nodes /\ r.current = None
      BY DEF RunRecords, Live
    <3>2. run' = Logged(r, "run.review", None)
      BY <1>6, <2>1 DEF Changed, Reviewed
    <3> HIDE DEF r
    <3>3. /\ run' \in RunRecords /\ run'.status = "review"
          /\ run'.nodes = run.nodes /\ run'.current = None
      BY <3>1, <3>2, LoggedFields DEF EventTypes
    <3>. QED BY <1>6, <2>1, <3>3 DEF Effects, SameNodes, NodeKinds
  <2>2. CASE run.status # "running"
    BY <1>6, <2>2 DEF Changed, Reviewed, Effects, SameNodes, NodeKinds
  <2>. QED BY <2>1, <2>2
<1>7. CASE u.kind = "fail"
  <2>1. CASE run.status = "cancelled"
    BY <1>7, <2>1 DEF Changed, Failed, Effects, NodeKinds
  <2>2. CASE run.status # "cancelled"
    <3> DEFINE m == Moved({"running"}, "failed")
               r == [run EXCEPT !.status = "failed", !.current = None, !.nodes = m]
    <3>1. /\ m \in [Nodes -> NodeRecords]
          /\ \A k \in Nodes : IF NodeStatus(k) \in {"running"} THEN m[k].status = "failed"
                              ELSE m[k] = run.nodes[k]
      BY MovedFields DEF Finished
    <3>2. run' = Logged(r, "run.failed", run.current)
      BY <1>7, <2>2 DEF Changed, Failed
    <3> HIDE DEF m
    <3>3. r \in RunRecords /\ r.status = "failed" /\ r.nodes = m /\ r.current = None
      BY <3>1 DEF RunRecords, Finished
    <3> HIDE DEF r
    <3>4. /\ run' \in RunRecords /\ run'.status = "failed"
          /\ run'.nodes = m /\ run'.current = None
      <4>1. "run.failed" \in EventTypes
        BY DEF EventTypes
      <4>. QED BY <1>1, <3>2, <3>3, <4>1, LoggedFields
    <3>. QED BY <1>7, <2>2, <3>1, <3>4 DEF Effects, NodeKinds, NodeStatus
  <2>. QED BY <2>1, <2>2
<1>8. CASE u.kind = "approve"
  <2> DEFINE r == [run EXCEPT !.status = "completed"]
  <2>1. /\ r \in RunRecords /\ r.status = "completed"
        /\ r.nodes = run.nodes /\ r.current = run.current
    BY DEF RunRecords, Finished
  <2>2. run' = Logged(r, "run.completed", None) /\ run.status = "review"
    BY <1>8 DEF Changed, Accepts
  <2> HIDE DEF r
  <2>3. /\ run' \in RunRecords /\ run'.status = "completed"
        /\ run'.nodes = run.nodes /\ run'.current = run.current
    BY <2>1, <2>2, LoggedFields DEF EventTypes
  <2>. QED BY <1>8, <2>2, <2>3 DEF Effects, SameNodes, NodeKinds
<1>9. CASE u.kind \in {"cancel", "reject"}
  <2> DEFINE m == Moved({"pending", "running"}, "cancelled")
             r == [run EXCEPT !.status = "cancelled", !.current = None, !.nodes = m]
  <2>1. /\ m \in [Nodes -> NodeRecords]
        /\ \A k \in Nodes : IF NodeStatus(k) \in {"pending", "running"}
                            THEN m[k].status = "cancelled" ELSE m[k] = run.nodes[k]
    BY MovedFields DEF Finished
  <2>2. run' = Logged(r, "run.cancelled", None) /\ run.status \in Live
    BY <1>9 DEF Changed, Cancelled, Accepts, Live
  <2> HIDE DEF m
  <2>3. r \in RunRecords /\ r.status = "cancelled" /\ r.nodes = m /\ r.current = None
    BY <2>1 DEF RunRecords, Finished
  <2> HIDE DEF r
  <2>4. /\ run' \in RunRecords /\ run'.status = "cancelled"
        /\ run'.nodes = m /\ run'.current = None
    BY <2>2, <2>3, LoggedFields DEF EventTypes
  <2>. QED BY <1>9, <2>1, <2>2, <2>4 DEF Effects, NodeKinds, NodeStatus
<1>. QED BY <1>2, <1>3, <1>4, <1>5, <1>6, <1>7, <1>8, <1>9, UpdateFields DEF ExecKinds, NodeKinds

-----------------------------------------------------------------------------
(* The chain and who waits for it *)

\* An update is chained by a caller that waits for no other one.
LEMMA ChainGrows ==
    ASSUME TypeOK, ChainTold, OneEach, NEW u \in UpdateRecords, chain' = Append(chain, u),
           Tells(u)', \A v \in UpdateRecords : Tells(v) => Tells(v)' /\ Apart(u, v)
    PROVE  chain' \in Seq(UpdateRecords) /\ ChainTold' /\ OneEach'
<1>1. /\ chain \in Seq(UpdateRecords) /\ Len(chain) \in Nat
      /\ \A i \in 1 .. Len(chain) : chain[i] \in UpdateRecords
  BY DEF TypeOK
<1>2. /\ chain' \in Seq(UpdateRecords) /\ Len(chain') = Len(chain) + 1
      /\ \A i \in 1 .. Len(chain) : chain'[i] = chain[i]
      /\ chain'[Len(chain) + 1] = u
  BY <1>1
<1>3. ASSUME NEW i \in 1 .. Len(chain)
      PROVE  Tells(chain[i])' /\ Apart(u, chain'[i]) /\ Apart(chain'[i], u)
  <2>1. PICK v \in UpdateRecords : v = chain[i] /\ v = chain'[i]
    BY <1>1, <1>2
  <2>2. Tells(v)
    BY <2>1 DEF ChainTold
  <2>3. Tells(v)' /\ Apart(u, v)
    BY <2>2
  <2>. QED BY <2>1, <2>3 DEF Tells, Apart
<1>4. ChainTold'
  BY <1>1, <1>2, <1>3 DEF ChainTold, Tells
<1>5. OneEach'
  BY <1>1, <1>2, <1>3 DEF OneEach, Apart
<1>. QED BY <1>2, <1>4, <1>5

\* The update at the head of the chain leaves it.
LEMMA ChainShrinks ==
    ASSUME TypeOK, ChainTold, OneEach, chain # << >>, chain' = Tail(chain),
           \A v \in UpdateRecords : Tells(v) /\ Apart(Head(chain), v) => Tells(v)'
    PROVE  chain' \in Seq(UpdateRecords) /\ ChainTold' /\ OneEach'
<1>1. /\ chain \in Seq(UpdateRecords) /\ Len(chain) \in Nat /\ Len(chain) > 0
      /\ \A i \in 1 .. Len(chain) : chain[i] \in UpdateRecords
      /\ Head(chain) = chain[1]
  BY DEF TypeOK
<1>2. /\ chain' \in Seq(UpdateRecords) /\ Len(chain') = Len(chain) - 1
      /\ \A i \in 1 .. Len(chain') : chain'[i] = chain[i + 1]
  BY <1>1
<1>3. ASSUME NEW i \in 1 .. Len(chain')
      PROVE  Tells(chain[i])'
  <2>1. PICK v \in UpdateRecords : v = chain[i + 1] /\ v = chain'[i]
    BY <1>1, <1>2
  <2>2. Tells(v) /\ Apart(Head(chain), v)
    BY <1>1, <1>2, <2>1 DEF ChainTold, OneEach
  <2>3. Tells(v)'
    BY <2>2
  <2>. QED BY <2>1, <2>3 DEF Tells
<1>4. ChainTold'
  BY <1>1, <1>2, <1>3 DEF ChainTold, Tells
<1>5. OneEach'
  BY <1>1, <1>2 DEF OneEach
<1>. QED BY <1>2, <1>4, <1>5

\* The chain stays, and its callers wait on.
LEMMA ChainStays ==
    ASSUME TypeOK, ChainTold, OneEach, chain' = chain,
           \A v \in UpdateRecords : Tells(v) => Tells(v)'
    PROVE  chain' \in Seq(UpdateRecords) /\ ChainTold' /\ OneEach'
<1>1. \A i \in 1 .. Len(chain) : chain[i] \in UpdateRecords
  BY DEF TypeOK
<1>. QED BY <1>1 DEF TypeOK, ChainTold, OneEach, Tells

\* The update at the head of the chain, and that its caller waits for it.
LEMMA HeadWaits ==
    ASSUME TypeOK, ChainTold, chain # << >>
    PROVE  Head(chain) \in UpdateRecords /\ Tells(Head(chain))
BY DEF TypeOK, ChainTold

\* An update that settles, however it does, tells the caller that waits for it.
LEMMA ToldControl ==
    ASSUME TypeOK, ControlOK, run' \in RunRecords, chain # << >>,
           NEW ok \in BOOLEAN, Told(Head(chain), ok),
           UNCHANGED <<index, pending, failed, aborted, asked, host>>
    PROVE  TypeOK' /\ ControlOK'
<1> DEFINE u == Head(chain)
<1>1. u \in UpdateRecords /\ Tells(u)
  BY HeadWaits DEF ControlOK
<1>2. /\ u.kind \in ExecKinds \cup NodeKinds \cup {"report", "cancel", "reject", "approve"}
      /\ u.kind \in NodeKinds \cup {"report"} => u.node \in Nodes
      /\ u.kind = "report" => u.fact \in 1 .. MaxReports
  BY <1>1, UpdateFields
<1>3. Told(u, ok)
  OBVIOUS
<1>4. chain' = Tail(chain)
  BY <1>3 DEF Told
<1> HIDE DEF u
<1>5. chain' \in Seq(UpdateRecords) /\ ChainTold' /\ OneEach'
  <2>1. ASSUME NEW v \in UpdateRecords, Tells(v), Apart(u, v)
        PROVE  Tells(v)'
    BY <1>2, <1>3, <2>1 DEF Told, ExecutionTold, NodeTold, Tells, Apart, ExecKinds, NodeKinds
  <2>. QED BY <1>4, <2>1, ChainShrinks DEF ControlOK, u
<1>6. TaskOK' /\ ReviewingReady'
  BY <1>1, <1>2, <1>3 DEF Told, ExecutionTold, NodeTold, Tells, ControlOK, TaskOK, ReviewingReady,
     ExecKinds, NodeKinds
<1>7. reports' \in Seq([node : Nodes, told : {"nothing", "saved", "refused"}])
  <2> DEFINE S == [node : Nodes, told : {"nothing", "saved", "refused"}]
  <2>1. reports \in Seq(S)
    BY DEF TypeOK
  <2>2. CASE u.kind = "report" /\ u.fact \in 1 .. Len(reports)
    <3>0. reports[u.fact] \in S
      <4> HIDE DEF S
      <4>. QED BY <2>1, <2>2
    <3>1. \A told \in {"saved", "refused"} : [reports[u.fact] EXCEPT !.told = told] \in S
      BY <3>0
    <3>2. PICK x \in S : reports' = [reports EXCEPT ![u.fact] = x]
      BY <1>3, <2>1, <2>2, <3>1 DEF Told
    <3> HIDE DEF S
    <3>3. [reports EXCEPT ![u.fact] = x] \in Seq(S)
      BY <2>1, <2>2, ExceptSeq
    <3>. QED BY <3>2, <3>3 DEF S
  <2>3. CASE ~(u.kind = "report" /\ u.fact \in 1 .. Len(reports))
    <3>1. reports' = reports
      BY <1>3, <2>1, <2>3 DEF Told
    <3>. QED BY <2>1, <3>1
  <2>. QED BY <2>2, <2>3
<1>8. TypeOK'
  <2>1. pc' \in {pc, "body", "refused", "finally", "unreviewed", "losing"}
    BY <1>3 DEF Told, ExecutionTold
  <2>2. task' \in {task, "callback", "failed", "done"}
    BY <1>3 DEF Told, NodeTold
  <2>3. contexts' \in SUBSET Nodes /\ cancelling' \in BOOLEAN
    BY <1>2, <1>3 DEF Told, TypeOK, NodeKinds
  <2>. QED BY <1>5, <1>7, <2>1, <2>2, <2>3 DEF TypeOK
<1>. QED BY <1>5, <1>6, <1>8 DEF ControlOK

\* The catch block aborts the signal, and fails the run unless a node is pending.
LEMMA CatchControl ==
    ASSUME TypeOK, ControlOK, pc \in {"refused", "unreviewed", "body"}, Catch
    PROVE  TypeOK' /\ ControlOK'
<1> DEFINE u == [kind |-> "fail", node |-> None, fact |-> 0]
<1>1. \A v \in UpdateRecords : Tells(v) => Tells(v)' /\ Apart(u, v)
  BY DEF Catch, body, Tells, Apart, ExecKinds, NodeKinds
<1>2. chain' \in Seq(UpdateRecords) /\ ChainTold' /\ OneEach'
  <2>1. CASE pending = None
    <3>1. u \in UpdateRecords /\ Tells(u)' /\ chain' = Append(chain, u)
      BY <2>1 DEF Catch, Update, UpdateRecords, Tells
    <3> HIDE DEF u
    <3>. QED BY <1>1, <3>1, ChainGrows DEF ControlOK
  <2>2. CASE pending # None
    BY <1>1, <2>2, ChainStays DEF ControlOK, Catch
  <2>. QED BY <2>1, <2>2
<1>3. TaskOK' /\ ReviewingReady' /\ TypeOK'
  BY <1>2 DEF Catch, body, ControlOK, TaskOK, ReviewingReady, TypeOK
<1>. QED BY <1>2, <1>3 DEF ControlOK

\* A user's command is chained and waited for by no part of the execution.
LEMMA CommandControl ==
    ASSUME TypeOK, ControlOK, NEW kind \in {"cancel", "reject", "approve"}, NEW from,
           Command(kind, from)
    PROVE  TypeOK' /\ ControlOK'
<1> DEFINE u == [kind |-> kind, node |-> None, fact |-> 0]
<1>1. u \in UpdateRecords /\ Tells(u)' /\ chain' = Append(chain, u)
  BY DEF Command, Update, UpdateRecords, Tells
<1>2. \A v \in UpdateRecords : Tells(v) => Tells(v)' /\ Apart(u, v)
  BY DEF Command, body, Tells, Apart, ExecKinds, NodeKinds
<1> HIDE DEF u
<1>3. chain' \in Seq(UpdateRecords) /\ ChainTold' /\ OneEach'
  BY <1>1, <1>2, ChainGrows DEF ControlOK
<1>4. TaskOK' /\ ReviewingReady' /\ TypeOK'
  BY <1>3 DEF Command, body, ControlOK, TaskOK, ReviewingReady, TypeOK
<1>. QED BY <1>3, <1>4 DEF ControlOK

\* Every step keeps the shape of the variables, and the waits between them.
LEMMA ControlStep ==
    TypeOK /\ ControlOK /\ [Next]_vars => TypeOK' /\ ControlOK'
<1>. SUFFICES ASSUME TypeOK, ControlOK, [Next]_vars
     PROVE  TypeOK' /\ ControlOK'
  OBVIOUS
<1>1. CASE Commit
  <2>1. Head(chain) \in UpdateRecords /\ chain # << >>
    BY <1>1, HeadWaits DEF Commit, ControlOK
  <2>2. run' \in RunRecords
    <3>1. PICK u \in UpdateRecords : u = Head(chain)
      BY <2>1
    <3>. QED BY <1>1, <3>1, ChangedEffects DEF Commit, TypeOK
  <2>3. \E ok \in BOOLEAN : Told(Head(chain), ok)
    <3>1. CASE Accepts(Head(chain))
      <4>1. Told(Head(chain), TRUE)
        BY <1>1, <3>1 DEF Commit, Told, ExecutionTold, NodeTold
      <4>. QED BY <4>1
    <3>2. CASE ~Accepts(Head(chain))
      <4>1. Told(Head(chain), FALSE)
        BY <1>1, <3>2 DEF Commit, Told, ExecutionTold, NodeTold
      <4>. QED BY <4>1
    <3>. QED BY <3>1, <3>2
  <2>. QED BY <1>1, <2>1, <2>2, <2>3, ToldControl DEF Commit
<1>2. CASE RepositoryFails
  BY <1>2, ToldControl DEF RepositoryFails, TypeOK
<1>3. CASE CancelContinue \/ StopAbort \/ Finally \/ UNCHANGED vars
  <2>1. \A v \in UpdateRecords : Tells(v) => Tells(v)'
    BY <1>3 DEF CancelContinue, StopAbort, Finally, vars, body, Tells
  <2>2. chain' = chain
    BY <1>3 DEF CancelContinue, StopAbort, Finally, vars
  <2>3. chain' \in Seq(UpdateRecords) /\ ChainTold' /\ OneEach'
    BY <2>1, <2>2, ChainStays DEF ControlOK
  <2>4. TaskOK' /\ ReviewingReady'
    BY <1>3 DEF CancelContinue, StopAbort, Finally, vars, body, ControlOK, TaskOK, ReviewingReady
  <2>5. TypeOK'
    <3>1. CASE CancelContinue
      <4>1. aborted' \in BOOLEAN
        BY <3>1 DEF CancelContinue, Signalled, Controlled, TypeOK
      <4>. QED BY <2>3, <3>1, <4>1 DEF CancelContinue, body, TypeOK
    <3>2. CASE StopAbort
      BY <2>3, <3>2 DEF StopAbort, body, TypeOK
    <3>3. CASE Finally
      BY <2>3, <3>3 DEF Finally, body, TypeOK
    <3>4. CASE UNCHANGED vars
      BY <2>3, <3>4 DEF vars, body, TypeOK
    <3>. QED BY <1>3, <3>1, <3>2, <3>3, <3>4
  <2>. QED BY <2>3, <2>4, <2>5 DEF ControlOK
<1>4. CASE Execute
  <2> DEFINE u == [kind |-> "start", node |-> None, fact |-> 0]
  <2>1. u \in UpdateRecords /\ Tells(u)' /\ chain' = Append(chain, u)
    BY <1>4 DEF Execute, Update, UpdateRecords, Tells
  <2>2. \A v \in UpdateRecords : Tells(v) => Tells(v)' /\ Apart(u, v)
    BY <1>4 DEF Execute, body, Tells, Apart, ExecKinds, NodeKinds
  <2> HIDE DEF u
  <2>3. chain' \in Seq(UpdateRecords) /\ ChainTold' /\ OneEach'
    BY <2>1, <2>2, ChainGrows DEF ControlOK
  <2>4. TaskOK' /\ ReviewingReady' /\ TypeOK'
    BY <1>4, <2>3 DEF Execute, body, ControlOK, TaskOK, ReviewingReady, TypeOK
  <2>. QED BY <2>3, <2>4 DEF ControlOK
<1>5. CASE UpdateRefused \/ BodyThrows
  BY <1>5, CatchControl DEF UpdateRefused, BodyThrows
<1>6. CASE BodyReturns
  <2>1. CASE ~MayReview
    BY <1>6, <2>1, CatchControl DEF BodyReturns
  <2>2. CASE MayReview
    <3> DEFINE u == [kind |-> "review", node |-> None, fact |-> 0]
    <3>1. u \in UpdateRecords /\ Tells(u)' /\ chain' = Append(chain, u)
      BY <1>6, <2>2 DEF BodyReturns, Update, UpdateRecords, Tells
    <3>2. \A v \in UpdateRecords : Tells(v) => Tells(v)' /\ Apart(u, v)
      BY <1>6, <2>2 DEF BodyReturns, body, Tells, Apart, ExecKinds, NodeKinds
    <3> HIDE DEF u
    <3>3. chain' \in Seq(UpdateRecords) /\ ChainTold' /\ OneEach'
      BY <3>1, <3>2, ChainGrows DEF ControlOK
    <3>4. TaskOK' /\ ReviewingReady' /\ TypeOK'
      BY <1>6, <2>2, <3>3 DEF BodyReturns, MayReview, body, ControlOK, TaskOK, ReviewingReady,
         TypeOK
    <3>. QED BY <3>3, <3>4 DEF ControlOK
  <2>. QED BY <2>1, <2>2
<1>7. CASE PendingSettled
  <2> DEFINE u == [kind |-> "fail", node |-> None, fact |-> 0]
  <2>1. u \in UpdateRecords /\ Tells(u)' /\ chain' = Append(chain, u)
    BY <1>7 DEF PendingSettled, Update, UpdateRecords, Tells
  <2>2. \A v \in UpdateRecords : Tells(v) => Tells(v)' /\ Apart(u, v)
    BY <1>7 DEF PendingSettled, body, Tells, Apart, ExecKinds, NodeKinds
  <2> HIDE DEF u
  <2>3. chain' \in Seq(UpdateRecords) /\ ChainTold' /\ OneEach'
    BY <2>1, <2>2, ChainGrows DEF ControlOK
  <2>4. TaskOK' /\ ReviewingReady' /\ TypeOK'
    BY <1>7, <2>3 DEF PendingSettled, body, ControlOK, TaskOK, ReviewingReady, TypeOK
  <2>. QED BY <2>3, <2>4 DEF ControlOK
<1>8. ASSUME NEW k \in Nodes, CallNode(k)
      PROVE  TypeOK' /\ ControlOK'
  <2> DEFINE u == [kind |-> "nodeStart", node |-> k, fact |-> 0]
  <2>1. u \in UpdateRecords /\ Tells(u)' /\ chain' = Append(chain, u)
    BY <1>8 DEF CallNode, Update, UpdateRecords, Tells
  <2>2. \A v \in UpdateRecords : Tells(v) => Tells(v)' /\ Apart(u, v)
    BY <1>8 DEF CallNode, Tells, Apart, ExecKinds, NodeKinds, ControlOK, TaskOK
  <2> HIDE DEF u
  <2>3. chain' \in Seq(UpdateRecords) /\ ChainTold' /\ OneEach'
    BY <2>1, <2>2, ChainGrows DEF ControlOK
  <2>4. TaskOK' /\ ReviewingReady'
    BY <1>8, NodeFacts DEF CallNode, HoldsContext, Started, ControlOK, TaskOK, ReviewingReady, Nodes
  <2>5. TypeOK'
    BY <1>8, <2>3 DEF CallNode, Started, TypeOK, Nodes
  <2>. QED BY <2>3, <2>4, <2>5 DEF ControlOK
<1>9. CASE CallbackReturns
  <2>1. pending \in Nodes
    BY <1>9 DEF CallbackReturns, ControlOK, TaskOK, TypeOK
  <2>2. \A v \in UpdateRecords : Tells(v) => Tells(v)' /\ v.kind \notin NodeKinds
    BY <1>9 DEF CallbackReturns, Tells, NodeKinds
  <2>3. chain' \in Seq(UpdateRecords) /\ ChainTold' /\ OneEach'
    <3>1. CASE aborted
      BY <1>9, <2>2, <3>1, ChainStays DEF CallbackReturns, ControlOK
    <3>2. CASE ~aborted
      <4>1. PICK u \in UpdateRecords : /\ u.kind = "nodeEnd" /\ u.node = pending
                                       /\ chain' = Append(chain, u)
        <5>1. [kind |-> "nodeEnd", node |-> pending, fact |-> 0] \in UpdateRecords
          BY <2>1 DEF UpdateRecords
        <5>. QED BY <5>1, <1>9, <3>2 DEF CallbackReturns, Update
      <4>2. Tells(u)'
        BY <1>9, <3>2, <4>1 DEF CallbackReturns, Tells
      <4>3. \A v \in UpdateRecords : Tells(v) => Tells(v)' /\ Apart(u, v)
        BY <2>2, <4>1 DEF Apart, ExecKinds
      <4>. QED BY <4>1, <4>2, <4>3, ChainGrows DEF ControlOK
    <3>. QED BY <3>1, <3>2
  <2>4. TaskOK' /\ ReviewingReady' /\ TypeOK'
    BY <1>9, <2>3 DEF CallbackReturns, ControlOK, TaskOK, ReviewingReady, TypeOK
  <2>. QED BY <2>3, <2>4 DEF ControlOK
<1>10. CASE CallbackThrows \/ NodeSettled
  <2>1. \A v \in UpdateRecords : Tells(v) => Tells(v)'
    BY <1>10 DEF CallbackThrows, NodeSettled, Tells
  <2>2. chain' \in Seq(UpdateRecords) /\ ChainTold' /\ OneEach'
    BY <1>10, <2>1, ChainStays DEF CallbackThrows, NodeSettled, ControlOK
  <2>3. TaskOK' /\ ReviewingReady' /\ TypeOK'
    BY <1>10, <2>2 DEF CallbackThrows, NodeSettled, ControlOK, TaskOK, ReviewingReady, TypeOK, None
  <2>. QED BY <2>2, <2>3 DEF ControlOK
<1>11. ASSUME NEW k \in Nodes, Report(k)
       PROVE  TypeOK' /\ ControlOK'
  <2>1. PICK u \in UpdateRecords : u.kind = "report" /\ chain' = Append(chain, u)
    <3>1. Len(reports) \in Nat /\ Len(reports) < MaxReports
      BY <1>11 DEF Report, TypeOK
    <3>2. Len(reports) + 1 \in 1 .. MaxReports
      BY <3>1, NodeFacts
    <3>3. [kind |-> "report", node |-> k, fact |-> Len(reports) + 1] \in UpdateRecords
      BY <3>2 DEF UpdateRecords
    <3>. QED BY <1>11, <3>3 DEF Report, Update
  <2>2. Tells(u)' /\ \A v \in UpdateRecords : Tells(v) => Tells(v)' /\ Apart(u, v)
    BY <1>11, <2>1 DEF Report, body, Tells, Apart, ExecKinds, NodeKinds
  <2>3. chain' \in Seq(UpdateRecords) /\ ChainTold' /\ OneEach'
    BY <2>1, <2>2, ChainGrows DEF ControlOK
  <2>4. TaskOK' /\ ReviewingReady' /\ TypeOK'
    BY <1>11, <2>3 DEF Report, body, ControlOK, TaskOK, ReviewingReady, TypeOK
  <2>. QED BY <2>3, <2>4 DEF ControlOK
<1>12. CASE Crash
  <2>1. chain' = << >> /\ Len(chain') = 0
    BY <1>12 DEF Crash, Vanish
  <2>2. chain' \in Seq(UpdateRecords) /\ ChainTold' /\ OneEach'
    BY <2>1 DEF ChainTold, OneEach
  <2>3. TaskOK' /\ ReviewingReady'
    BY <1>12, NodeFacts DEF Crash, Vanish, TaskOK, ReviewingReady
  <2>4. 0 \in 0 .. NodeCount
    BY NodeFacts
  <2>5. TypeOK'
    BY <1>12, <2>2, <2>4 DEF Crash, Vanish, TypeOK
  <2>. QED BY <2>2, <2>3, <2>5 DEF ControlOK
<1>13. CASE Restart
  <2>1. run' \in RunRecords
    <3> DEFINE r == [run EXCEPT !.status = "failed", !.current = None]
    <3>1. r \in RunRecords
      BY DEF TypeOK, RunRecords, Finished
    <3>2. run' = run \/ run' = Logged(r, "run.failed", None)
      BY <1>13 DEF Restart
    <3> HIDE DEF r
    <3>. QED BY <3>1, <3>2, LoggedFields DEF EventTypes, TypeOK
  <2>2. \A v \in UpdateRecords : Tells(v) => Tells(v)'
    BY <1>13 DEF Restart, body, Tells
  <2>3. chain' \in Seq(UpdateRecords) /\ ChainTold' /\ OneEach'
    BY <1>13, <2>2, ChainStays DEF Restart, ControlOK
  <2>4. TaskOK' /\ ReviewingReady' /\ TypeOK'
    BY <1>13, <2>1, <2>3 DEF Restart, body, ControlOK, TaskOK, ReviewingReady, TypeOK
  <2>. QED BY <2>3, <2>4 DEF ControlOK
<1>14. CASE Cancel \/ Reject \/ Approve
  BY <1>14, CommandControl DEF Cancel, Reject, Approve
<1>. QED BY <1>1, <1>2, <1>3, <1>4, <1>5, <1>6, <1>7, <1>8, <1>9, <1>10, <1>11, <1>12, <1>13, <1>14
     DEF Next, System, BodyEnds, CallbackEnds, Environment

-----------------------------------------------------------------------------
(* The nodes *)

\* An update that is refused, by its guard or by the repository, changes no node.
LEMMA RefusedNodes ==
    ASSUME RunInv, chain # << >>, Told(Head(chain), FALSE), run' = run,
           UNCHANGED <<index, pending, failed, aborted, asked, host>>
    PROVE  NodesOK'
<1> DEFINE u == Head(chain)
<1>1. Told(u, FALSE)
  OBVIOUS
<1> HIDE DEF u
<1>2. \A k : NodeStatus(k)' = NodeStatus(k)
  BY DEF NodeStatus
<1>3. /\ pc' \in {pc, "refused", "unreviewed", "losing"}
      /\ task' \in {task, "failed"}
  BY <1>1 DEF Told, ExecutionTold, NodeTold
<1>4. ReviewMeansComplete' /\ NothingLeftRunning'
  BY <1>2 DEF RunInv, NodesOK, ReviewMeansComplete, NothingLeftRunning
<1>5. SettledCompleted' /\ StatusFollows'
  BY <1>2, <1>3 DEF RunInv, NodesOK, SettledCompleted, StatusFollows
<1>6. NodesFresh'
  <2>1. pc' # "none" => pc # "none"
    BY <1>1, HeadWaits DEF RunInv, ControlOK, Told, ExecutionTold, Tells
  <2>. QED BY <1>2, <1>3, <2>1 DEF RunInv, NodesOK, NodesFresh
<1>. QED BY <1>4, <1>5, <1>6 DEF NodesOK

\* An update that is accepted keeps what is said of the nodes.
LEMMA AcceptedNodes ==
    ASSUME RunInv, chain # << >>, NEW u \in UpdateRecords, u = Head(chain),
           Told(u, TRUE), Effects(u),
           UNCHANGED <<index, pending, failed, aborted, asked, host>>
    PROVE  NodesOK'
<1>1. Told(u, TRUE) /\ Effects(u) /\ u \in UpdateRecords /\ Tells(u)
  BY HeadWaits DEF RunInv, ControlOK
<1>2. \A k \in Nodes : run'.nodes[k] = run.nodes[k] => NodeStatus(k)' = NodeStatus(k)
  BY DEF NodeStatus
<1>3. /\ pending \in Nodes \cup {None} /\ None \notin Nodes /\ index \in 0 .. NodeCount
      /\ NodeCount \in Nat /\ \A k \in Nodes : k \in Nat /\ k <= NodeCount /\ k # None
      /\ pending # None => pending = index
      /\ pending = None <=> task = "idle"
      /\ pc \in {"queued", "starting", "none"} => task = "idle"
      /\ run.status \in Live \cup Finished
  BY NodeFacts, RunFields DEF RunInv, TypeOK, ControlOK, TaskOK, Nodes
<1>4. CASE u.kind = "start"
  <2>1. /\ pc = "starting" /\ pc' = "body" /\ task = "idle" /\ task' = "idle"
        /\ run.status = "queued" /\ run'.status = "running"
        /\ \A k \in Nodes : NodeStatus(k)' = NodeStatus(k)
    BY <1>1, <1>2, <1>3, <1>4 DEF Told, ExecutionTold, NodeTold, Tells, Effects, SameNodes
  <2>2. ReviewMeansComplete' /\ NothingLeftRunning' /\ StatusFollows'
    BY <2>1 DEF ReviewMeansComplete, NothingLeftRunning, StatusFollows
  <2>3. SettledCompleted' /\ NodesFresh'
    BY <2>1 DEF RunInv, NodesOK, SettledCompleted, NodesFresh
  <2>. QED BY <2>2, <2>3 DEF NodesOK
<1>5. CASE u.kind = "nodeStart"
  <2>1. /\ task = "starting" /\ task' = "callback" /\ pc' = pc /\ u.node = pending
        /\ pending \in Nodes /\ pending = index
        /\ run.status = "running" /\ run'.status = "running"
        /\ NodeStatus(pending)' = "running"
        /\ \A k \in Nodes : k # pending => NodeStatus(k)' = NodeStatus(k)
    BY <1>1, <1>3, <1>5
       DEF Told, ExecutionTold, NodeTold, Tells, Effects, SameNodes, NodeKinds, NodeStatus
  <2>2. ReviewMeansComplete' /\ NothingLeftRunning' /\ StatusFollows'
    BY <2>1 DEF RunInv, NodesOK, ReviewMeansComplete, NothingLeftRunning, StatusFollows
  <2>3. SettledCompleted'
    BY <2>1 DEF RunInv, NodesOK, SettledCompleted
  <2>4. NodesFresh'
    BY <2>1, <1>3 DEF RunInv, NodesOK, NodesFresh
  <2>. QED BY <2>2, <2>3, <2>4 DEF NodesOK
<1>6. CASE u.kind = "nodeEnd"
  <2>1. /\ task = "completing" /\ task' = "done" /\ pc' = pc /\ u.node = pending
        /\ pending \in Nodes /\ pending = index
        /\ run.status = "running" /\ run'.status = "running"
        /\ NodeStatus(pending)' = "completed"
        /\ \A k \in Nodes : k # pending => NodeStatus(k)' = NodeStatus(k)
    BY <1>1, <1>3, <1>6
       DEF Told, ExecutionTold, NodeTold, Tells, Effects, SameNodes, NodeKinds, NodeStatus
  <2>2. ReviewMeansComplete' /\ NothingLeftRunning' /\ StatusFollows'
    BY <2>1 DEF RunInv, NodesOK, ReviewMeansComplete, NothingLeftRunning, StatusFollows
  <2>3. SettledCompleted'
    BY <2>1 DEF RunInv, NodesOK, SettledCompleted
  <2>4. NodesFresh'
    BY <2>1, <1>3 DEF RunInv, NodesOK, NodesFresh
  <2>. QED BY <2>2, <2>3, <2>4 DEF NodesOK
<1>7. CASE u.kind = "report"
  <2>1. /\ task' = task /\ pc' = pc /\ u.node \in Nodes
        /\ run.status = "running" /\ run'.status = "running"
        /\ \A k \in Nodes : NodeStatus(k)' = NodeStatus(k)
    BY <1>1, <1>2, <1>7, UpdateFields
       DEF Told, ExecutionTold, NodeTold, Effects, SameNodes
  <2>2. ReviewMeansComplete' /\ NothingLeftRunning' /\ StatusFollows'
    BY <2>1 DEF RunInv, NodesOK, ReviewMeansComplete, NothingLeftRunning, StatusFollows
  <2>3. SettledCompleted' /\ NodesFresh'
    BY <2>1, <1>3 DEF RunInv, NodesOK, SettledCompleted, NodesFresh
  <2>. QED BY <2>2, <2>3 DEF NodesOK
<1>8. CASE u.kind = "review"
  <2>1. /\ pc = "reviewing" /\ pc' = "finally" /\ task' = task
        /\ pending = None /\ ~failed /\ index = NodeCount
        /\ run'.status = IF run.status = "running" THEN "review" ELSE run.status
        /\ run'.current = IF run.status = "running" THEN None ELSE run.current
        /\ \A k \in Nodes : NodeStatus(k)' = NodeStatus(k)
    BY <1>1, <1>2, <1>8 DEF Told, ExecutionTold, NodeTold, Tells, Effects, SameNodes,
       RunInv, ControlOK, ReviewingReady
  <2>2. \A k \in Nodes : NodeStatus(k) = "completed"
    BY <1>3, <2>1 DEF RunInv, NodesOK, SettledCompleted
  <2>3. ReviewMeansComplete' /\ NothingLeftRunning'
    BY <2>1, <2>2 DEF RunInv, NodesOK, NothingLeftRunning, ReviewMeansComplete
  <2>4. StatusFollows'
    BY <2>1 DEF RunInv, NodesOK, StatusFollows
  <2>5. SettledCompleted' /\ NodesFresh'
    BY <1>3, <2>1, <2>2 DEF SettledCompleted, NodesFresh, RunInv, NodesOK
  <2>. QED BY <2>3, <2>4, <2>5 DEF NodesOK
<1>9. CASE u.kind = "fail"
  <2>1. /\ pc = "failing" /\ pc' = "finally" /\ task' = task
        /\ run'.status \in {"cancelled", "failed"}
        /\ \A k \in Nodes : NodeStatus(k) = "completed" => NodeStatus(k)' = "completed"
    BY <1>1, <1>2, <1>9 DEF Told, ExecutionTold, NodeTold, Tells, Effects, NodeStatus
  <2>2. NothingLeftRunning'
    <3>1. CASE run.status = "cancelled"
      BY <1>1, <1>2, <1>9, <3>1 DEF Effects, RunInv, NodesOK, NothingLeftRunning, NodeStatus
    <3>2. CASE run.status # "cancelled"
      BY <1>1, <1>2, <1>9, <3>2 DEF Effects, NothingLeftRunning
    <3>. QED BY <3>1, <3>2
  <2>3. ReviewMeansComplete' /\ StatusFollows' /\ NodesFresh'
    BY <2>1 DEF ReviewMeansComplete, StatusFollows, NodesFresh
  <2>4. SettledCompleted'
    BY <1>3, <2>1 DEF RunInv, NodesOK, SettledCompleted
  <2>. QED BY <2>2, <2>3, <2>4 DEF NodesOK
<1>10. CASE u.kind = "approve"
  <2>1. /\ pc' = pc /\ task' = task /\ run.status = "review" /\ run'.status = "completed"
        /\ run'.current = run.current
        /\ \A k \in Nodes : NodeStatus(k)' = NodeStatus(k)
    BY <1>1, <1>2, <1>10 DEF Told, ExecutionTold, NodeTold, Effects, SameNodes
  <2>2. ReviewMeansComplete' /\ NothingLeftRunning' /\ StatusFollows' /\ NodesFresh'
    BY <2>1 DEF RunInv, NodesOK, ReviewMeansComplete, NothingLeftRunning, StatusFollows, NodesFresh
  <2>3. SettledCompleted'
    BY <1>3, <2>1 DEF RunInv, NodesOK, SettledCompleted
  <2>. QED BY <2>2, <2>3 DEF NodesOK
<1>11. CASE u.kind \in {"cancel", "reject"}
  <2>1. /\ pc' = pc /\ task' = task /\ run'.status = "cancelled" /\ run'.current = None
        /\ \A k \in Nodes : /\ NodeStatus(k) = "completed" => NodeStatus(k)' = "completed"
                            /\ NodeStatus(k)' # "running"
    BY <1>1, <1>2, <1>11 DEF Told, ExecutionTold, NodeTold, Effects
  <2>2. ReviewMeansComplete' /\ NothingLeftRunning' /\ StatusFollows' /\ NodesFresh'
    BY <2>1 DEF ReviewMeansComplete, NothingLeftRunning, StatusFollows, NodesFresh
  <2>3. SettledCompleted'
    BY <1>3, <2>1 DEF RunInv, NodesOK, SettledCompleted
  <2>. QED BY <2>2, <2>3 DEF NodesOK
<1>. QED BY <1>1, <1>4, <1>5, <1>6, <1>7, <1>8, <1>9, <1>10, <1>11, UpdateFields
     DEF ExecKinds, NodeKinds

\* execute() moving on changes no node.
LEMMA QuietNodes ==
    ASSUME RunInv, UNCHANGED <<run, index, pending, failed, task, host>>,
           \/ pc' = pc
           \/ pc # "none" /\ pc' \in {"starting", "failing", "waiting", "lost"}
           \/ pc = "body" /\ pc' = "reviewing"
           \/ pc = "finally" /\ pc' = "done"
    PROVE  NodesOK'
<1>1. /\ \A k : NodeStatus(k)' = NodeStatus(k)
      /\ NodeStatus(pending)' = NodeStatus(pending)
  BY DEF NodeStatus
<1>2. ReviewMeansComplete' /\ NothingLeftRunning'
  BY <1>1 DEF RunInv, NodesOK, ReviewMeansComplete, NothingLeftRunning
<1>3. SettledCompleted' /\ NodesFresh' /\ StatusFollows'
  BY <1>1 DEF RunInv, NodesOK, SettledCompleted, NodesFresh, StatusFollows
<1>. QED BY <1>2, <1>3 DEF NodesOK

\* Every step keeps what is said of the nodes.
LEMMA NodesStep == RunInv /\ [Next]_vars => NodesOK'
<1>. SUFFICES ASSUME RunInv, [Next]_vars PROVE NodesOK'
  OBVIOUS
<1>0. TypeOK /\ ControlOK /\ NodesOK /\ run \in RunRecords
  BY DEF RunInv, TypeOK
<1>1. CASE Commit
  <2>1. PICK u \in UpdateRecords : u = Head(chain) /\ chain # << >>
    BY <1>0, <1>1, HeadWaits DEF Commit, ControlOK
  <2>2. CASE Accepts(u)
    <3>1. Told(u, TRUE) /\ run' = Changed(u)
      BY <1>1, <2>1, <2>2 DEF Commit, Told, ExecutionTold, NodeTold
    <3>2. Effects(u)
      BY <1>0, <2>2, <3>1, ChangedEffects
    <3>. QED BY <1>1, <2>1, <3>1, <3>2, AcceptedNodes DEF Commit
  <2>3. CASE ~Accepts(u)
    <3>1. Told(Head(chain), FALSE) /\ run' = run
      BY <1>1, <2>1, <2>3 DEF Commit, Told, ExecutionTold, NodeTold
    <3>. QED BY <1>1, <2>1, <3>1, RefusedNodes DEF Commit
  <2>. QED BY <2>2, <2>3
<1>2. CASE RepositoryFails
  BY <1>2, RefusedNodes DEF RepositoryFails
<1>3. CASE CancelContinue \/ StopAbort \/ Execute \/ PendingSettled \/ Finally
  BY <1>3, QuietNodes DEF CancelContinue, StopAbort, Execute, PendingSettled, Finally, body
<1>4. CASE UpdateRefused \/ BodyThrows \/ BodyReturns
  BY <1>4, QuietNodes DEF UpdateRefused, BodyThrows, BodyReturns, Catch, body
<1>5. CASE Cancel \/ Reject \/ Approve \/ \E k \in Nodes : Report(k)
  BY <1>5, QuietNodes DEF Cancel, Reject, Approve, Command, Report, body
<1>6. CASE UNCHANGED vars
  BY <1>6, QuietNodes DEF vars, body
<1>7. ASSUME NEW k \in Nodes, CallNode(k)
      PROVE  NodesOK'
  <2>1. /\ pending = None /\ k = index + 1 /\ index' = k /\ pending' = k
        /\ task' = "starting" /\ UNCHANGED <<run, pc, failed, host>>
        /\ index \in Nat /\ \A i \in Nodes : i \in Nat /\ i # None
        /\ \A i \in Nodes : NodeStatus(i)' = NodeStatus(i)
    BY <1>0, <1>7, NodeFacts DEF CallNode, Started, TypeOK, NodeStatus
  <2>2. ReviewMeansComplete' /\ NothingLeftRunning' /\ StatusFollows'
    BY <1>0, <2>1 DEF NodesOK, ReviewMeansComplete, NothingLeftRunning, StatusFollows
  <2>3. SettledCompleted'
    BY <1>0, <2>1 DEF NodesOK, SettledCompleted
  <2>4. NodesFresh'
    <3>1. NodeStatus(pending)' = NodeStatus(k)
      BY <2>1 DEF NodeStatus
    <3>. QED BY <1>0, <2>1, <3>1 DEF NodesOK, NodesFresh
  <2>. QED BY <2>2, <2>3, <2>4 DEF NodesOK
<1>8. CASE CallbackReturns \/ CallbackThrows \/ NodeSettled
  <2>1. /\ UNCHANGED <<run, pc, index, host>>
        /\ \A k \in Nodes : NodeStatus(k)' = NodeStatus(k)
    BY <1>8 DEF CallbackReturns, CallbackThrows, NodeSettled, NodeStatus
  <2>2. ReviewMeansComplete' /\ NothingLeftRunning' /\ StatusFollows'
    BY <1>0, <2>1 DEF NodesOK, ReviewMeansComplete, NothingLeftRunning, StatusFollows
  <2>3. CASE CallbackReturns \/ CallbackThrows
    <3>1. /\ UNCHANGED <<pending, failed>> /\ task = "callback"
          /\ task' \in {"failed", "completing"}
          /\ NodeStatus(pending)' = NodeStatus(pending)
      BY <2>3 DEF CallbackReturns, CallbackThrows, NodeStatus
    <3>2. SettledCompleted' /\ NodesFresh'
      BY <1>0, <2>1, <3>1 DEF NodesOK, SettledCompleted, NodesFresh
    <3>. QED BY <2>2, <3>2 DEF NodesOK
  <2>4. CASE NodeSettled
    <3>1. /\ task \in {"done", "failed"} /\ task' = "idle" /\ pending' = None
          /\ failed' = (failed \/ task = "failed")
      BY <2>4 DEF NodeSettled
    <3>2. SettledCompleted' /\ NodesFresh'
      BY <1>0, <2>1, <3>1 DEF NodesOK, SettledCompleted, NodesFresh
    <3>. QED BY <2>2, <3>2 DEF NodesOK
  <2>. QED BY <1>8, <2>3, <2>4
<1>9. CASE Crash
  <2>1. /\ run' = run /\ pc' = "none" /\ index' = 0 /\ task' = "idle" /\ host' = "down"
        /\ \A k \in Nodes : NodeStatus(k)' = NodeStatus(k) /\ ~(k <= 0)
    BY <1>9, NodeFacts DEF Crash, Vanish, NodeStatus, None, Nodes
  <2>2. ReviewMeansComplete' /\ NothingLeftRunning' /\ StatusFollows'
    BY <1>0, <2>1 DEF NodesOK, ReviewMeansComplete, NothingLeftRunning, StatusFollows
  <2>3. SettledCompleted' /\ NodesFresh'
    BY <1>0, <2>1 DEF NodesOK, SettledCompleted, NodesFresh
  <2>. QED BY <2>2, <2>3 DEF NodesOK
<1>10. CASE Restart
  <2>1. /\ UNCHANGED <<pc, body>> /\ host' = "second"
        /\ run'.status \notin {"queued", "running"}
        /\ run'.status \in {"review", "completed"} => run' = run
        /\ run'.current = None
        /\ run'.nodes = run.nodes
    <3> DEFINE r == [run EXCEPT !.status = "failed", !.current = None]
    <3>1. r \in RunRecords /\ r.status = "failed" /\ r.current = None /\ r.nodes = run.nodes
      BY <1>0 DEF RunRecords, Finished
    <3>2. CASE run.status \in {"queued", "running"}
      <4>1. run' = Logged(r, "run.failed", None)
        BY <1>10, <3>2 DEF Restart
      <4> HIDE DEF r
      <4>2. run'.status = "failed" /\ run'.current = None /\ run'.nodes = run.nodes
        BY <3>1, <4>1, LoggedFields DEF EventTypes
      <4>. QED BY <1>10, <4>2 DEF Restart
    <3>3. CASE run.status \notin {"queued", "running"}
      BY <1>0, <1>10, <3>3 DEF Restart, NodesOK, NothingLeftRunning
    <3>. QED BY <3>2, <3>3
  <2>2. UNCHANGED <<index, pending, failed, task, pc>> /\ \A k : NodeStatus(k)' = NodeStatus(k)
        /\ NodeStatus(pending)' = NodeStatus(pending)
    BY <2>1 DEF body, NodeStatus
  <2>3. ReviewMeansComplete' /\ NothingLeftRunning'
    BY <1>0, <2>1, <2>2 DEF NodesOK, ReviewMeansComplete, NothingLeftRunning
  <2>4. SettledCompleted' /\ NodesFresh' /\ StatusFollows'
    BY <1>0, <2>1, <2>2 DEF NodesOK, SettledCompleted, NodesFresh, StatusFollows
  <2>. QED BY <2>3, <2>4 DEF NodesOK
<1>. QED BY <1>1, <1>2, <1>3, <1>4, <1>5, <1>6, <1>7, <1>8, <1>9, <1>10
     DEF Next, System, BodyEnds, CallbackEnds, Environment

\* The invariant holds at first.
LEMMA InvInit == Init => RunInv
<1>. SUFFICES ASSUME Init PROVE RunInv
  OBVIOUS
<1>1. run \in RunRecords
  <2>1. [type |-> "run.queued", node |-> None] \in [type : EventTypes, node : Nodes \cup {None}]
    BY DEF EventTypes
  <2>2. [status |-> "pending", facts |-> << >>] \in NodeRecords
    BY DEF NodeRecords
  <2>. QED BY <2>1, <2>2 DEF Init, RunRecords, Live
<1>2. chain \in Seq(UpdateRecords) /\ Len(chain) = 0 /\ 0 \in 0 .. NodeCount
  BY NodeFacts DEF Init
<1>3. TypeOK
  <2>1. reports \in Seq([node : Nodes, told : {"nothing", "saved", "refused"}])
    BY DEF Init
  <2>2. contexts \in SUBSET Nodes /\ asked \in SUBSET {"cancel", "reject", "approve"}
    BY DEF Init
  <2>3. index \in 0 .. NodeCount /\ pending \in Nodes \cup {None}
    BY <1>2 DEF Init
  <2>. QED BY <1>1, <1>2, <2>1, <2>2, <2>3 DEF Init, TypeOK
<1>4. ControlOK
  BY <1>2 DEF Init, ControlOK, ChainTold, OneEach, TaskOK, ReviewingReady
<1>5. \A k \in Nodes : NodeStatus(k) = "pending" /\ ~(k <= 0)
  BY NodeFacts DEF Init, NodeStatus, None, Nodes
<1>6. NodesOK
  BY <1>5 DEF Init, NodesOK, SettledCompleted, NodesFresh, StatusFollows, ReviewMeansComplete,
     NothingLeftRunning
<1>. QED BY <1>3, <1>4, <1>6 DEF RunInv

\* The argument of the header is kept by every step.
LEMMA InvStep == RunInv /\ [Next]_vars => RunInv'
BY ControlStep, NodesStep DEF RunInv

\* And so it is an invariant.
LEMMA InvHolds == Spec => []RunInv
BY InvInit, InvStep, PTL DEF Spec

-----------------------------------------------------------------------------

\* A run reaches review, and completion, only with every declared node completed, for
\* any number of nodes and whatever the body does (BodyReturns, the final update).
THEOREM ReviewMeansCompleteEver == Spec => []ReviewMeansComplete
<1>1. RunInv => ReviewMeansComplete
  BY DEF RunInv, NodesOK
<1>. QED BY <1>1, InvHolds, PTL

\* No run that has ended shows a current or, in its process, a running node.
THEOREM NothingLeftRunningEver == Spec => []NothingLeftRunning
<1>1. RunInv => NothingLeftRunning
  BY DEF RunInv, NodesOK
<1>. QED BY <1>1, InvHolds, PTL

\* An execution that ended has left a run that is neither queued nor running.
THEOREM EndedRunIsSettledEver == Spec => []EndedRunIsSettled
<1>1. RunInv => EndedRunIsSettled
  BY DEF RunInv, NodesOK, StatusFollows, EndedRunIsSettled
<1>. QED BY <1>1, InvHolds, PTL

\* No step touches what a finished node recorded.
THEOREM FinishedNodesFrozenEver == Spec => FinishedNodesFrozen
<1>1. ASSUME RunInv, [Next]_vars, NEW k \in Nodes, NodeStatus(k) \in Finished
      PROVE  run'.nodes[k] = run.nodes[k]
  <2>0. /\ TypeOK /\ ControlOK /\ NodesFresh /\ run \in RunRecords
        /\ NodeStatus(k) \notin {"pending", "running"}
    BY <1>1 DEF RunInv, NodesOK, TypeOK, Finished
  <2>1. CASE Commit
    <3>1. PICK u \in UpdateRecords : u = Head(chain) /\ chain # << >>
      BY <2>0, <2>1, HeadWaits DEF Commit, ControlOK
    <3>2. CASE ~Accepts(u)
      BY <2>1, <3>1, <3>2 DEF Commit
    <3>3. CASE Accepts(u)
      <4>1. Effects(u) /\ Tells(u)
        BY <2>0, <2>1, <3>1, <3>3, ChangedEffects, HeadWaits DEF Commit, ControlOK
      <4>2. CASE u.kind \in NodeKinds
        <5>1. /\ run.status = "running" /\ u.node = pending
              /\ task \in {"starting", "completing"} /\ pc # "none"
          BY <2>0, <4>1, <4>2 DEF Effects, Tells, NodeKinds, ControlOK, TaskOK
        <5>2. NodeStatus(pending) \in {"pending", "running"}
          BY <2>0, <5>1 DEF NodesFresh
        <5>3. k # u.node
          BY <2>0, <5>1, <5>2
        <5>. QED BY <4>1, <4>2, <5>3 DEF Effects, SameNodes
      <4>3. CASE u.kind = "report"
        BY <2>0, <4>1, <4>3 DEF Effects, SameNodes
      <4>4. CASE u.kind \notin NodeKinds \cup {"report"}
        BY <2>0, <4>1, <4>4, UpdateFields DEF Effects, SameNodes, ExecKinds
      <4>. QED BY <4>2, <4>3, <4>4
    <3>. QED BY <3>2, <3>3
  <2>2. CASE Restart
    BY <2>0, <2>2 DEF Restart, Logged, RunRecords
  <2>3. CASE ~Commit /\ ~Restart
    <3>1. run' = run
      BY <1>1, <2>3 DEF Next, System, BodyEnds, CallbackEnds, Environment, RepositoryFails,
         CancelContinue, StopAbort, Execute, PendingSettled, Finally, UpdateRefused, BodyThrows,
         BodyReturns, Catch, Cancel, Reject, Approve, Command, Report, CallNode,
         CallbackReturns, CallbackThrows, NodeSettled, Crash, vars
    <3>. QED BY <3>1
  <2>. QED BY <2>1, <2>2, <2>3
<1>2. RunInv /\ [Next]_vars =>
        [\A k \in Nodes : NodeStatus(k) \in Finished => run'.nodes[k] = run.nodes[k]]_vars
  BY <1>1
<1>. QED BY <1>2, InvHolds, PTL DEF Spec, FinishedNodesFrozen
-----------------------------------------------------------------------------
(* The event log.  An event that is appended does not fit the run as it was, *)
(* and every event of the log does: so it is not there yet.                  *)

Events     == [type : EventTypes, node : Nodes \cup {None}]
NodeEvents == {"node.started", "node.completed"}

Fits(e) ==
    /\ e.type = "run.started"   => run.status # "queued"
    /\ e.type = "run.review"    => run.status \notin {"queued", "running"}
    /\ e.type = "run.completed" => run.status = "completed"
    /\ e.type = "run.cancelled" => run.status = "cancelled"
    /\ e.type = "run.failed"    => run.status = "failed"
    /\ e.type = "node.started"  =>
          /\ e.node \in Nodes /\ NodeStatus(e.node) # "pending"
          /\ pc # "none" => e.node <= index
    /\ e.type = "node.completed" => e.node \in Nodes /\ NodeStatus(e.node) = "completed"

Course == \A i \in 1 .. Len(run.events) : Fits(run.events[i])

\* execute() fails its run only while nobody but a canceller has settled it.
Open == {"queued", "starting", "refused", "body", "waiting", "reviewing", "unreviewed", "failing"}
OpenStatus ==
    /\ pc \in Open => run.status \in {"queued", "running", "cancelled"}
    /\ host # "first" => pc = "none"

LogInv == OpenStatus /\ Course /\ LogAgrees

\* The event of an update, and the updates that have none.
EventOf(u) ==
    CASE u.kind = "start"     -> [type |-> "run.started", node |-> None]
      [] u.kind = "nodeStart" -> [type |-> "node.started", node |-> u.node]
      [] u.kind = "nodeEnd"   -> [type |-> "node.completed", node |-> u.node]
      [] u.kind = "review"    -> [type |-> "run.review", node |-> None]
      [] u.kind = "fail"      -> [type |-> "run.failed", node |-> run.current]
      [] u.kind = "approve"   -> [type |-> "run.completed", node |-> None]
      [] OTHER                -> [type |-> "run.cancelled", node |-> None]

Silent(u) ==
    \/ u.kind = "report"
    \/ u.kind = "review" /\ run.status # "running"
    \/ u.kind = "fail" /\ run.status = "cancelled"

\* An accepted update appends its event, and a report changes the facts of its node.
LEMMA ChangedRecord ==
    ASSUME run \in RunRecords, NEW u \in UpdateRecords, Accepts(u), run' = Changed(u)
    PROVE  /\ run'.events = IF Silent(u) THEN run.events ELSE Append(run.events, EventOf(u))
           /\ \A k \in Nodes : run'.nodes[k].facts =
                 IF u.kind = "report" /\ k = u.node
                 THEN Kept(Append(run.nodes[k].facts, u.fact)) ELSE run.nodes[k].facts
<1>1. /\ run.status \in Live \cup Finished /\ run.current \in Nodes \cup {None}
      /\ run.nodes \in [Nodes -> NodeRecords]
      /\ \A k \in Nodes : /\ run.nodes[k] \in NodeRecords
                          /\ run.nodes[k].facts \in Seq(1 .. MaxReports)
  BY RunFields
<1>2. CASE u.kind \in {"start", "approve"}
  <2>. PICK status \in {"running", "completed"} :
         status = IF u.kind = "start" THEN "running" ELSE "completed"
    OBVIOUS
  <2> DEFINE r == [run EXCEPT !.status = status]
  <2>1. r \in RunRecords /\ r.events = run.events /\ r.nodes = run.nodes
    BY DEF RunRecords, Live, Finished
  <2>2. run' = Logged(r, EventOf(u).type, None) /\ ~Silent(u)
        /\ EventOf(u) = [type |-> EventOf(u).type, node |-> None]
        /\ EventOf(u).type \in EventTypes
    BY <1>2 DEF Changed, EventOf, Silent, EventTypes
  <2> HIDE DEF r
  <2>. QED BY <1>2, <2>1, <2>2, LoggedFields, LoggedEvent
<1>3. CASE u.kind \in NodeKinds
  <2>. PICK status \in {"running", "completed"} :
         status = IF u.kind = "nodeStart" THEN "running" ELSE "completed"
    OBVIOUS
  <2>. PICK current \in Nodes \cup {None} :
         current = IF u.kind = "nodeStart" THEN u.node ELSE run.current
    BY <1>1, <1>3, UpdateFields
  <2> DEFINE n == [run.nodes[u.node] EXCEPT !.status = status]
             r == [run EXCEPT !.nodes = [run.nodes EXCEPT ![u.node] = n], !.current = current]
  <2>0. u.node \in Nodes
    BY <1>3, UpdateFields
  <2>1. n \in NodeRecords /\ n.facts = run.nodes[u.node].facts
    <3>1. run.nodes[u.node] \in NodeRecords
      BY <1>1, <2>0
    <3>. QED BY <3>1 DEF NodeRecords, Finished
  <2>2. /\ run' = Logged(r, EventOf(u).type, u.node) /\ ~Silent(u)
        /\ EventOf(u) = [type |-> EventOf(u).type, node |-> u.node]
        /\ EventOf(u).type \in EventTypes
    BY <1>3, <1>1, <2>0
       DEF Changed, WithNode, EventOf, Silent, EventTypes, NodeKinds, RunRecords
  <2> HIDE DEF n
  <2>3. r \in RunRecords /\ r.events = run.events /\ r.nodes = [run.nodes EXCEPT ![u.node] = n]
    BY <1>1, <2>0, <2>1 DEF RunRecords
  <2> HIDE DEF r
  <2>4. /\ run'.events = Append(run.events, EventOf(u))
        /\ run'.nodes = [run.nodes EXCEPT ![u.node] = n]
    BY <2>0, <2>2, <2>3, LoggedFields, LoggedEvent
  <2>. QED BY <1>1, <1>3, <2>0, <2>1, <2>2, <2>4 DEF NodeKinds
<1>4. CASE u.kind = "report"
  <2> DEFINE facts == Kept(Append(run.nodes[u.node].facts, u.fact))
             n == [run.nodes[u.node] EXCEPT !.facts = facts]
  <2>1. u.node \in Nodes /\ run.nodes[u.node] \in NodeRecords
    BY <1>1, <1>4, UpdateFields
  <2>2. run' = [run EXCEPT !.nodes = [run.nodes EXCEPT ![u.node] = n]]
    BY <1>4, <1>1, <2>1 DEF Changed, RunRecords
  <2>3. n.facts = facts
    BY <2>1 DEF NodeRecords
  <2> HIDE DEF n, facts
  <2>4. run'.events = run.events /\ run'.nodes = [run.nodes EXCEPT ![u.node] = n]
    BY <1>1, <2>1, <2>2 DEF RunRecords
  <2>. QED BY <1>1, <1>4, <2>1, <2>3, <2>4 DEF Silent, facts
<1>5. CASE u.kind = "review"
  <2>1. CASE run.status = "running"
    <3> DEFINE r == [run EXCEPT !.status = "review", !.current = None]
    <3>1. r \in RunRecords /\ r.events = run.events /\ r.nodes = run.nodes
      BY DEF RunRecords, Live
    <3>2. run' = Logged(r, "run.review", None) /\ ~Silent(u)
          /\ EventOf(u) = [type |-> "run.review", node |-> None]
      BY <1>5, <2>1 DEF Changed, Reviewed, Silent, EventOf
    <3> HIDE DEF r
    <3>3. "run.review" \in EventTypes
      BY DEF EventTypes
    <3>. QED BY <1>5, <3>1, <3>2, <3>3, LoggedFields, LoggedEvent
  <2>2. CASE run.status # "running"
    BY <1>5, <2>2 DEF Changed, Reviewed, Silent
  <2>. QED BY <2>1, <2>2
<1>6. CASE u.kind = "fail" /\ run.status = "cancelled"
  BY <1>6 DEF Changed, Failed, Silent
<1>7. CASE \/ u.kind = "fail" /\ run.status # "cancelled"
           \/ u.kind \in {"cancel", "reject"}
  <2>. PICK status \in {"failed", "cancelled"} :
         status = IF u.kind = "fail" THEN "failed" ELSE "cancelled"
    OBVIOUS
  <2>. PICK m : m = Moved(IF u.kind = "fail" THEN {"running"} ELSE {"pending", "running"}, status)
    OBVIOUS
  <2> DEFINE r == [run EXCEPT !.status = status, !.current = None, !.nodes = m]
  <2>1. m \in [Nodes -> NodeRecords] /\ \A k \in Nodes : m[k].facts = run.nodes[k].facts
    BY MovedFields DEF Finished
  <2>2. /\ run' = Logged(r, EventOf(u).type, EventOf(u).node) /\ ~Silent(u)
        /\ EventOf(u) = [type |-> EventOf(u).type, node |-> EventOf(u).node]
        /\ EventOf(u).type \in EventTypes /\ EventOf(u).node \in Nodes \cup {None}
    BY <1>1, <1>7 DEF Changed, Failed, Cancelled, EventOf, Silent, EventTypes
  <2>3. r \in RunRecords /\ r.events = run.events /\ r.nodes = m
    BY <2>1 DEF RunRecords, Finished
  <2> HIDE DEF r
  <2>. QED BY <1>7, <2>1, <2>2, <2>3, LoggedFields, LoggedEvent
<1>. QED BY <1>2, <1>3, <1>4, <1>5, <1>6, <1>7, UpdateFields DEF ExecKinds, NodeKinds
\* The events of the log, as the lemmas use them.
LEMMA LogFields ==
    ASSUME run \in RunRecords
    PROVE  /\ run.events \in Seq(Events) /\ Len(run.events) \in Nat
           /\ DOMAIN run.events = 1 .. Len(run.events)
           /\ \A i \in 1 .. Len(run.events) : run.events[i] \in Events
<1>1. run.events \in Seq(Events)
  BY DEF RunRecords, Events
<1>. QED BY <1>1

\* A step that adds no event keeps what is said of the log.
LEMMA LogStays ==
    ASSUME run \in RunRecords, Course, LogAgrees,
           run'.events = run.events, run'.status = run.status,
           \A e \in Events : Fits(e) => Fits(e)',
           \A k \in Nodes : NodeStatus(k)' = "completed" => NodeStatus(k) = "completed"
    PROVE  Course' /\ LogAgrees'
<1>1. Course'
  BY LogFields DEF Course
<1>2. StatusTold'
  BY DEF LogAgrees, StatusTold
<1>3. ASSUME NEW k \in Nodes, NodeStatus(k)' = "completed"
      PROVE  Has("node.completed", k)'
  <2>1. Has("node.completed", k)
    BY <1>3 DEF LogAgrees
  <2>. QED BY <2>1 DEF Has
<1>4. \A k \in Nodes : Has("node.completed", k)' => NodeStatus(k)' = "completed"
  BY <1>1, LogFields DEF Course, Fits, Has
<1>. QED BY <1>1, <1>2, <1>3, <1>4 DEF LogAgrees

\* Nor does a step that adds one, if the event did not fit before, and does now.
LEMMA LogGrows ==
    ASSUME run \in RunRecords, Course, LogAgrees, NEW e \in Events,
           run'.events = Append(run.events, e), ~Fits(e), Fits(e)',
           \A d \in Events : Fits(d) => Fits(d)',
           \/ StatusOf(e.type) = run'.status
           \/ e.type \in NodeEvents /\ run'.status = run.status,
           \A k \in Nodes : NodeStatus(k)' = "completed" =>
               NodeStatus(k) = "completed" \/ e = [type |-> "node.completed", node |-> k],
           e.type = "node.started" =>
               \A d \in Events : Fits(d) /\ d.type = "node.started" => d.node < e.node
    PROVE  Course' /\ LogAgrees'
<1>. PICK n \in Nat : n = Len(run.events)
  BY LogFields
<1>1. /\ run.events \in Seq(Events)
      /\ \A i \in 1 .. n : run.events[i] \in Events /\ Fits(run.events[i])
      /\ DOMAIN run.events = 1 .. n
  BY LogFields DEF Course
<1>2. /\ Len(run'.events) = n + 1 /\ DOMAIN run'.events = 1 .. n + 1
      /\ \A i \in 1 .. n : run'.events[i] = run.events[i]
      /\ run'.events[n + 1] = e
  BY <1>1
<1>3. Course'
  <2>1. ASSUME NEW i \in 1 .. n
        PROVE  Fits(run.events[i])'
    <3>1. PICK d \in Events : d = run.events[i] /\ d = run'.events[i]
      BY <1>1, <1>2
    <3>2. Fits(d)'
      BY <1>1, <3>1
    <3>. QED BY <3>1, <3>2 DEF Fits
  <2>2. Fits(run.events[n + 1])'
    BY <1>2 DEF Fits
  <2>. QED BY <1>2, <2>1, <2>2 DEF Course
<1>4. \A i \in 1 .. n : run'.events[i] # e
  BY <1>1, <1>2
<1>5. (\A i, j \in DOMAIN run.events : run.events[i] = run.events[j] => i = j)'
  <2>1. \A i, j \in 1 .. n : run.events[i] = run.events[j] => i = j
    BY <1>1 DEF LogAgrees
  <2>. QED BY <1>2, <1>4, <2>1
<1>6. StatusTold'
  <2>1. CASE StatusOf(e.type) = run'.status
    <3>1. n + 1 \in 1 .. n + 1 /\ \A j \in 1 .. n + 1 : ~(j > n + 1)
      OBVIOUS
    <3>. QED BY <1>2, <2>1, <3>1 DEF StatusTold, StatusOf
  <2>2. CASE e.type \in NodeEvents /\ run'.status = run.status
    <3>1. PICK i \in 1 .. n :
            /\ StatusOf(run.events[i].type) = run.status
            /\ \A j \in 1 .. n : j > i => run.events[j].type \in NodeEvents
      BY <1>1 DEF LogAgrees, StatusTold, NodeEvents
    <3>2. /\ StatusOf(run'.events[i].type) = run'.status
          /\ \A j \in 1 .. n + 1 : j > i => run'.events[j].type \in NodeEvents
      BY <1>2, <2>2, <3>1
    <3>3. i \in 1 .. n + 1
      OBVIOUS
    <3>. QED BY <1>2, <3>2, <3>3 DEF StatusTold, StatusOf, NodeEvents
  <2>. QED BY <2>1, <2>2
<1>7. ASSUME NEW k \in Nodes
      PROVE  NodeStatus(k)' = "completed" <=> Has("node.completed", k)'
  <2>1. Has("node.completed", k)' => NodeStatus(k)' = "completed"
    BY <1>2, <1>3 DEF Course, Fits, Has
  <2>2. Has("node.completed", k) => Has("node.completed", k)'
    <3>1. \A i \in 1 .. n : i \in 1 .. n + 1
      OBVIOUS
    <3>. QED BY <1>1, <1>2, <3>1 DEF Has
  <2>3. e = [type |-> "node.completed", node |-> k] => Has("node.completed", k)'
    <3>1. n + 1 \in 1 .. n + 1
      OBVIOUS
    <3>. QED BY <1>2, <3>1 DEF Has
  <2>. QED BY <2>1, <2>2, <2>3 DEF LogAgrees
<1>8. (\A i, j \in DOMAIN run.events :
          /\ i < j
          /\ run.events[i].type = "node.started" /\ run.events[j].type = "node.started"
          => run.events[i].node < run.events[j].node)'
  <2>1. \A i, j \in 1 .. n :
           /\ i < j
           /\ run.events[i].type = "node.started" /\ run.events[j].type = "node.started"
           => run.events[i].node < run.events[j].node
    BY <1>1 DEF LogAgrees
  <2>2. \A i \in 1 .. n : /\ run'.events[i].type = "node.started" /\ e.type = "node.started"
                          => run'.events[i].node < e.node
    BY <1>1, <1>2
  <2>. QED BY <1>2, <2>1, <2>2
<1>. QED BY <1>3, <1>5, <1>6, <1>7, <1>8 DEF LogAgrees
\* An event that fits the run fits it after an update.
LEMMA AcceptedFits ==
    ASSUME RunInv, OpenStatus, chain # << >>, NEW u \in UpdateRecords, u = Head(chain),
           Effects(u), index' = index, pc' # "none" => pc # "none"
    PROVE  /\ \A d \in Events : Fits(d) => Fits(d)'
           /\ u.kind # "nodeEnd" =>
                 \A k \in Nodes : NodeStatus(k)' = "completed" => NodeStatus(k) = "completed"
<1>1. Tells(u) /\ TaskOK /\ NodesFresh /\ run.status \in Live \cup Finished
  BY HeadWaits, RunFields DEF RunInv, ControlOK, NodesOK, TypeOK
<1>2. u.kind \in ExecKinds \cup NodeKinds \cup {"report", "cancel", "reject", "approve"}
  BY UpdateFields
<1>3. /\ run.status # "queued" => run'.status # "queued"
      /\ run.status \notin {"queued", "running"} => run'.status \notin {"queued", "running"}
      /\ run.status = "completed" => run'.status = "completed"
      /\ run.status = "cancelled" => run'.status = "cancelled"
      /\ run.status = "failed" => run'.status = "failed"
  <2>1. u.kind = "fail" => run.status \in {"queued", "running", "cancelled"}
    BY <1>1 DEF Tells, OpenStatus, Open
  <2>. QED BY <1>1, <1>2, <2>1 DEF Effects, ExecKinds, NodeKinds, Live, Finished
<1>4. ASSUME NEW k \in Nodes
      PROVE  /\ NodeStatus(k) # "pending" => NodeStatus(k)' # "pending"
             /\ NodeStatus(k) = "completed" => NodeStatus(k)' = "completed"
             /\ u.kind # "nodeEnd" =>
                   (NodeStatus(k)' = "completed" => NodeStatus(k) = "completed")
  <2>1. run'.nodes[k] = run.nodes[k] => NodeStatus(k)' = NodeStatus(k)
    BY DEF NodeStatus
  <2>2. CASE u.kind \in NodeKinds
    <3>1. u.node = pending /\ pending \in Nodes /\ pc # "none" /\ run.status = "running"
      BY <1>1, <2>2, UpdateFields DEF Tells, TaskOK, Effects, NodeKinds
    <3>2. u.kind = "nodeStart" => NodeStatus(pending) = "pending"
      BY <1>1, <2>2, <3>1 DEF Tells, NodesFresh
    <3>3. u.kind = "nodeEnd" => NodeStatus(pending) = "running"
      BY <1>1, <2>2, <3>1 DEF Tells, NodesFresh
    <3>4. k = pending => NodeStatus(k)' = IF u.kind = "nodeStart" THEN "running" ELSE "completed"
      BY <2>2, <3>1 DEF Effects, NodeStatus
    <3>5. k # pending => NodeStatus(k)' = NodeStatus(k)
      BY <2>1, <2>2, <3>1 DEF Effects, SameNodes
    <3>. QED BY <2>2, <3>2, <3>3, <3>4, <3>5 DEF NodeKinds
  <2>3. CASE u.kind \in {"start", "review", "approve"}
    BY <2>1, <2>3 DEF Effects, SameNodes, NodeKinds
  <2>4. CASE u.kind = "report"
    BY <2>1, <2>4 DEF Effects, SameNodes, NodeKinds, NodeStatus
  <2>5. CASE u.kind = "fail"
    BY <2>1, <2>5 DEF Effects, NodeKinds
  <2>6. CASE u.kind \in {"cancel", "reject"}
    BY <2>1, <2>6 DEF Effects, NodeKinds
  <2>. QED BY <1>2, <2>2, <2>3, <2>4, <2>5, <2>6 DEF ExecKinds
<1>5. ASSUME NEW d \in Events, Fits(d)
      PROVE  Fits(d)'
  <2>1. d.node \in Nodes => /\ NodeStatus(d.node) # "pending" => NodeStatus(d.node)' # "pending"
                            /\ NodeStatus(d.node) = "completed" => NodeStatus(d.node)' = "completed"
    BY <1>4
  <2>. QED BY <1>3, <1>5, <2>1 DEF Fits
<1>. QED BY <1>4, <1>5

\* The event of an update did not fit the run, fits it now, and tells its status.
LEMMA EventFits ==
    ASSUME RunInv, OpenStatus, chain # << >>, NEW u \in UpdateRecords, u = Head(chain),
           Effects(u), ~Silent(u), index' = index, pc' # "none" => pc # "none"
    PROVE  \E e \in Events :
              /\ e = EventOf(u) /\ ~Fits(e) /\ Fits(e)'
              /\ \/ StatusOf(e.type) = run'.status
                 \/ e.type \in NodeEvents /\ run'.status = run.status
              /\ u.kind = "nodeEnd" => e = [type |-> "node.completed", node |-> u.node]
              /\ e.type = "node.started" =>
                    \A d \in Events : Fits(d) /\ d.type = "node.started" => d.node < e.node
<1>1. /\ Tells(u) /\ TaskOK /\ NodesFresh /\ index \in 0 .. NodeCount
      /\ run.status \in Live \cup Finished /\ run.current \in Nodes \cup {None}
  BY HeadWaits, RunFields DEF RunInv, ControlOK, NodesOK, TypeOK
<1>2. u.kind \in ExecKinds \cup NodeKinds \cup {"report", "cancel", "reject", "approve"}
  BY UpdateFields
<1>3. CASE u.kind \in NodeKinds
  <2>. PICK e : e = EventOf(u)
    OBVIOUS
  <2>1. /\ u.node = pending /\ u.node \in Nodes /\ pc # "none" /\ u.node = index
        /\ run.status = "running" /\ run'.status = "running"
    BY <1>1, <1>3, UpdateFields DEF Tells, TaskOK, Effects, NodeKinds, None
  <2>2. /\ u.kind = "nodeStart" => NodeStatus(u.node) = "pending" /\ NodeStatus(u.node)' = "running"
        /\ u.kind = "nodeEnd" => NodeStatus(u.node) = "running" /\ NodeStatus(u.node)' = "completed"
    BY <1>1, <1>3, <2>1 DEF Tells, NodesFresh, Effects, NodeKinds
  <2>3. e = [type |-> IF u.kind = "nodeStart" THEN "node.started" ELSE "node.completed",
             node |-> u.node]
    BY <1>3 DEF EventOf, NodeKinds
  <2>4. e \in Events /\ ~Fits(e) /\ e.type \in NodeEvents
    BY <1>3, <2>1, <2>2, <2>3 DEF Events, EventTypes, Fits, NodeEvents, NodeKinds
  <2>5. Fits(e)'
    <3>1. index \in Int /\ e.node = u.node
      BY <1>1, <2>3, NodeFacts
    <3>. QED BY <1>3, <2>1, <2>2, <2>3, <3>1 DEF Fits, NodeKinds
  <2>6. ASSUME NEW d \in Events, Fits(d), d.type = "node.started", u.kind = "nodeStart"
        PROVE  d.node < u.node
    <3>1. d.node \in Nodes /\ d.node <= index /\ d.node # index
      BY <2>1, <2>2, <2>6 DEF Fits
    <3>2. d.node \in Nat /\ index \in Nat
      BY <2>1, <3>1, NodeFacts
    <3>. QED BY <2>1, <3>1, <3>2
  <2>. QED BY <1>3, <2>1, <2>3, <2>4, <2>5, <2>6 DEF NodeKinds
<1>4. CASE u.kind \notin NodeKinds
  <2>. PICK e : e = EventOf(u)
    OBVIOUS
  <2>1. u.kind = "fail" => run.status \in {"queued", "running"}
    BY <1>1 DEF Tells, OpenStatus, Open, Silent
  <2>2. e \in Events /\ e.type \notin NodeEvents
    BY <1>1, <1>2, <1>4 DEF EventOf, Events, EventTypes, NodeEvents, ExecKinds
  <2>3. ~Fits(e)
    BY <1>2, <1>4, <2>1 DEF EventOf, Fits, Effects, Silent, ExecKinds, NodeKinds, Live
  <2>4. StatusOf(e.type) = run'.status
    BY <1>2, <1>4, <2>1 DEF EventOf, StatusOf, Effects, Silent, ExecKinds, NodeKinds
  <2>5. Fits(e)'
    BY <1>2, <1>4, <2>1, <2>4 DEF EventOf, StatusOf, Fits, Silent, ExecKinds
  <2>. QED BY <1>4, <2>2, <2>3, <2>4, <2>5 DEF NodeKinds, NodeEvents
<1>. QED BY <1>3, <1>4
\* A step that leaves the run alone keeps the log.
LEMMA LogQuiet ==
    ASSUME RunInv, Course, LogAgrees, run' = run,
           pc' # "none" => pc # "none" /\ index' \in Nat /\ index' >= index
    PROVE  Course' /\ LogAgrees'
<1>1. run \in RunRecords /\ index \in Nat /\ \A k : NodeStatus(k)' = NodeStatus(k)
  BY NodeFacts DEF RunInv, TypeOK, NodeStatus
<1>2. ASSUME NEW e \in Events, Fits(e)
      PROVE  Fits(e)'
  <2>1. e.type = "node.started" => e.node \in Nat
    BY <1>2, NodeFacts DEF Fits
  <2>. QED BY <1>1, <1>2, <2>1 DEF Fits
<1>. QED BY <1>1, <1>2, LogStays

\* Every step keeps the log.
LEMMA LogStep == RunInv /\ LogInv /\ [Next]_vars => LogInv'
<1>. SUFFICES ASSUME RunInv, LogInv, [Next]_vars PROVE LogInv'
  OBVIOUS
<1>0. /\ TypeOK /\ ControlOK /\ run \in RunRecords /\ OpenStatus /\ Course /\ LogAgrees
      /\ index \in Nat
  BY NodeFacts DEF RunInv, TypeOK, LogInv
<1>1. CASE Commit
  <2>1. PICK u \in UpdateRecords : u = Head(chain) /\ chain # << >> /\ Tells(u)
    BY <1>0, <1>1, HeadWaits DEF Commit, ControlOK
  <2>2. index' = index /\ (pc' # "none" => pc # "none")
    BY <1>1, <2>1, HeadWaits DEF Commit, Told, ExecutionTold, Tells
  <2>3. CASE Accepts(u)
    <3>1. Told(u, TRUE) /\ run' = Changed(u)
      BY <1>1, <2>1, <2>3 DEF Commit, Told, ExecutionTold, NodeTold
    <3>2. Effects(u)
      BY <1>0, <2>3, <3>1, ChangedEffects
    <3>3. OpenStatus'
      <4>1. u.kind \in ExecKinds \cup NodeKinds \cup {"report", "cancel", "reject", "approve"}
        BY UpdateFields
      <4>. QED BY <1>0, <1>1, <2>1, <3>1, <3>2, <4>1
           DEF Commit, Told, ExecutionTold, Tells, OpenStatus, Open, Effects, ExecKinds, NodeKinds
    <3>4. /\ \A d \in Events : Fits(d) => Fits(d)'
          /\ u.kind # "nodeEnd" =>
                \A k \in Nodes : NodeStatus(k)' = "completed" => NodeStatus(k) = "completed"
      BY <1>0, <2>1, <2>2, <3>2, AcceptedFits
    <3>5. CASE Silent(u)
      <4>1. run'.events = run.events /\ run'.status = run.status
        BY <1>0, <2>3, <3>1, <3>2, <3>5, ChangedRecord DEF Silent, Effects, NodeKinds
      <4>. QED BY <1>0, <3>3, <3>4, <3>5, <4>1, LogStays DEF LogInv, Silent
    <3>6. CASE ~Silent(u)
      <4>1. PICK e \in Events :
              /\ e = EventOf(u) /\ ~Fits(e) /\ Fits(e)'
              /\ \/ StatusOf(e.type) = run'.status
                 \/ e.type \in NodeEvents /\ run'.status = run.status
              /\ u.kind = "nodeEnd" => e = [type |-> "node.completed", node |-> u.node]
              /\ e.type = "node.started" =>
                    \A d \in Events : Fits(d) /\ d.type = "node.started" => d.node < e.node
        BY <1>0, <2>1, <2>2, <3>2, <3>6, EventFits
      <4>2. run'.events = Append(run.events, e)
        BY <1>0, <2>3, <3>1, <3>6, <4>1, ChangedRecord
      <4>3. \A k \in Nodes : NodeStatus(k)' = "completed" =>
               NodeStatus(k) = "completed" \/ e = [type |-> "node.completed", node |-> k]
        <5>1. CASE u.kind = "nodeEnd"
          BY <3>2, <4>1, <5>1 DEF Effects, SameNodes, NodeKinds, NodeStatus
        <5>2. CASE u.kind # "nodeEnd"
          BY <3>4, <5>2
        <5>. QED BY <5>1, <5>2
      <4>4. Course' /\ LogAgrees'
        BY <1>0, <3>4, <4>1, <4>2, <4>3, LogGrows
      <4>. QED BY <3>3, <4>4 DEF LogInv
    <3>. QED BY <3>5, <3>6
  <2>4. CASE ~Accepts(u)
    <3>1. Told(u, FALSE) /\ run' = run
      BY <1>1, <2>1, <2>4 DEF Commit, Told, ExecutionTold, NodeTold
    <3>2. OpenStatus'
      BY <1>0, <1>1, <2>1, <2>4, <3>1
         DEF Commit, Accepts, Told, ExecutionTold, Tells, OpenStatus, Open
    <3>. QED BY <1>0, <2>2, <3>1, <3>2, LogQuiet DEF LogInv
  <2>. QED BY <2>3, <2>4
<1>2. CASE RepositoryFails
  <2>1. PICK u \in UpdateRecords : u = Head(chain) /\ chain # << >> /\ Tells(u)
    BY <1>0, <1>2, HeadWaits DEF RepositoryFails, ControlOK
  <2>2. Told(u, FALSE) /\ UNCHANGED <<run, index>>
    BY <1>2, <2>1 DEF RepositoryFails
  <2>3. OpenStatus' /\ (pc' # "none" => pc # "none")
    BY <1>0, <1>2, <2>1, <2>2 DEF RepositoryFails, Told, ExecutionTold, Tells, OpenStatus, Open
  <2>. QED BY <1>0, <2>2, <2>3, LogQuiet DEF LogInv
<1>3. CASE CancelContinue \/ StopAbort \/ Execute \/ PendingSettled \/ Finally
  <2>1. UNCHANGED <<run, index>> /\ OpenStatus' /\ (pc' # "none" => pc # "none")
    BY <1>0, <1>3 DEF CancelContinue, StopAbort, Execute, PendingSettled, Finally, body,
       OpenStatus, Open
  <2>. QED BY <1>0, <2>1, LogQuiet DEF LogInv
<1>4. CASE UpdateRefused \/ BodyThrows \/ BodyReturns
  <2>1. UNCHANGED <<run, index>> /\ OpenStatus' /\ (pc' # "none" => pc # "none")
    BY <1>0, <1>4 DEF UpdateRefused, BodyThrows, BodyReturns, Catch, body, OpenStatus, Open
  <2>. QED BY <1>0, <2>1, LogQuiet DEF LogInv
<1>5. CASE Cancel \/ Reject \/ Approve \/ (\E k \in Nodes : Report(k)) \/ UNCHANGED vars
  <2>1. UNCHANGED <<run, index, pc, host>>
    BY <1>5 DEF Cancel, Reject, Approve, Command, Report, body, vars
  <2>2. OpenStatus'
    BY <1>0, <2>1 DEF OpenStatus
  <2>. QED BY <1>0, <2>1, <2>2, LogQuiet DEF LogInv
<1>6. CASE CallbackReturns \/ CallbackThrows \/ NodeSettled
  <2>1. UNCHANGED <<run, index, pc, host>>
    BY <1>6 DEF CallbackReturns, CallbackThrows, NodeSettled
  <2>2. OpenStatus'
    BY <1>0, <2>1 DEF OpenStatus
  <2>. QED BY <1>0, <2>1, <2>2, LogQuiet DEF LogInv
<1>7. ASSUME NEW k \in Nodes, CallNode(k)
      PROVE  LogInv'
  <2>1. UNCHANGED <<run, pc, host>> /\ index' = index + 1 /\ HoldsContext
    BY <1>7 DEF CallNode, Started
  <2>2. OpenStatus' /\ pc # "none"
    BY <1>0, <2>1 DEF OpenStatus, HoldsContext
  <2>. QED BY <1>0, <2>1, <2>2, LogQuiet DEF LogInv
<1>8. CASE Crash
  <2>1. run' = run /\ pc' = "none"
    BY <1>8 DEF Crash, Vanish
  <2>. QED BY <1>0, <2>1, LogQuiet DEF LogInv, OpenStatus, Open
<1>9. CASE Restart
  <2>1. UNCHANGED <<pc, index>> /\ pc = "none"
    BY <1>0, <1>9 DEF Restart, body, OpenStatus
  <2>2. CASE run.status \notin {"queued", "running"}
    <3>1. run' = run
      BY <1>9, <2>2 DEF Restart
    <3>2. OpenStatus'
      BY <1>0, <2>1, <3>1 DEF OpenStatus
    <3>. QED BY <1>0, <2>1, <3>1, <3>2, LogQuiet DEF LogInv
  <2>3. CASE run.status \in {"queued", "running"}
    <3> DEFINE r == [run EXCEPT !.status = "failed", !.current = None]
    <3>. PICK e : e = [type |-> "run.failed", node |-> None]
      OBVIOUS
    <3>1. /\ r \in RunRecords /\ r.status = "failed" /\ r.nodes = run.nodes
          /\ r.events = run.events
      BY <1>0 DEF RunRecords, Finished
    <3>2. run' = Logged(r, "run.failed", None) /\ "run.failed" \in EventTypes
      BY <1>9, <2>3 DEF Restart, EventTypes
    <3> HIDE DEF r
    <3>3. /\ run'.status = "failed" /\ run'.events = Append(run.events, e)
          /\ run'.nodes = run.nodes
      BY <3>1, <3>2, LoggedFields, LoggedEvent
    <3>4. \A k : NodeStatus(k)' = NodeStatus(k)
      BY <3>3 DEF NodeStatus
    <3>5. e \in Events /\ ~Fits(e) /\ Fits(e)' /\ StatusOf(e.type) = run'.status
      BY <2>3, <3>3 DEF Events, EventTypes, Fits, StatusOf
    <3>6. \A d \in Events : Fits(d) => Fits(d)'
      BY <2>1, <2>3, <3>3, <3>4 DEF Fits
    <3>7. Course' /\ LogAgrees'
      BY <1>0, <3>3, <3>4, <3>5, <3>6, LogGrows
    <3>8. OpenStatus'
      BY <2>1 DEF OpenStatus, Open
    <3>. QED BY <3>7, <3>8 DEF LogInv
  <2>. QED BY <2>2, <2>3
<1>. QED BY <1>1, <1>2, <1>3, <1>4, <1>5, <1>6, <1>7, <1>8, <1>9
     DEF Next, System, BodyEnds, CallbackEnds, Environment
\* At first the log holds the event of the queued run.
LEMMA LogInit == Init => LogInv
<1>. SUFFICES ASSUME Init PROVE LogInv
  OBVIOUS
<1>1. /\ run.events = <<[type |-> "run.queued", node |-> None]>> /\ run.status = "queued"
      /\ pc = "queued" /\ host = "first"
      /\ \A k \in Nodes : NodeStatus(k) = "pending"
  BY DEF Init, NodeStatus
<1>2. /\ Len(run.events) = 1 /\ DOMAIN run.events = {1}
      /\ run.events[1] = [type |-> "run.queued", node |-> None]
  BY <1>1
<1>3. Course /\ OpenStatus
  BY <1>1, <1>2 DEF Course, Fits, OpenStatus
<1>4. StatusTold
  BY <1>1, <1>2 DEF StatusTold, StatusOf
<1>5. \A k \in Nodes : ~Has("node.completed", k)
  BY <1>2 DEF Has
<1>6. LogAgrees
  BY <1>1, <1>2, <1>4, <1>5 DEF LogAgrees
<1>. QED BY <1>3, <1>6 DEF LogInv

\* The event log agrees with the aggregate: nothing is told twice, nodes start in their
\* declared order and are completed if the log says so, and the last event about the run
\* tells its status, for any number of nodes, after failures, cancellations and crashes.
THEOREM LogAgreesEver == Spec => []LogAgrees
<1>1. RunInv /\ LogInv /\ [Next]_vars => RunInv' /\ LogInv'
  BY InvStep, LogStep
<1>2. Init => RunInv /\ LogInv
  BY InvInit, LogInit
<1>3. LogInv => LogAgrees
  BY DEF LogInv
<1>. QED BY <1>1, <1>2, <1>3, PTL DEF Spec

-----------------------------------------------------------------------------
(* The facts.  Reports are numbered in the order of the calls, and that is   *)
(* also the order in which their updates are told the outcome: whoever has   *)
(* been told comes before whoever still waits in the chain.                  *)

NewestFirst(k) ==
    LET facts == run.nodes[k].facts IN
    /\ Len(facts) <= MaxFacts
    /\ \A i, j \in 1 .. Len(facts) : i < j => facts[i] < facts[j]
    /\ \A i \in 1 .. Len(facts) : /\ facts[i] \in 1 .. Len(reports)
                                  /\ reports[facts[i]].told = "saved"
    /\ \A f \in Saved(k) : Len(facts) > 0 /\ f <= facts[Len(facts)]
FactsKept == \A k \in Nodes : NewestFirst(k)

Ahead(u) ==
    u.kind = "report" =>
        /\ u.fact \in 1 .. Len(reports)
        /\ reports[u.fact] = [node |-> u.node, told |-> "nothing"]
        /\ \A f \in 1 .. Len(reports) : reports[f].told # "nothing" => f < u.fact
ReportsAhead == \A i \in 1 .. Len(chain) : Ahead(chain[i])

InOrder(u, v) == u.kind = "report" /\ v.kind = "report" => u.fact < v.fact
ReportsInOrder == \A i, j \in 1 .. Len(chain) : i < j => InOrder(chain[i], chain[j])

FactsInv == FactsKept /\ ReportsAhead /\ ReportsInOrder

\* What is kept of a growing sequence of facts is its newest part, and within the limit.
LEMMA KeptNewest ==
    ASSUME NEW facts \in Seq(1 .. MaxReports), Len(facts) > 0
    PROVE  /\ Kept(facts) \in Seq(1 .. MaxReports)
           /\ Len(Kept(facts)) > 0 /\ Len(Kept(facts)) <= MaxFacts
           /\ Kept(facts)[Len(Kept(facts))] = facts[Len(facts)]
           /\ Len(Kept(facts)) <= Len(facts)
           /\ \A i \in 1 .. Len(Kept(facts)) :
                 Kept(facts)[i] = facts[i + (Len(facts) - Len(Kept(facts)))]
<1> DEFINE n == Len(facts)
           m == IF n > MaxFacts THEN n - MaxFacts ELSE 0
           S == 1 .. MaxReports
<1>0. facts \in Seq(S)
  OBVIOUS
<1> HIDE DEF S
<1>1. n \in Nat /\ m \in Nat /\ m < n /\ n - m <= MaxFacts
  BY NodeFacts
<1>2. \A i \in m + 1 .. n : facts[i] \in S
  BY <1>0, <1>1
<1>3. Kept(facts) = SubSeq(facts, m + 1, n)
  BY <1>1, NodeFacts DEF Kept
<1> HIDE DEF m, n
<1>4. PICK l \in Nat : l = n - m /\ l > 0 /\ n = l + m
  BY <1>1
<1>5. /\ Kept(facts) \in Seq(S) /\ Len(Kept(facts)) = l
      /\ \A i \in 1 .. l : Kept(facts)[i] = facts[m + 1 + i - 1]
  <2>1. m + 1 \in Int /\ n - (m + 1) + 1 = l /\ m + 1 <= n + 1
    BY <1>1, <1>4
  <2>. QED BY <1>1, <1>2, <1>3, <1>4, <2>1, SubSeqProperties
<1>6. \A i \in 1 .. l : m + 1 + i - 1 = i + (n - l)
  BY <1>1, <1>4
<1>7. l \in 1 .. l /\ l + (n - l) = n /\ l <= n
  BY <1>1, <1>4
<1>8. l <= MaxFacts
  BY <1>1, <1>4
<1>9. \A i \in 1 .. l : Kept(facts)[i] = facts[i + (n - l)]
  BY <1>5, <1>6
<1>. QED BY <1>4, <1>5, <1>7, <1>8, <1>9 DEF n, S
\* The reports, as the lemmas use them.
LEMMA ReportFields ==
    ASSUME TypeOK
    PROVE  /\ reports \in Seq([node : Nodes, told : {"nothing", "saved", "refused"}])
           /\ Len(reports) \in Nat /\ DOMAIN reports = 1 .. Len(reports)
           /\ \A k : Saved(k) = {f \in 1 .. Len(reports) :
                                     reports[f] = [node |-> k, told |-> "saved"]}
BY DEF TypeOK, Saved

\* One report is told its outcome.
LEMMA ReportTold ==
    ASSUME TypeOK, NEW u, u.kind = "report", Ahead(u), NEW ok \in BOOLEAN, Told(u, ok)
    PROVE  /\ Len(reports') = Len(reports) /\ DOMAIN reports' = 1 .. Len(reports)
           /\ reports'[u.fact] = [node |-> u.node, told |-> IF ok THEN "saved" ELSE "refused"]
           /\ \A f \in 1 .. Len(reports) : f # u.fact => reports'[f] = reports[f]
<1>1. u.fact \in 1 .. Len(reports) /\ reports[u.fact] = [node |-> u.node, told |-> "nothing"]
  BY DEF Ahead
<1>2. reports' = [reports EXCEPT ![u.fact] =
                     [reports[u.fact] EXCEPT !.told = IF ok THEN "saved" ELSE "refused"]]
  BY DEF Told
<1> DEFINE e == [reports[u.fact] EXCEPT !.told = IF ok THEN "saved" ELSE "refused"]
<1>3. e = [node |-> u.node, told |-> IF ok THEN "saved" ELSE "refused"]
  BY <1>1
<1> HIDE DEF e
<1>4. reports' = [reports EXCEPT ![u.fact] = e]
  BY <1>2 DEF e
<1>. QED BY <1>1, <1>3, <1>4, ReportFields

\* Callers are added to the chain behind those who wait.
LEMMA ReportsAppended ==
    ASSUME TypeOK, ReportsAhead, ReportsInOrder, NEW u \in UpdateRecords,
           chain' = Append(chain, u), Ahead(u)',
           \A v \in UpdateRecords : Ahead(v) => Ahead(v)' /\ InOrder(v, u)
    PROVE  ReportsAhead' /\ ReportsInOrder'
<1>1. /\ chain \in Seq(UpdateRecords) /\ Len(chain) \in Nat
      /\ \A i \in 1 .. Len(chain) : chain[i] \in UpdateRecords
  BY DEF TypeOK
<1>2. /\ Len(chain') = Len(chain) + 1 /\ chain'[Len(chain) + 1] = u
      /\ \A i \in 1 .. Len(chain) : chain'[i] = chain[i]
  BY <1>1
<1>3. ASSUME NEW i \in 1 .. Len(chain)
      PROVE  Ahead(chain[i])' /\ InOrder(chain'[i], u)
  <2>1. PICK v \in UpdateRecords : v = chain[i] /\ v = chain'[i]
    BY <1>1, <1>2
  <2>2. Ahead(v)' /\ InOrder(v, u)
    BY <2>1 DEF ReportsAhead
  <2>. QED BY <2>1, <2>2 DEF Ahead, InOrder
<1>4. ReportsAhead'
  <2>1. PICK l : l = Len(chain) + 1
    OBVIOUS
  <2>2. Ahead(chain[l])'
    BY <1>2, <2>1 DEF Ahead
  <2>3. \A i \in 1 .. Len(chain') : i \in 1 .. Len(chain) \/ i = l
    BY <1>1, <1>2, <2>1
  <2>. QED BY <1>3, <2>2, <2>3 DEF ReportsAhead
<1>5. ReportsInOrder'
  BY <1>1, <1>2, <1>3 DEF ReportsInOrder, InOrder
<1>. QED BY <1>4, <1>5

\* The caller at the head of the chain leaves it.
LEMMA ReportsShrink ==
    ASSUME TypeOK, ReportsAhead, ReportsInOrder, chain # << >>, chain' = Tail(chain),
           \A v \in UpdateRecords : Ahead(v) /\ InOrder(Head(chain), v) => Ahead(v)'
    PROVE  ReportsAhead' /\ ReportsInOrder'
<1>1. /\ chain \in Seq(UpdateRecords) /\ Len(chain) \in Nat /\ Len(chain) > 0
      /\ \A i \in 1 .. Len(chain) : chain[i] \in UpdateRecords
      /\ Head(chain) = chain[1]
  BY DEF TypeOK
<1>2. /\ Len(chain') = Len(chain) - 1
      /\ \A i \in 1 .. Len(chain') : chain'[i] = chain[i + 1]
  BY <1>1
<1>3. ASSUME NEW i \in 1 .. Len(chain')
      PROVE  Ahead(chain[i])'
  <2>1. i + 1 \in 1 .. Len(chain) /\ 1 < i + 1 /\ 1 \in 1 .. Len(chain)
    BY <1>1, <1>2
  <2>2. PICK v \in UpdateRecords : v = chain[i + 1] /\ v = chain'[i]
    BY <1>1, <1>2, <2>1
  <2>3. Ahead(v) /\ InOrder(Head(chain), v)
    BY <1>1, <2>1, <2>2 DEF ReportsAhead, ReportsInOrder
  <2>4. Ahead(v)'
    BY <2>3
  <2>. QED BY <2>2, <2>4 DEF Ahead
<1>4. ReportsInOrder'
  <2>1. \A i \in 1 .. Len(chain') : i + 1 \in 1 .. Len(chain)
    BY <1>1, <1>2
  <2>2. \A i, j \in 1 .. Len(chain') : i < j => i + 1 < j + 1
    BY <1>1, <1>2
  <2>3. \A i, j \in 1 .. Len(chain') : i < j => InOrder(chain[i + 1], chain[j + 1])
    BY <2>1, <2>2 DEF ReportsInOrder
  <2>. QED BY <1>2, <2>3 DEF ReportsInOrder, InOrder
<1>. QED BY <1>3, <1>4 DEF ReportsAhead

\* A step that keeps the facts, and saves no report, keeps what is said of them.
LEMMA FactsStay ==
    ASSUME TypeOK, FactsKept, \A k \in Nodes : run'.nodes[k].facts = run.nodes[k].facts,
           Len(reports') \in Nat, Len(reports') >= Len(reports),
           DOMAIN reports' = 1 .. Len(reports'),
           \A f \in 1 .. Len(reports) : reports[f].told = "saved" => reports'[f] = reports[f],
           \A f \in 1 .. Len(reports') :
               reports'[f].told = "saved" => f <= Len(reports) /\ reports[f] = reports'[f]
    PROVE  FactsKept'
<1>. SUFFICES ASSUME NEW k \in Nodes PROVE NewestFirst(k)'
  BY DEF FactsKept
<1>1. \A f \in Saved(k)' : f \in Saved(k)
  BY ReportFields DEF Saved
<1>2. \A f \in 1 .. Len(reports) : f \in 1 .. Len(reports')
  BY ReportFields
<1>3. PICK facts : facts = run.nodes[k].facts /\ facts = run'.nodes[k].facts
  OBVIOUS
<1>4. NewestFirst(k)
  BY DEF FactsKept
<1>5. \A i \in 1 .. Len(facts) : facts[i] \in 1 .. Len(reports')
                                /\ reports'[facts[i]].told = "saved"
  BY <1>2, <1>3, <1>4 DEF NewestFirst
<1>6. \A f \in Saved(k)' : Len(facts) > 0 /\ f <= facts[Len(facts)]
  BY <1>1, <1>3, <1>4 DEF NewestFirst
<1>7. /\ Len(facts) <= MaxFacts
      /\ \A i, j \in 1 .. Len(facts) : i < j => facts[i] < facts[j]
  BY <1>3, <1>4 DEF NewestFirst
<1>. QED BY <1>3, <1>5, <1>6, <1>7 DEF NewestFirst

\* A report that is accepted adds the newest fact of its node.
LEMMA FactAdded ==
    ASSUME TypeOK, FactsKept, NEW u \in UpdateRecords, u.kind = "report", Ahead(u),
           Told(u, TRUE),
           \A k \in Nodes : run'.nodes[k].facts =
               IF k = u.node THEN Kept(Append(run.nodes[k].facts, u.fact))
               ELSE run.nodes[k].facts
    PROVE  FactsKept'
<1>. SUFFICES ASSUME NEW k \in Nodes PROVE NewestFirst(k)'
  BY DEF FactsKept
<1>1. /\ Len(reports') = Len(reports) /\ DOMAIN reports' = 1 .. Len(reports)
      /\ reports'[u.fact] = [node |-> u.node, told |-> "saved"]
      /\ \A f \in 1 .. Len(reports) : f # u.fact => reports'[f] = reports[f]
  BY ReportTold
<1>2. /\ u.fact \in 1 .. Len(reports) /\ Len(reports) \in Nat
      /\ reports[u.fact].told = "nothing"
      /\ \A f \in 1 .. Len(reports) : reports[f].told = "saved" => f < u.fact
      /\ NewestFirst(k) /\ run.nodes[k].facts \in Seq(1 .. MaxReports)
  <2>1. Len(reports) \in Nat /\ run.nodes[k].facts \in Seq(1 .. MaxReports)
    BY ReportFields, RunFields DEF TypeOK
  <2>2. /\ u.fact \in 1 .. Len(reports)
        /\ reports[u.fact] = [node |-> u.node, told |-> "nothing"]
        /\ \A f \in 1 .. Len(reports) : reports[f].told # "nothing" => f < u.fact
    BY DEF Ahead
  <2>3. NewestFirst(k)
    BY DEF FactsKept
  <2>. QED BY <2>1, <2>2, <2>3
<1>3. CASE k # u.node
  <2>1. Saved(k)' = Saved(k)
    BY <1>1, <1>2, <1>3, ReportFields DEF Saved
  <2>2. run'.nodes[k].facts = run.nodes[k].facts
    BY <1>3
  <2>3. PICK facts : facts = run.nodes[k].facts /\ facts = run'.nodes[k].facts
    BY <2>2
  <2>4. /\ Len(facts) <= MaxFacts
        /\ \A i, j \in 1 .. Len(facts) : i < j => facts[i] < facts[j]
        /\ \A i \in 1 .. Len(facts) : /\ facts[i] \in 1 .. Len(reports)
                                      /\ reports[facts[i]].told = "saved"
        /\ \A f \in Saved(k) : Len(facts) > 0 /\ f <= facts[Len(facts)]
    BY <1>2, <2>3 DEF NewestFirst
  <2>5. \A i \in 1 .. Len(facts) : reports'[facts[i]] = reports[facts[i]]
    BY <1>1, <1>2, <2>4
  <2>6. \A i \in 1 .. Len(facts) : /\ facts[i] \in 1 .. Len(reports')
                                   /\ reports'[facts[i]].told = "saved"
    BY <1>1, <2>4, <2>5
  <2>7. \A f \in Saved(k)' : Len(facts) > 0 /\ f <= facts[Len(facts)]
    BY <2>1, <2>4
  <2>. QED BY <2>3, <2>4, <2>6, <2>7 DEF NewestFirst
<1>4. CASE k = u.node
  <2>1. PICK facts : facts = run.nodes[k].facts
    OBVIOUS
  <2>2. PICK all : all = Append(facts, u.fact)
    OBVIOUS
  <2>3. /\ facts \in Seq(1 .. MaxReports) /\ Len(facts) \in Nat
        /\ u.fact \in Nat /\ u.fact \in 1 .. MaxReports
        /\ \A i \in 1 .. Len(facts) : /\ facts[i] \in 1 .. Len(reports) /\ facts[i] < u.fact
                                      /\ reports[facts[i]].told = "saved"
        /\ \A i, j \in 1 .. Len(facts) : i < j => facts[i] < facts[j]
    <3>1. \A i \in 1 .. Len(facts) : /\ facts[i] \in 1 .. Len(reports)
                                     /\ reports[facts[i]].told = "saved"
      BY <1>2, <2>1 DEF NewestFirst
    <3>2. \A i, j \in 1 .. Len(facts) : i < j => facts[i] < facts[j]
      BY <1>2, <2>1 DEF NewestFirst
    <3>3. u.fact \in 1 .. MaxReports
      BY UpdateFields
    <3>. QED BY <1>2, <2>1, <3>1, <3>2, <3>3
  <2>4. /\ all \in Seq(1 .. MaxReports) /\ Len(all) = Len(facts) + 1
        /\ all[Len(all)] = u.fact
        /\ \A i \in 1 .. Len(all) : /\ all[i] \in 1 .. Len(reports)
                                    /\ reports'[all[i]].told = "saved"
        /\ \A i, j \in 1 .. Len(all) : i < j => all[i] < all[j]
    <3>1. /\ all \in Seq(1 .. MaxReports) /\ Len(all) = Len(facts) + 1
          /\ all[Len(facts) + 1] = u.fact
          /\ \A i \in 1 .. Len(facts) : all[i] = facts[i]
      BY <2>2, <2>3
    <3>2. \A i \in 1 .. Len(all) : i \in 1 .. Len(facts) \/ i = Len(facts) + 1
      BY <2>3, <3>1
    <3>3. ASSUME NEW i \in 1 .. Len(all)
          PROVE  all[i] \in 1 .. Len(reports) /\ reports'[all[i]].told = "saved"
      <4>1. CASE i \in 1 .. Len(facts)
        <5>1. PICK f \in 1 .. Len(reports) : /\ f = all[i] /\ f < u.fact
                                            /\ reports[f].told = "saved"
          BY <2>3, <3>1, <4>1
        <5>2. f # u.fact
          BY <1>2, <5>1
        <5>. QED BY <1>1, <5>1, <5>2
      <4>2. CASE i = Len(facts) + 1
        BY <1>1, <1>2, <3>1, <4>2
      <4>. QED BY <3>2, <4>1, <4>2
    <3>4. ASSUME NEW i \in 1 .. Len(all), NEW j \in 1 .. Len(all), i < j
          PROVE  all[i] < all[j]
      <4>1. i \in 1 .. Len(facts)
        BY <2>3, <3>1, <3>4
      <4>2. CASE j \in 1 .. Len(facts)
        BY <2>3, <3>1, <3>4, <4>1, <4>2
      <4>3. CASE j = Len(facts) + 1
        BY <2>3, <3>1, <4>1, <4>3
      <4>. QED BY <3>2, <4>2, <4>3
    <3>. QED BY <3>1, <3>3, <3>4
  <2>5. PICK n \in Nat : n = Len(all) /\ n > 0
    BY <2>3, <2>4
  <2>6. all \in Seq(1 .. MaxReports) /\ Len(all) > 0
    BY <2>4, <2>5
  <2>7. PICK kept \in Seq(1 .. MaxReports) :
          /\ kept = Kept(all)
          /\ Len(kept) > 0 /\ Len(kept) <= MaxFacts /\ Len(kept) <= n
          /\ kept[Len(kept)] = u.fact
          /\ \A i \in 1 .. Len(kept) : kept[i] = all[i + (n - Len(kept))]
    <3>1. /\ Kept(all) \in Seq(1 .. MaxReports)
          /\ Len(Kept(all)) > 0 /\ Len(Kept(all)) <= MaxFacts /\ Len(Kept(all)) <= Len(all)
          /\ Kept(all)[Len(Kept(all))] = all[Len(all)]
          /\ \A i \in 1 .. Len(Kept(all)) :
                Kept(all)[i] = all[i + (Len(all) - Len(Kept(all)))]
      BY ONLY <2>6, KeptNewest
    <3>. QED BY <2>4, <2>5, <3>1
  <2>8. PICK l \in Nat : l = Len(kept) /\ l > 0 /\ l <= n
    BY <2>7
  <2>9. ASSUME NEW i \in 1 .. l
        PROVE  /\ i + (n - l) \in 1 .. n /\ kept[i] = all[i + (n - l)]
               /\ kept[i] \in 1 .. Len(reports') /\ reports'[kept[i]].told = "saved"
    <3>1. i + (n - l) \in 1 .. n
      BY <2>5, <2>8
    <3>2. kept[i] = all[i + (n - l)]
      BY <2>7, <2>8
    <3>. QED BY <1>1, <2>4, <2>5, <3>1, <3>2
  <2>10. ASSUME NEW i \in 1 .. l, NEW j \in 1 .. l, i < j
         PROVE  kept[i] < kept[j]
    <3>1. i + (n - l) < j + (n - l)
      BY <2>5, <2>8, <2>10
    <3>. QED BY <2>4, <2>5, <2>9, <3>1
  <2>11. \A f \in Saved(k)' : f <= u.fact
    <3>1. ASSUME NEW f \in Saved(k)'
          PROVE  f <= u.fact
      <4>1. f \in 1 .. Len(reports) /\ reports'[f].told = "saved"
        BY <1>1, <3>1 DEF Saved
      <4>2. f # u.fact => f < u.fact
        BY <1>1, <1>2, <4>1
      <4>3. f \in Int
        BY <4>1
      <4>. QED BY <2>3, <4>2, <4>3
    <3>. QED BY <3>1
  <2>12. kept = run'.nodes[k].facts
    <3>1. run'.nodes[k].facts = Kept(all)
      BY <1>4, <2>1, <2>2
    <3>. QED BY <2>7, <3>1
  <2>. QED BY <2>7, <2>8, <2>9, <2>10, <2>11, <2>12 DEF NewestFirst
<1>. QED BY <1>3, <1>4

\* The update at the head is told its outcome before all that wait behind it.
LEMMA ToldOrder ==
    ASSUME TypeOK, FactsInv, chain # << >>, NEW u \in UpdateRecords, u = Head(chain),
           NEW ok \in BOOLEAN, Told(u, ok)
    PROVE  Ahead(u) /\ ReportsAhead' /\ ReportsInOrder'
<1>1. Ahead(u)
  <2>1. /\ chain \in Seq(UpdateRecords) /\ Len(chain) \in Nat /\ Len(chain) > 0
        /\ Head(chain) = chain[1]
    BY DEF TypeOK
  <2>. QED BY <2>1 DEF FactsInv, ReportsAhead
<1>2. ASSUME NEW v \in UpdateRecords, Ahead(v), InOrder(u, v)
      PROVE  Ahead(v)'
  <2>1. CASE v.kind = "report" /\ u.kind = "report"
    <3>1. /\ Len(reports') = Len(reports)
          /\ \A f \in 1 .. Len(reports) : f # u.fact => reports'[f] = reports[f]
      BY <1>1, <2>1, ReportTold
    <3>2. /\ v.fact \in 1 .. Len(reports) /\ u.fact \in 1 .. Len(reports) /\ u.fact < v.fact
          /\ reports[v.fact] = [node |-> v.node, told |-> "nothing"]
          /\ \A f \in 1 .. Len(reports) : reports[f].told # "nothing" => f < v.fact
      BY <1>1, <1>2, <2>1 DEF Ahead, InOrder
    <3>3. reports'[v.fact] = reports[v.fact]
      BY <3>1, <3>2
    <3>4. \A f \in 1 .. Len(reports) : reports'[f].told # "nothing" => f < v.fact
      BY <3>1, <3>2
    <3>. QED BY <3>1, <3>2, <3>3, <3>4 DEF Ahead
  <2>2. CASE u.kind # "report"
    BY <1>2, <2>2 DEF Told, Ahead
  <2>3. CASE v.kind # "report"
    BY <2>3 DEF Ahead
  <2>. QED BY <2>1, <2>2, <2>3
<1>3. chain' = Tail(chain)
  BY DEF Told
<1>. QED BY <1>1, <1>2, <1>3, ReportsShrink DEF FactsInv

\* A step that neither tells a report its outcome nor changes the run.
LEMMA FactsQuiet ==
    ASSUME TypeOK, FactsInv, UNCHANGED <<run, reports>>,
           \/ chain' = chain
           \/ \E u \in UpdateRecords : u.kind # "report" /\ chain' = Append(chain, u)
    PROVE  FactsInv'
<1>1. FactsKept'
  BY ReportFields, FactsStay DEF FactsInv
<1>2. CASE chain' = chain
  BY <1>1, <1>2 DEF FactsInv, ReportsAhead, ReportsInOrder, Ahead, InOrder
<1>3. ASSUME NEW u \in UpdateRecords, u.kind # "report", chain' = Append(chain, u)
      PROVE  FactsInv'
  <2>1. Ahead(u)' /\ \A v \in UpdateRecords : Ahead(v) => Ahead(v)' /\ InOrder(v, u)
    BY <1>3 DEF Ahead, InOrder
  <2>. QED BY <1>1, <1>3, <2>1, ReportsAppended DEF FactsInv
<1>. QED BY <1>2, <1>3

\* Every step keeps the facts.
LEMMA FactsStep == RunInv /\ FactsInv /\ [Next]_vars => FactsInv'
<1>. SUFFICES ASSUME RunInv, FactsInv, [Next]_vars PROVE FactsInv'
  OBVIOUS
<1>0. /\ TypeOK /\ ControlOK /\ run \in RunRecords
      /\ \A kind \in {"start", "review", "fail", "cancel", "reject", "approve"} :
            [kind |-> kind, node |-> None, fact |-> 0] \in UpdateRecords
      /\ \A kind \in NodeKinds, k \in Nodes :
            [kind |-> kind, node |-> k, fact |-> 0] \in UpdateRecords
  BY DEF RunInv, TypeOK, UpdateRecords, NodeKinds
<1>1. ASSUME NEW u \in UpdateRecords, u = Head(chain), chain # << >>,
             Told(u, FALSE), run' = run
      PROVE  FactsInv'
  <2>1. Ahead(u) /\ ReportsAhead' /\ ReportsInOrder'
    BY <1>0, <1>1, ToldOrder
  <2>2. CASE u.kind = "report"
    <3>1. /\ Len(reports') = Len(reports) /\ DOMAIN reports' = 1 .. Len(reports)
          /\ reports'[u.fact] = [node |-> u.node, told |-> "refused"]
          /\ \A f \in 1 .. Len(reports) : f # u.fact => reports'[f] = reports[f]
      BY <1>0, <1>1, <2>1, <2>2, ReportTold
    <3>2. reports'[u.fact].told = "refused" /\ reports[u.fact].told = "nothing"
      BY <2>1, <2>2, <3>1 DEF Ahead
    <3>3. Len(reports) \in Nat
      BY <1>0, ReportFields
    <3>4. FactsKept'
      BY <1>0, <1>1, <3>1, <3>2, <3>3, FactsStay DEF FactsInv
    <3>. QED BY <2>1, <3>4 DEF FactsInv
  <2>3. CASE u.kind # "report"
    <3>1. reports' = reports
      BY <1>1, <2>3 DEF Told
    <3>2. FactsKept'
      BY <1>0, <1>1, <3>1, ReportFields, FactsStay DEF FactsInv
    <3>. QED BY <2>1, <3>2 DEF FactsInv
  <2>. QED BY <2>2, <2>3
<1>2. CASE Commit
  <2>1. PICK u \in UpdateRecords : u = Head(chain) /\ chain # << >>
    BY <1>0, <1>2, HeadWaits DEF Commit, ControlOK
  <2>2. CASE Accepts(u)
    <3>1. Told(u, TRUE) /\ run' = Changed(u)
      BY <1>2, <2>1, <2>2 DEF Commit, Told, ExecutionTold, NodeTold
    <3>2. Ahead(u) /\ ReportsAhead' /\ ReportsInOrder'
      BY <1>0, <2>1, <3>1, ToldOrder
    <3>3. \A k \in Nodes : run'.nodes[k].facts =
              IF u.kind = "report" /\ k = u.node
              THEN Kept(Append(run.nodes[k].facts, u.fact)) ELSE run.nodes[k].facts
      BY <1>0, <2>2, <3>1, ChangedRecord
    <3>4. CASE u.kind = "report"
      <4>1. FactsKept'
        BY <1>0, <3>1, <3>2, <3>3, <3>4, FactAdded DEF FactsInv
      <4>. QED BY <3>2, <4>1 DEF FactsInv
    <3>5. CASE u.kind # "report"
      <4>1. reports' = reports
        BY <3>1, <3>5 DEF Told
      <4>2. FactsKept'
        BY <1>0, <3>3, <3>5, <4>1, ReportFields, FactsStay DEF FactsInv
      <4>. QED BY <3>2, <4>2 DEF FactsInv
    <3>. QED BY <3>4, <3>5
  <2>3. CASE ~Accepts(u)
    <3>1. Told(u, FALSE) /\ run' = run
      BY <1>2, <2>1, <2>3 DEF Commit, Told, ExecutionTold, NodeTold
    <3>. QED BY <1>1, <2>1, <3>1
  <2>. QED BY <2>2, <2>3
<1>3. CASE RepositoryFails
  <2>1. PICK u \in UpdateRecords : u = Head(chain) /\ chain # << >>
    BY <1>0, <1>3, HeadWaits DEF RepositoryFails, ControlOK
  <2>. QED BY <1>1, <1>3, <2>1 DEF RepositoryFails
<1>4. CASE CancelContinue \/ StopAbort \/ Execute \/ PendingSettled \/ Finally
  BY <1>0, <1>4, FactsQuiet
     DEF CancelContinue, StopAbort, Execute, PendingSettled, Finally, Update, body
<1>5. CASE UpdateRefused \/ BodyThrows \/ BodyReturns
  BY <1>0, <1>5, FactsQuiet DEF UpdateRefused, BodyThrows, BodyReturns, Catch, Update
<1>6. CASE Cancel \/ Reject \/ Approve \/ UNCHANGED vars
  BY <1>0, <1>6, FactsQuiet DEF Cancel, Reject, Approve, Command, Update, vars
<1>7. CASE CallbackReturns \/ CallbackThrows \/ NodeSettled
  <2>1. task = "callback" => pending \in Nodes
    BY <1>0 DEF ControlOK, TaskOK, TypeOK
  <2>. QED BY <1>0, <1>7, <2>1, FactsQuiet
       DEF CallbackReturns, CallbackThrows, NodeSettled, Update, NodeKinds
<1>8. ASSUME NEW k \in Nodes, CallNode(k)
      PROVE  FactsInv'
  BY <1>0, <1>8, FactsQuiet DEF CallNode, Update, NodeKinds
<1>9. ASSUME NEW k \in Nodes, Report(k)
      PROVE  FactsInv'
  <2>1. /\ Len(reports) \in Nat /\ DOMAIN reports = 1 .. Len(reports)
        /\ Len(reports) + 1 \in 1 .. MaxReports
    BY <1>0, <1>9, ReportFields, NodeFacts DEF Report
  <2>2. PICK u \in UpdateRecords :
          u = [kind |-> "report", node |-> k, fact |-> Len(reports) + 1]
    BY <2>1 DEF UpdateRecords
  <2>3. chain' = Append(chain, u) /\ run' = run
    BY <1>9, <2>2 DEF Report, Update
  <2>4. /\ Len(reports') = Len(reports) + 1 /\ DOMAIN reports' = 1 .. Len(reports) + 1
        /\ reports'[Len(reports) + 1] = [node |-> k, told |-> "nothing"]
        /\ \A f \in 1 .. Len(reports) : reports'[f] = reports[f]
    BY <1>0, <1>9, ReportFields DEF Report
  <2>5. Ahead(u)'
    <3>1. u.fact = Len(reports) + 1 /\ u.kind = "report" /\ u.node = k
      BY <2>2
    <3>2. u.fact \in 1 .. Len(reports') /\ reports'[u.fact] = [node |-> u.node, told |-> "nothing"]
      BY <2>1, <2>4, <3>1
    <3>3. \A f \in 1 .. Len(reports') : reports'[f].told # "nothing" => f < u.fact
      BY <2>1, <2>4, <3>1
    <3>. QED BY <3>2, <3>3 DEF Ahead
  <2>6. ASSUME NEW v \in UpdateRecords, Ahead(v)
        PROVE  Ahead(v)' /\ InOrder(v, u)
    <3>1. CASE v.kind = "report"
      <4>1. /\ v.fact \in 1 .. Len(reports)
            /\ reports[v.fact] = [node |-> v.node, told |-> "nothing"]
            /\ \A f \in 1 .. Len(reports) : reports[f].told # "nothing" => f < v.fact
        BY <2>6, <3>1 DEF Ahead
      <4>2. v.fact < Len(reports) + 1 /\ u.fact = Len(reports) + 1
        BY <2>1, <2>2, <4>1
      <4>3. \A f \in 1 .. Len(reports') : reports'[f].told # "nothing" => f < v.fact
        BY <2>1, <2>4, <4>1
      <4>. QED BY <2>1, <2>4, <4>1, <4>2, <4>3 DEF Ahead, InOrder
    <3>2. CASE v.kind # "report"
      BY <3>2 DEF Ahead, InOrder
    <3>. QED BY <3>1, <3>2
  <2>7. ReportsAhead' /\ ReportsInOrder'
    BY <1>0, <2>2, <2>3, <2>5, <2>6, ReportsAppended DEF FactsInv
  <2>8. FactsKept'
    BY <1>0, <2>1, <2>3, <2>4, FactsStay DEF FactsInv
  <2>. QED BY <2>7, <2>8 DEF FactsInv
<1>10. CASE Crash
  <2>1. chain' = << >> /\ UNCHANGED <<run, reports>>
    BY <1>10 DEF Crash, Vanish
  <2>2. FactsKept'
    BY <1>0, <2>1, ReportFields, FactsStay DEF FactsInv
  <2>. QED BY <2>1, <2>2 DEF FactsInv, ReportsAhead, ReportsInOrder
<1>11. CASE Restart
  <2>1. UNCHANGED <<chain, reports>>
    BY <1>11 DEF Restart
  <2>2. run'.nodes = run.nodes
    <3> DEFINE r == [run EXCEPT !.status = "failed", !.current = None]
    <3>1. r \in RunRecords /\ r.nodes = run.nodes
      BY <1>0 DEF RunRecords, Finished
    <3>2. run' = Logged(r, "run.failed", None) \/ run' = run
      BY <1>11 DEF Restart
    <3> HIDE DEF r
    <3>3. Logged(r, "run.failed", None).nodes = r.nodes
      BY <3>1, LoggedFields DEF EventTypes
    <3>. QED BY <3>1, <3>2, <3>3
  <2>3. FactsKept'
    BY <1>0, <2>1, <2>2, ReportFields, FactsStay DEF FactsInv
  <2>. QED BY <2>1, <2>3 DEF FactsInv, ReportsAhead, ReportsInOrder, Ahead, InOrder
<1>. QED BY <1>2, <1>3, <1>4, <1>5, <1>6, <1>7, <1>8, <1>9, <1>10, <1>11
     DEF Next, System, BodyEnds, CallbackEnds, Environment

\* Whoever was told that a fact is saved finds the newest saved fact of its node last,
\* and no more facts than the limit, in the order of the calls, for every limit and any
\* number of nodes and reports, accepted, refused or lost in a crash.
THEOREM NewestFactsKeptEver == Spec => []NewestFactsKept
<1>1. RunInv /\ FactsInv /\ [Next]_vars => RunInv' /\ FactsInv'
  BY InvStep, FactsStep
<1>2. Init => RunInv /\ FactsInv
  <2>1. ASSUME Init
        PROVE  FactsInv
    <3>1. /\ chain = << >> /\ reports = << >>
          /\ \A k \in Nodes : run.nodes[k].facts = << >>
      BY <2>1 DEF Init
    <3>2. ReportsAhead /\ ReportsInOrder
      BY <3>1 DEF ReportsAhead, ReportsInOrder
    <3>3. FactsKept
      <4>1. \A k : Saved(k) = {}
        BY <3>1 DEF Saved
      <4>2. ASSUME NEW k \in Nodes
            PROVE  NewestFirst(k)
        <5>1. run.nodes[k].facts = << >> /\ Len(<< >>) = 0 /\ 0 <= MaxFacts
          BY <3>1, NodeFacts
        <5>. QED BY <4>1, <5>1 DEF NewestFirst
      <4>. QED BY <4>2 DEF FactsKept
    <3>. QED BY <3>2, <3>3 DEF FactsInv
  <2>. QED BY <2>1, InvInit
<1>3. RunInv /\ FactsInv => NewestFactsKept
  <2>1. ASSUME RunInv, FactsInv, NEW k \in Nodes
        PROVE  LET facts == run.nodes[k].facts IN
               /\ DOMAIN facts = 1 .. Len(facts)
               /\ Len(facts) > 0 => facts # << >>
    BY <2>1, RunFields DEF RunInv, TypeOK
  <2>. QED BY <2>1 DEF FactsInv, FactsKept, NewestFirst, NewestFactsKept, LastOf
<1>. QED BY <1>1, <1>2, <1>3, PTL DEF Spec
=============================================================================
