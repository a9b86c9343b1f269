---------------------------- MODULE RunExecution ----------------------------
(***************************************************************************)
(* One run from execute() to its review: the aggregate with its nodes,     *)
(* facts (observations) and events, and the workflow body that uses the    *)
(* context it is given as it likes.  The body may call node() without      *)
(* awaiting it, out of order or after it has returned, swallow a failure,  *)
(* report from a node that is over, and ignore its signal.                 *)
(*                                                                         *)
(* An update() takes effect in one step, in call order (AtomicUpdates),    *)
(* and its caller goes on later; the repository may fail any of them.      *)
(*                                                                         *)
(* A definition whose name ends in Mutant is the definition after it with  *)
(* a plausible mistake in it; no specification uses it.                    *)
(***************************************************************************)
EXTENDS Integers, Sequences

CONSTANTS
    NodeCount,      \* registration.nodes.length
    MaxFacts,       \* config.maxNodeObservations
    MaxReports,     \* bound: calls of report()
    MayFail,        \* whether the repository may fail an update
    MayStop,        \* whether the stop effect may abort the execution
    MayCrash        \* whether the host may be killed, and started once more

ASSUME ExecutionConstants ==
    /\ NodeCount \in Nat \ {0} /\ MaxFacts \in Nat \ {0} /\ MaxReports \in Nat
    /\ MayFail \in BOOLEAN /\ MayStop \in BOOLEAN /\ MayCrash \in BOOLEAN

Nodes == 1 .. NodeCount
None  == 0          \* no node

VARIABLES
    run,        \* durable: the aggregate
    chain,      \* updates chained and not yet committed
    pc,         \* where execute() is
    index,      \* execute(): nodes started so far
    pending,    \* execute(): the node whose task has not settled, or None
    failed,     \* execute(): nodeFailure is set
    task,       \* where the pending executeNode() is
    aborted,    \* the execution's AbortSignal
    contexts,   \* nodes whose callback was called: it may keep its context
    reports,    \* history: per report() call, its node and what it was told
    asked,      \* user commands made so far
    cancelling, \* cancelFrom() past its update
    host        \* "first" process, "down", "second"

body == <<index, pending, failed, task, contexts>>
vars == <<run, chain, pc, body, aborted, reports, asked, cancelling, host>>

Live == {"queued", "running", "review"}
Finished == {"completed", "cancelled", "failed"}

-----------------------------------------------------------------------------
(* The changes that update() applies *)

Running == ~aborted /\ run.status = "running"      \* assertRunning

ReportableMutant(k) == Running
Reportable(k) == Running /\ run.nodes[k].status = "running"

Accepts(u) ==
    CASE u.kind = "start"  -> run.status = "queued"
      [] u.kind = "cancel" -> run.status \in Live
      [] u.kind \in {"reject", "approve"} -> run.status = "review"
      [] u.kind \in {"nodeStart", "nodeEnd"} -> Running
      [] u.kind = "report" -> Reportable(u.node)
      [] OTHER -> TRUE

Logged(value, type, k) ==
    [value EXCEPT !.events = Append(@, [type |-> type, node |-> k])]

WithNode(k, status) ==
    [run EXCEPT !.nodes[k].status = status]

\* Nodes whose status is in from get the status to.
Moved(from, to) ==
    [k \in Nodes |-> IF run.nodes[k].status \in from
                     THEN [run.nodes[k] EXCEPT !.status = to] ELSE run.nodes[k]]

KeptMutant(facts) == SubSeq(facts, 1, IF Len(facts) < MaxFacts THEN Len(facts) ELSE MaxFacts)
Kept(facts) == SubSeq(facts, IF Len(facts) > MaxFacts THEN Len(facts) - MaxFacts + 1 ELSE 1,
                      Len(facts))

Reviewed ==
    IF run.status = "running"
    THEN Logged([run EXCEPT !.status = "review", !.current = None], "run.review", None)
    ELSE run

\* A failed run keeps its running nodes.
FailedMutant ==
    IF run.status = "cancelled" THEN run
    ELSE Logged([run EXCEPT !.status = "failed", !.current = None], "run.failed", run.current)

\* Only a running execution is failed.
FailedRunningMutant ==
    IF run.status # "running" THEN run
    ELSE Logged([run EXCEPT !.status = "failed", !.current = None,
                            !.nodes = Moved({"running"}, "failed")], "run.failed", run.current)

Failed ==
    IF run.status = "cancelled" THEN run
    ELSE Logged([run EXCEPT !.status = "failed", !.current = None,
                            !.nodes = Moved({"running"}, "failed")], "run.failed", run.current)

Cancelled ==
    Logged([run EXCEPT !.status = "cancelled", !.current = None,
                       !.nodes = Moved({"pending", "running"}, "cancelled")],
           "run.cancelled", None)

Changed(u) ==
    CASE u.kind = "start"     -> Logged([run EXCEPT !.status = "running"], "run.started", None)
      [] u.kind = "nodeStart" -> Logged([WithNode(u.node, "running") EXCEPT !.current = u.node],
                                        "node.started", u.node)
      [] u.kind = "nodeEnd"   -> Logged(WithNode(u.node, "completed"), "node.completed", u.node)
      [] u.kind = "report"    -> [run EXCEPT !.nodes[u.node].facts = Kept(Append(@, u.fact))]
      [] u.kind = "review"    -> Reviewed
      [] u.kind = "fail"      -> Failed
      [] u.kind = "approve"   -> Logged([run EXCEPT !.status = "completed"], "run.completed", None)
      [] OTHER                -> Cancelled

Update(kind, k, fact) == chain' = Append(chain, [kind |-> kind, node |-> k, fact |-> fact])

-----------------------------------------------------------------------------
(* One update settles and tells its caller. *)

ExecutionTold(u, ok) ==
    pc' = CASE u.kind = "start"  -> IF ok THEN "body" ELSE "refused"
            [] u.kind = "review" -> IF ok THEN "finally" ELSE "unreviewed"
            [] u.kind = "fail"   -> IF ok THEN "finally" ELSE "losing"
            [] OTHER -> pc

NodeTold(u, ok) ==
    task' = CASE u.kind = "nodeStart" -> IF ok THEN "callback" ELSE "failed"
              [] u.kind = "nodeEnd"   -> IF ok THEN "done" ELSE "failed"
              [] OTHER -> task

Told(u, ok) ==
    /\ ExecutionTold(u, ok)
    /\ NodeTold(u, ok)
    /\ contexts' = IF u.kind = "nodeStart" /\ ok THEN contexts \cup {u.node} ELSE contexts
    /\ reports' = IF u.kind = "report"
                  THEN [reports EXCEPT ![u.fact].told = IF ok THEN "saved" ELSE "refused"]
                  ELSE reports
    /\ cancelling' = (cancelling \/ (u.kind \in {"cancel", "reject"} /\ ok))
    /\ chain' = Tail(chain)

Commit ==
    LET u == Head(chain) IN
    /\ chain # << >>
    /\ run' = IF Accepts(u) THEN Changed(u) ELSE run
    /\ Told(u, Accepts(u))
    /\ UNCHANGED <<index, pending, failed, aborted, asked, host>>

RepositoryFails ==
    /\ MayFail /\ chain # << >>
    /\ Told(Head(chain), FALSE)
    /\ UNCHANGED <<run, index, pending, failed, aborted, asked, host>>

-----------------------------------------------------------------------------
(* Users.  Bound: each command once, for a run it applies to. *)

Command(kind, from) ==
    /\ host # "down"
    /\ kind \notin asked /\ run.status \in from
    /\ asked' = asked \cup {kind}
    /\ Update(kind, None, 0)
    /\ UNCHANGED <<run, pc, body, aborted, reports, cancelling, host>>

Cancel  == Command("cancel", Live)
Reject  == Command("reject", {"review"})
Approve == Command("approve", {"review"})

\* controllers.get(runId): from the call of execute() to its finally.
Controlled == pc \notin {"queued", "done", "lost", "none"}

\* The cancelled run is not signalled.
SignalledMutant == aborted
Signalled == aborted \/ Controlled

\* cancelFrom() after its update.
CancelContinue ==
    /\ cancelling
    /\ cancelling' = FALSE
    /\ aborted' = Signalled
    /\ UNCHANGED <<run, chain, pc, body, reports, asked, host>>

StopAbort ==
    /\ MayStop /\ Controlled
    /\ aborted' = TRUE
    /\ UNCHANGED <<run, chain, pc, body, reports, asked, cancelling, host>>

-----------------------------------------------------------------------------
(* execute() *)

Execute ==
    /\ host = "first" /\ pc = "queued"
    /\ pc' = "starting"
    /\ Update("start", None, 0)
    /\ UNCHANGED <<run, body, aborted, reports, asked, cancelling, host>>

\* The catch block up to its first await.
Catch ==
    /\ aborted' = TRUE
    /\ IF pending = None
       THEN pc' = "failing" /\ Update("fail", None, 0)
       ELSE pc' = "waiting" /\ UNCHANGED chain
    /\ UNCHANGED <<run, body, reports, asked, cancelling, host>>

\* The body throws before its first node also when execute() fails to read its input.
UpdateRefused == pc \in {"refused", "unreviewed"} /\ Catch
BodyThrows    == pc = "body" /\ Catch

\* A node failure that the body swallowed is forgotten.
MayReviewMutant == pending = None /\ ~aborted /\ index = NodeCount
MayReview == pending = None /\ ~failed /\ ~aborted /\ index = NodeCount

BodyReturns ==
    /\ pc = "body"
    /\ IF MayReview
       THEN /\ pc' = "reviewing"
            /\ Update("review", None, 0)
            /\ UNCHANGED <<run, body, aborted, reports, asked, cancelling, host>>
       ELSE Catch

PendingSettled ==
    /\ pc = "waiting" /\ pending = None
    /\ pc' = "failing"
    /\ Update("fail", None, 0)
    /\ UNCHANGED <<run, body, aborted, reports, asked, cancelling, host>>

Finally ==
    /\ pc \in {"finally", "losing"}
    /\ pc' = IF pc = "finally" THEN "done" ELSE "lost"
    /\ UNCHANGED <<run, chain, body, aborted, reports, asked, cancelling, host>>

-----------------------------------------------------------------------------
(* node(), executeNode() and report(), which the body may call whenever it *)
(* holds the context                                                       *)

HoldsContext == pc \notin {"queued", "starting", "refused", "none"}

\* index is not counted.
StartedMutant(k) == index
Started(k) == k

\* A call that is not of the next node, or beside a pending one, throws.
CallNode(k) ==
    /\ HoldsContext
    /\ ~aborted /\ pending = None /\ k = index + 1
    /\ index' = Started(k)
    /\ pending' = k
    /\ task' = "starting"
    /\ Update("nodeStart", k, 0)
    /\ UNCHANGED <<run, pc, failed, contexts, aborted, reports, asked, cancelling, host>>

CallbackReturns ==
    /\ task = "callback"
    /\ IF aborted
       THEN task' = "failed" /\ UNCHANGED chain
       ELSE task' = "completing" /\ Update("nodeEnd", pending, 0)
    /\ UNCHANGED <<run, pc, index, pending, failed, contexts, aborted, reports, asked,
                   cancelling, host>>

\* It throws, or returns what is not JSON or too large.
CallbackThrows ==
    /\ task = "callback"
    /\ task' = "failed"
    /\ UNCHANGED <<run, chain, pc, index, pending, failed, contexts, aborted, reports, asked,
                   cancelling, host>>

\* The callbacks that node() attaches to the task.
NodeSettled ==
    /\ task \in {"done", "failed"}
    /\ task' = "idle"
    /\ pending' = None
    /\ failed' = (failed \/ task = "failed")
    /\ UNCHANGED <<run, chain, pc, index, contexts, aborted, reports, asked, cancelling, host>>

Report(k) ==
    /\ k \in contexts
    /\ Len(reports) < MaxReports
    /\ reports' = Append(reports, [node |-> k, told |-> "nothing"])
    /\ Update("report", k, Len(reports) + 1)
    /\ UNCHANGED <<run, pc, body, aborted, asked, cancelling, host>>

-----------------------------------------------------------------------------
(* The host is killed, and Service.init fails what it finds interrupted. *)

\* What the process held.
Vanish ==
    /\ chain' = << >> /\ pc' = "none" /\ index' = 0 /\ pending' = None /\ failed' = FALSE
    /\ task' = "idle" /\ aborted' = FALSE /\ contexts' = {} /\ cancelling' = FALSE

Crash ==
    /\ MayCrash /\ host = "first"
    /\ host' = "down"
    /\ Vanish
    /\ UNCHANGED <<run, reports, asked>>

Restart ==
    /\ host = "down"
    /\ host' = "second"
    /\ run' = IF run.status \in {"queued", "running"}
              THEN Logged([run EXCEPT !.status = "failed", !.current = None], "run.failed", None)
              ELSE run
    /\ UNCHANGED <<chain, pc, body, aborted, reports, asked, cancelling>>

-----------------------------------------------------------------------------

Init ==
    /\ run = [status |-> "queued", current |-> None,
              nodes |-> [k \in Nodes |-> [status |-> "pending", facts |-> << >>]],
              events |-> <<[type |-> "run.queued", node |-> None]>>]
    /\ chain = << >> /\ pc = "queued"
    /\ index = 0 /\ pending = None /\ failed = FALSE /\ task = "idle" /\ contexts = {}
    /\ aborted = FALSE /\ reports = << >> /\ asked = {} /\ cancelling = FALSE
    /\ host = "first"

System == Commit \/ CancelContinue \/ Execute \/ UpdateRefused \/ PendingSettled
          \/ Finally \/ NodeSettled
BodyEnds     == BodyReturns \/ BodyThrows
CallbackEnds == CallbackReturns \/ CallbackThrows
Environment  == \/ Cancel \/ Reject \/ Approve
                \/ StopAbort \/ Crash \/ Restart
                \/ RepositoryFails
                \/ \E k \in Nodes : CallNode(k) \/ Report(k)

Next == System \/ BodyEnds \/ CallbackEnds \/ Environment

Spec == Init /\ [][Next]_vars

\* The event loop runs what has settled, and the body and a node's callback end once
\* their signal is aborted; one that is not aborted need not end.
Fairness ==
    /\ WF_vars(Commit) /\ WF_vars(CancelContinue) /\ WF_vars(Execute)
    /\ WF_vars(UpdateRefused \/ PendingSettled \/ Finally) /\ WF_vars(NodeSettled)
    /\ WF_vars(aborted /\ BodyEnds) /\ WF_vars(aborted /\ CallbackEnds)

FairSpec == Spec /\ Fairness

-----------------------------------------------------------------------------
(* Properties *)

EventTypes == {"run.queued", "run.started", "run.review", "run.completed", "run.cancelled",
               "run.failed", "node.started", "node.completed"}
NodeRecords == [status : {"pending", "running"} \cup Finished, facts : Seq(1 .. MaxReports)]
RunRecords  == [status : Live \cup Finished, current : Nodes \cup {None},
                nodes : [Nodes -> NodeRecords],
                events : Seq([type : EventTypes, node : Nodes \cup {None}])]
UpdateRecords ==
    [kind : {"start", "review", "fail", "cancel", "reject", "approve"}, node : {None}, fact : {0}]
    \cup [kind : {"nodeStart", "nodeEnd"}, node : Nodes, fact : {0}]
    \cup [kind : {"report"}, node : Nodes, fact : 1 .. MaxReports]

\* Every variable keeps its shape.
TypeOK ==
    /\ run \in RunRecords
    /\ chain \in Seq(UpdateRecords)
    /\ pc \in {"queued", "starting", "refused", "body", "waiting", "reviewing",
               "unreviewed", "failing", "finally", "losing", "done", "lost", "none"}
    /\ index \in 0 .. NodeCount
    /\ pending \in Nodes \cup {None}
    /\ task \in {"idle", "starting", "callback", "completing", "done", "failed"}
    /\ failed \in BOOLEAN /\ aborted \in BOOLEAN /\ cancelling \in BOOLEAN
    /\ contexts \in SUBSET Nodes
    /\ reports \in Seq([node : Nodes, told : {"nothing", "saved", "refused"}])
    /\ asked \in SUBSET {"cancel", "reject", "approve"}
    /\ host \in {"first", "down", "second"}

NodeStatus(k) == run.nodes[k].status
LastOf(s) == s[Len(s)]

\* A run that awaits review, or has passed it, has completed every declared node,
\* whatever the body did with its context (contracts/src/workflow.ts:17).
ReviewMeansComplete ==
    run.status \in {"review", "completed"} => \A k \in Nodes : NodeStatus(k) = "completed"

\* A run that is not running shows no current node and, in the process that executed it,
\* no running node: no update of a node slips in behind the one that ended the run.
NothingLeftRunning ==
    run.status # "running" =>
        /\ run.current = None
        /\ host = "first" => \A k \in Nodes : NodeStatus(k) # "running"

\* What a finished node recorded is never touched again: late outputs, facts, failures
\* and cancellations are refused (docs/architecture.md, chapter 5).
FinishedNodesFrozen ==
    [][\A k \in Nodes : NodeStatus(k) \in Finished => run'.nodes[k] = run.nodes[k]]_vars

\* The event log and the aggregate agree: no event occurs twice, a node is completed
\* exactly if the log says so, nodes start in their declared order, and the last event
\* about the run tells its status.
Has(type, k) == \E i \in DOMAIN run.events : run.events[i] = [type |-> type, node |-> k]
StatusOf(type) ==
    CASE type = "run.queued"    -> "queued"
      [] type = "run.started"   -> "running"
      [] type = "run.review"    -> "review"
      [] type = "run.completed" -> "completed"
      [] type = "run.cancelled" -> "cancelled"
      [] type = "run.failed"    -> "failed"
      [] OTHER                  -> "none"
StatusTold ==
    \E i \in DOMAIN run.events :
        /\ StatusOf(run.events[i].type) = run.status
        /\ \A j \in DOMAIN run.events :
              j > i => run.events[j].type \in {"node.started", "node.completed"}

LogAgrees ==
    /\ \A i, j \in DOMAIN run.events : run.events[i] = run.events[j] => i = j
    /\ StatusTold
    /\ \A k \in Nodes : NodeStatus(k) = "completed" <=> Has("node.completed", k)
    /\ \A i, j \in DOMAIN run.events :
          /\ i < j
          /\ run.events[i].type = "node.started" /\ run.events[j].type = "node.started"
          => run.events[i].node < run.events[j].node

\* A reporter that was told its fact is saved finds the newest saved fact of its node
\* last, older ones before it in the order of the calls, and no more than the limit.
Saved(k) == {f \in DOMAIN reports : reports[f] = [node |-> k, told |-> "saved"]}

NewestFactsKept ==
    \A k \in Nodes :
        LET facts == run.nodes[k].facts IN
        /\ Len(facts) <= MaxFacts
        /\ \A i, j \in DOMAIN facts : i < j => facts[i] < facts[j]
        /\ \A f \in Saved(k) : facts # << >> /\ f <= LastOf(facts)

\* An execution that has ended leaves its run neither queued nor running, unless the
\* repository failed the update that would have said so.
EndedRunIsSettled ==
    pc = "done" => run.status \notin {"queued", "running"}

\* The execution of a cancelled or stopped run ends, also while it waits for a pending
\* node.
CancelledRunEnds ==
    aborted \/ run.status = "cancelled" ~> pc \in {"done", "lost", "none"}
=============================================================================
