----------------------------- MODULE MorningScript -----------------------------
(***************************************************************************)
(* The workflow morning-script-demo: one execution from its greeting to    *)
(* the end of the script it has generated.  The Runtime accepts or refuses *)
(* every report; the session's agent streams what it likes, in any order,  *)
(* until it is idle, cancelled or disposed; the script runs as long as it  *)
(* likes or until its signal is aborted.                                   *)
(*                                                                         *)
(* A piece of streamed text is its number, and counts one character.       *)
(*                                                                         *)
(* A definition whose name ends in Mutant is the definition after it with  *)
(* a plausible mistake in it; no specification uses it.                    *)
(***************************************************************************)
EXTENDS Naturals, Sequences

CONSTANTS
    OutputLimit,    \* config.modelOutputLimitChars
    FlushSize,      \* buffered characters that are reported at once (512)
    MaxReports      \* bound: reports of the session

ASSUME ScriptConstants ==
    OutputLimit \in Nat /\ FlushSize \in Nat \ {0} /\ MaxReports \in Nat

VARIABLES
    pc,         \* the await that the execution is at
    signalled,  \* the AbortSignal of the run
    aborted,    \* generateScript's own controller
    timer,      \* its timeout is set
    listening,  \* the listeners it has added and not removed
    agent,      \* the session's agent
    cancelled,  \* agent.cancel() was called
    chars, buffer, reportFailure,   \* its own variables, and
    stopReason, \* "completed", or any other or none
    answer,     \* "script" when the last message holds one, else "none"
    reports,    \* reports chained and not yet settled
    thrown,     \* its try block has thrown
    expired,    \* executeScript: AbortSignal.timeout
    child,      \* the script's process
    streamed,   \* history: the kind of each piece of text kept
    trace       \* history: the reports that the Runtime accepted

context == <<signalled, aborted, timer, listening, cancelled>>
output  == <<chars, buffer, stopReason, answer, streamed>>
queue   == <<reportFailure, reports, trace>>
script  == <<expired, child>>
scriptVars == <<pc, context, agent, output, queue, thrown, script>>

TextKinds == {"reasoning", "response"}
Generating == {"requesting", "creating", "running", "reporting", "disposing", "closing"}
Executing  == {"writing", "starting", "executing", "resulting"}

\* The abort event is fired once, and reaches only those who listen by then.
Abort ==
    /\ aborted' = TRUE
    /\ cancelled' = (cancelled \/ (~aborted /\ "cancel" \in listening))

KeepSignal == UNCHANGED <<aborted, cancelled>>

-----------------------------------------------------------------------------
(* The report queue: enqueue and flush *)

TextReport(kind, text) == [kind |-> kind, text |-> text, after |-> 0]

\* A report of an event, which must follow the first pieces of text.
EventReport(pieces) == [kind |-> "event", text |-> << >>, after |-> pieces]

\* The reports of a flush, which leaves the buffer empty.
Flushed == IF buffer.text = << >> THEN << >> ELSE << TextReport(buffer.kind, buffer.text) >>

Empty(kind) == [kind |-> kind, text |-> << >>]

\* One report settles; a refused one aborts the generation, and the next is tried.
ReportAccepted ==
    /\ reports # << >>
    /\ trace' = Append(trace, Head(reports))
    /\ reports' = Tail(reports)
    /\ KeepSignal
    /\ UNCHANGED <<pc, signalled, timer, listening, agent, output, reportFailure, thrown, script>>

ReportRefused ==
    /\ reports # << >>
    /\ reports' = Tail(reports)
    /\ reportFailure' = TRUE
    /\ Abort
    /\ UNCHANGED <<pc, signalled, timer, listening, agent, output, trace, thrown, script>>

AllReportedMutant == TRUE
AllReported == reports = << >>

-----------------------------------------------------------------------------
(* What the session's agent emits: agent/assistant-stream, session/event *)

Emits == agent = "working" /\ Len(reports) + Len(trace) < MaxReports

\* Text of the other kind joins the buffer.
BeforeMutant(kind) == [reports |-> << >>, text |-> buffer.text]

\* What is reported, and what stays buffered, before text of a kind is added.
Before(kind) == IF kind # buffer.kind
                THEN [reports |-> Flushed, text |-> << >>]
                ELSE [reports |-> << >>, text |-> buffer.text]

\* Bound: one piece beyond the limit.
Chunk(kind) ==
    LET text == Append(Before(kind).text, Len(streamed) + 1)
        full == Len(text) >= FlushSize IN
    /\ Emits /\ chars <= OutputLimit
    /\ chars' = chars + 1
    /\ IF chars' > OutputLimit
       THEN Abort /\ UNCHANGED <<buffer, streamed, reports>>
       ELSE /\ KeepSignal
            /\ streamed' = Append(streamed, kind)
            /\ buffer' = [kind |-> kind, text |-> IF full THEN << >> ELSE text]
            /\ reports' = reports \o Before(kind).reports
                 \o (IF full THEN << TextReport(kind, text) >> ELSE << >>)
    /\ UNCHANGED <<pc, signalled, timer, listening, agent, stopReason, answer, reportFailure,
                   trace, thrown, script>>

\* tool/call and assistant/message: the text before them is reported first.
FlushingEvent(value) ==
    /\ Emits
    /\ reports' = reports \o Flushed \o << EventReport(Len(streamed)) >>
    /\ buffer' = Empty(buffer.kind)
    /\ answer' = value
    /\ KeepSignal
    /\ UNCHANGED <<pc, signalled, timer, listening, agent, chars, stopReason, streamed,
                   reportFailure, trace, thrown, script>>

\* tool/result, step/start, step/end, assistant/attempt, turn/end: they overtake it.
OtherEvent(reason) ==
    /\ Emits
    /\ reports' = Append(reports, EventReport(0))
    /\ stopReason' = reason
    /\ KeepSignal
    /\ UNCHANGED <<pc, signalled, timer, listening, agent, chars, buffer, answer, streamed,
                   reportFailure, trace, thrown, script>>

-----------------------------------------------------------------------------
(* generateScript *)

\* An await resolves and nothing else changes but the place.
Resolves(from, to) ==
    /\ pc = from /\ pc' = to
    /\ UNCHANGED <<context, agent, output, queue, thrown, script>>

\* An await outside generateScript rejects: execute() does.
Rejects(from) ==
    /\ pc = from /\ pc' = "done"
    /\ thrown' = TRUE
    /\ UNCHANGED <<context, agent, output, queue, script>>

\* The Runtime calls execute().
Begin   == Resolves("none", "greeting")
Greeted == Resolves("greeting", "preparing")

\* The directory is made and the node has begun: everything up to the first report.
GenerateScript ==
    /\ pc = "preparing" /\ pc' = "requesting"
    /\ aborted' = signalled
    /\ timer' = TRUE
    /\ listening' = {"relay", "session", "stream"}
    /\ UNCHANGED <<signalled, cancelled, agent, output, queue, thrown, script>>

Requested == Resolves("requesting", "creating")

\* The outer finally, up to its await.
CloseMutant ==
    /\ pc' = "closing"
    /\ listening' = listening \ {"session", "stream"} /\ timer' = FALSE

Close ==
    /\ pc' = "closing"
    /\ listening' = listening \ {"session", "stream", "relay"} /\ timer' = FALSE

\* The request or the creation of the session rejects.
GenerateRejects ==
    /\ pc \in {"requesting", "creating"}
    /\ thrown' = TRUE
    /\ Close
    /\ KeepSignal
    /\ UNCHANGED <<signalled, agent, output, queue, script>>

\* The session exists; the agent is not asked when the controller is aborted by then.
CreatedMutant ==
    /\ pc = "creating" /\ pc' = "running"
    /\ agent' = "working" /\ listening' = listening \cup {"cancel"}
    /\ UNCHANGED <<signalled, aborted, timer, cancelled, output, queue, thrown, script>>

Created ==
    /\ pc = "creating"
    /\ IF aborted
       THEN pc' = "disposing" /\ agent' = "idle" /\ thrown' = TRUE /\ UNCHANGED listening
       ELSE /\ pc' = "running" /\ agent' = "working" /\ UNCHANGED thrown
            /\ listening' = listening \cup {"cancel"}
    /\ UNCHANGED <<signalled, aborted, timer, cancelled, output, queue, script>>

\* whenIdle() resolves: what is buffered is reported.
Idle ==
    /\ pc = "running" /\ pc' = "reporting"
    /\ agent' = "idle"
    /\ reports' = reports \o Flushed
    /\ buffer' = Empty(buffer.kind)
    /\ UNCHANGED <<context, chars, stopReason, answer, streamed, reportFailure, trace, thrown,
                   script>>

\* whenIdle() rejects: the agent may still be at work.
IdleRejects ==
    /\ pc = "running" /\ pc' = "disposing"
    /\ thrown' = TRUE
    /\ listening' = listening \ {"cancel"}
    /\ UNCHANGED <<signalled, aborted, timer, cancelled, agent, output, queue, script>>

\* The reports have settled: a result, or one of four errors.
Checked ==
    /\ pc = "reporting" /\ AllReported
    /\ pc' = "disposing"
    /\ thrown' = (aborted \/ reportFailure \/ stopReason # "completed" \/ answer # "script")
    /\ listening' = listening \ {"cancel"}
    /\ UNCHANGED <<signalled, aborted, timer, cancelled, agent, output, queue, script>>

\* dispose() settles; when it rejects, so does the node.
Disposed(ok) ==
    /\ pc = "disposing"
    /\ agent' = IF ok THEN "disposed" ELSE "unknown"
    /\ thrown' = (thrown \/ ~ok)
    /\ Close
    /\ KeepSignal
    /\ UNCHANGED <<signalled, output, queue, script>>

Generated ==
    /\ pc = "closing" /\ AllReported
    /\ pc' = IF thrown THEN "done" ELSE "generated"
    /\ UNCHANGED <<context, agent, output, queue, thrown, script>>

-----------------------------------------------------------------------------
(* executeScript *)

ExecuteScript == ~signalled /\ Resolves("generated", "writing")
Written  == Resolves("writing", "starting")

Spawned ==
    /\ pc = "starting" /\ pc' = "executing"
    /\ child' = "running"
    /\ UNCHANGED <<context, agent, output, queue, thrown, expired>>

Exited(code) ==
    /\ pc = "executing" /\ pc' = "resulting"
    /\ child' = code
    /\ UNCHANGED <<context, agent, output, queue, thrown, expired>>

\* child.done rejects: no process is left, or none came up.
ChildFails ==
    /\ pc = "executing" /\ pc' = "done"
    /\ child' = "other"
    /\ thrown' = TRUE
    /\ UNCHANGED <<context, agent, output, queue, expired>>

Finished ==
    /\ pc = "resulting" /\ pc' = "done"
    /\ thrown' = (signalled \/ expired \/ child # "zero")
    /\ UNCHANGED <<context, agent, output, queue, script>>

-----------------------------------------------------------------------------
(* Timers and the signal of the run *)

TimerFires ==
    /\ timer /\ timer' = FALSE
    /\ Abort
    /\ UNCHANGED <<pc, signalled, listening, agent, output, queue, thrown, script>>

ScriptTimerFires ==
    /\ pc \in {"starting", "executing", "resulting"} /\ ~expired
    /\ expired' = TRUE
    /\ UNCHANGED <<pc, context, agent, output, queue, thrown, child>>

\* A cancellation, a disposal or a stop: the relay passes it on.
Signal ==
    /\ ~signalled /\ signalled' = TRUE
    /\ IF "relay" \in listening THEN Abort ELSE KeepSignal
    /\ UNCHANGED <<pc, timer, listening, agent, output, queue, thrown, script>>

-----------------------------------------------------------------------------

ScriptInit ==
    /\ pc = "none"
    /\ signalled = FALSE /\ aborted = FALSE /\ timer = FALSE /\ listening = {}
    /\ agent = "none" /\ cancelled = FALSE
    /\ chars = 0 /\ buffer = Empty("response") /\ stopReason = "none" /\ answer = "none"
    /\ reportFailure = FALSE /\ reports = << >> /\ thrown = FALSE
    /\ expired = FALSE /\ child = "none"
    /\ streamed = << >> /\ trace = << >>

AgentStep ==
    \/ \E kind \in TextKinds : Chunk(kind)
    \/ \E value \in {answer, "script", "none"} : FlushingEvent(value)
    \/ \E reason \in {stopReason, "completed", "none"} : OtherEvent(reason)

\* What the event loop and the platform settle by themselves.
Settles ==
    \/ Greeted \/ Rejects("greeting") \/ GenerateScript \/ Rejects("preparing")
    \/ Requested \/ GenerateRejects \/ Created \/ Checked \/ Generated
    \/ (\E ok \in BOOLEAN : Disposed(ok))
    \/ ExecuteScript \/ Rejects("generated") \/ Written \/ Rejects("writing")
    \/ Spawned \/ Rejects("starting") \/ Finished \/ Rejects("resulting")

Exits == ChildFails \/ \E code \in {"zero", "other"} : Exited(code)

ScriptNext ==
    \/ Begin
    \/ Settles \/ ReportAccepted \/ ReportRefused \/ TimerFires \/ ScriptTimerFires
    \/ AgentStep \/ Idle \/ IdleRejects \/ Exits
    \/ Signal

ScriptSpec == ScriptInit /\ [][ScriptNext]_scriptVars

\* Calls and reports settle and timers fire; an agent that is cancelled gets idle, and a
\* process whose signal is aborted is killed (graceMs).  Otherwise the agent and the
\* script may go on for ever.
ScriptFairness ==
    /\ WF_scriptVars(Settles) /\ WF_scriptVars(ReportAccepted \/ ReportRefused)
    /\ WF_scriptVars(TimerFires) /\ WF_scriptVars(ScriptTimerFires)
    /\ WF_scriptVars(cancelled /\ Idle)
    /\ WF_scriptVars((signalled \/ expired) /\ Exits)

-----------------------------------------------------------------------------
(* Properties *)

Pieces(report) == {report.text[i] : i \in DOMAIN report.text}

\* Whatever the Runtime refuses: text is reported in the order in which it was streamed,
\* once, under its own kind, and before the message or tool call that follows it.
TraceInOrder ==
    LET shown == trace \o reports \o Flushed IN
    \A i \in DOMAIN shown :
        /\ \A n \in Pieces(shown[i]) : streamed[n] = shown[i].kind
        /\ \A j \in 1 .. i - 1 : \A n \in Pieces(shown[i]) :
              /\ \A m \in Pieces(shown[j]) : m < n
              /\ shown[j].after < n

\* A generated script is given to the next node only when its whole stream has been
\* accepted by the Runtime, and nothing of it was cut off.
ResultIsReported ==
    pc \in {"generated"} \cup Executing =>
        /\ chars = Len(streamed)
        /\ UNION {Pieces(trace[i]) : i \in DOMAIN trace} = 1 .. chars

\* After the generation, however it ended, no session whose dispose() was not tried, and no
\* timer, listener or report of it is left; after the execution, no process either.
NothingLeftBehind ==
    /\ pc \notin {"none", "greeting", "preparing"} \cup Generating =>
          /\ agent \in {"none", "disposed", "unknown"}
          /\ ~timer /\ listening = {} /\ reports = << >>
    /\ child = "running" => pc = "executing"

\* The workflow ends, with a result or an error, whatever the model and the script do.
WorkflowEnds == pc # "none" ~> pc = "done"
=============================================================================
