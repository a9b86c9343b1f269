----------------------------- MODULE CatalogProofs -----------------------------
(***************************************************************************)
(* The plugin's workflows keep their promises inside the plugin.           *)
(*                                                                         *)
(* morning-script-demo leaves nothing behind, gives a script to the next   *)
(* node only when all of its stream was reported, and reports the stream   *)
(* in its order: for every limit, any stream and events, any refused       *)
(* reports, and cancellations, timeouts and failures at every await; and   *)
(* so it does inside the plugin, whatever is registered meanwhile.  The    *)
(* checklist of release-readiness fits the risk of every input.            *)
(***************************************************************************)
EXTENDS WorkflowCatalog, FiniteSetTheorems, TLAPS

Reports == [kind : TextKinds \cup {"event"}, text : Seq(Nat), after : Nat]

ScriptType ==
    /\ pc \in {"none", "greeting", "preparing", "generated", "done"} \cup Generating \cup Executing
    /\ signalled \in BOOLEAN /\ aborted \in BOOLEAN /\ timer \in BOOLEAN
    /\ listening \in SUBSET {"relay", "session", "stream", "cancel"}
    /\ agent \in {"none", "working", "idle", "disposed", "unknown"}
    /\ chars \in Nat /\ streamed \in Seq(TextKinds)
    /\ buffer \in [kind : TextKinds, text : Seq(Nat)]
    /\ reportFailure \in BOOLEAN /\ thrown \in BOOLEAN
    /\ reports \in Seq(Reports) /\ trace \in Seq(Reports)

-----------------------------------------------------------------------------
(* Every variable keeps its shape. *)

\* What a flush reports.
LEMMA FlushedType == ASSUME ScriptType PROVE Flushed \in Seq(Reports)
<1>1. buffer.kind \in TextKinds /\ buffer.text \in Seq(Nat)
  BY DEF ScriptType
<1>2. TextReport(buffer.kind, buffer.text) \in Reports
  BY <1>1 DEF TextReport, Reports
<1>. QED BY <1>2 DEF Flushed

\* What is reported before a piece of text, and what stays buffered.
LEMMA BeforeType ==
    ASSUME ScriptType, NEW kind \in TextKinds
    PROVE  Before(kind).reports \in Seq(Reports) /\ Before(kind).text \in Seq(Nat)
<1>. QED BY FlushedType DEF Before, ScriptType

\* A piece of text is added to the buffer, which is reported when it is full.
LEMMA ChunkType ==
    ASSUME ScriptType, NEW kind \in TextKinds, Chunk(kind) PROVE ScriptType'
<1>1. PICK before \in Seq(Reports) : before = Before(kind).reports
  BY BeforeType
<1>2. PICK text \in Seq(Nat) : text = Append(Before(kind).text, Len(streamed) + 1)
  <2>1. Len(streamed) + 1 \in Nat
    BY DEF ScriptType
  <2>2. Append(Before(kind).text, Len(streamed) + 1) \in Seq(Nat)
    BY <2>1, BeforeType
  <2>. QED BY <2>2
<1>3. TextReport(kind, text) \in Reports
  BY DEF TextReport, Reports
<1>4. UNCHANGED <<pc, signalled, timer, listening, agent, reportFailure, trace, thrown>>
  BY DEF Chunk
<1>5. chars' \in Nat /\ aborted' \in BOOLEAN
  <2>1. chars' = chars + 1 /\ (aborted' = TRUE \/ aborted' = aborted)
    BY DEF Chunk, Abort, KeepSignal
  <2>2. chars' \in Nat
    BY <2>1 DEF ScriptType
  <2>3. aborted \in BOOLEAN
    BY DEF ScriptType
  <2>4. aborted' \in BOOLEAN
    BY <2>1, <2>3
  <2>. QED BY <2>2, <2>4
<1>6. \/ UNCHANGED <<buffer, streamed, reports>>
      \/ /\ streamed' = Append(streamed, kind)
         /\ \/ /\ buffer' = [kind |-> kind, text |-> << >>]
               /\ reports' = reports \o before \o << TextReport(kind, text) >>
            \/ /\ buffer' = [kind |-> kind, text |-> text]
               /\ reports' = reports \o before \o << >>
  BY <1>1, <1>2 DEF Chunk
<1>8. /\ streamed' \in Seq(TextKinds) /\ reports' \in Seq(Reports)
      /\ buffer' \in [kind : TextKinds, text : Seq(Nat)]
  <2>1. << >> \in Seq(Reports) /\ << TextReport(kind, text) >> \in Seq(Reports)
    BY <1>3
  <2>2. [kind |-> kind, text |-> << >>] \in [kind : TextKinds, text : Seq(Nat)]
    OBVIOUS
  <2>3. reports \in Seq(Reports) /\ streamed \in Seq(TextKinds)
        /\ buffer \in [kind : TextKinds, text : Seq(Nat)]
    BY DEF ScriptType
  <2>4. CASE UNCHANGED <<buffer, streamed, reports>>
    BY <2>3, <2>4
  <2>5. CASE streamed' = Append(streamed, kind)
    <3>1. streamed' \in Seq(TextKinds)
      BY <2>3, <2>5
    <3>2. \/ reports' = reports
          \/ reports' = reports \o before \o << TextReport(kind, text) >>
          \/ reports' = reports \o before \o << >>
      BY <1>6
    <3>3. reports' \in Seq(Reports)
      <4>1. reports \o before \in Seq(Reports)
        BY <2>3
      <4>2. /\ reports \o before \o << TextReport(kind, text) >> \in Seq(Reports)
            /\ reports \o before \o << >> \in Seq(Reports)
        BY <2>1, <4>1
      <4>. QED BY <2>3, <3>2, <4>2
    <3>4. \/ buffer' = buffer
          \/ buffer' = [kind |-> kind, text |-> << >>]
          \/ buffer' = [kind |-> kind, text |-> text]
      BY <1>6
    <3>5. buffer' \in [kind : TextKinds, text : Seq(Nat)]
      <4>1. [kind |-> kind, text |-> text] \in [kind : TextKinds, text : Seq(Nat)]
        OBVIOUS
      <4>. QED BY <2>2, <2>3, <3>4, <4>1
    <3>. QED BY <3>1, <3>3, <3>5
  <2>. QED BY <1>6, <2>4, <2>5
<1>9. /\ pc' \in {"none", "greeting", "preparing", "generated", "done"} \cup Generating \cup Executing
      /\ signalled' \in BOOLEAN /\ timer' \in BOOLEAN
      /\ listening' \in SUBSET {"relay", "session", "stream", "cancel"}
      /\ agent' \in {"none", "working", "idle", "disposed", "unknown"}
      /\ reportFailure' \in BOOLEAN /\ thrown' \in BOOLEAN /\ trace' \in Seq(Reports)
  BY <1>4 DEF ScriptType
<1>. QED BY <1>5, <1>8, <1>9 DEF ScriptType

LEMMA ScriptTypeStep == ScriptType /\ [ScriptNext]_scriptVars => ScriptType'
<1>. SUFFICES ASSUME ScriptType, [ScriptNext]_scriptVars PROVE ScriptType'
  OBVIOUS
<1>. USE DEF ScriptType, Generating, Executing, context, output, queue, script, KeepSignal, Abort
<1>1. ASSUME NEW from, NEW to \in {"greeting", "preparing", "creating", "writing", "starting"},
             Resolves(from, to)
      PROVE  ScriptType'
  BY <1>1 DEF Resolves
<1>2. ASSUME NEW from, Rejects(from) PROVE ScriptType'
  BY <1>2 DEF Rejects
<1>3. CASE GenerateScript
  BY <1>3 DEF GenerateScript
<1>4. CASE GenerateRejects
  BY <1>4 DEF GenerateRejects, Close
<1>5. CASE Created
  BY <1>5 DEF Created
<1>6. CASE Idle
  <2>1. Flushed \in Seq(Reports)
    BY FlushedType
  <2>. QED BY <1>6, <2>1 DEF Idle, Empty
<1>7. CASE IdleRejects
  BY <1>7 DEF IdleRejects
<1>8. CASE Checked
  BY <1>8 DEF Checked
<1>9. ASSUME NEW ok \in BOOLEAN, Disposed(ok) PROVE ScriptType'
  BY <1>9 DEF Disposed, Close
<1>10. CASE Generated
  BY <1>10 DEF Generated
<1>11. CASE Spawned \/ ChildFails \/ Finished
  BY <1>11 DEF Spawned, ChildFails, Finished
<1>12. ASSUME NEW code, Exited(code) PROVE ScriptType'
  BY <1>12 DEF Exited
<1>13. CASE ReportAccepted
  BY <1>13 DEF ReportAccepted
<1>14. CASE ReportRefused
  BY <1>14 DEF ReportRefused
<1>15. CASE TimerFires \/ ScriptTimerFires \/ Signal
  <2>1. CASE TimerFires
    BY <2>1 DEF TimerFires
  <2>2. CASE ScriptTimerFires
    BY <2>2 DEF ScriptTimerFires
  <2>3. CASE Signal
    BY <2>3 DEF Signal
  <2>. QED BY <1>15, <2>1, <2>2, <2>3
<1>16. ASSUME NEW kind \in TextKinds, Chunk(kind) PROVE ScriptType'
  BY <1>16, ChunkType
<1>17. ASSUME NEW value, FlushingEvent(value) PROVE ScriptType'
  <2>1. Flushed \in Seq(Reports) /\ EventReport(Len(streamed)) \in Reports
    BY FlushedType DEF EventReport, Reports
  <2>. QED BY <1>17, <2>1 DEF FlushingEvent, Empty
<1>18. ASSUME NEW reason, OtherEvent(reason) PROVE ScriptType'
  <2>1. EventReport(0) \in Reports
    BY DEF EventReport, Reports
  <2>. QED BY <1>18, <2>1 DEF OtherEvent
<1>19. CASE UNCHANGED scriptVars
  BY <1>19 DEF scriptVars
<1>. QED
  BY <1>1, <1>2, <1>3, <1>4, <1>5, <1>6, <1>7, <1>8, <1>9, <1>10, <1>11, <1>12, <1>13, <1>14,
     <1>15, <1>16, <1>17, <1>18, <1>19
  DEF ScriptNext, Settles, Begin, Greeted, Requested, ExecuteScript, Written, AgentStep, Exits

-----------------------------------------------------------------------------
(* What the generation leaves behind. *)

\* The agent works, and its events are listened to, between the creation of the session
\* and its disposal; what is opened before is closed by the finally blocks.
Tidy ==
    /\ pc \notin Generating => agent \in {"none", "disposed", "unknown"} /\ reports = << >>
    /\ pc \notin Generating \/ pc = "closing" => ~timer /\ listening = {}
    /\ pc \in {"none", "greeting", "preparing", "requesting", "creating"} => agent = "none"
    /\ pc = "closing" => agent \in {"none", "disposed", "unknown"}
    /\ pc = "reporting" => agent = "idle"
    /\ "cancel" \in listening => pc \in {"running", "reporting"}
    /\ child = "running" => pc = "executing"

\* Each step keeps it so.
LEMMA TidyStep == ScriptType /\ Tidy /\ [ScriptNext]_scriptVars => Tidy'
<1>. SUFFICES ASSUME ScriptType, Tidy, [ScriptNext]_scriptVars PROVE Tidy'
  OBVIOUS
<1>. USE DEF Tidy, Generating, Executing, context, output, queue, script
<1>1. ASSUME NEW from \in {"none", "greeting", "requesting", "generated", "writing"}, NEW to,
             Resolves(from, to), <<from, to>> \in
               {<<"none", "greeting">>, <<"greeting", "preparing">>, <<"requesting", "creating">>,
                <<"generated", "writing">>, <<"writing", "starting">>}
      PROVE  Tidy'
  BY <1>1 DEF Resolves
<1>2. ASSUME NEW from \in {"greeting", "preparing", "generated", "writing", "starting",
                           "resulting"}, Rejects(from)
      PROVE  Tidy'
  BY <1>2 DEF Rejects
<1>3. CASE GenerateScript
  BY <1>3 DEF GenerateScript
<1>4. CASE GenerateRejects
  BY <1>4 DEF GenerateRejects, Close, ScriptType
<1>5. CASE Created
  BY <1>5 DEF Created
<1>6. CASE Idle
  BY <1>6 DEF Idle
<1>7. CASE IdleRejects
  BY <1>7 DEF IdleRejects
<1>8. CASE Checked
  BY <1>8 DEF Checked
<1>9. ASSUME NEW ok \in BOOLEAN, Disposed(ok) PROVE Tidy'
  BY <1>9 DEF Disposed, Close, ScriptType
<1>10. CASE Generated
  BY <1>10 DEF Generated, AllReported
<1>11. CASE Spawned \/ ChildFails \/ Finished
  BY <1>11 DEF Spawned, ChildFails, Finished
<1>12. ASSUME NEW code \in {"zero", "other"}, Exited(code) PROVE Tidy'
  BY <1>12 DEF Exited
<1>13. CASE ReportAccepted
  BY <1>13 DEF ReportAccepted
<1>14. CASE ReportRefused
  BY <1>14 DEF ReportRefused
<1>15. CASE TimerFires \/ ScriptTimerFires \/ Signal
  BY <1>15 DEF TimerFires, ScriptTimerFires, Signal
<1>16. ASSUME NEW kind \in TextKinds, Chunk(kind) PROVE Tidy'
  <2>1. agent = "working" /\ UNCHANGED <<pc, timer, listening, agent, child>>
    BY <1>16 DEF Chunk, Emits
  <2>. QED BY <2>1
<1>17. ASSUME NEW value, FlushingEvent(value) PROVE Tidy'
  BY <1>17 DEF FlushingEvent, Emits
<1>18. ASSUME NEW reason, OtherEvent(reason) PROVE Tidy'
  BY <1>18 DEF OtherEvent, Emits
<1>19. CASE UNCHANGED scriptVars
  BY <1>19 DEF scriptVars
<1>. QED
  BY <1>1, <1>2, <1>3, <1>4, <1>5, <1>6, <1>7, <1>8, <1>9, <1>10, <1>11, <1>12, <1>13, <1>14,
     <1>15, <1>16, <1>17, <1>18, <1>19
  DEF ScriptNext, Settles, Begin, Greeted, Requested, ExecuteScript, Written, AgentStep, Exits

-----------------------------------------------------------------------------
(* What has been reported when a script is handed on. *)

Said(s) == UNION {Pieces(s[i]) : i \in DOMAIN s}
Buffered == TextReport(buffer.kind, buffer.text)

\* Every piece of text is accepted, chained or buffered, unless a report was refused.
Kept ==
    /\ Len(streamed) <= chars /\ (aborted \/ chars = Len(streamed))
    /\ reportFailure
       \/ Said(trace) \cup Said(reports) \cup Pieces(Buffered) = 1 .. Len(streamed)
    /\ pc = "reporting" => buffer.text = << >>
    /\ pc \in {"none", "greeting", "preparing"} => ~aborted

\* The session has given its result, and nothing has gone wrong since.
HandedOn == \/ pc \in {"disposing", "closing"} /\ ~thrown
            \/ pc \in {"generated"} \cup Executing

\* Then the whole stream has been accepted, and no more of it comes.
Whole ==
    HandedOn => /\ agent # "working" /\ reports = << >> /\ chars = Len(streamed)
                /\ Said(trace) = 1 .. chars

\* What a sequence of reports says.
LEMMA SaidAppend ==
    ASSUME NEW s \in Seq(Reports), NEW x \in Reports
    PROVE  Said(Append(s, x)) = Said(s) \cup Pieces(x)
<1>. DEFINE t == Append(s, x)
<1>1. /\ DOMAIN t = DOMAIN s \cup {Len(s) + 1} /\ t[Len(s) + 1] = x
      /\ \A i \in DOMAIN s : t[i] = s[i]
  OBVIOUS
<1>. HIDE DEF t
<1>2. Said(t) = Said(s) \cup Pieces(x)
  BY <1>1 DEF Said
<1>. QED BY <1>2 DEF t

LEMMA SaidTail ==
    ASSUME NEW s \in Seq(Reports), s # << >>
    PROVE  Said(s) = Pieces(Head(s)) \cup Said(Tail(s))
<1>1. /\ Len(s) \in Nat \ {0} /\ DOMAIN s = 1 .. Len(s) /\ DOMAIN Tail(s) = 1 .. Len(s) - 1
      /\ s[1] = Head(s) /\ \A i \in DOMAIN Tail(s) : Tail(s)[i] = s[i + 1]
  OBVIOUS
<1>2. ASSUME NEW i \in DOMAIN s PROVE Pieces(s[i]) \subseteq Pieces(Head(s)) \cup Said(Tail(s))
  <2>1. CASE i = 1
    BY <1>1, <2>1
  <2>2. CASE i # 1
    <3>1. i - 1 \in DOMAIN Tail(s) /\ Tail(s)[i - 1] = s[i]
      BY <1>1, <2>2
    <3>. QED BY <3>1 DEF Said
  <2>. QED BY <2>1, <2>2
<1>3. \A i \in DOMAIN Tail(s) : Pieces(Tail(s)[i]) \subseteq Said(s)
  BY <1>1 DEF Said
<1>4. Pieces(Head(s)) \subseteq Said(s)
  BY <1>1 DEF Said
<1>. QED BY <1>2, <1>3, <1>4 DEF Said

LEMMA SaidNothing == Said(<< >>) = {} /\ \A k, a : Pieces([kind |-> k, text |-> << >>, after |-> a]) = {}
<1>. QED BY DEF Said, Pieces

\* A flush moves what is buffered to the reports.
LEMMA SaidFlushed ==
    ASSUME ScriptType, NEW s \in Seq(Reports)
    PROVE  s \o Flushed \in Seq(Reports) /\ Said(s \o Flushed) = Said(s) \cup Pieces(Buffered)
<1>1. Buffered \in Reports
  BY DEF Buffered, TextReport, Reports, ScriptType
<1>2. CASE buffer.text = << >>
  <2>1. s \o Flushed = s
    BY <1>2 DEF Flushed
  <2>2. Pieces(Buffered) = {}
    BY <1>2 DEF Pieces, Buffered, TextReport
  <2>. QED BY <2>1, <2>2
<1>3. CASE buffer.text # << >>
  <2>1. s \o Flushed = Append(s, Buffered)
    BY <1>1, <1>3 DEF Flushed, Buffered
  <2>2. Append(s, Buffered) \in Seq(Reports)
    BY <1>1
  <2>. QED BY <1>1, <2>1, <2>2, SaidAppend
<1>. QED BY <1>2, <1>3

\* A piece of text that is kept is reported or buffered.
LEMMA SaidChunk ==
    ASSUME ScriptType, NEW kind \in TextKinds, Chunk(kind), ~(chars' > OutputLimit)
    PROVE  Said(reports') \cup Pieces(Buffered)'
             = Said(reports) \cup Pieces(Buffered) \cup {Len(streamed) + 1}
<1>1. PICK first \in Seq(Reports) : first = reports \o Before(kind).reports
  <2>1. reports \in Seq(Reports) /\ Before(kind).reports \in Seq(Reports)
    BY BeforeType DEF ScriptType
  <2>2. reports \o Before(kind).reports \in Seq(Reports)
    BY <2>1
  <2>. QED BY <2>2
<1>2. PICK before \in Seq(Nat) : before = Before(kind).text
  BY BeforeType
<1>3. PICK n \in Nat : n = Len(streamed) + 1
  BY DEF ScriptType
<1>4. PICK text \in Seq(Nat) : text = Append(before, n)
  <2>1. Append(before, n) \in Seq(Nat)
    OBVIOUS
  <2>. QED BY <2>1
<1>5. Said(first) \cup {before[i] : i \in DOMAIN before} = Said(reports) \cup Pieces(Buffered)
  <2>1. CASE kind # buffer.kind
    <3>1. first = reports \o Flushed /\ before = << >>
      BY <1>1, <1>2, <2>1 DEF Before
    <3>. QED BY <3>1, SaidFlushed DEF ScriptType
  <2>2. CASE kind = buffer.kind
    <3>1. first = reports \o << >> /\ before = buffer.text
      BY <1>1, <1>2, <2>2 DEF Before
    <3>2. first = reports
      BY <3>1 DEF ScriptType
    <3>. QED BY <3>1, <3>2 DEF Pieces, Buffered, TextReport
  <2>. QED BY <2>1, <2>2
<1>6. TextReport(kind, text) \in Reports
  BY DEF TextReport, Reports
<1>7. Pieces(TextReport(kind, text)) = {before[i] : i \in DOMAIN before} \cup {n}
  <2>1. /\ DOMAIN text = DOMAIN before \cup {Len(before) + 1} /\ text[Len(before) + 1] = n
        /\ \A i \in DOMAIN before : text[i] = before[i]
    BY <1>4
  <2>. QED BY <2>1 DEF Pieces, TextReport
<1>8. CASE Len(text) >= FlushSize
  <2>1. reports' = first \o << TextReport(kind, text) >>
    BY <1>1, <1>2, <1>3, <1>4, <1>8 DEF Chunk
  <2>2. buffer' = [kind |-> kind, text |-> << >>]
    BY <1>1, <1>2, <1>3, <1>4, <1>8 DEF Chunk
  <2>3. reports' = Append(first, TextReport(kind, text))
    BY <1>6, <2>1
  <2>4. Pieces(Buffered)' = {}
    BY <2>2 DEF Pieces, Buffered, TextReport
  <2>5. Said(reports') = Said(first) \cup Pieces(TextReport(kind, text))
    BY <1>6, <2>3, SaidAppend
  <2>. QED BY <1>3, <1>5, <1>7, <2>4, <2>5
<1>9. CASE ~(Len(text) >= FlushSize)
  <2>1. reports' = first \o << >>
    BY <1>1, <1>2, <1>3, <1>4, <1>9 DEF Chunk
  <2>2. buffer' = [kind |-> kind, text |-> text]
    BY <1>1, <1>2, <1>3, <1>4, <1>9 DEF Chunk
  <2>3. reports' = first
    BY <2>1
  <2>4. Pieces(Buffered)' = Pieces(TextReport(kind, text))
    BY <2>2 DEF Pieces, Buffered, TextReport
  <2>. QED BY <1>3, <1>5, <1>7, <2>3, <2>4
<1>. QED BY <1>8, <1>9

\* Nothing of the stream is lost but by a refused report, which fails the generation.
LEMMA KeptStep ==
    ScriptType /\ Tidy /\ Kept /\ Whole /\ [ScriptNext]_scriptVars => Kept' /\ Whole'
<1>. SUFFICES ASSUME ScriptType, Tidy, Kept, Whole, [ScriptNext]_scriptVars
              PROVE  Kept' /\ Whole'
  OBVIOUS
<1>. USE DEF Kept, Whole, HandedOn, Generating, Executing, context, output, queue, script
<1>0. ASSUME UNCHANGED <<chars, buffer, streamed, reports, trace, reportFailure>>,
             aborted' = aborted \/ aborted' = TRUE, pc' # "reporting" \/ pc = "reporting",
             pc' \in {"none", "greeting", "preparing"} => ~aborted'
      PROVE  Kept'
  BY <1>0 DEF Buffered
<1>1. ASSUME NEW from, NEW to, Resolves(from, to), <<from, to>> \in
               {<<"none", "greeting">>, <<"greeting", "preparing">>, <<"requesting", "creating">>,
                <<"generated", "writing">>, <<"writing", "starting">>}
      PROVE  Kept' /\ Whole'
  BY <1>0, <1>1 DEF Resolves
<1>2. ASSUME NEW from, Rejects(from) PROVE Kept' /\ Whole'
  BY <1>0, <1>2 DEF Rejects
<1>3. CASE GenerateScript
  BY <1>3 DEF GenerateScript, Buffered
<1>4. CASE GenerateRejects
  BY <1>0, <1>4 DEF GenerateRejects, Close, KeepSignal
<1>5. CASE Created
  BY <1>0, <1>5 DEF Created
<1>6. CASE Idle
  <2>1. Said(reports') = Said(reports) \cup Pieces(Buffered)
    BY <1>6, SaidFlushed DEF Idle, ScriptType
  <2>2. Pieces(Buffered)' = {}
    BY <1>6 DEF Idle, Empty, Buffered, TextReport, Pieces
  <2>3. /\ UNCHANGED <<chars, streamed, trace, reportFailure, aborted>>
        /\ buffer'.text = << >> /\ pc' = "reporting"
    BY <1>6 DEF Idle, Empty
  <2>. QED BY <2>1, <2>2, <2>3
<1>7. CASE IdleRejects
  BY <1>0, <1>7 DEF IdleRejects
<1>8. CASE Checked
  <2>1. Kept'
    BY <1>0, <1>8 DEF Checked
  <2>2. ASSUME ~thrown' PROVE Said(trace) = 1 .. chars /\ chars = Len(streamed)
    <3>1. ~aborted /\ ~reportFailure /\ reports = << >> /\ buffer.text = << >>
      BY <1>8, <2>2 DEF Checked, AllReported
    <3>2. Pieces(Buffered) = {}
      BY <3>1 DEF Buffered, TextReport, Pieces
    <3>. QED BY <3>1, <3>2, SaidNothing
  <2>3. /\ agent' = "idle" /\ reports' = << >> /\ UNCHANGED <<chars, streamed, trace>>
        /\ pc' = "disposing"
    BY <1>8 DEF Checked, AllReported, Tidy
  <2>. QED BY <2>1, <2>2, <2>3
<1>9. ASSUME NEW ok \in BOOLEAN, Disposed(ok) PROVE Kept' /\ Whole'
  BY <1>0, <1>9 DEF Disposed, Close, KeepSignal
<1>10. CASE Generated
  BY <1>0, <1>10 DEF Generated
<1>11. CASE Spawned \/ ChildFails \/ Finished
  BY <1>0, <1>11 DEF Spawned, ChildFails, Finished
<1>12. ASSUME NEW code, Exited(code) PROVE Kept' /\ Whole'
  BY <1>0, <1>12 DEF Exited
<1>13. CASE ReportAccepted
  <2>1. Said(trace') = Said(trace) \cup Pieces(Head(reports)) /\ ~HandedOn
    BY <1>13, SaidAppend DEF ReportAccepted, ScriptType
  <2>2. Said(reports) = Pieces(Head(reports)) \cup Said(reports')
    BY <1>13, SaidTail DEF ReportAccepted, ScriptType
  <2>3. UNCHANGED <<pc, thrown, chars, buffer, streamed, aborted, reportFailure>>
    BY <1>13 DEF ReportAccepted, KeepSignal
  <2>. QED BY <2>1, <2>2, <2>3 DEF Buffered
<1>14. CASE ReportRefused
  <2>1. ~HandedOn /\ pc \notin {"none", "greeting", "preparing"}
    BY <1>14 DEF ReportRefused, Tidy
  <2>2. reportFailure' /\ aborted' /\ UNCHANGED <<pc, thrown, chars, buffer, streamed>>
    BY <1>14 DEF ReportRefused, Abort
  <2>. QED BY <2>1, <2>2
<1>15. CASE TimerFires \/ ScriptTimerFires \/ Signal
  <2>1. CASE TimerFires
    BY <1>0, <2>1 DEF TimerFires, Abort, Tidy
  <2>2. CASE ScriptTimerFires
    BY <1>0, <2>2 DEF ScriptTimerFires
  <2>3. CASE Signal
    BY <1>0, <2>3 DEF Signal, Abort, KeepSignal, Tidy
  <2>. QED BY <1>15, <2>1, <2>2, <2>3
<1>16. ASSUME NEW kind \in TextKinds, Chunk(kind) PROVE Kept' /\ Whole'
  <2>1. /\ agent = "working" /\ chars' = chars + 1
        /\ UNCHANGED <<pc, agent, thrown, trace, reportFailure>>
    BY <1>16 DEF Chunk, Emits
  <2>2. ~HandedOn /\ ~HandedOn' /\ pc \notin {"none", "greeting", "preparing", "reporting"}
    BY <2>1 DEF Tidy
  <2>3. chars \in Nat /\ Len(streamed) \in Nat /\ streamed \in Seq(TextKinds)
    BY DEF ScriptType
  <2>4. CASE chars' > OutputLimit
    <3>1. aborted' /\ UNCHANGED <<buffer, streamed, reports>>
      BY <1>16, <2>4 DEF Chunk, Abort
    <3>. QED BY <2>1, <2>2, <2>3, <3>1 DEF Buffered
  <2>5. CASE ~(chars' > OutputLimit)
    <3>1. streamed' = Append(streamed, kind) /\ aborted' = aborted
      BY <1>16, <2>5 DEF Chunk, KeepSignal
    <3>2. Len(streamed') = Len(streamed) + 1
      BY <2>3, <3>1
    <3>3. 1 .. Len(streamed) + 1 = (1 .. Len(streamed)) \cup {Len(streamed) + 1}
      BY <2>3
    <3>4. Said(reports') \cup Pieces(Buffered)'
            = Said(reports) \cup Pieces(Buffered) \cup {Len(streamed) + 1}
      BY <1>16, <2>5, SaidChunk
    <3>. QED BY <2>1, <2>2, <2>3, <3>1, <3>2, <3>3, <3>4
  <2>. QED BY <2>4, <2>5
<1>17. ASSUME NEW value, FlushingEvent(value) PROVE Kept' /\ Whole'
  <2>1. /\ agent = "working" /\ buffer' = Empty(buffer.kind)
        /\ reports' = reports \o Flushed \o << EventReport(Len(streamed)) >>
        /\ UNCHANGED <<pc, agent, thrown, trace, reportFailure, aborted, chars, streamed>>
    BY <1>17 DEF FlushingEvent, Emits, KeepSignal
  <2>2. ~HandedOn /\ ~HandedOn' /\ pc # "reporting"
    BY <2>1 DEF Tidy
  <2>3. /\ reports \o Flushed \in Seq(Reports)
        /\ Said(reports \o Flushed) = Said(reports) \cup Pieces(Buffered)
    BY SaidFlushed DEF ScriptType
  <2>4. EventReport(Len(streamed)) \in Reports /\ Pieces(EventReport(Len(streamed))) = {}
    BY DEF EventReport, Reports, ScriptType, Pieces
  <2>5. reports' = Append(reports \o Flushed, EventReport(Len(streamed)))
    BY <2>1, <2>3, <2>4
  <2>6. Said(reports') = Said(reports) \cup Pieces(Buffered)
    <3>1. Said(Append(reports \o Flushed, EventReport(Len(streamed))))
            = Said(reports \o Flushed) \cup Pieces(EventReport(Len(streamed)))
      BY <2>3, <2>4, SaidAppend
    <3>. QED BY <2>3, <2>4, <2>5, <3>1
  <2>7. Pieces(Buffered)' = {}
    BY <2>1 DEF Empty, Buffered, TextReport, Pieces
  <2>. QED BY <2>1, <2>2, <2>6, <2>7
<1>18. ASSUME NEW reason, OtherEvent(reason) PROVE Kept' /\ Whole'
  <2>1. /\ agent = "working" /\ reports' = Append(reports, EventReport(0))
        /\ UNCHANGED <<pc, agent, thrown, trace, reportFailure, aborted, chars, streamed, buffer>>
    BY <1>18 DEF OtherEvent, Emits, KeepSignal
  <2>2. ~HandedOn /\ ~HandedOn'
    BY <2>1 DEF Tidy
  <2>3. EventReport(0) \in Reports /\ Pieces(EventReport(0)) = {}
    BY DEF EventReport, Reports, Pieces
  <2>4. Said(reports') = Said(reports)
    <3>1. Said(Append(reports, EventReport(0))) = Said(reports) \cup Pieces(EventReport(0))
      BY <2>3, SaidAppend DEF ScriptType
    <3>. QED BY <2>1, <2>3, <3>1
  <2>. QED BY <2>1, <2>2, <2>4 DEF Buffered
<1>19. CASE UNCHANGED scriptVars
  BY <1>0, <1>19 DEF scriptVars
<1>. QED
  BY <1>1, <1>2, <1>3, <1>4, <1>5, <1>6, <1>7, <1>8, <1>9, <1>10, <1>11, <1>12, <1>13, <1>14,
     <1>15, <1>16, <1>17, <1>18, <1>19
  DEF ScriptNext, Settles, Begin, Greeted, Requested, ExecuteScript, Written, AgentStep, Exits

-----------------------------------------------------------------------------
(* The order of what is reported. *)

\* A report only says pieces of its kind that have been streamed.
Sound(x, kinds) ==
    /\ x.after <= Len(kinds)
    /\ \A n \in Pieces(x) : n \in 1 .. Len(kinds) /\ kinds[n] = x.kind

\* One report says what was streamed before the other, and its event was too.
Precedes(x, y) == \A n \in Pieces(y) : x.after < n /\ \A k \in Pieces(x) : k < n

InLine(q, kinds) ==
    \A i \in 1 .. Len(q) : Sound(q[i], kinds) /\ \A j \in 1 .. i - 1 : Precedes(q[j], q[i])

\* A line of reports and what is buffered behind it.
Line(q, b, kinds) ==
    InLine(q, kinds) /\ Sound(b, kinds) /\ \A i \in 1 .. Len(q) : Precedes(q[i], b)

Ordered == Line(trace \o reports, Buffered, streamed)

\* A report that follows all of a line prolongs it.
LEMMA InLineAppend ==
    ASSUME NEW q \in Seq(Reports), NEW x \in Reports, NEW kinds \in Seq(TextKinds),
           InLine(q, kinds), Sound(x, kinds), \A i \in 1 .. Len(q) : Precedes(q[i], x)
    PROVE  InLine(Append(q, x), kinds)
<1>. DEFINE p == Append(q, x)
<1>1. /\ Len(p) = Len(q) + 1 /\ p[Len(q) + 1] = x /\ Len(q) \in Nat
      /\ \A i \in 1 .. Len(q) : p[i] = q[i]
  OBVIOUS
<1>. HIDE DEF p
<1>2. InLine(p, kinds)
  BY <1>1 DEF InLine
<1>. QED BY <1>2 DEF p

\* A piece of text more does not disturb a line.
LEMMA InLineGrows ==
    ASSUME NEW kinds \in Seq(TextKinds), NEW kind \in TextKinds, NEW x \in Reports,
           Sound(x, kinds)
    PROVE  Sound(x, Append(kinds, kind))
<1>1. /\ Len(Append(kinds, kind)) = Len(kinds) + 1 /\ Len(kinds) \in Nat
      /\ \A n \in 1 .. Len(kinds) : Append(kinds, kind)[n] = kinds[n]
  OBVIOUS
<1>2. x.after \in Nat
  BY DEF Reports
<1>. QED BY <1>1, <1>2 DEF Sound

\* What is buffered is flushed: it follows the line.
LEMMA LineFlush ==
    ASSUME NEW q \in Seq(Reports), NEW b \in Reports, NEW kinds \in Seq(TextKinds),
           Line(q, b, kinds), NEW e \in Reports, Pieces(e) = {}, e.after <= Len(kinds)
    PROVE  Line(Append(q, b), e, kinds)
<1>1. InLine(Append(q, b), kinds)
  BY InLineAppend DEF Line
<1>2. Sound(e, kinds) /\ \A x : Precedes(x, e)
  BY DEF Sound, Precedes
<1>. QED BY <1>1, <1>2 DEF Line

\* An event joins the line: what is buffered must be streamed after what it follows.
LEMMA LineEvent ==
    ASSUME NEW q \in Seq(Reports), NEW b \in Reports, NEW kinds \in Seq(TextKinds),
           Line(q, b, kinds), NEW e \in Reports, Pieces(e) = {}, e.after <= Len(kinds),
           \A n \in Pieces(b) : e.after < n
    PROVE  Line(Append(q, e), b, kinds)
<1>1. InLine(Append(q, e), kinds)
  <2>1. Sound(e, kinds) /\ \A x : Precedes(x, e)
    BY DEF Sound, Precedes
  <2>. QED BY <2>1, InLineAppend DEF Line
<1>2. Precedes(e, b)
  BY DEF Precedes
<1>3. \A i \in 1 .. Len(Append(q, e)) : Precedes(Append(q, e)[i], b)
  <2>1. /\ Len(Append(q, e)) = Len(q) + 1 /\ Append(q, e)[Len(q) + 1] = e /\ Len(q) \in Nat
        /\ \A i \in 1 .. Len(q) : Append(q, e)[i] = q[i]
    OBVIOUS
  <2>. QED BY <1>2, <2>1 DEF Line
<1>. QED BY <1>1, <1>3 DEF Line

\* A piece of text of a kind joins a buffer of its kind, or an empty one.
LEMMA LineChunk ==
    ASSUME NEW q \in Seq(Reports), NEW b \in Reports, NEW kinds \in Seq(TextKinds),
           Line(q, b, kinds), NEW kind \in TextKinds, Pieces(b) = {} \/ b.kind = kind,
           NEW c \in Reports, c.kind = kind, c.after = 0,
           Pieces(c) = Pieces(b) \cup {Len(kinds) + 1}
    PROVE  Line(q, c, Append(kinds, kind))
<1>1. /\ Len(Append(kinds, kind)) = Len(kinds) + 1 /\ Len(kinds) \in Nat
      /\ \A n \in 1 .. Len(kinds) : Append(kinds, kind)[n] = kinds[n]
      /\ Append(kinds, kind)[Len(kinds) + 1] = kind
  OBVIOUS
<1>2. InLine(q, Append(kinds, kind))
  <2>1. \A i \in 1 .. Len(q) : q[i] \in Reports
    OBVIOUS
  <2>. QED BY <2>1, InLineGrows DEF Line, InLine
<1>3. Sound(c, Append(kinds, kind))
  BY <1>1 DEF Line, Sound
<1>4. ASSUME NEW i \in 1 .. Len(q) PROVE Precedes(q[i], c)
  <2>1. q[i] \in Reports
    OBVIOUS
  <2>2. q[i].after \in Nat
    BY <2>1 DEF Reports
  <2>3. Sound(q[i], kinds) /\ Precedes(q[i], b)
    BY DEF Line, InLine
  <2>. QED BY <1>1, <2>2, <2>3 DEF Sound, Precedes
<1>. QED BY <1>2, <1>3, <1>4 DEF Line

\* A report that is refused leaves the line.
LEMMA LineDrop ==
    ASSUME NEW t \in Seq(Reports), NEW r \in Seq(Reports), r # << >>, NEW b \in Reports,
           NEW kinds \in Seq(TextKinds), Line(t \o r, b, kinds)
    PROVE  Line(t \o Tail(r), b, kinds)
<1>. DEFINE p == t \o r
            q == t \o Tail(r)
<1>1. /\ Len(t) \in Nat /\ Len(p) \in Nat /\ Len(q) + 1 = Len(p) /\ Len(t) <= Len(q)
      /\ \A i \in 1 .. Len(t) : q[i] = p[i]
      /\ \A i \in Len(t) + 1 .. Len(q) : q[i] = p[i + 1]
  OBVIOUS
<1>2. Line(p, b, kinds)
  OBVIOUS
<1>. HIDE DEF p, q
<1>. DEFINE at(i) == IF i <= Len(t) THEN i ELSE i + 1
<1>3. \A i \in 1 .. Len(q) : /\ at(i) \in 1 .. Len(p) /\ q[i] = p[at(i)]
                              /\ \A j \in 1 .. i - 1 : at(j) \in 1 .. at(i) - 1
  BY <1>1
<1>. HIDE DEF at
<1>4. ASSUME NEW i \in 1 .. Len(q) PROVE Sound(q[i], kinds) /\ Precedes(q[i], b)
  BY <1>2, <1>3 DEF Line, InLine
<1>5. ASSUME NEW i \in 1 .. Len(q), NEW j \in 1 .. i - 1 PROVE Precedes(q[j], q[i])
  <2>1. j \in 1 .. Len(q)
    BY <1>1
  <2>2. q[i] = p[at(i)] /\ q[j] = p[at(j)]
    BY <1>3, <2>1
  <2>3. at(i) \in 1 .. Len(p) /\ at(j) \in 1 .. at(i) - 1
    BY <1>3
  <2>. QED BY <1>2, <2>2, <2>3 DEF Line, InLine
<1>6. Sound(b, kinds)
  BY <1>2 DEF Line
<1>7. Line(q, b, kinds)
  BY <1>4, <1>5, <1>6 DEF Line, InLine
<1>. QED BY <1>7 DEF q

\* Reports are chained at the end, and accepted from the front.
LEMMA Chained ==
    ASSUME NEW t \in Seq(Reports), NEW r \in Seq(Reports), NEW x \in Reports
    PROVE  t \o Append(r, x) = Append(t \o r, x) /\ t \o r \in Seq(Reports)
<1>1. t \o r \in Seq(Reports)
  OBVIOUS
<1>2. t \o Append(r, x) = Append(t \o r, x)
  OBVIOUS
<1>. QED BY <1>1, <1>2

LEMMA Accepted ==
    ASSUME NEW t \in Seq(Reports), NEW r \in Seq(Reports), r # << >>
    PROVE  Append(t, Head(r)) \o Tail(r) = t \o r
<1>. DEFINE p == Append(t, Head(r)) \o Tail(r)
            q == t \o r
<1>1. Len(r) \in Nat \ {0} /\ Head(r) = r[1] /\ Head(r) \in Reports
      /\ Tail(r) \in Seq(Reports) /\ Len(Tail(r)) = Len(r) - 1
  OBVIOUS
<1>2. p \in Seq(Reports) /\ q \in Seq(Reports) /\ Len(p) = Len(q)
  BY <1>1
<1>3. ASSUME NEW i \in 1 .. Len(q) PROVE p[i] = q[i]
  BY <1>1
<1>. HIDE DEF p, q
<1>4. p = q
  BY <1>2, <1>3
<1>. QED BY <1>4 DEF p, q

\* A flush moves what is buffered to the end of the line.
LEMMA FlushedLine ==
    ASSUME ScriptType, Ordered, NEW e \in Reports, Pieces(e) = {}, e.after <= Len(streamed)
    PROVE  /\ reports \o Flushed \in Seq(Reports)
           /\ Line(trace \o (reports \o Flushed), e, streamed)
<1>1. Buffered \in Reports /\ trace \o reports \in Seq(Reports) /\ streamed \in Seq(TextKinds)
  <2>1. Buffered \in Reports
    BY DEF Buffered, TextReport, Reports, ScriptType
  <2>2. trace \in Seq(Reports) /\ reports \in Seq(Reports)
    BY DEF ScriptType
  <2>. QED BY <2>1, <2>2, Chained DEF ScriptType
<1>2. CASE buffer.text = << >>
  <2>1. reports \o Flushed = reports
    BY <1>2 DEF Flushed, ScriptType
  <2>2. Line(trace \o reports, e, streamed)
    BY DEF Ordered, Line, Sound, Precedes
  <2>. QED BY <2>1, <2>2 DEF ScriptType
<1>3. CASE buffer.text # << >>
  <2>1. reports \o Flushed = Append(reports, Buffered)
    BY <1>1, <1>3 DEF Flushed, Buffered, ScriptType
  <2>2. trace \o Append(reports, Buffered) = Append(trace \o reports, Buffered)
    BY <1>1, Chained DEF ScriptType
  <2>3. Line(Append(trace \o reports, Buffered), e, streamed)
    BY <1>1, LineFlush DEF Ordered
  <2>4. Append(reports, Buffered) \in Seq(Reports)
    BY <1>1 DEF ScriptType
  <2>. QED BY <2>1, <2>2, <2>3, <2>4
<1>. QED BY <1>2, <1>3

\* A piece of text that is kept stands in its place.
LEMMA ChunkLine ==
    ASSUME ScriptType, Ordered, NEW kind \in TextKinds, Chunk(kind), ~(chars' > OutputLimit)
    PROVE  Ordered'
<1>1. /\ trace \in Seq(Reports) /\ reports \in Seq(Reports) /\ streamed \in Seq(TextKinds)
      /\ Len(streamed) + 1 \in Nat /\ buffer.kind \in TextKinds /\ buffer.text \in Seq(Nat)
  BY DEF ScriptType
<1>2. PICK first \in Seq(Reports) : first = reports \o Before(kind).reports
  <2>1. Before(kind).reports \in Seq(Reports)
    BY BeforeType
  <2>2. reports \o Before(kind).reports \in Seq(Reports)
    BY <1>1, <2>1
  <2>. QED BY <2>2
<1>3. PICK before \in Seq(Nat) : before = Before(kind).text
  BY BeforeType
<1>4. PICK text \in Seq(Nat) : text = Append(before, Len(streamed) + 1)
  <2>1. Append(before, Len(streamed) + 1) \in Seq(Nat)
    BY <1>1
  <2>. QED BY <2>1
<1>5. PICK b : b = TextReport(kind, before)
  OBVIOUS
<1>6. PICK c : c = TextReport(kind, text)
  OBVIOUS
<1>7. PICK e : e = TextReport(kind, << >>)
  OBVIOUS
<1>8. /\ b \in Reports /\ c \in Reports /\ e \in Reports
      /\ c.kind = kind /\ c.after = 0 /\ e.after = 0 /\ b.kind = kind /\ Pieces(e) = {}
  BY <1>5, <1>6, <1>7 DEF TextReport, Reports, Pieces
<1>9. trace \o first \in Seq(Reports)
  BY <1>1, <1>2, Chained
<1>10. Line(trace \o first, b, streamed)
  <2>1. CASE kind # buffer.kind
    <3>1. first = reports \o Flushed /\ before = << >>
      BY <1>2, <1>3, <2>1 DEF Before
    <3>2. b = e /\ e.after <= Len(streamed)
      BY <1>1, <1>5, <1>7, <1>8, <3>1
    <3>. QED BY <1>8, <3>1, <3>2, FlushedLine
  <2>2. CASE kind = buffer.kind
    <3>1. first = reports \o << >> /\ b = Buffered
      BY <1>2, <1>3, <1>5, <2>2 DEF Before, Buffered
    <3>2. first = reports
      BY <1>1, <3>1
    <3>. QED BY <3>1, <3>2 DEF Ordered
  <2>. QED BY <2>1, <2>2
<1>11. Pieces(c) = Pieces(b) \cup {Len(streamed) + 1}
  <2>1. /\ DOMAIN text = DOMAIN before \cup {Len(before) + 1}
        /\ text[Len(before) + 1] = Len(streamed) + 1
        /\ \A i \in DOMAIN before : text[i] = before[i]
    BY <1>1, <1>4
  <2>. QED BY <1>5, <1>6, <2>1 DEF Pieces, TextReport
<1>12. Line(trace \o first, c, Append(streamed, kind))
  BY <1>1, <1>8, <1>9, <1>10, <1>11, LineChunk
<1>13. trace' = trace /\ streamed' = Append(streamed, kind)
  BY DEF Chunk
<1>14. CASE Len(text) >= FlushSize
  <2>1. /\ reports' = first \o << TextReport(kind, text) >>
        /\ buffer' = [kind |-> kind, text |-> << >>]
    BY <1>2, <1>3, <1>4, <1>14 DEF Chunk
  <2>2. reports' = Append(first, c) /\ Buffered' = e
    BY <1>6, <1>7, <1>8, <2>1 DEF Buffered, TextReport
  <2>3. trace \o Append(first, c) = Append(trace \o first, c)
    BY <1>1, <1>8, Chained
  <2>4. Append(streamed, kind) \in Seq(TextKinds) /\ 0 <= Len(Append(streamed, kind))
    BY <1>1
  <2>5. Line(Append(trace \o first, c), e, Append(streamed, kind))
    BY <1>8, <1>9, <1>12, <2>4, LineFlush
  <2>. QED BY <1>13, <2>2, <2>3, <2>5 DEF Ordered
<1>15. CASE ~(Len(text) >= FlushSize)
  <2>1. /\ reports' = first \o << >>
        /\ buffer' = [kind |-> kind, text |-> text]
    BY <1>2, <1>3, <1>4, <1>15 DEF Chunk
  <2>2. reports' = first /\ Buffered' = c
    BY <1>6, <2>1 DEF Buffered
  <2>. QED BY <1>12, <1>13, <2>2 DEF Ordered
<1>. QED BY <1>14, <1>15

\* Each step keeps the line.
LEMMA OrderedStep == ScriptType /\ Ordered /\ [ScriptNext]_scriptVars => Ordered'
<1>. SUFFICES ASSUME ScriptType, Ordered, [ScriptNext]_scriptVars PROVE Ordered'
  OBVIOUS
<1>. USE DEF context, output, queue, script
<1>0. ASSUME UNCHANGED <<buffer, streamed, reports, trace>> PROVE Ordered'
  BY <1>0 DEF Ordered, Buffered
<1>1. /\ Buffered \in Reports /\ streamed \in Seq(TextKinds) /\ Len(streamed) \in Nat
      /\ trace \in Seq(Reports) /\ reports \in Seq(Reports) /\ trace \o reports \in Seq(Reports)
  <2>1. Buffered \in Reports
    BY DEF Buffered, TextReport, Reports, ScriptType
  <2>2. trace \in Seq(Reports) /\ reports \in Seq(Reports)
    BY DEF ScriptType
  <2>. QED BY <2>1, <2>2, Chained DEF ScriptType
<1>2. PICK e : e = TextReport(buffer.kind, << >>)
  OBVIOUS
<1>3. e \in Reports /\ Pieces(e) = {} /\ e.after <= Len(streamed)
  BY <1>1, <1>2 DEF TextReport, Reports, Pieces, ScriptType
<1>4. CASE Idle
  <2>1. reports' = reports \o Flushed /\ Buffered' = e /\ UNCHANGED <<trace, streamed>>
    BY <1>2, <1>4 DEF Idle, Empty, Buffered, TextReport
  <2>2. Line(trace \o (reports \o Flushed), e, streamed)
    BY <1>3, FlushedLine
  <2>. QED BY <2>1, <2>2 DEF Ordered
<1>5. ASSUME NEW value, FlushingEvent(value) PROVE Ordered'
  <2>1. PICK event : event = EventReport(Len(streamed))
    OBVIOUS
  <2>2. event \in Reports /\ Pieces(event) = {} /\ event.after <= Len(streamed)
    BY <1>1, <2>1 DEF EventReport, Reports, Pieces
  <2>3. PICK first \in Seq(Reports) : /\ first = reports \o Flushed
                                      /\ Line(trace \o first, event, streamed)
    BY <2>2, FlushedLine
  <2>4. reports' = first \o << event >> /\ Buffered' = e /\ UNCHANGED <<trace, streamed>>
    BY <1>2, <1>5, <2>1, <2>3 DEF FlushingEvent, Empty, Buffered, TextReport
  <2>5. first \o << event >> = Append(first, event) /\ trace \o first \in Seq(Reports)
    BY <1>1, <2>2, Chained
  <2>6. trace \o Append(first, event) = Append(trace \o first, event)
    BY <1>1, <2>2, Chained
  <2>7. Line(Append(trace \o first, event), e, streamed)
    BY <1>1, <1>3, <2>2, <2>3, <2>5, LineFlush
  <2>. QED BY <2>4, <2>5, <2>6, <2>7 DEF Ordered
<1>6. ASSUME NEW reason, OtherEvent(reason) PROVE Ordered'
  <2>1. PICK event : event = EventReport(0)
    OBVIOUS
  <2>2. /\ event \in Reports /\ Pieces(event) = {} /\ event.after = 0
        /\ event.after <= Len(streamed)
    BY <1>1, <2>1 DEF EventReport, Reports, Pieces
  <2>3. \A n \in Pieces(Buffered) : event.after < n
    BY <1>1, <2>2 DEF Ordered, Line, Sound
  <2>4. Line(Append(trace \o reports, event), Buffered, streamed)
    BY <1>1, <2>2, <2>3, LineEvent DEF Ordered
  <2>5. reports' = Append(reports, event) /\ UNCHANGED <<buffer, trace, streamed>>
    BY <1>6, <2>1 DEF OtherEvent
  <2>6. trace \o Append(reports, event) = Append(trace \o reports, event)
    BY <1>1, <2>2, Chained
  <2>. QED BY <2>4, <2>5, <2>6 DEF Ordered, Buffered
<1>7. ASSUME NEW kind \in TextKinds, Chunk(kind) PROVE Ordered'
  <2>1. CASE chars' > OutputLimit
    BY <1>0, <1>7, <2>1 DEF Chunk
  <2>. QED BY <1>7, <2>1, ChunkLine
<1>8. CASE ReportAccepted
  <2>1. /\ reports # << >> /\ trace' = Append(trace, Head(reports)) /\ reports' = Tail(reports)
        /\ UNCHANGED <<buffer, streamed>>
    BY <1>8 DEF ReportAccepted
  <2>2. Append(trace, Head(reports)) \o Tail(reports) = trace \o reports
    BY <1>1, <2>1, Accepted
  <2>. QED BY <2>1, <2>2 DEF Ordered, Buffered
<1>9. CASE ReportRefused
  <2>1. reports # << >> /\ reports' = Tail(reports) /\ UNCHANGED <<trace, buffer, streamed>>
    BY <1>9 DEF ReportRefused
  <2>2. Line(trace \o Tail(reports), Buffered, streamed)
    BY <1>1, <2>1, LineDrop DEF Ordered
  <2>. QED BY <2>1, <2>2 DEF Ordered, Buffered
<1>10. ASSUME NEW from, NEW to, Resolves(from, to) PROVE Ordered'
  BY <1>0, <1>10 DEF Resolves
<1>11. ASSUME NEW from, Rejects(from) PROVE Ordered'
  BY <1>0, <1>11 DEF Rejects
<1>12. CASE GenerateScript \/ GenerateRejects \/ Created \/ IdleRejects \/ Checked \/ Generated
  BY <1>0, <1>12
  DEF GenerateScript, GenerateRejects, Created, IdleRejects, Checked, Generated
<1>13. ASSUME NEW ok \in BOOLEAN, Disposed(ok) PROVE Ordered'
  BY <1>0, <1>13 DEF Disposed
<1>14. CASE Spawned \/ ChildFails \/ Finished \/ TimerFires \/ ScriptTimerFires \/ Signal
  BY <1>0, <1>14 DEF Spawned, ChildFails, Finished, TimerFires, ScriptTimerFires, Signal
<1>15. ASSUME NEW code, Exited(code) PROVE Ordered'
  BY <1>0, <1>15 DEF Exited
<1>16. CASE UNCHANGED scriptVars
  BY <1>0, <1>16 DEF scriptVars
<1>. QED
  BY <1>4, <1>5, <1>6, <1>7, <1>8, <1>9, <1>10, <1>11, <1>12, <1>13, <1>14, <1>15, <1>16
  DEF ScriptNext, Settles, Begin, Greeted, Requested, ExecuteScript, Written, AgentStep, Exits

-----------------------------------------------------------------------------

ScriptInv == ScriptType /\ Tidy /\ Kept /\ Whole /\ Ordered

LEMMA ScriptInvInit == ScriptInit => ScriptInv
<1>. SUFFICES ASSUME ScriptInit PROVE ScriptInv
  OBVIOUS
<1>. USE DEF ScriptInit, Empty, Generating, Executing
<1>1. ScriptType
  <2>1. "response" \in TextKinds
    BY DEF TextKinds
  <2>2. buffer \in [kind : TextKinds, text : Seq(Nat)]
    BY <2>1
  <2>3. reports \in Seq(Reports) /\ trace \in Seq(Reports) /\ streamed \in Seq(TextKinds)
    OBVIOUS
  <2>4. listening \in SUBSET {"relay", "session", "stream", "cancel"}
    OBVIOUS
  <2>5. /\ pc \in {"none"} /\ signalled \in BOOLEAN /\ aborted \in BOOLEAN /\ timer \in BOOLEAN
        /\ agent \in {"none"} /\ chars \in Nat /\ reportFailure \in BOOLEAN /\ thrown \in BOOLEAN
    OBVIOUS
  <2>. QED BY <2>2, <2>3, <2>4, <2>5 DEF ScriptType
<1>2. Tidy
  BY DEF Tidy
<1>3. Kept /\ Whole
  <2>1. Pieces(Buffered) = {} /\ Said(trace) = {} /\ Said(reports) = {} /\ Len(streamed) = 0
    BY SaidNothing DEF Buffered, TextReport, Pieces
  <2>. QED BY <2>1 DEF Kept, Whole, HandedOn
<1>4. Ordered
  <2>1. trace \o reports = << >> /\ Len(streamed) = 0 /\ Pieces(Buffered) = {}
        /\ Buffered.after = 0
    BY DEF Buffered, TextReport, Pieces
  <2>. QED BY <2>1 DEF Ordered, Line, InLine, Sound
<1>. QED BY <1>1, <1>2, <1>3, <1>4 DEF ScriptInv

LEMMA ScriptInvStep == ScriptInv /\ [ScriptNext]_scriptVars => ScriptInv'
<1>. QED BY ScriptTypeStep, TidyStep, KeptStep, OrderedStep DEF ScriptInv

LEMMA ScriptInvariant == ScriptSpec => []ScriptInv
<1>. QED BY ScriptInvInit, ScriptInvStep, PTL DEF ScriptSpec

\* However a generation ends, by a result, a refused report, a failed call, a timeout or a
\* cancellation, no timer, listener, report or session of it is left, nor a process of the
\* script after the execution.
LEMMA ScriptLeavesNothing == ScriptSpec => []NothingLeftBehind
<1>1. ScriptInv => NothingLeftBehind
  BY DEF ScriptInv, ScriptType, Tidy, NothingLeftBehind, Generating, Executing
<1>. QED BY <1>1, ScriptInvariant, PTL

\* A script reaches the next node only when the Runtime has accepted the whole stream.
LEMMA ScriptReportsResult == ScriptSpec => []ResultIsReported
<1>1. ScriptInv => ResultIsReported
  <2>1. Said(trace) = UNION {Pieces(trace[i]) : i \in DOMAIN trace}
    BY DEF Said
  <2>. QED BY <2>1 DEF ScriptInv, Whole, HandedOn, ResultIsReported
<1>. QED BY <1>1, ScriptInvariant, PTL

\* The accepted, chained and buffered reports repeat the stream in its order.
LEMMA ScriptKeepsOrder == ScriptSpec => []TraceInOrder
<1>1. ASSUME ScriptInv PROVE TraceInOrder
  <2>1. PICK q \in Seq(Reports) : q = trace \o reports \o Flushed
    <3>1. trace \o reports \in Seq(Reports) /\ Flushed \in Seq(Reports)
      BY <1>1, Chained, FlushedType DEF ScriptInv, ScriptType
    <3>2. (trace \o reports) \o Flushed \in Seq(Reports)
      BY <3>1
    <3>. QED BY <3>2
  <2>2. PICK e \in Reports : Pieces(e) = {} /\ e.after = 0
    <3>1. TextReport("response", << >>) \in Reports /\ Pieces(TextReport("response", << >>)) = {}
          /\ TextReport("response", << >>).after = 0
      BY DEF TextReport, Reports, Pieces, TextKinds
    <3>. QED BY <3>1
  <2>3. trace \o (reports \o Flushed) = q
    BY <1>1, <2>1, FlushedType DEF ScriptInv, ScriptType
  <2>4. Len(streamed) \in Nat
    BY <1>1 DEF ScriptInv, ScriptType
  <2>5. Line(q, e, streamed)
    BY <1>1, <2>2, <2>3, <2>4, FlushedLine DEF ScriptInv
  <2>6. InLine(q, streamed) /\ DOMAIN q = 1 .. Len(q) /\ Len(q) \in Nat
    BY <2>5 DEF Line
  <2>7. ASSUME NEW i \in DOMAIN q
        PROVE  /\ \A n \in Pieces(q[i]) : streamed[n] = q[i].kind
               /\ \A j \in 1 .. i - 1 : \A n \in Pieces(q[i]) :
                     /\ \A m \in Pieces(q[j]) : m < n
                     /\ q[j].after < n
    BY <2>6, <2>7 DEF InLine, Sound, Precedes
  <2>. QED BY <2>1, <2>7 DEF TraceInOrder
<1>. QED BY <1>1, ScriptInvariant, PTL

-----------------------------------------------------------------------------
(* Every step of the plugin is a step of the script workflow, or none. *)

LEMMA PluginRunsScript == Spec => ScriptSpec
<1>1. Init => ScriptInit
  BY DEF Init
<1>2. [Next]_catalogVars => [ScriptNext]_scriptVars
  BY DEF Next, catalogVars, CapabilitiesAppear, CapabilitiesGo, Execute, Start, Advance,
         ScriptNext
<1>. QED BY <1>1, <1>2, PTL DEF Spec, ScriptSpec

\* However a generation ends, by a result, a refused report, a failed call, a timeout or a
\* cancellation, no timer, listener, report or session of it is left, nor a process of the
\* script after the execution.
THEOREM LeavesNothingBehind == Spec => []NothingLeftBehind
<1>. QED BY PluginRunsScript, ScriptLeavesNothing, PTL

\* A script reaches the next node only when the Runtime has accepted the whole stream.
THEOREM ReportsResult == Spec => []ResultIsReported
<1>. QED BY PluginRunsScript, ScriptReportsResult, PTL

\* The accepted, chained and buffered reports repeat the stream in its order.
THEOREM KeepsTraceInOrder == Spec => []TraceInOrder
<1>. QED BY PluginRunsScript, ScriptKeepsOrder, PTL

-----------------------------------------------------------------------------
(* The risk of an input *)

ReleaseInputs == [valid : BOOLEAN, prerelease : BOOLEAN, zeroMajor : BOOLEAN,
                  lines : Seq(NoteLines)]

\* The first lines of some notes are counted as they are in the whole.
LEMMA PrefixConsidered ==
    ASSUME NEW lines \in Seq(NoteLines), NEW k \in 0 .. Len(lines)
    PROVE  LET first == SubSeq(lines, 1, k) IN
           /\ Considered(first) \subseteq Considered(lines)
           /\ \A i \in Considered(first) : first[i] = lines[i]
<1>. DEFINE first == SubSeq(lines, 1, k)
<1>1. Len(first) = k /\ k \in Nat /\ Len(lines) \in Nat /\ k <= Len(lines)
      /\ \A i \in 1 .. k : first[i] = lines[i]
  OBVIOUS
<1>. HIDE DEF first
<1>2. ASSUME NEW i \in 0 .. k PROVE NotesUpTo(first, i) = NotesUpTo(lines, i)
  <2>1. 1 .. i \subseteq 1 .. k
    BY <1>1
  <2>. QED BY <1>1, <2>1 DEF NotesUpTo
<1>3. ASSUME NEW i \in NotesUpTo(first, k)
      PROVE  i \in 0 .. k /\ i \in 1 .. k /\ i \in NotesUpTo(lines, Len(lines))
  BY <1>1, <1>3 DEF NotesUpTo
<1>4. Considered(first) \subseteq Considered(lines)
  BY <1>1, <1>2, <1>3 DEF Considered
<1>5. \A i \in Considered(first) : first[i] = lines[i]
  BY <1>1, <1>3 DEF Considered
<1>. QED BY <1>4, <1>5 DEF first

\* The notes that count and the keywords that they match are finite sets.
LEMMA NormalizedType ==
    ASSUME NEW i \in ReleaseInputs
    PROVE  /\ IsFiniteSet(Considered(i.lines)) /\ IsFiniteSet(Normalized(i).matched)
           /\ Normalized(i).noteCount \in Nat
           /\ Cardinality(Normalized(i).matched) \in Nat
           /\ Normalized(i).prerelease \in BOOLEAN /\ Normalized(i).zeroMajor \in BOOLEAN
           /\ Normalized(i).matched # {} =>
                Normalized(i).noteCount > 0 /\ Cardinality(Normalized(i).matched) > 0
<1>1. IsFiniteSet(Considered(i.lines))
  <2>1. Considered(i.lines) \subseteq 1 .. Len(i.lines)
    BY DEF Considered, NotesUpTo
  <2>2. IsFiniteSet(1 .. Len(i.lines))
    BY FS_Interval DEF ReleaseInputs
  <2>. QED BY <2>1, <2>2, FS_Subset
<1>2. IsFiniteSet(Normalized(i).matched)
  <2>1. Normalized(i).matched \subseteq Keywords
    BY DEF Normalized
  <2>. QED BY <2>1, ReadinessConstants, FS_Subset
<1>3. /\ Normalized(i).noteCount = Cardinality(Considered(i.lines))
      /\ Normalized(i).prerelease \in BOOLEAN /\ Normalized(i).zeroMajor \in BOOLEAN
  BY DEF Normalized, ReleaseInputs
<1>4. Normalized(i).matched # {} => Considered(i.lines) # {}
  BY DEF Normalized
<1>. QED BY <1>1, <1>2, <1>3, <1>4, FS_CardinalityType, FS_EmptySet

\* A score is a number.
LEMMA ScoreType == ASSUME NEW i \in ReleaseInputs PROVE Score(Normalized(i)) \in Nat
<1>. QED BY NormalizedType DEF Score, Weight

\* Fewer notes never score more.
LEMMA PrefixScores ==
    ASSUME NEW i \in ReleaseInputs, NEW k \in 0 .. Len(i.lines),
           NEW s, s = [i EXCEPT !.lines = SubSeq(@, 1, k)]
    PROVE  s \in ReleaseInputs /\ Score(Normalized(s)) <= Score(Normalized(i))
<1>1. i.lines \in Seq(NoteLines)
  BY DEF ReleaseInputs
<1>2. SubSeq(i.lines, 1, k) \in Seq(NoteLines)
  BY <1>1
<1>3. /\ s \in ReleaseInputs /\ s.lines = SubSeq(i.lines, 1, k)
      /\ s.prerelease = i.prerelease /\ s.zeroMajor = i.zeroMajor
  BY <1>2 DEF ReleaseInputs
<1>4. /\ Considered(s.lines) \subseteq Considered(i.lines)
      /\ \A j \in Considered(s.lines) : s.lines[j] = i.lines[j]
  BY <1>1, <1>3, PrefixConsidered
<1>5. Normalized(s).matched \subseteq Normalized(i).matched
  BY <1>4 DEF Normalized
<1>6. Cardinality(Normalized(s).matched) <= Cardinality(Normalized(i).matched)
  BY <1>5, NormalizedType, FS_Subset
<1>7. Normalized(s).noteCount <= Normalized(i).noteCount
  <2>1. Cardinality(Considered(s.lines)) <= Cardinality(Considered(i.lines))
    BY <1>4, NormalizedType, FS_Subset
  <2>. QED BY <2>1 DEF Normalized
<1>8. /\ Normalized(s).prerelease = Normalized(i).prerelease
      /\ Normalized(s).zeroMajor = Normalized(i).zeroMajor
  BY <1>3 DEF Normalized
<1>9. /\ Normalized(s).noteCount \in Nat /\ Normalized(i).noteCount \in Nat
      /\ Cardinality(Normalized(s).matched) \in Nat /\ Cardinality(Normalized(i).matched) \in Nat
  BY <1>3, NormalizedType
<1>10. PICK w \in Nat : w = Weight(Normalized(s).prerelease, 3)
                            + Weight(Normalized(s).zeroMajor, 1)
  BY DEF Weight
<1>11. /\ Score(Normalized(s)) = w + Weight(Normalized(s).noteCount > 0, 1)
                                   + 2 * Cardinality(Normalized(s).matched)
       /\ Score(Normalized(i)) = w + Weight(Normalized(i).noteCount > 0, 1)
                                   + 2 * Cardinality(Normalized(i).matched)
  BY <1>8, <1>10 DEF Score, Weight
<1>12. Weight(Normalized(s).noteCount > 0, 1) <= Weight(Normalized(i).noteCount > 0, 1)
  BY <1>7, <1>9 DEF Weight
<1>13. Weight(Normalized(s).noteCount > 0, 1) \in Nat
       /\ Weight(Normalized(i).noteCount > 0, 1) \in Nat
  BY DEF Weight
<1>. QED BY <1>3, <1>6, <1>9, <1>11, <1>12, <1>13

\* A higher score asks for no less.
LEMMA ChecklistGrows ==
    ASSUME NEW m \in Nat, NEW n \in Nat, m <= n
    PROVE  Checklist(Level(m)) \subseteq Checklist(Level(n))
<1>. QED BY DEF Checklist, Level

\* What the property says of the checklist holds of the one that is computed.
LEMMA ComputedFits ==
    ASSUME NEW i \in ReleaseInputs, NEW n, n = Normalized(i),
           NEW list, list = Checklist(Level(Score(n)))
    PROVE  /\ n.matched # {} => "rollback-plan" \in list
           /\ Cardinality(n.matched) >= 2 \/ (n.matched # {} /\ n.prerelease)
              => "security-review" \in list
           /\ \A k \in 0 .. Len(i.lines) :
                 Checklist(Level(Score(Normalized([i EXCEPT !.lines = SubSeq(@, 1, k)]))))
                   \subseteq list
<1>1. /\ n.noteCount \in Nat /\ Cardinality(n.matched) \in Nat /\ IsFiniteSet(n.matched)
      /\ n.matched # {} => n.noteCount > 0 /\ Cardinality(n.matched) > 0
  BY NormalizedType
<1>2. n.matched = {} => Cardinality(n.matched) = 0
  BY FS_EmptySet
<1>3. n.matched # {} => Score(n) >= 3
  BY <1>1 DEF Score, Weight
<1>4. Cardinality(n.matched) >= 2 \/ (n.matched # {} /\ n.prerelease) => Score(n) >= 5
  BY <1>1, <1>2 DEF Score, Weight
<1>5. ASSUME NEW k \in 0 .. Len(i.lines)
      PROVE  Checklist(Level(Score(Normalized([i EXCEPT !.lines = SubSeq(@, 1, k)]))))
               \subseteq list
  <2>1. PICK s : s = [i EXCEPT !.lines = SubSeq(@, 1, k)]
    OBVIOUS
  <2>2. s \in ReleaseInputs /\ Score(Normalized(s)) <= Score(n)
    BY <2>1, PrefixScores
  <2>3. Score(Normalized(s)) \in Nat /\ Score(n) \in Nat
    BY <2>2, ScoreType
  <2>. QED BY <2>1, <2>2, <2>3, ChecklistGrows
<1>6. Score(n) \in Nat
  BY ScoreType
<1>7. n.matched # {} => "rollback-plan" \in list
  BY <1>3, <1>6 DEF Checklist, Level
<1>8. Cardinality(n.matched) >= 2 \/ (n.matched # {} /\ n.prerelease)
        => "security-review" \in list
  BY <1>4, <1>6 DEF Checklist, Level
<1>. QED BY <1>5, <1>7, <1>8

-----------------------------------------------------------------------------
(* The run of release-readiness *)

\* From its fifth await on, an assessment holds the checklist of its own input.
Assessed ==
    /\ input \in ReleaseInputs /\ stage \in 0 .. 7 /\ failed \in BOOLEAN
    /\ stage = 6 \/ (stage = 7 /\ ~failed) =>
          checklist = Checklist(Level(Score(Normalized(input))))

LEMMA AssessedStep == Assessed /\ [Next]_catalogVars => Assessed'
<1>. SUFFICES ASSUME Assessed, [Next]_catalogVars PROVE Assessed'
  OBVIOUS
<1>. USE DEF Assessed
<1>1. CASE UNCHANGED release
  BY <1>1 DEF release
<1>2. ASSUME NEW i \in Inputs, Start(i) PROVE Assessed'
  <2>1. i \in ReleaseInputs
    BY CatalogConstants DEF ReleaseInputs
  <2>. QED BY <1>2, <2>1 DEF Start
<1>3. ASSUME NEW ok \in BOOLEAN, Advance(ok) PROVE Assessed'
  <2>1. /\ stage \in 1 .. 6 /\ input' = input /\ failed' \in BOOLEAN
        /\ \/ failed' = TRUE /\ stage' = 7
           \/ failed' = FALSE /\ stage' = stage + 1
    <3>1. Len(Awaits) = 6
      BY DEF Awaits
    <3>2. PICK refused \in BOOLEAN :
            refused <=> ~ok \/ signalled \/ (stage = 1 /\ ~input.valid)
      OBVIOUS
    <3>3. /\ stage \in 1 .. 6 /\ input' = input
          /\ failed' = refused
      BY <1>3, <3>1, <3>2 DEF Advance
    <3>4. stage' = IF refused THEN 7 ELSE stage + 1
      BY <1>3, <3>1, <3>2 DEF Advance
    <3>5. CASE refused = TRUE
      BY <3>3, <3>4, <3>5
    <3>6. CASE refused = FALSE
      BY <3>3, <3>4, <3>6
    <3>. QED BY <3>2, <3>5, <3>6
  <2>2. /\ stage = 5 => checklist' = Checklist(Level(Score(Normalized(input))))
        /\ stage # 5 => checklist' = checklist
    BY <1>3 DEF Advance
  <2>3. failed' \in BOOLEAN /\ stage' \in 0 .. 7
    BY <2>1
  <2>4. ASSUME stage' = 6 \/ (stage' = 7 /\ ~failed')
        PROVE  checklist' = Checklist(Level(Score(Normalized(input))))
    BY <2>1, <2>2, <2>4
  <2>. QED BY <2>1, <2>3, <2>4
<1>. QED
  BY <1>1, <1>2, <1>3
  DEF Next, catalogVars, CapabilitiesAppear, CapabilitiesGo, Execute, release

\* Every assessment that returns has a checklist for its risk: whatever the notes are,
\* a keyword asks for a way back, two for the whole list, and a note more for no less.
THEOREM ChecklistsFitRisk == Spec => []ChecklistFitsRisk
<1>1. Init => Assessed
  <2>1. NoInput \in ReleaseInputs
    BY DEF NoInput, ReleaseInputs
  <2>2. ASSUME Init PROVE input \in ReleaseInputs /\ stage = 0 /\ failed = FALSE
    BY <2>1, <2>2 DEF Init
  <2>. QED BY <2>2 DEF Assessed
<1>2. ASSUME Assessed, Returned PROVE ChecklistFitsRisk
  <2>1. stage = 7 /\ ~failed
    BY <1>2 DEF Returned, Awaits
  <2>. QED BY <1>2, <2>1, ComputedFits DEF Assessed, ChecklistFitsRisk
<1>3. Assessed => ChecklistFitsRisk
  BY <1>2 DEF ChecklistFitsRisk
<1>. QED BY <1>1, <1>3, AssessedStep, PTL DEF Spec
=============================================================================
