---------------------------- MODULE WorkflowCatalog ----------------------------
(***************************************************************************)
(* The plugin lightcode-factory-workflows: it registers release-readiness  *)
(* at once and morning-script-demo while the host's capabilities for it    *)
(* are there, and the Runtime executes one run of what is registered.      *)
(* How a registration that goes aborts its runs is in FactoryRuntime; here *)
(* a signal may come at any time.                                          *)
(***************************************************************************)
EXTENDS MorningScript, ReleaseReadiness

CONSTANTS
    DemoEnabled,    \* config.demoEnabled
    Inputs          \* inputs of release-readiness

ASSUME CatalogConstants ==
    /\ DemoEnabled \in BOOLEAN
    /\ \A i \in Inputs : i \in [valid : BOOLEAN, prerelease : BOOLEAN, zeroMajor : BOOLEAN,
                                lines : Seq(NoteLines)]

VARIABLES
    registered,     \* workflows that the Runtime offers
    capable,        \* agents, default model, sandbox, its policy and subprocess are there
    input,          \* release-readiness: its input,
    stage,          \* the await it is at, by number; 0 before, Len(Awaits) + 1 after,
    checklist,      \* its last node's output, and
    failed          \* whether it has thrown

release == <<input, stage, checklist, failed>>
catalogVars == <<scriptVars, registered, capable, release>>

-----------------------------------------------------------------------------
(* apply: one registration, and one that follows the capabilities *)

CapabilitiesAppear ==
    /\ ~capable /\ capable' = TRUE
    /\ registered' = IF DemoEnabled THEN registered \cup {"morning-script-demo"} ELSE registered
    /\ UNCHANGED <<scriptVars, release>>

\* The bound registration is disposed.  Bound: not during a run, which sees only a signal.
CapabilitiesGo ==
    /\ capable /\ capable' = FALSE
    /\ pc \in {"none", "done"}
    /\ registered' = registered \ {"morning-script-demo"}
    /\ UNCHANGED <<scriptVars, release>>

-----------------------------------------------------------------------------
(* release-readiness: each of its three nodes logs, computes and reports *)

Awaits == << "normalize-input log", "normalize-input report", "assess-risk log",
             "assess-risk report", "build-checklist log", "build-checklist report" >>

Start(i) ==
    /\ stage = 0
    /\ stage' = 1 /\ input' = i
    /\ UNCHANGED <<scriptVars, registered, capable, checklist, failed>>

\* The await settles; the signal is looked at after each.
Advance(ok) ==
    LET refused == ~ok \/ signalled \/ (stage = 1 /\ ~input.valid) IN
    /\ stage \in 1 .. Len(Awaits)
    /\ failed' = refused
    /\ stage' = IF refused THEN Len(Awaits) + 1 ELSE stage + 1
    /\ checklist' = IF stage = 5 THEN Checklist(Level(Score(Normalized(input)))) ELSE checklist
    /\ UNCHANGED <<scriptVars, registered, capable, input>>

-----------------------------------------------------------------------------

NoInput == [valid |-> FALSE, prerelease |-> FALSE, zeroMajor |-> FALSE, lines |-> << >>]

Init ==
    /\ ScriptInit
    /\ registered = {"release-readiness"} /\ capable = FALSE
    /\ input = NoInput /\ stage = 0 /\ checklist = {} /\ failed = FALSE

\* Bound: one run, of one of the workflows.
Execute ==
    /\ pc = "none" /\ stage = 0
    /\ \/ /\ "morning-script-demo" \in registered
          /\ Begin /\ UNCHANGED <<registered, capable, release>>
       \/ /\ "release-readiness" \in registered
          /\ \E i \in Inputs : Start(i)

Next ==
    \/ CapabilitiesAppear \/ CapabilitiesGo
    \/ Execute
    \/ (pc # "none" /\ ScriptNext) /\ UNCHANGED <<registered, capable, release>>
    \/ (stage # 0 /\ Signal) /\ UNCHANGED <<registered, capable, release>>
    \/ \E ok \in BOOLEAN : Advance(ok)

Spec == Init /\ [][Next]_catalogVars
FairSpec == Spec /\ ScriptFairness

-----------------------------------------------------------------------------
(* Properties *)

Returned == stage = Len(Awaits) + 1 /\ ~failed

\* The checklist of an assessment that returns covers its risk: a keyword asks for a way
\* back, two of them or one of a prerelease for the whole list; and a note more never
\* makes it shorter.
ChecklistFitsRisk ==
    Returned =>
        LET n == Normalized(input)
            shorter(k) == [input EXCEPT !.lines = SubSeq(@, 1, k)] IN
        /\ n.matched # {} => "rollback-plan" \in checklist
        /\ Cardinality(n.matched) >= 2 \/ (n.matched # {} /\ n.prerelease)
           => "security-review" \in checklist
        /\ \A k \in 0 .. Len(input.lines) :
              Checklist(Level(Score(Normalized(shorter(k))))) \subseteq checklist
=============================================================================
