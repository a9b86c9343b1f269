--------------------------- MODULE ReleaseReadiness ---------------------------
(***************************************************************************)
(* The assessment of the workflow release-readiness: from its input to the *)
(* level of risk and the checklist.  A line of the notes is blank or the   *)
(* set of the RISK_KEYWORDS that it matches; of the version, only whether  *)
(* it is well-formed, a prerelease and of major version 0 is kept.         *)
(*                                                                         *)
(* A definition whose name ends in Mutant is the definition after it with  *)
(* a plausible mistake in it; no specification uses it.                    *)
(***************************************************************************)
EXTENDS Naturals, Sequences, FiniteSets

CONSTANTS
    Keywords,       \* the codes of RISK_KEYWORDS
    NoteLimit,      \* notes that are considered (50)
    Blank           \* a line of white space

ASSUME ReadinessConstants ==
    /\ IsFiniteSet(Keywords) /\ NoteLimit \in Nat \ {0}
    /\ \A line \in SUBSET Keywords : line # Blank

NoteLines == (SUBSET Keywords) \cup {Blank}

\* normalizeInput: the first NoteLimit lines that are not blank
NotesUpTo(lines, i) == {j \in 1 .. i : lines[j] # Blank}
Considered(lines) ==
    {i \in NotesUpTo(lines, Len(lines)) : Cardinality(NotesUpTo(lines, i)) <= NoteLimit}

Normalized(input) ==
    LET notes == Considered(input.lines) IN
    [prerelease |-> input.prerelease, zeroMajor |-> input.zeroMajor,
     noteCount |-> Cardinality(notes),
     matched |-> {k \in Keywords : \E i \in notes : k \in input.lines[i]}]

\* assessRisk
Weight(holds, weight) == IF holds THEN weight ELSE 0

Score(n) ==
    Weight(n.prerelease, 3) + Weight(n.noteCount > 0, 1) + Weight(n.zeroMajor, 1)
    + 2 * Cardinality(n.matched)

LevelMutant(score) == IF score > 5 THEN "high" ELSE IF score > 2 THEN "medium" ELSE "low"
Level(score) == IF score >= 5 THEN "high" ELSE IF score >= 2 THEN "medium" ELSE "low"

\* buildChecklist
Base == {"typecheck", "tests", "build", "pack", "isolated-install", "review-signoff"}

Checklist(level) ==
    Base \cup (IF level # "low" THEN {"rollback-plan", "migration-notes"} ELSE {})
         \cup (IF level = "high" THEN {"staged-rollout", "data-backup", "security-review"} ELSE {})
=============================================================================
