--------------------------- MODULE AtomicUpdates ---------------------------
(***************************************************************************)
(* What LightcodeFactoryRuntime.update promises its callers about one run: *)
(* updates take effect one at a time and in the order they were asked for, *)
(* each on the value its predecessor left; one that is refused, or that    *)
(* the repository fails, leaves the value alone and stops none that        *)
(* follows.  FactoryRuntime uses update() in this form (its variable       *)
(* mutations and its action Committing).                                   *)
(***************************************************************************)
EXTENDS Sequences, Naturals

CONSTANTS
    Updates,    \* calls of update() for the run
    Rejects     \* <<u, v>>: the change of u throws once v has been applied

VARIABLES
    calls,      \* the updates asked for, in order
    value,      \* the run, as the sequence of updates applied to it
    reply       \* what each caller is told, "none" before

Refuses(u, log) == \E i \in DOMAIN log : <<u, log[i]>> \in Rejects
Asked(u)  == \E i \in DOMAIN calls : calls[i] = u

\* Everything asked for before u has its reply.
Turn(u) ==
    \E i \in DOMAIN calls :
        /\ calls[i] = u /\ reply[u] = "none"
        /\ \A j \in DOMAIN calls : j < i => reply[calls[j]] # "none"

Init ==
    /\ calls = << >> /\ value = << >>
    /\ reply = [u \in Updates |-> "none"]

Ask(u) ==
    /\ ~Asked(u)
    /\ calls' = Append(calls, u)
    /\ UNCHANGED <<value, reply>>

Apply(u) ==
    /\ Turn(u) /\ ~Refuses(u, value)
    /\ value' = Append(value, u)
    /\ reply' = [reply EXCEPT ![u] = "saved"]
    /\ UNCHANGED calls

Refuse(u) ==
    /\ Turn(u) /\ Refuses(u, value)
    /\ reply' = [reply EXCEPT ![u] = "refused"]
    /\ UNCHANGED <<calls, value>>

Fail(u) ==
    /\ Turn(u)
    /\ reply' = [reply EXCEPT ![u] = "failed"]
    /\ UNCHANGED <<calls, value>>

\* The process dies: only the value remains.
Crash ==
    /\ reply' = [u \in Updates |-> IF Asked(u) /\ reply[u] = "none" THEN "lost" ELSE reply[u]]
    /\ UNCHANGED <<calls, value>>

Next == Crash \/ \E u \in Updates : Ask(u) \/ Apply(u) \/ Refuse(u) \/ Fail(u)

Spec == Init /\ [][Next]_<<calls, value, reply>>
=============================================================================
