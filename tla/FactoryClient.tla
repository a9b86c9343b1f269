--------------------------- MODULE FactoryClient ---------------------------
(***************************************************************************)
(* The browser's projection of the host's runs: a list that is replaced by *)
(* the first page on every poll, extended by loadMore(), corrected by the  *)
(* answer of getRun() and of the commands, and the form that starts runs.  *)
(*                                                                         *)
(* A remote call is sent, served by the host and answered in three steps,  *)
(* so calls in flight overtake each other; any of them may fail, before    *)
(* the host has acted or after.  Runs are numbered in creation order, the  *)
(* order of the list; a view of a run is its version.                      *)
(*                                                                         *)
(* A definition whose name ends in Mutant is the definition after it with  *)
(* a plausible mistake in it; no specification uses it.                    *)
(***************************************************************************)
EXTENDS Integers, FiniteSets, FiniteSetsExt

CONSTANTS
    MaxRuns,        \* bound: runs ever created
    MaxVersion,     \* bound: changes of a run
    MaxFailures,    \* bound: remote calls that fail
    PageSize,       \* PAGE_SIZE
    Polls,          \* refresh() calls that may be in flight at once
    Users           \* calls of the board that may be in flight at once

ASSUME ClientConstants ==
    /\ MaxRuns \in Nat \ {0} /\ MaxVersion \in Nat \ {0} /\ MaxFailures \in Nat
    /\ PageSize \in Nat \ {0} /\ Polls \cap Users = {}

Runs  == 1 .. MaxRuns
Calls == Polls \cup Users
None  == 0                  \* undefined: no cursor

VARIABLES
    stored,         \* host: the version of each run, 0 before it is created
    failures,       \* calls that have failed so far
    shown,          \* value.runs: the versions shown
    cursor,         \* value.nextCursor
    loadingMore,    \* value.loadingMore
    phase,          \* value.phase
    error,          \* value.error is set
    submitting,     \* FactoryBoard: submitting
    calls           \* the remote calls in flight

vars == <<stored, failures, shown, cursor, loadingMore, phase, error, submitting, calls>>

Created == {r \in Runs : stored[r] > 0}
Newest  == MaxRuns + 1      \* before: a page from the newest run on

-----------------------------------------------------------------------------
(* Remote calls *)

Waiting == [is |-> "waiting"]
Failure == [is |-> "failure"]
Nothing == [r \in {} |-> 0]
One(r, version) == [q \in {r} |-> version]

\* at: the await the call is in; arg: its cursor or its run; form: it is the form's;
\* view: the aggregate that a command returned.
Idle == [at |-> "none", arg |-> None, form |-> FALSE, reply |-> Waiting, view |-> Nothing]
Call(at, arg) == [Idle EXCEPT !.at = at, !.arg = arg]

\* The cursor is the first run left out, which the next page then skips.
PageMutant(before) ==
    LET older  == {r \in Created : r < before}
        page   == {r \in older : Cardinality({q \in older : q > r}) < PageSize}
    IN  [is |-> "page", runs |-> [r \in page |-> stored[r]],
         next |-> IF page = older THEN None ELSE Max(older \ page)]

Page(before) ==
    LET older  == {r \in Created : r < before}
        page   == {r \in older : Cardinality({q \in older : q > r}) < PageSize}
    IN  [is |-> "page", runs |-> [r \in page |-> stored[r]],
         next |-> IF page = older THEN None ELSE Min(page)]

\* A page of the list, or one run.
Read(call) ==
    CASE call.at \in {"refresh", "renew"} -> Page(Newest)
      [] call.at = "more" -> Page(call.arg)
      [] OTHER -> [is |-> "run", runs |-> One(call.arg, stored[call.arg])]

Send(s, call) ==
    /\ calls[s] = Idle
    /\ calls' = [calls EXCEPT ![s] = call]

\* apply(): at once and on every tick of the interval; also the refresh button.
Poll(s) ==
    /\ s \in Polls
    /\ Send(s, Call("refresh", None))
    /\ UNCHANGED <<stored, failures, shown, cursor, loadingMore, phase, error, submitting>>

LoadMore(s) ==
    /\ s \in Users
    /\ cursor # None
    /\ ~loadingMore
    /\ Send(s, Call("more", cursor))
    /\ loadingMore' = TRUE
    /\ error' = FALSE
    /\ UNCHANGED <<stored, failures, shown, cursor, phase, submitting>>

\* A card of the board is opened, or its run is cancelled or reviewed.
GetRun(s, r) ==
    /\ s \in Users
    /\ r \in DOMAIN shown
    /\ Send(s, Call("get", r))
    /\ UNCHANGED <<stored, failures, shown, cursor, loadingMore, phase, error, submitting>>

Act(s, r) ==
    /\ s \in Users
    /\ r \in DOMAIN shown
    /\ Send(s, Call("act", r))
    /\ UNCHANGED <<stored, failures, shown, cursor, loadingMore, phase, error, submitting>>

SubmitTask(s) ==
    /\ s \in Users
    /\ ~submitting
    /\ Send(s, [Call("start", None) EXCEPT !.form = TRUE])
    /\ submitting' = TRUE
    /\ UNCHANGED <<stored, failures, shown, cursor, loadingMore, phase, error>>

-----------------------------------------------------------------------------
(* The host: another client or an execution changes runs, and it serves calls *)

NextRun == Cardinality(Created) + 1       \* the run created next

HostCreates ==
    /\ NextRun \in Runs
    /\ stored' = [stored EXCEPT ![NextRun] = 1]
    /\ UNCHANGED <<failures, shown, cursor, loadingMore, phase, error, submitting, calls>>

HostChanges(r) ==
    /\ r \in Created /\ stored[r] < MaxVersion
    /\ stored' = [stored EXCEPT ![r] = @ + 1]
    /\ UNCHANGED <<failures, shown, cursor, loadingMore, phase, error, submitting, calls>>

\* The host acts on a start or on a command.
Performed(call) ==
    CASE call.at = "start" -> stored' = [stored EXCEPT ![NextRun] = 1]
      [] call.at = "act"   -> stored' = [stored EXCEPT ![call.arg] = @ + 1]
      [] OTHER             -> UNCHANGED stored

MayPerform(call) ==
    CASE call.at = "start" -> NextRun \in Runs
      [] call.at = "act"   -> stored[call.arg] < MaxVersion
      [] OTHER             -> TRUE

Result(call) ==
    IF call.at = "start" THEN [is |-> "run", runs |-> One(NextRun, 1)]
    ELSE IF call.at = "act" THEN [is |-> "run", runs |-> One(call.arg, stored[call.arg] + 1)]
    ELSE Read(call)

Answered(s, reply) == calls' = [calls EXCEPT ![s].reply = reply]

Serve(s) ==
    /\ calls[s] # Idle /\ calls[s].at # "upsert" /\ calls[s].reply = Waiting
    /\ IF MayPerform(calls[s])
       THEN Performed(calls[s]) /\ Answered(s, Result(calls[s]))
       ELSE UNCHANGED stored /\ Answered(s, Failure)
    /\ UNCHANGED <<failures, shown, cursor, loadingMore, phase, error, submitting>>

\* The call fails, before or after the host has acted.
Fail(s) ==
    /\ calls[s] # Idle /\ calls[s].at # "upsert" /\ calls[s].reply = Waiting
    /\ failures < MaxFailures
    /\ failures' = failures + 1
    /\ \/ UNCHANGED stored
       \/ MayPerform(calls[s]) /\ Performed(calls[s])
    /\ Answered(s, Failure)
    /\ UNCHANGED <<shown, cursor, loadingMore, phase, error, submitting>>

-----------------------------------------------------------------------------
(* What the client does with an answer *)

Over(s) == calls' = [calls EXCEPT ![s] = Idle]

\* The list with runs put into it, over what it shows of them.
Inserting(runs) ==
    shown' = [r \in DOMAIN runs \cup DOMAIN shown |->
                 IF r \in DOMAIN runs THEN runs[r] ELSE shown[r]]

\* Keeps the runs loaded earlier.
ReplacedMutant(reply) == Inserting(reply.runs)
Replaced(reply) == shown' = reply.runs

RefreshAnswered(s) ==
    LET reply == calls[s].reply
    IN  /\ calls[s].at \in {"refresh", "renew"}
        /\ reply # Waiting
        /\ loadingMore' = FALSE
        /\ IF reply = Failure
           THEN /\ phase' = "error" /\ error' = TRUE
                /\ UNCHANGED <<shown, cursor>>
           ELSE /\ Replaced(reply)
                /\ cursor' = reply.next
                /\ phase' = "ready" /\ error' = FALSE
        /\ IF calls[s].at = "renew"
           THEN calls' = [calls EXCEPT ![s].at = "upsert", ![s].reply = Waiting]
           ELSE Over(s)
        /\ UNCHANGED <<stored, failures, submitting>>

\* A failed loadMore() leaves loadingMore set.
MoreFailedMutant == loadingMore' = loadingMore
MoreFailed == loadingMore' = FALSE

MoreAnswered(s) ==
    LET reply == calls[s].reply
    IN  /\ calls[s].at = "more"
        /\ reply # Waiting
        /\ IF reply = Failure
           THEN /\ MoreFailed /\ error' = TRUE
                /\ UNCHANGED <<shown, cursor>>
           ELSE /\ Inserting(reply.runs)
                /\ cursor' = reply.next
                /\ loadingMore' = FALSE /\ error' = FALSE
        /\ Over(s)
        /\ UNCHANGED <<stored, failures, phase, submitting>>

GetAnswered(s) ==
    /\ calls[s].at = "get"
    /\ calls[s].reply # Waiting
    /\ IF calls[s].reply = Failure THEN UNCHANGED shown
       ELSE Inserting(calls[s].reply.runs)
    /\ Over(s)
    /\ UNCHANGED <<stored, failures, cursor, loadingMore, phase, error, submitting>>

\* Only a start that succeeds frees the form.
FreedMutant(call) == submitting' = (submitting /\ (~call.form \/ call.reply = Failure))
Freed(call) == submitting' = (submitting /\ ~call.form)

\* command(): a failure is thrown to the board; otherwise the list is refreshed.
CommandAnswered(s) ==
    LET call == calls[s]
    IN  /\ call.at \in {"start", "act"}
        /\ call.reply # Waiting
        /\ IF call.reply = Failure
           THEN Over(s) /\ Freed(call)
           ELSE /\ calls' = [calls EXCEPT ![s].at = "renew", ![s].reply = Waiting,
                                          ![s].view = call.reply.runs]
                /\ UNCHANGED submitting
        /\ UNCHANGED <<stored, failures, shown, cursor, loadingMore, phase, error>>

\* command() after its refresh.
Upsert(s) ==
    /\ calls[s].at = "upsert"
    /\ Inserting(calls[s].view)
    /\ Over(s)
    /\ Freed(calls[s])
    /\ UNCHANGED <<stored, failures, cursor, loadingMore, phase, error>>

-----------------------------------------------------------------------------
Init ==
    /\ stored = [r \in Runs |-> 0]
    /\ failures = 0
    /\ shown = Nothing /\ cursor = None /\ loadingMore = FALSE
    /\ phase = "loading" /\ error = FALSE
    /\ submitting = FALSE
    /\ calls = [s \in Calls |-> Idle]

Answer(s) == RefreshAnswered(s) \/ MoreAnswered(s) \/ GetAnswered(s)
             \/ CommandAnswered(s) \/ Upsert(s)

Next ==
    \/ HostCreates
    \/ \E r \in Runs : HostChanges(r)
    \/ \E s \in Calls :
          \/ Poll(s) \/ LoadMore(s)
          \/ \E r \in Runs : GetRun(s, r) \/ Act(s, r)
          \/ SubmitTask(s)
          \/ Serve(s) \/ Fail(s) \/ Answer(s)

Spec == Init /\ [][Next]_vars

\* The interval goes on; a call that is sent is answered and its promise goes on.
\* Nothing obliges the host's runs to change or the user to act.
FairSpec ==
    /\ Spec
    /\ \A s \in Calls : /\ WF_vars(Poll(s))
                        /\ WF_vars(Serve(s) \/ Fail(s))
                        /\ WF_vars(Answer(s))

-----------------------------------------------------------------------------
\* The button that loads more is disabled only while a loadMore() is in flight, whatever
\* polls and failures come between: loadingMore is reset on every way out of the call.
LoadingMeansCall == loadingMore => \E s \in Users : calls[s].at = "more"

Fresh ==
    /\ phase = "ready" /\ ~error
    /\ DOMAIN Page(Newest).runs \subseteq DOMAIN shown
    /\ \A r \in DOMAIN shown : shown[r] = stored[r]

\* Once the host's runs no longer change, the list ends up showing them as they are and the
\* newest of them, with no error: answers that overtake each other, failed calls and
\* aggregates inserted after a newer refresh are all corrected by the polls.
Converges == <>[]Fresh

\* No run is left out between what is shown and where loadMore() continues.
Contiguous ==
    \A r \in Created : r >= cursor /\ (\E q \in DOMAIN shown : q >= r) => r \in DOMAIN shown

Ended(s) == calls[s] # Idle /\ calls'[s] = Idle

\* A refresh is answered with the first page.
Refreshed(s) ==
    /\ calls[s].at \in {"refresh", "renew"} /\ calls[s].reply \notin {Waiting, Failure}
    /\ calls'[s].at # calls[s].at

\* The cursor has moved while the next page was on its way.
Overtaken(s) == calls[s].at = "more" /\ calls[s].arg # cursor /\ Ended(s)

\* The answer of getRun() or of a command puts a run into the list.
Inserted(s) == calls[s].at \in {"get", "upsert"} /\ Ended(s)

\* Pages meet, whatever runs are created or change while they are fetched: a refresh always
\* leaves a list without a gap, and a list gets one only from a page that a refresh has
\* overtaken, or from a run inserted beside the pages.
PagesMeet ==
    [][(Contiguous \/ \E s \in Calls : Refreshed(s)) /\ ~Contiguous'
         => \E s \in Users : Overtaken(s) \/ Inserted(s)]_vars

\* A submitted form becomes free again, whether its start succeeds or fails.
FormFrees == submitting ~> ~submitting
=============================================================================
