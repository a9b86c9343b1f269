------------------------ MODULE FactoryClientProofs ------------------------
(***************************************************************************)
(* The flags with which the page disables its buttons follow the calls in  *)
(* flight, and the pages of its list meet, for any number of runs, polls   *)
(* and calls of the board, whichever fail and whichever overtakes another. *)
(*                                                                         *)
(* LoadingMeansCall is inductive once each step is known to end one call   *)
(* at most.  That the form is disabled exactly while its start, or the     *)
(* refresh after it, is in flight needs that the calls of the form are of  *)
(* these kinds only (FormCalls) and that there is one of them (FormOne):   *)
(* the first of two to end would free the form.                            *)
(*                                                                         *)
(* PagesMeet: the runs a host has are the first n, the answer in flight is *)
(* a page of them without a gap above where it ends (PageIs), and stays    *)
(* one while runs are created, since they are newer than all it shows      *)
(* (FitsGrown); so a page that goes on at the cursor closes the list.      *)
(***************************************************************************)
EXTENDS FactoryClient, FiniteSetTheorems, TLAPS

Fields == {"at", "arg", "form", "reply", "view"}

CallsOK ==
    /\ DOMAIN calls = Calls
    /\ \A s \in Calls : DOMAIN calls[s] = Fields

FormCall(s) == calls[s].form
FormCalls   == \A s \in Calls : FormCall(s) => calls[s].at \in {"start", "renew", "upsert"}
FormOne     == \A s, t \in Calls : FormCall(s) /\ FormCall(t) => s = t
FormHeld    == submitting <=> \E s \in Calls : FormCall(s)

FlagsInv == CallsOK /\ LoadingMeansCall /\ FormCalls /\ FormOne /\ FormHeld

-----------------------------------------------------------------------------
(* What a step does to the calls and the flags *)

\* The slot s holds another call, and no other slot changes.
Turns(s, call) ==
    /\ DOMAIN call = Fields
    /\ calls' = [calls EXCEPT ![s] = call]

\* A free slot takes a call that is not the form's.
Takes(s, call) ==
    /\ calls[s] = Idle /\ ~call.form
    /\ \/ loadingMore' = loadingMore
       \/ s \in Users /\ call.at = "more"
    /\ submitting' = submitting

\* A free slot takes the call of the form.
Submits(s, call) ==
    /\ calls[s] = Idle /\ call.form /\ call.at = "start"
    /\ ~submitting /\ submitting'
    /\ loadingMore' = loadingMore

\* A call goes on, and loadingMore may be reset.
GoesOn(s, call) ==
    /\ call.form = calls[s].form
    /\ \/ call.at = calls[s].at
       \/ calls[s].at # "more" /\ call.at \in {"renew", "upsert"}
    /\ loadingMore' = loadingMore \/ ~loadingMore'
    /\ submitting' = submitting

\* A call ends: a "more" resets loadingMore, and a call of the form frees it.
Ends(s, call) ==
    /\ call = Idle
    /\ \/ ~loadingMore'
       \/ loadingMore' = loadingMore /\ calls[s].at # "more"
    /\ submitting' <=> submitting /\ ~FormCall(s)

LEMMA CallSteps ==
    ASSUME FlagsInv, [Next]_vars
    PROVE  \/ UNCHANGED <<calls, loadingMore, submitting>>
           \/ \E s \in Calls : \E call :
                 /\ Turns(s, call)
                 /\ Takes(s, call) \/ Submits(s, call) \/ GoesOn(s, call) \/ Ends(s, call)
<1>. USE DEF Turns
<1>. DEFINE Outcome(s) == \E call :
                 /\ Turns(s, call)
                 /\ Takes(s, call) \/ Submits(s, call) \/ GoesOn(s, call) \/ Ends(s, call)
<1>0. /\ \A s \in Calls : DOMAIN calls[s] = Fields
      /\ DOMAIN calls = Calls
      /\ DOMAIN Idle = Fields
      /\ Idle.form = FALSE
  BY DEF FlagsInv, CallsOK, Idle, Fields
<1>1. ASSUME NEW s \in Calls, Poll(s) \/ LoadMore(s) \/ \E r \in Runs : GetRun(s, r) \/ Act(s, r)
      PROVE  Outcome(s)
  <2>1. PICK at, arg : Send(s, Call(at, arg)) /\ submitting' = submitting
                       /\ (loadingMore' = loadingMore \/ (s \in Users /\ at = "more"))
    BY <1>1 DEF Poll, LoadMore, GetRun, Act
  <2>2. /\ DOMAIN Call(at, arg) = Fields
        /\ Call(at, arg).form = FALSE
        /\ Call(at, arg).at = at
    BY DEF Call, Idle, Fields
  <2>3. Turns(s, Call(at, arg)) /\ Takes(s, Call(at, arg))
    BY <2>1, <2>2 DEF Send, Takes
  <2>. QED BY <2>3
<1>2. ASSUME NEW s \in Calls, SubmitTask(s)
      PROVE  Outcome(s)
  <2>. DEFINE call == [Call("start", None) EXCEPT !.form = TRUE]
  <2>1. DOMAIN call = Fields /\ call.form = TRUE /\ call.at = "start"
    BY DEF Call, Idle, Fields
  <2>3. Turns(s, call) /\ Submits(s, call)
    BY <1>2, <2>1 DEF SubmitTask, Send, Submits
  <2>. QED BY <2>3
<1>3. ASSUME NEW s \in Calls, Serve(s) \/ Fail(s)
      PROVE  Outcome(s)
  <2>1. PICK reply : Answered(s, reply)
    BY <1>3 DEF Serve, Fail
  <2>. DEFINE call == [calls[s] EXCEPT !.reply = reply]
  <2>2. DOMAIN call = Fields /\ call.form = calls[s].form /\ call.at = calls[s].at
    BY <1>0 DEF Fields
  <2>3. Turns(s, call)
    BY <2>1, <2>2 DEF Answered
  <2>4. UNCHANGED <<loadingMore, submitting>>
    BY <1>3 DEF Serve, Fail
  <2>5. GoesOn(s, call)
    BY <2>2, <2>4 DEF GoesOn
  <2>. QED BY <2>3, <2>5
<1>4. ASSUME NEW s \in Calls, RefreshAnswered(s)
      PROVE  Outcome(s)
  <2>1. /\ calls[s].at \in {"refresh", "renew"}
        /\ loadingMore' = FALSE /\ submitting' = submitting
        /\ IF calls[s].at = "renew"
           THEN calls' = [calls EXCEPT ![s].at = "upsert", ![s].reply = Waiting]
           ELSE Over(s)
    BY <1>4 DEF RefreshAnswered
  <2>2. CASE calls[s].at = "renew"
    <3>. DEFINE call == [calls[s] EXCEPT !.at = "upsert", !.reply = Waiting]
    <3>1. DOMAIN call = Fields /\ call.form = calls[s].form /\ call.at = "upsert"
      BY <1>0 DEF Fields
    <3>2. Turns(s, call)
      BY <2>1, <2>2, <3>1
    <3>3. GoesOn(s, call)
      BY <2>1, <2>2, <3>1 DEF GoesOn
    <3>. QED BY <3>2, <3>3
  <2>3. CASE calls[s].at = "refresh"
    <3>1. Turns(s, Idle) /\ ~FormCall(s)
      BY <1>0, <2>1, <2>3 DEF Over, FlagsInv, FormCalls
    <3>2. Ends(s, Idle)
      BY <2>1, <3>1 DEF Ends
    <3>. QED BY <3>1, <3>2
  <2>. QED BY <2>1, <2>2, <2>3
<1>5. ASSUME NEW s \in Calls, MoreAnswered(s) \/ GetAnswered(s)
      PROVE  Outcome(s)
  <2>1. /\ Over(s) /\ submitting' = submitting
        /\ calls[s].at \in {"more", "get"}
        /\ ~loadingMore' \/ (loadingMore' = loadingMore /\ calls[s].at # "more")
    BY <1>5 DEF MoreAnswered, GetAnswered, MoreFailed
  <2>2. Turns(s, Idle) /\ ~FormCall(s)
    BY <1>0, <2>1 DEF Over, FlagsInv, FormCalls
  <2>3. Ends(s, Idle)
    BY <2>1, <2>2 DEF Ends
  <2>. QED BY <2>2, <2>3
<1>6. ASSUME NEW s \in Calls, Over(s), Freed(calls[s]), calls[s].at # "more",
             loadingMore' = loadingMore
      PROVE  Outcome(s)
  <2>1. Turns(s, Idle)
    BY <1>0, <1>6 DEF Over
  <2>2. submitting' <=> submitting /\ ~FormCall(s)
    BY <1>6 DEF Freed, FormCall
  <2>3. Ends(s, Idle)
    BY <1>6, <2>2 DEF Ends
  <2>. QED BY <2>1, <2>3
<1>7. ASSUME NEW s \in Calls, CommandAnswered(s)
      PROVE  Outcome(s)
  <2>1. calls[s].at \in {"start", "act"} /\ loadingMore' = loadingMore
    BY <1>7 DEF CommandAnswered
  <2>2. CASE calls[s].reply = Failure
    BY <1>6, <1>7, <2>1, <2>2 DEF CommandAnswered
  <2>3. CASE calls[s].reply # Failure
    <3>. DEFINE call == [calls[s] EXCEPT !.at = "renew", !.reply = Waiting,
                                         !.view = calls[s].reply.runs]
    <3>1. DOMAIN call = Fields /\ call.form = calls[s].form /\ call.at = "renew"
      BY <1>0 DEF Fields
    <3>2. /\ calls' = [calls EXCEPT ![s].at = "renew", ![s].reply = Waiting,
                                    ![s].view = calls[s].reply.runs]
          /\ submitting' = submitting
      BY <1>7, <2>3 DEF CommandAnswered
    <3>3. Turns(s, call)
      BY <3>1, <3>2
    <3>4. GoesOn(s, call)
      BY <2>1, <3>1, <3>2 DEF GoesOn
    <3>. QED BY <3>3, <3>4
  <2>. QED BY <2>2, <2>3
<1>8. ASSUME NEW s \in Calls, Upsert(s)
      PROVE  Outcome(s)
  BY <1>6, <1>8 DEF Upsert
<1>9. HostCreates \/ (\E r \in Runs : HostChanges(r)) \/ UNCHANGED vars
      => UNCHANGED <<calls, loadingMore, submitting>>
  BY DEF HostCreates, HostChanges, vars
<1>. QED
  BY <1>1, <1>2, <1>3, <1>4, <1>5, <1>7, <1>8, <1>9 DEF Next, Answer

-----------------------------------------------------------------------------
LEMMA FlagsInit == Init => FlagsInv
BY DEF Init, FlagsInv, CallsOK, LoadingMeansCall, FormCalls, FormOne, FormHeld, FormCall,
       Idle, Fields

LEMMA FlagsStep == FlagsInv /\ [Next]_vars => FlagsInv'
<1>. SUFFICES ASSUME FlagsInv, [Next]_vars PROVE FlagsInv'
  OBVIOUS
<1>. USE DEF FlagsInv, CallsOK, LoadingMeansCall, FormCalls, FormOne, FormHeld, FormCall
<1>1. CASE UNCHANGED <<calls, loadingMore, submitting>>
  BY <1>1
<1>2. ASSUME NEW s \in Calls, NEW call, Turns(s, call),
             Takes(s, call) \/ Submits(s, call) \/ GoesOn(s, call) \/ Ends(s, call)
      PROVE  FlagsInv'
  <2>1. /\ calls'[s] = call
        /\ \A t \in Calls \ {s} : calls'[t] = calls[t]
        /\ CallsOK'
    BY <1>2 DEF Turns
  <2>2. Idle.at = "none" /\ Idle.form = FALSE
    BY DEF Idle
  <2>3. Users \subseteq Calls
    BY DEF Calls
  <2>4. LoadingMeansCall'
    BY <1>2, <2>1, <2>2, <2>3 DEF Takes, Submits, GoesOn, Ends
  <2>5. FormCalls'
    BY <1>2, <2>1, <2>2 DEF Takes, Submits, GoesOn, Ends
  <2>6. FormOne'
    BY <1>2, <2>1, <2>2 DEF Takes, Submits, GoesOn, Ends
  <2>7. FormHeld'
    BY <1>2, <2>1, <2>2 DEF Takes, Submits, GoesOn, Ends
  <2>. QED BY <2>1, <2>4, <2>5, <2>6, <2>7
<1>. QED BY <1>1, <1>2, CallSteps

LEMMA FlagsEver == Spec => []FlagsInv
BY FlagsInit, FlagsStep, PTL DEF Spec

\* The button that loads more is disabled only while a loadMore() is in flight.
THEOREM LoadingMeansCallEver == Spec => []LoadingMeansCall
<1>1. FlagsInv => LoadingMeansCall
  BY DEF FlagsInv
<1>. QED BY <1>1, FlagsEver, PTL

\* The form is disabled exactly while a start of it, or the refresh that follows one, is in
\* flight, and there is never a second one.
FormFollowsCall == FormHeld /\ FormOne

THEOREM FormFollowsCallEver == Spec => []FormFollowsCall
<1>1. FlagsInv => FormFollowsCall
  BY DEF FlagsInv, FormFollowsCall
<1>. QED BY <1>1, FlagsEver, PTL

-----------------------------------------------------------------------------
(* Where the pages of the list meet *)

\* What a list shows has no gap down to next, of the runs created so far.
NoGap(list, next, runs) ==
    \A r \in runs : next <= r /\ (\E q \in list : r <= q) => r \in list

\* The answer of a refresh, and that of a loadMore() from the run arg on.
FirstPage(page, runs) ==
    /\ page.next \in runs \cup {None}
    /\ NoGap(DOMAIN page.runs, page.next, runs)

NextPage(page, arg, runs) ==
    /\ page.next \in runs \cup {None}
    /\ \A r \in DOMAIN page.runs : r < arg
    /\ \A r \in runs : page.next <= r /\ r < arg => r \in DOMAIN page.runs

Answers(call, runs) ==
    /\ DOMAIN call.reply.runs \subseteq runs
    /\ call.at \in {"refresh", "renew"} => FirstPage(call.reply, runs)
    /\ call.at = "more" => NextPage(call.reply, call.arg, runs)

Kinds == {"refresh", "more", "get", "act", "start", "renew", "upsert"}

\* The call in a slot speaks of runs that the host has.
Fits(s, call, runs) ==
    /\ call.at \in Kinds \cup {"none"} /\ (call.at = "none" => call = Idle)
    /\ call.at \notin {"none", "refresh"} => s \in Users
    /\ call.at \in {"more", "get", "act"} => call.arg \in runs
    /\ DOMAIN call.view \subseteq runs
    /\ call.reply \notin {Waiting, Failure} => Answers(call, runs)

\* The host has the first n runs.
Stored(n) == n \in Nat /\ stored \in [Runs -> Nat] /\ Created = 1 .. n

Listed ==
    /\ DOMAIN shown \subseteq Created
    /\ cursor \in Created \cup {None}
    /\ \A s \in Calls : Fits(s, calls[s], Created)

ListInv == CallsOK /\ (\E n \in Nat : Stored(n)) /\ Listed

LEMMA NextIs ==
    ASSUME NEW n, Stored(n)
    PROVE  NextRun = n + 1
<1>1. n \in Nat /\ Created = 1 .. n
  BY DEF Stored
<1>2. Cardinality(1 .. n) = IF 1 > n THEN 0 ELSE n - 1 + 1
  BY <1>1, FS_Interval
<1>3. Cardinality(1 .. n) = n
  BY <1>1, <1>2
<1>. QED BY <1>1, <1>3 DEF NextRun

LEMMA PageIs ==
    ASSUME NEW n, Stored(n), NEW before \in Nat
    PROVE  /\ Page(before).is = "page"
           /\ DOMAIN Page(before).runs \subseteq 1 .. n
           /\ NextPage(Page(before), before, 1 .. n)
<1>. DEFINE older == {r \in Created : r < before}
            page  == {r \in older : Cardinality({q \in older : q > r}) < PageSize}
            last  == IF n < before THEN n ELSE before - 1
            first == IF last > PageSize THEN last - PageSize + 1 ELSE 1
<1>1. n \in Nat /\ Created = 1 .. n /\ PageSize \in Nat \ {0}
  BY ClientConstants DEF Stored
<1>2. last \in Int /\ older = 1 .. last
  BY <1>1
<1>3. \A r \in older : Cardinality({q \in older : q > r}) = last - r
  <2>. TAKE r \in older
  <2>. HIDE DEF last, older
  <2>1. r \in 1 .. last /\ r \in Int
    BY <1>2
  <2>2. {q \in older : q > r} = (r + 1) .. last
    BY <1>2, <2>1
  <2>3. Cardinality((r + 1) .. last) = IF r + 1 > last THEN 0 ELSE last - (r + 1) + 1
    BY <1>2, <2>1, FS_Interval
  <2>4. Cardinality((r + 1) .. last) = last - r
    BY <1>2, <2>1, <2>3
  <2>. QED BY <2>2, <2>4
<1>. HIDE DEF older, last
<1>4. page = first .. last /\ first \in Nat
  BY <1>1, <1>2, <1>3
<1>. HIDE DEF page
<1>5. page # older => Min(page) = first /\ first \in page
  <2>. SUFFICES ASSUME page # older PROVE Min(page) = first /\ first \in page
    OBVIOUS
  <2>1. last > PageSize
    BY <1>2, <1>4
  <2>2. first \in page /\ \A q \in page : first <= q
    BY <1>1, <1>2, <1>4, <2>1
  <2>3. \A p \in page : (\A q \in page : p <= q) => p = first
    BY <1>4, <2>2
  <2>. QED BY <2>2, <2>3 DEF Min
<1>6. /\ Page(before).is = "page"
      /\ DOMAIN Page(before).runs = page
      /\ Page(before).next = IF page = older THEN None ELSE Min(page)
  BY DEF Page, page, older
<1>7. page \subseteq older /\ older = {r \in 1 .. n : r < before}
  BY <1>1 DEF page, older
<1>8. Page(before).next \in 1 .. n \cup {None}
  BY <1>5, <1>6, <1>7
<1>9. \A r \in 1 .. n : Page(before).next <= r /\ r < before => r \in page
  <2>1. CASE page = older
    BY <1>7, <2>1
  <2>2. CASE page # older
    <3>. SUFFICES ASSUME NEW r \in 1 .. n, first <= r, r < before PROVE r \in page
      BY <1>5, <1>6, <2>2
    <3>1. r \in 1 .. last
      BY <1>2, <1>7
    <3>. QED BY <1>4, <3>1
  <2>. QED BY <2>1, <2>2
<1>. QED BY <1>6, <1>7, <1>8, <1>9 DEF NextPage
LEMMA FitsGrown ==
    ASSUME NEW n \in Nat, NEW m \in {n, n + 1}, NEW s, NEW call, Fits(s, call, 1 .. n)
    PROVE  Fits(s, call, 1 .. m)
<1>1. 1 .. n \subseteq 1 .. m /\ \A r \in 1 .. m : r \in 1 .. n \/ \A q \in 1 .. n : q < r
  OBVIOUS
<1>2. ASSUME Answers(call, 1 .. n), call.at = "more" => call.arg \in 1 .. n
      PROVE  Answers(call, 1 .. m)
  <2>1. FirstPage(call.reply, 1 .. n) /\ DOMAIN call.reply.runs \subseteq 1 .. n
        => FirstPage(call.reply, 1 .. m)
    BY <1>1 DEF FirstPage, NoGap
  <2>2. NextPage(call.reply, call.arg, 1 .. n) /\ call.arg \in 1 .. n
        => NextPage(call.reply, call.arg, 1 .. m)
    BY <1>1 DEF NextPage
  <2>. QED BY <1>1, <1>2, <2>1, <2>2 DEF Answers
<1>. QED BY <1>1, <1>2 DEF Fits

\* What the host does for a call, or of its own.
LEMMA HostSteps ==
    ASSUME NEW n, Stored(n), NEW call, call.at = "act" => call.arg \in 1 .. n,
           \/ HostCreates
           \/ \E r \in Runs : HostChanges(r)
           \/ MayPerform(call) /\ Performed(call)
           \/ stored' = stored
    PROVE  \E m \in {n, n + 1} :
              /\ Stored(m)'
              /\ MayPerform(call) /\ Performed(call) /\ call.at \in {"start", "act"}
                 => DOMAIN Result(call).runs \subseteq 1 .. m
<1>. USE DEF Runs
<1>1. n \in Nat /\ stored \in [Runs -> Nat] /\ Created = 1 .. n
  BY DEF Stored
<1>2. NextRun = n + 1
  BY NextIs
<1>3. ASSUME NextRun \in Runs, stored' = [stored EXCEPT ![NextRun] = 1]
      PROVE  Stored(n + 1)'
  <2>1. n + 1 \in Runs /\ stored' = [stored EXCEPT ![n + 1] = 1]
    BY <1>2, <1>3
  <2>2. stored' \in [Runs -> Nat]
    BY <1>1, <2>1
  <2>3. \A r \in Runs : stored'[r] = IF r = n + 1 THEN 1 ELSE stored[r]
    BY <1>1, <2>1
  <2>4. \A r \in Runs : stored'[r] > 0 <=> r \in 1 .. n \/ r = n + 1
    BY <1>1, <2>3 DEF Created
  <2>5. Created' = 1 .. (n + 1)
    BY <1>1, <2>1, <2>4 DEF Created
  <2>. QED BY <1>1, <2>2, <2>5 DEF Stored
<1>4. ASSUME NEW r \in 1 .. n, stored' = [stored EXCEPT ![r] = @ + 1]
      PROVE  Stored(n)'
  <2>1. r \in Runs /\ stored[r] \in Nat /\ stored[r] > 0
    BY <1>1 DEF Created
  <2>. HIDE DEF Runs
  <2>5. stored' \in [Runs -> Nat] /\ stored'[r] = stored[r] + 1
    BY <1>1, <1>4, <2>1
  <2>6. \A q \in Runs : q # r => stored'[q] = stored[q]
    BY <1>1, <1>4
  <2>2. \A q \in Runs : stored'[q] > 0 <=> stored[q] > 0
    BY <2>1, <2>5, <2>6
  <2>3. Created' = Created
    BY <2>2 DEF Created, Runs
  <2>. QED BY <1>1, <2>5, <2>3 DEF Stored
<1>5. stored' = stored => Stored(n)'
  BY <1>1 DEF Stored, Created
<1>6. DOMAIN Result(call).runs =
         IF call.at = "start" THEN {n + 1} ELSE IF call.at = "act" THEN {call.arg}
         ELSE DOMAIN Result(call).runs
  BY <1>2 DEF Result, One
<1>7. CASE call.at = "start"
  <2>1. HostCreates \/ (MayPerform(call) /\ Performed(call)) => Stored(n + 1)'
    BY <1>3, <1>7 DEF HostCreates, MayPerform, Performed
  <2>2. ASSUME NEW r \in Runs, HostChanges(r) PROVE Stored(n)'
    BY <1>1, <1>4, <2>2 DEF HostChanges
  <2>3. CASE MayPerform(call) /\ Performed(call)
    BY <1>1, <1>6, <1>7, <2>1, <2>3
  <2>4. CASE ~(MayPerform(call) /\ Performed(call))
    BY <1>5, <2>1, <2>2, <2>4
  <2>. QED BY <2>3, <2>4
<1>8. CASE call.at = "act"
  <2>1. DOMAIN Result(call).runs \subseteq 1 .. n
    BY <1>6, <1>8
  <2>2. HostCreates => Stored(n + 1)' /\ 1 .. n \subseteq 1 .. (n + 1)
    BY <1>1, <1>3 DEF HostCreates
  <2>3. ASSUME NEW r \in Runs, HostChanges(r) PROVE Stored(n)'
    BY <1>1, <1>4, <2>3 DEF HostChanges
  <2>4. Performed(call) => Stored(n)'
    BY <1>4, <1>8 DEF Performed
  <2>. QED BY <1>5, <2>1, <2>2, <2>3, <2>4
<1>9. CASE call.at \notin {"start", "act"}
  <2>1. HostCreates => Stored(n + 1)'
    BY <1>3 DEF HostCreates
  <2>2. ASSUME NEW r \in Runs, HostChanges(r) PROVE Stored(n)'
    BY <1>1, <1>4, <2>2 DEF HostChanges
  <2>3. Performed(call) => Stored(n)'
    BY <1>5, <1>9 DEF Performed
  <2>. QED BY <1>5, <1>9, <2>1, <2>2, <2>3
<1>. QED BY <1>7, <1>8, <1>9
\* The ways in which a call and the list go on: the list stays, it is the first page, the
\* next page is appended, or runs are put into it.
Lists(runs) == DOMAIN shown' \subseteq runs /\ cursor' \in runs \cup {None}

Stays(s) ==
    /\ UNCHANGED <<shown, cursor>>
    /\ ~Refreshed(s)

Renews(runs) == Lists(runs) /\ NoGap(DOMAIN shown', cursor', runs)

Appends(s, call, runs) ==
    /\ s \in Users /\ calls[s].at = "more" /\ call = Idle
    /\ Answers(calls[s], runs)
    /\ DOMAIN shown' = DOMAIN calls[s].reply.runs \cup DOMAIN shown
    /\ cursor' = calls[s].reply.next
    /\ Lists(runs)

Puts(s, call, runs) ==
    /\ s \in Users /\ calls[s].at \in {"get", "upsert"} /\ call = Idle
    /\ Lists(runs)

ListStep(s, call, runs) ==
    /\ Turns(s, call) /\ Fits(s, call, runs)
    /\ Stays(s) \/ Renews(runs) \/ Appends(s, call, runs) \/ Puts(s, call, runs)

Steps(n) ==
    \E m \in {n, n + 1} :
        /\ Stored(m)'
        /\ \/ UNCHANGED <<calls, shown, cursor>>
           \/ \E s \in Calls : \E call : ListStep(s, call, 1 .. m)

LEMMA NoReply == Failure # Waiting /\ Idle.reply = Waiting /\ Idle.at = "none"
                 /\ DOMAIN Idle = Fields /\ DOMAIN Idle.view = {} /\ Idle # Failure
BY DEF Failure, Waiting, Idle, Nothing, Fields

\* A slot that becomes free fits.
LEMMA IdleFits == ASSUME NEW s, NEW runs PROVE Fits(s, Idle, runs)
BY NoReply DEF Fits, Kinds

LEMMA InsertedDomain ==
    ASSUME NEW runs, Inserting(runs) PROVE DOMAIN shown' = DOMAIN runs \cup DOMAIN shown
BY DEF Inserting

LEMMA ListOutcome ==
    ASSUME ListInv, NEW n, Stored(n), [Next]_vars
    PROVE  Steps(n)
<1>1. /\ n \in Nat /\ Created = 1 .. n /\ n \in {n, n + 1}
      /\ DOMAIN calls = Calls /\ \A s \in Calls : DOMAIN calls[s] = Fields
      /\ \A s \in Calls : Fits(s, calls[s], 1 .. n)
      /\ DOMAIN shown \subseteq 1 .. n /\ cursor \in 1 .. n \cup {None}
  BY DEF ListInv, Listed, CallsOK, Stored
<1>2. stored' = stored => Stored(n)'
  BY DEF Stored, Created
<1>3. ASSUME stored' = stored, NEW s \in Calls, NEW call, ListStep(s, call, 1 .. n)
      PROVE  Steps(n)
  BY <1>1, <1>2, <1>3 DEF Steps
<1>4. UNCHANGED vars => Steps(n)
  BY <1>1, <1>2 DEF vars, Steps
<1>5. ASSUME HostCreates \/ \E r \in Runs : HostChanges(r)
      PROVE  Steps(n)
  <2>1. PICK m \in {n, n + 1} : Stored(m)'
    BY <1>5, NoReply, HostSteps
  <2>. QED BY <1>5, <2>1 DEF HostCreates, HostChanges, Steps
<1>6. ASSUME NEW s \in Calls,
             Poll(s) \/ LoadMore(s) \/ (\E r \in Runs : GetRun(s, r) \/ Act(s, r))
                \/ SubmitTask(s)
      PROVE  Steps(n)
  <2>. DEFINE Sends(call) ==
           /\ Send(s, call) /\ DOMAIN call = Fields
           /\ call.at \in {"refresh", "more", "get", "act", "start"}
           /\ call.at # "refresh" => s \in Users
           /\ call.at \in {"more", "get", "act"} => call.arg \in 1 .. n
           /\ call.reply = Waiting /\ call.view = Nothing
  <2>1. \A at, arg : /\ Call(at, arg).at = at /\ Call(at, arg).arg = arg
                     /\ Call(at, arg).reply = Waiting /\ Call(at, arg).view = Nothing
                     /\ DOMAIN Call(at, arg) = Fields
    BY DEF Call, Idle, Fields
  <2>2. Poll(s) => Sends(Call("refresh", None))
    BY <2>1 DEF Poll
  <2>3. LoadMore(s) => Sends(Call("more", cursor))
    BY <1>1, <2>1 DEF LoadMore
  <2>4. \A r \in Runs : GetRun(s, r) => Sends(Call("get", r))
    BY <1>1, <2>1 DEF GetRun
  <2>5. \A r \in Runs : Act(s, r) => Sends(Call("act", r))
    BY <1>1, <2>1 DEF Act
  <2>6. SubmitTask(s) => Sends([Call("start", None) EXCEPT !.form = TRUE])
    BY <2>1 DEF SubmitTask
  <2>7. PICK call : Sends(call)
    BY <1>6, <2>2, <2>3, <2>4, <2>5, <2>6
  <2>8. UNCHANGED <<stored, shown, cursor>> /\ calls[s] = Idle
    BY <1>6 DEF Poll, LoadMore, GetRun, Act, SubmitTask, Send
  <2>9. Turns(s, call)
    BY <2>7 DEF Send, Turns
  <2>10. Fits(s, call, 1 .. n)
    BY <2>7 DEF Fits, Nothing, Kinds
  <2>11. Stays(s)
    BY <2>8, NoReply DEF Stays, Refreshed
  <2>. QED BY <1>3, <2>8, <2>9, <2>10, <2>11 DEF ListStep
<1>7. ASSUME NEW s \in Calls, Serve(s) \/ Fail(s)
      PROVE  Steps(n)
  <2>1. /\ calls[s] # Idle /\ calls[s].reply = Waiting
        /\ UNCHANGED <<shown, cursor>>
        /\ (MayPerform(calls[s]) /\ Performed(calls[s])) \/ stored' = stored
    BY <1>7 DEF Serve, Fail
  <2>2. PICK reply : Answered(s, reply) /\ (reply = Failure \/
           (MayPerform(calls[s]) /\ Performed(calls[s]) /\ reply = Result(calls[s])))
    BY <1>7 DEF Serve, Fail
  <2>3. PICK m \in {n, n + 1} :
           /\ Stored(m)'
           /\ MayPerform(calls[s]) /\ Performed(calls[s]) /\ calls[s].at \in {"start", "act"}
              => DOMAIN Result(calls[s]).runs \subseteq 1 .. m
    BY <1>1, <2>1, HostSteps DEF Fits
  <2>. DEFINE call == [calls[s] EXCEPT !.reply = reply]
  <2>4. /\ DOMAIN call = Fields
        /\ call.at = calls[s].at /\ call.arg = calls[s].arg /\ call.view = calls[s].view
        /\ call.reply = reply
    BY <1>1 DEF Fields
  <2>5. Turns(s, call)
    BY <2>2, <2>4 DEF Answered, Turns
  <2>6. Fits(s, calls[s], 1 .. m)
    BY <1>1, FitsGrown
  <2>7. Stays(s) /\ calls[s].at # "none"
    BY <1>1, <2>1, NoReply DEF Stays, Refreshed, Fits
  <2>8. CASE reply = Failure
    BY <2>1, <2>3, <2>4, <2>5, <2>6, <2>7, <2>8 DEF Fits, ListStep, Steps
  <2>9. CASE reply # Failure /\ calls[s].at \in {"start", "act"}
    <3>1. Answers(call, 1 .. m)
      BY <2>2, <2>3, <2>4, <2>9 DEF Answers
    <3>. QED BY <2>3, <2>4, <2>5, <2>6, <2>7, <3>1 DEF Fits, ListStep, Steps
  <2>10. CASE reply # Failure /\ calls[s].at \notin {"start", "act"}
    <3>1. reply = Read(calls[s]) /\ stored' = stored
      BY <2>2, <2>10 DEF Result, Performed
    <3>2. DOMAIN reply.runs \subseteq 1 .. n /\ Answers(call, 1 .. n)
      <4>1. CASE calls[s].at \in {"refresh", "renew"}
        <5>1. reply = Page(Newest) /\ Newest \in Nat
          BY <3>1, <4>1, ClientConstants DEF Read, Newest
        <5>2. DOMAIN reply.runs \subseteq 1 .. n /\ NextPage(reply, Newest, 1 .. n)
          BY <5>1, PageIs
        <5>3. \A r \in 1 .. n : r < Newest
          BY <1>1, ClientConstants DEF Created, Runs, Newest
        <5>4. FirstPage(reply, 1 .. n)
          BY <5>2, <5>3 DEF NextPage, FirstPage, NoGap
        <5>. QED BY <2>4, <4>1, <5>2, <5>4 DEF Answers
      <4>2. CASE calls[s].at = "more"
        <5>1. reply = Page(calls[s].arg) /\ calls[s].arg \in 1 .. n
          BY <1>1, <3>1, <4>2 DEF Read, Fits
        <5>2. DOMAIN reply.runs \subseteq 1 .. n /\ NextPage(reply, calls[s].arg, 1 .. n)
          BY <5>1, PageIs
        <5>. QED BY <2>4, <4>2, <5>2 DEF Answers
      <4>3. CASE calls[s].at \notin {"refresh", "renew", "more"}
        <5>1. calls[s].at = "get"
          BY <1>1, <1>7, <2>10, <4>3 DEF Serve, Fail, Fits, Kinds
        <5>2. calls[s].arg \in 1 .. n /\ DOMAIN reply.runs = {calls[s].arg}
          BY <1>1, <3>1, <5>1 DEF Read, One, Fits
        <5>. QED BY <2>4, <5>1, <5>2 DEF Answers
      <4>. QED BY <4>1, <4>2, <4>3
    <3>3. Fits(s, call, 1 .. n)
      BY <1>1, <2>4, <2>7, <3>2 DEF Fits
    <3>. QED BY <1>3, <2>5, <2>7, <3>1, <3>3 DEF ListStep
  <2>. QED BY <2>8, <2>9, <2>10
<1>8. ASSUME NEW s \in Calls, RefreshAnswered(s)
      PROVE  Steps(n)
  <2>. DEFINE reply == calls[s].reply
  <2>1. /\ calls[s].at \in {"refresh", "renew"} /\ reply # Waiting /\ stored' = stored
        /\ reply = Failure => UNCHANGED <<shown, cursor>>
        /\ reply # Failure => shown' = reply.runs /\ cursor' = reply.next
    BY <1>8 DEF RefreshAnswered, Replaced
  <2>2. PICK call : /\ Turns(s, call) /\ Fits(s, call, 1 .. n)
    <3>1. CASE calls[s].at = "renew"
      <4>. DEFINE call == [calls[s] EXCEPT !.at = "upsert", !.reply = Waiting]
      <4>1. /\ DOMAIN call = Fields /\ call.at = "upsert" /\ call.reply = Waiting
            /\ call.view = calls[s].view
        BY <1>1 DEF Fields
      <4>2. calls' = [calls EXCEPT ![s].at = "upsert", ![s].reply = Waiting]
        BY <1>8, <3>1 DEF RefreshAnswered
      <4>3. Turns(s, call)
        BY <4>1, <4>2 DEF Turns
      <4>4. Fits(s, call, 1 .. n)
        BY <1>1, <3>1, <4>1 DEF Fits, Kinds
      <4>. QED BY <4>3, <4>4
    <3>2. CASE calls[s].at = "refresh"
      <4>1. Turns(s, Idle)
        BY <1>8, <3>2, NoReply DEF RefreshAnswered, Over, Turns
      <4>. QED BY <4>1, IdleFits
    <3>. QED BY <2>1, <3>1, <3>2
  <2>3. reply = Failure => Stays(s)
    BY <2>1 DEF Stays, Refreshed
  <2>4. reply # Failure => Renews(1 .. n)
    <3>1. reply # Failure => Answers(calls[s], 1 .. n)
      BY <1>1, <2>1 DEF Fits
    <3>. QED BY <2>1, <3>1 DEF Answers, FirstPage, Renews, Lists
  <2>. QED BY <1>3, <2>1, <2>2, <2>3, <2>4 DEF ListStep
<1>9. ASSUME NEW s \in Calls, MoreAnswered(s)
      PROVE  Steps(n)
  <2>. DEFINE reply == calls[s].reply
  <2>1. /\ calls[s].at = "more" /\ reply # Waiting /\ stored' = stored /\ Over(s)
        /\ reply = Failure => UNCHANGED <<shown, cursor>>
        /\ reply # Failure => Inserting(reply.runs) /\ cursor' = reply.next
    BY <1>9 DEF MoreAnswered
  <2>2. Turns(s, Idle) /\ Fits(s, Idle, 1 .. n)
    BY <2>1, NoReply, IdleFits DEF Over, Turns
  <2>3. reply = Failure => Stays(s)
    BY <2>1 DEF Stays, Refreshed
  <2>4. reply # Failure => Appends(s, Idle, 1 .. n)
    <3>. SUFFICES ASSUME reply # Failure PROVE Appends(s, Idle, 1 .. n)
      OBVIOUS
    <3>1. Answers(calls[s], 1 .. n) /\ s \in Users
      BY <1>1, <2>1 DEF Fits
    <3>2. DOMAIN shown' = DOMAIN reply.runs \cup DOMAIN shown
      BY <2>1, InsertedDomain
    <3>3. Lists(1 .. n)
      BY <1>1, <2>1, <3>1, <3>2 DEF Answers, NextPage, Lists
    <3>. QED BY <2>1, <3>1, <3>2, <3>3 DEF Appends
  <2>. QED BY <1>3, <2>1, <2>2, <2>3, <2>4 DEF ListStep
<1>10. ASSUME NEW s \in Calls, GetAnswered(s)
       PROVE  Steps(n)
  <2>. DEFINE reply == calls[s].reply
  <2>1. /\ calls[s].at = "get" /\ reply # Waiting /\ stored' = stored /\ Over(s)
        /\ cursor' = cursor
        /\ shown' = shown \/ (reply # Failure /\ Inserting(reply.runs))
    BY <1>10 DEF GetAnswered
  <2>2. Turns(s, Idle) /\ Fits(s, Idle, 1 .. n)
    BY <2>1, NoReply, IdleFits DEF Over, Turns
  <2>3. s \in Users /\ (reply # Failure => Answers(calls[s], 1 .. n))
    BY <1>1, <2>1 DEF Fits
  <2>4. Lists(1 .. n)
    BY <1>1, <2>1, <2>3, InsertedDomain DEF Answers, Lists
  <2>5. Puts(s, Idle, 1 .. n)
    BY <2>1, <2>3, <2>4 DEF Puts
  <2>. QED BY <1>3, <2>1, <2>2, <2>5 DEF ListStep
<1>11. ASSUME NEW s \in Calls, CommandAnswered(s)
       PROVE  Steps(n)
  <2>1. /\ calls[s].at \in {"start", "act"} /\ UNCHANGED <<stored, shown, cursor>>
        /\ calls[s].reply # Waiting
    BY <1>11 DEF CommandAnswered
  <2>2. Stays(s)
    BY <2>1 DEF Stays, Refreshed
  <2>3. CASE calls[s].reply = Failure
    <3>1. Turns(s, Idle) /\ Fits(s, Idle, 1 .. n)
      BY <1>11, <2>3, NoReply, IdleFits DEF CommandAnswered, Over, Turns
    <3>. QED BY <1>3, <2>1, <2>2, <3>1 DEF ListStep
  <2>4. CASE calls[s].reply # Failure
    <3>. DEFINE call == [calls[s] EXCEPT !.at = "renew", !.reply = Waiting,
                                         !.view = calls[s].reply.runs]
    <3>1. /\ DOMAIN call = Fields /\ call.at = "renew" /\ call.reply = Waiting
          /\ call.view = calls[s].reply.runs
      BY <1>1 DEF Fields
    <3>2. calls' = [calls EXCEPT ![s].at = "renew", ![s].reply = Waiting,
                                 ![s].view = calls[s].reply.runs]
      BY <1>11, <2>4 DEF CommandAnswered
    <3>3. Turns(s, call)
      BY <3>1, <3>2 DEF Turns
    <3>4. Fits(s, call, 1 .. n)
      BY <1>1, <2>1, <2>4, <3>1 DEF Fits, Answers, Kinds
    <3>. QED BY <1>3, <2>1, <2>2, <3>3, <3>4 DEF ListStep
  <2>. QED BY <2>3, <2>4
<1>12. ASSUME NEW s \in Calls, Upsert(s)
       PROVE  Steps(n)
  <2>1. /\ calls[s].at = "upsert" /\ stored' = stored /\ Over(s)
        /\ cursor' = cursor /\ Inserting(calls[s].view)
    BY <1>12 DEF Upsert
  <2>2. Turns(s, Idle) /\ Fits(s, Idle, 1 .. n)
    BY <2>1, NoReply, IdleFits DEF Over, Turns
  <2>3. s \in Users /\ DOMAIN calls[s].view \subseteq 1 .. n
    BY <1>1, <2>1 DEF Fits
  <2>4. Lists(1 .. n)
    BY <1>1, <2>1, <2>3, InsertedDomain DEF Lists
  <2>5. Puts(s, Idle, 1 .. n)
    BY <2>1, <2>3, <2>4 DEF Puts
  <2>. QED BY <1>3, <2>1, <2>2, <2>5 DEF ListStep
<1>. QED
  BY <1>4, <1>5, <1>6, <1>7, <1>8, <1>9, <1>10, <1>11, <1>12 DEF Next, Answer
LEMMA ListInit == Init => ListInv
<1>. SUFFICES ASSUME Init PROVE ListInv
  OBVIOUS
<1>1. Stored(0)
  BY ClientConstants DEF Init, Stored, Created, Runs
<1>2. CallsOK
  BY FlagsInit DEF FlagsInv
<1>3. \A s \in Calls : Fits(s, calls[s], Created)
  BY IdleFits DEF Init
<1>. QED BY <1>1, <1>2, <1>3 DEF Init, Nothing, ListInv, Listed

LEMMA ListNext == ListInv /\ [Next]_vars => ListInv'
<1>. SUFFICES ASSUME ListInv, [Next]_vars PROVE ListInv'
  OBVIOUS
<1>1. PICK n : Stored(n)
  BY DEF ListInv
<1>2. Steps(n)
  BY <1>1, ListOutcome
<1>3. PICK m \in {n, n + 1} :
         /\ Stored(m)'
         /\ \/ UNCHANGED <<calls, shown, cursor>>
            \/ \E s \in Calls : \E call : ListStep(s, call, 1 .. m)
  BY <1>2 DEF Steps
<1>4. n \in Nat /\ Created = 1 .. n /\ Created' = 1 .. m /\ 1 .. n \subseteq 1 .. m
  BY <1>1, <1>3 DEF Stored
<1>5. \A s \in Calls : Fits(s, calls[s], 1 .. m)
  BY <1>3, <1>4, FitsGrown DEF ListInv, Listed
<1>6. CASE UNCHANGED <<calls, shown, cursor>>
  <2>1. \A s \in Calls : Fits(s, calls'[s], 1 .. m)
    BY <1>5, <1>6
  <2>. QED BY <1>3, <1>4, <1>6, <2>1 DEF ListInv, Listed, CallsOK
<1>7. ASSUME NEW s \in Calls, NEW call, ListStep(s, call, 1 .. m)
      PROVE  ListInv'
  <2>1. CallsOK'
    BY <1>7 DEF ListInv, CallsOK, ListStep, Turns
  <2>2. \A t \in Calls : calls'[t] = IF t = s THEN call ELSE calls[t]
    BY <1>7 DEF ListInv, CallsOK, ListStep, Turns
  <2>3. \A t \in Calls : Fits(t, calls'[t], 1 .. m)
    BY <1>5, <1>7, <2>2 DEF ListStep
  <2>4. DOMAIN shown' \subseteq 1 .. m /\ cursor' \in 1 .. m \cup {None}
    BY <1>4, <1>7 DEF ListInv, Listed, ListStep, Stays, Renews, Appends, Puts, Lists
  <2>. QED BY <1>3, <1>4, <2>1, <2>3, <2>4 DEF ListInv, Listed
<1>. QED BY <1>3, <1>6, <1>7

LEMMA ListEver == Spec => []ListInv
BY ListInit, ListNext, PTL DEF Spec

\* A step that loses a run between two pages.
LEMMA PagesStep ==
    ASSUME ListInv, [Next]_vars, Contiguous \/ \E s \in Calls : Refreshed(s), ~Contiguous'
    PROVE  \E s \in Users : Overtaken(s) \/ Inserted(s)
<1>1. PICK n : Stored(n)
  BY DEF ListInv
<1>2. Steps(n)
  BY <1>1, ListOutcome
<1>3. PICK m \in {n, n + 1} :
         /\ Stored(m)'
         /\ \/ UNCHANGED <<calls, shown, cursor>>
            \/ \E s \in Calls : \E call : ListStep(s, call, 1 .. m)
  BY <1>2 DEF Steps
<1>4. /\ n \in Nat /\ Created = 1 .. n /\ Created' = 1 .. m
      /\ DOMAIN shown \subseteq 1 .. n /\ cursor \in 1 .. n \cup {None}
  BY <1>1, <1>3 DEF Stored, ListInv, Listed
<1>5. ~NoGap(DOMAIN shown', cursor', 1 .. m)
  BY <1>4 DEF Contiguous, NoGap
<1>6. Contiguous => NoGap(DOMAIN shown, cursor, 1 .. n)
  BY <1>4 DEF Contiguous, NoGap, None
<1>7. NoGap(DOMAIN shown, cursor, 1 .. n) => NoGap(DOMAIN shown, cursor, 1 .. m)
  BY <1>3, <1>4 DEF NoGap
<1>8. ~(UNCHANGED <<calls, shown, cursor>>)
  BY <1>5, <1>6, <1>7 DEF Refreshed
<1>9. PICK s \in Calls : \E call : ListStep(s, call, 1 .. m)
  BY <1>3, <1>8
<1>10. PICK call : ListStep(s, call, 1 .. m)
  BY <1>9
<1>11. \A t \in Calls : calls'[t] = IF t = s THEN call ELSE calls[t]
  BY <1>10 DEF ListInv, CallsOK, ListStep, Turns
<1>12. ASSUME s \in Users, calls[s].at \in {"more", "get", "upsert"}, call = Idle
       PROVE  Ended(s)
  BY <1>11, <1>12, NoReply DEF Ended, Calls
<1>13. CASE Stays(s)
  BY <1>5, <1>6, <1>7, <1>11, <1>13 DEF Stays, Refreshed
<1>14. CASE Renews(1 .. m)
  BY <1>5, <1>14 DEF Renews
<1>15. CASE Appends(s, call, 1 .. m)
  <2>1. Ended(s)
    BY <1>12, <1>15 DEF Appends
  <2>2. CASE calls[s].arg # cursor
    BY <1>15, <2>1, <2>2 DEF Appends, Overtaken
  <2>3. CASE calls[s].arg = cursor
    <3>1. Contiguous
      BY <1>11, <1>15 DEF Appends, Refreshed
    <3>2. NoGap(DOMAIN shown, cursor, 1 .. m)
      BY <1>6, <1>7, <3>1
    <3>3. NextPage(calls[s].reply, cursor, 1 .. m)
      BY <1>15, <2>3 DEF Appends, Answers
    <3>4. NoGap(DOMAIN shown', cursor', 1 .. m)
      <4>. DEFINE page == DOMAIN calls[s].reply.runs
      <4>1. /\ DOMAIN shown' = page \cup DOMAIN shown
            /\ cursor' = calls[s].reply.next /\ page \subseteq 1 .. m
        BY <1>15 DEF Appends, Answers
      <4>2. SUFFICES ASSUME NEW r \in 1 .. m, cursor' <= r,
                            NEW q \in page \cup DOMAIN shown, r <= q
                     PROVE  r \in page \cup DOMAIN shown
        BY <4>1 DEF NoGap
      <4>3. r \in Nat /\ q \in Nat /\ cursor \in Nat
        BY <1>4, <4>1 DEF None
      <4>4. r < cursor => r \in page
        BY <3>3, <4>1, <4>2 DEF NextPage
      <4>5. q \in page => q < cursor
        BY <3>3 DEF NextPage
      <4>6. cursor <= r /\ q \in DOMAIN shown => r \in DOMAIN shown
        BY <3>2, <4>2 DEF NoGap
      <4>. QED BY <4>2, <4>3, <4>4, <4>5, <4>6
    <3>. QED BY <1>5, <3>4
  <2>. QED BY <2>2, <2>3
<1>16. CASE Puts(s, call, 1 .. m)
  BY <1>12, <1>16 DEF Puts, Inserted
<1>. QED BY <1>10, <1>13, <1>14, <1>15, <1>16 DEF ListStep

\* Pages meet: a list without a gap gets one only from a page that a refresh has overtaken or
\* from a run put into it, and every refresh leaves it without one.
THEOREM PagesMeetEver == Spec => PagesMeet
<1>1. ListInv /\ [Next]_vars =>
         [(Contiguous \/ \E s \in Calls : Refreshed(s)) /\ ~Contiguous'
             => \E s \in Users : Overtaken(s) \/ Inserted(s)]_vars
  BY PagesStep
<1>. QED BY <1>1, ListEver, PTL DEF Spec, PagesMeet
====
