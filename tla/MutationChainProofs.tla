------------------------ MODULE MutationChainProofs ------------------------
(***************************************************************************)
(* MutationChain implements AtomicUpdates, and the revision check of       *)
(* saveRun never fails, for any set of updates, any incompatibilities      *)
(* between them, repository failures and crashes.                          *)
(*                                                                         *)
(* The argument: a task begins when the promise it found in the map has    *)
(* settled.  That promise is the task called just before it (Linked), or   *)
(* the map was empty and then everything called before has settled         *)
(* (MapOK).  Hence a task past its wait has only settled tasks before it   *)
(* (InOrder), so at most one reads, computes or saves, and what it read is *)
(* what is stored (Fresh).                                                 *)
(***************************************************************************)
EXTENDS MutationChain, TLAPS

Phases == Settled \cup {"new", "waiting", "reading", "read", "saving"}
Index  == 1 .. Len(calls)

CallsOK ==
    /\ \A i, j \in Index : calls[i] = calls[j] => i = j
    /\ \A u \in Updates : phase[u] # "new" <=> \E i \in Index : calls[i] = u
InOrder ==
    \A i, j \in Index : i < j /\ phase[calls[j]] # "waiting" => settled(calls[i])
Linked ==
    \A j \in Index : phase[calls[j]] = "waiting" =>
        \/ previous[calls[j]] = None /\ \A i \in Index : i < j => settled(calls[i])
        \/ j - 1 \in Index /\ previous[calls[j]] = calls[j - 1]
MapOK ==
    \/ tail = None /\ \A i \in Index : settled(calls[i])
    \/ Len(calls) > 0 /\ tail = calls[Len(calls)]
Fresh ==
    \A u \in Updates :
        /\ phase[u] \in {"read", "saving"} => seen[u] = stored
        /\ phase[u] = "saving" => ~Refuses(u, stored.log)

ChainInv ==
    TypeOK /\ CallsOK /\ InOrder /\ Linked /\ MapOK /\ Fresh /\ NoConflict

\* Every variable keeps its shape when a step is taken.
LEMMA ChainTypeStep == TypeOK /\ [Next]_vars => TypeOK'
<1>. SUFFICES ASSUME TypeOK, [Next]_vars PROVE TypeOK'
  OBVIOUS
<1>. USE DEF TypeOK
<1>1. CASE Crash
  BY <1>1 DEF Crash, Settled
<1>2. ASSUME NEW u \in Updates, Call(u) PROVE TypeOK'
  BY <1>2 DEF Call, Settled
<1>3. ASSUME NEW u \in Updates, Begin(u) PROVE TypeOK'
  BY <1>3 DEF Begin, Settled
<1>4. ASSUME NEW u \in Updates, Read(u) PROVE TypeOK'
  BY <1>4 DEF Read, Settled
<1>5. ASSUME NEW u \in Updates, Change(u) PROVE TypeOK'
  BY <1>5 DEF Change, Settled
<1>6. ASSUME NEW u \in Updates, Save(u) PROVE TypeOK'
  <2>1. [log |-> Append(seen[u].log, u), revision |-> seen[u].revision + 1] \in Stores
    BY DEF Stores
  <2>. QED BY <1>6, <2>1 DEF Save, Settled
<1>7. ASSUME NEW u \in Updates, Clean(u) PROVE TypeOK'
  BY <1>7 DEF Clean, Leave
<1>8. ASSUME NEW u \in Updates, RepositoryFails(u) PROVE TypeOK'
  BY <1>8 DEF RepositoryFails, Settled
<1>9. CASE UNCHANGED vars
  BY <1>9 DEF vars, memory
<1>. QED BY <1>1, <1>2, <1>3, <1>4, <1>5, <1>6, <1>7, <1>8, <1>9 DEF Next, Step

\* A task past its wait that has not settled is alone: nobody else is past his wait.
LEMMA Alone ==
    ASSUME ChainInv, NEW u \in Updates, NEW v \in Updates, u # v,
           phase[u] \in {"reading", "read", "saving"}, phase[v] \in {"reading", "read", "saving"}
    PROVE  FALSE
<1>. USE DEF ChainInv
<1>1. PICK i \in Index : calls[i] = u
  BY DEF CallsOK
<1>2. PICK j \in Index : calls[j] = v
  BY DEF CallsOK
<1>3. i \in Nat /\ j \in Nat /\ (i < j \/ j < i)
  BY <1>1, <1>2 DEF Index, TypeOK
<1>. QED BY <1>1, <1>2, <1>3 DEF InOrder, settled, Settled

\* A step of one task from a phase past its wait keeps the chain in order.
LEMMA TaskMoves ==
    ASSUME ChainInv, NEW u \in Updates, NEW to \in Phases \ {"new", "waiting"},
           phase[u] \in {"reading", "read", "saving"},
           phase' = [phase EXCEPT ![u] = to], UNCHANGED <<calls, previous, tail>>
    PROVE  CallsOK' /\ InOrder' /\ Linked' /\ MapOK'
<1>. USE DEF ChainInv, Index
<1>1. /\ phase'[u] = to /\ \A v \in Updates \ {u} : phase'[v] = phase[v]
      /\ \A i \in Index : calls[i] \in Updates
  BY DEF TypeOK
<1>2. \A v \in Updates : settled(v) => phase'[v] = phase[v] /\ settled(v)'
  BY <1>1 DEF settled, Settled
<1>3. CallsOK'
  BY <1>1 DEF CallsOK
<1>4. InOrder'
  BY <1>1, <1>2 DEF InOrder
<1>5. Linked'
  BY <1>1, <1>2 DEF Linked
<1>6. MapOK'
  BY <1>1, <1>2 DEF MapOK
<1>. QED BY <1>3, <1>4, <1>5, <1>6

\* The argument above is inductive.
LEMMA ChainStep == ChainInv /\ [Next]_vars => ChainInv'
<1>. SUFFICES ASSUME ChainInv, [Next]_vars PROVE ChainInv'
  OBVIOUS
<1>. USE DEF ChainInv, Index
<1>0. /\ TypeOK' /\ \A i \in Index : calls[i] \in Updates
      /\ phase \in [Updates -> Phases] /\ Len(calls) \in Nat /\ calls \in Seq(Updates)
  BY ChainTypeStep DEF TypeOK, Phases
<1>1. CASE Crash
  <2>1. /\ \A u \in Updates : phase[u] # "new" => settled(u)'
        /\ \A u \in Updates : phase'[u] = "new" <=> phase[u] = "new"
        /\ \A u \in Updates : phase'[u] \in Settled \cup {"new"}
        /\ \A u \in Updates : phase'[u] = "conflict" => phase[u] = "conflict"
    BY <1>1 DEF Crash, settled, Settled
  <2>2. \A i \in Index : settled(calls[i])'
    BY <1>0, <1>1, <2>1 DEF CallsOK, Crash
  <2>3. CallsOK' /\ InOrder' /\ MapOK'
    BY <1>0, <1>1, <2>1, <2>2 DEF Crash, CallsOK, InOrder, MapOK
  <2>4. Linked' /\ Fresh' /\ NoConflict'
    BY <1>0, <1>1, <2>1 DEF Crash, Linked, Fresh, NoConflict, Settled
  <2>. QED BY <1>0, <2>3, <2>4
<1>2. ASSUME NEW u \in Updates, Call(u) PROVE ChainInv'
  <2>1. /\ calls' = Append(calls, u) /\ Len(calls') = Len(calls) + 1
        /\ \A i \in Index : calls'[i] = calls[i] /\ calls[i] # u
        /\ calls'[Len(calls) + 1] = u
        /\ Index' = Index \cup {Len(calls) + 1}
    BY <1>0, <1>2 DEF Call, CallsOK
  <2>2. /\ phase'[u] = "waiting" /\ \A v \in Updates \ {u} : phase'[v] = phase[v]
        /\ previous'[u] = tail /\ \A v \in Updates \ {u} : previous'[v] = previous[v]
        /\ \A i \in Index : calls[i] \in Updates \ {u}
    BY <1>0, <1>2, <2>1 DEF Call, TypeOK
  <2>3. \A v \in Updates : settled(v) => v # u /\ settled(v)'
    BY <1>2, <2>2 DEF Call, settled, Settled
  <2>4. CallsOK'
    <3>1. \A i, j \in Index' : calls'[i] = calls'[j] => i = j
      BY <1>0, <2>1 DEF CallsOK
    <3>2. \A v \in Updates : phase'[v] # "new" <=> \E i \in Index' : calls'[i] = v
      BY <1>0, <2>1, <2>2 DEF CallsOK
    <3>. QED BY <3>1, <3>2 DEF CallsOK
  <2>5. InOrder'
    BY <1>0, <2>1, <2>2, <2>3 DEF InOrder
  <2>6. Linked'
    <3>1. ASSUME NEW j \in Index, phase'[calls'[j]] = "waiting"
          PROVE  \/ previous'[calls'[j]] = None /\ \A i \in Index' : i < j => settled(calls[i])'
                 \/ j - 1 \in Index' /\ previous'[calls'[j]] = calls'[j - 1]
      BY <1>0, <2>1, <2>2, <2>3, <3>1 DEF Linked
    <3>2. CASE tail = None
      BY <1>0, <2>1, <2>2, <2>3, <3>1, <3>2, ChainConstants DEF Linked, MapOK
    <3>3. CASE tail # None
      BY <1>0, <2>1, <2>2, <2>3, <3>1, <3>3 DEF Linked, MapOK
    <3>. QED BY <3>2, <3>3
  <2>7. MapOK' /\ Fresh' /\ NoConflict'
    BY <1>0, <1>2, <2>1, <2>2 DEF Call, MapOK, Fresh, NoConflict
  <2>. QED BY <1>0, <2>4, <2>5, <2>6, <2>7
<1>3. ASSUME NEW u \in Updates, Begin(u) PROVE ChainInv'
  <2>1. /\ phase'[u] = "reading" /\ \A v \in Updates \ {u} : phase'[v] = phase[v]
        /\ UNCHANGED <<calls, previous, tail, stored, seen>>
    BY <1>0, <1>3 DEF Begin
  <2>2. PICK k \in Index : calls[k] = u
    BY <1>3 DEF Begin, CallsOK
  <2>3. \A i \in Index : i < k => settled(calls[i])
    <3>1. CASE previous[u] = None
      <4>1. k - 1 \in Index => calls[k - 1] \in Updates
        BY <1>0
      <4>. QED BY <1>3, <2>2, <3>1, <4>1, ChainConstants DEF Begin, Linked
    <3>2. CASE previous[u] # None
      <4>1. k - 1 \in Index /\ previous[u] = calls[k - 1]
        BY <1>3, <2>2, <3>2 DEF Begin, Linked
      <4>2. settled(calls[k - 1])
        BY <1>3, <3>2, <4>1 DEF Begin, MayBegin
      <4>3. \A i \in Index : i < k - 1 => settled(calls[i])
        BY <4>1, <4>2 DEF InOrder, settled, Settled
      <4>. QED BY <1>0, <2>2, <4>1, <4>2, <4>3
    <3>. QED BY <3>1, <3>2
  <2>4. \A v \in Updates : settled(v) => settled(v)'
    BY <1>3, <2>1 DEF Begin, settled, Settled
  <2>5. \A i \in Index : calls[i] = u => i = k
    BY <2>2 DEF CallsOK
  <2>6. CallsOK' /\ InOrder'
    BY <1>0, <1>3, <2>1, <2>2, <2>3, <2>4, <2>5 DEF Begin, CallsOK, InOrder
  <2>7. Linked' /\ MapOK'
    BY <1>0, <2>1, <2>4 DEF Linked, MapOK
  <2>8. Fresh' /\ NoConflict'
    BY <1>0, <2>1 DEF Fresh, NoConflict
  <2>. QED BY <1>0, <2>6, <2>7, <2>8
<1>4. ASSUME NEW u \in Updates, Read(u) PROVE ChainInv'
  <2>1. CallsOK' /\ InOrder' /\ Linked' /\ MapOK'
    BY <1>4, TaskMoves DEF Read, Phases, Settled
  <2>2. Fresh' /\ NoConflict'
    BY <1>0, <1>4 DEF Read, Fresh, NoConflict, TypeOK
  <2>. QED BY <1>0, <2>1, <2>2
<1>5. ASSUME NEW u \in Updates, Change(u) PROVE ChainInv'
  <2>1. CallsOK' /\ InOrder' /\ Linked' /\ MapOK'
    BY <1>5, TaskMoves DEF Change, Phases, Settled
  <2>2. Fresh' /\ NoConflict'
    BY <1>0, <1>5 DEF Change, Fresh, NoConflict
  <2>. QED BY <1>0, <2>1, <2>2
<1>6. ASSUME NEW u \in Updates, Save(u) PROVE ChainInv'
  <2>1. seen[u] = stored
    BY <1>6 DEF Save, Fresh
  <2>2. phase' = [phase EXCEPT ![u] = "saved"] /\ UNCHANGED <<calls, previous, tail, seen>>
    BY <1>6, <2>1 DEF Save
  <2>3. CallsOK' /\ InOrder' /\ Linked' /\ MapOK'
    BY <1>6, <2>2, TaskMoves DEF Save, Phases, Settled
  <2>4. \A v \in Updates \ {u} : phase[v] \notin {"read", "saving"}
    BY <1>6, Alone DEF Save
  <2>5. Fresh' /\ NoConflict'
    BY <1>0, <2>2, <2>4 DEF Fresh, NoConflict
  <2>. QED BY <1>0, <2>3, <2>5
<1>7. ASSUME NEW u \in Updates, Clean(u) PROVE ChainInv'
  <2>1. UNCHANGED <<calls, previous, phase, seen, stored>> /\ tail' \in {tail, None}
    BY <1>7 DEF Clean, Leave
  <2>2. CallsOK' /\ InOrder' /\ Linked' /\ Fresh' /\ NoConflict'
    BY <2>1 DEF CallsOK, InOrder, Linked, Fresh, NoConflict, settled
  <2>3. MapOK'
    <3>1. CASE tail = u
      <4>1. u # None /\ Len(calls) > 0 /\ u = calls[Len(calls)]
        BY <3>1, ChainConstants DEF MapOK
      <4>2. settled(u) /\ phase[u] # "waiting"
        BY <1>7 DEF Clean, settled, Settled
      <4>3. \A i \in Index : settled(calls[i])
        BY <1>0, <4>1, <4>2 DEF InOrder
      <4>. QED BY <1>7, <2>1, <3>1, <4>3 DEF Clean, Leave, MapOK, settled
    <3>2. CASE tail # u
      BY <1>7, <2>1, <3>2 DEF Clean, Leave, MapOK, settled
    <3>. QED BY <3>1, <3>2
  <2>. QED BY <1>0, <2>2, <2>3
<1>8. ASSUME NEW u \in Updates, RepositoryFails(u) PROVE ChainInv'
  <2>1. CallsOK' /\ InOrder' /\ Linked' /\ MapOK'
    BY <1>8, TaskMoves DEF RepositoryFails, Phases, Settled
  <2>2. Fresh' /\ NoConflict'
    BY <1>0, <1>8 DEF RepositoryFails, Fresh, NoConflict
  <2>. QED BY <1>0, <2>1, <2>2
<1>9. CASE UNCHANGED vars
  BY <1>0, <1>9 DEF vars, memory, CallsOK, InOrder, Linked, MapOK, Fresh, NoConflict, settled
<1>. QED BY <1>1, <1>2, <1>3, <1>4, <1>5, <1>6, <1>7, <1>8, <1>9 DEF Next, Step

\* It holds before the first call.
LEMMA ChainInit == Init => ChainInv
<1>. SUFFICES ASSUME Init PROVE ChainInv
  OBVIOUS
<1>1. TypeOK
  BY DEF Init, TypeOK, Stores, Settled
<1>2. Len(calls) = 0 /\ \A u \in Updates : phase[u] = "new"
  BY DEF Init
<1>3. CallsOK /\ InOrder /\ Linked /\ MapOK /\ Fresh /\ NoConflict
  BY <1>2 DEF Init, Index, CallsOK, InOrder, Linked, MapOK, Fresh, NoConflict
<1>. QED BY <1>1, <1>3 DEF ChainInv

\* It holds in every reachable state.
LEMMA ChainInvariant == Spec => []ChainInv
<1>. QED BY ChainInit, ChainStep, PTL DEF Spec

-----------------------------------------------------------------------------

\* A change is never computed from a run that has moved on: the revision check of
\* saveRun never fails within a process.
THEOREM NoConflictEver == Spec => []NoConflict
<1>1. ChainInv => NoConflict
  BY DEF ChainInv
<1>. QED BY <1>1, ChainInvariant, PTL

\* What the map holds is a task whose finally callback will still run.
Owned ==
    /\ \A u \in cleaned : settled(u)
    /\ tail # None => tail \notin cleaned /\ phase[tail] \notin {"new", "lost"}

\* A task enters the map when it is called, and leaves it by its own callback.
LEMMA OwnedStep == TypeOK /\ Owned /\ [Next]_vars => Owned'
<1>. SUFFICES ASSUME TypeOK, Owned, [Next]_vars PROVE Owned'
  OBVIOUS
<1>. USE DEF TypeOK, Owned, settled, Settled
<1>1. CASE Crash
  BY <1>1 DEF Crash
<1>2. ASSUME NEW u \in Updates, Call(u) PROVE Owned'
  BY <1>2 DEF Call
<1>3. ASSUME NEW u \in Updates, Clean(u) PROVE Owned'
  <2>1. \A v \in cleaned' : settled(v)'
    BY <1>3 DEF Clean
  <2>2. CASE tail = u
    BY <1>3, <2>1, <2>2 DEF Clean, Leave
  <2>3. CASE tail # u
    BY <1>3, <2>1, <2>3 DEF Clean, Leave
  <2>. QED BY <2>2, <2>3
<1>4. ASSUME NEW u \in Updates, Begin(u) \/ Read(u) \/ Change(u) \/ Save(u) \/ RepositoryFails(u)
      PROVE  Owned'
  <2>1. /\ UNCHANGED <<tail, cleaned>> /\ ~settled(u)
        /\ phase'[u] \notin {"new", "lost"} /\ \A v \in Updates \ {u} : phase'[v] = phase[v]
    BY <1>4 DEF Begin, Read, Change, Save, RepositoryFails
  <2>. QED BY <2>1
<1>5. CASE UNCHANGED vars
  BY <1>5 DEF vars, memory
<1>. QED BY <1>1, <1>2, <1>3, <1>4, <1>5 DEF Next, Step

\* The mutations map holds the last task called until it has settled, and nothing once
\* every callback has run.
THEOREM MapHoldsLastCalled == Spec => []MapHoldsLast
<1>1. Init => Owned
  BY DEF Init, Owned
<1>2. Spec => []Owned
  <2>1. ChainInv => TypeOK
    BY DEF ChainInv
  <2>. QED BY <1>1, <2>1, OwnedStep, ChainInvariant, PTL DEF Spec
<1>3. ChainInv /\ Owned => MapHoldsLast
  BY DEF ChainInv, MapHoldsLast, MapOK, CallsOK, Owned, TypeOK
<1>. QED BY <1>2, <1>3, ChainInvariant, PTL

-----------------------------------------------------------------------------
(* update() keeps its promise. *)

\* A reply is given once, to whoever is not settled.
LEMMA ReplyIs ==
    ASSUME TypeOK, NEW u \in Updates
    PROVE  /\ Reply[u] = IF settled(u) THEN phase[u] ELSE "none"
           /\ Reply[u] = "none" <=> ~settled(u)
BY DEF Reply, settled, Settled

\* One task moves, and the others keep their replies.
LEMMA ReplyMoves ==
    ASSUME TypeOK, NEW u \in Updates, NEW to \in Phases,
           ~settled(u), phase' = [phase EXCEPT ![u] = to]
    PROVE  Reply' = [Reply EXCEPT ![u] = IF to \in Settled THEN to ELSE "none"]
BY DEF TypeOK, Reply, settled

\* A task past its wait has its turn.
LEMMA HasTurn ==
    ASSUME ChainInv, NEW u \in Updates, phase[u] \in {"reading", "read", "saving"}
    PROVE  Promise!Turn(u)
<1>. USE DEF ChainInv
<1>1. PICK k \in Index : calls[k] = u
  BY DEF CallsOK
<1>2. DOMAIN calls = Index /\ \A i \in Index : calls[i] \in Updates
  BY DEF TypeOK, Index
<1>3. \A i \in Index : i < k => settled(calls[i])
  BY <1>1 DEF InOrder
<1>4. Reply[u] = "none" /\ \A i \in Index : i < k => Reply[calls[i]] # "none"
  BY <1>2, <1>3, ReplyIs DEF settled, Settled
<1>. QED BY <1>1, <1>2, <1>4 DEF Promise!Turn

\* The initial states agree.
LEMMA PromiseInit == Init => Promise!Init
BY DEF Init, Promise!Init, Reply, settled, Settled

\* Every step is one of AtomicUpdates, or is invisible to it.
LEMMA PromiseStep ==
    ASSUME ChainInv, ChainInv', [Next]_vars
    PROVE  [Promise!Next]_<<calls, stored.log, Reply>>
<1>. USE DEF ChainInv
<1>0. /\ phase \in [Updates -> Phases] /\ DOMAIN calls = Index
      /\ \A u \in Updates : seen[u] \in Stores
  BY DEF TypeOK, Phases, Index
<1>1. CASE Crash
  <2>1. ASSUME NEW u \in Updates
        PROVE  Reply'[u] = IF Promise!Asked(u) /\ Reply[u] = "none" THEN "lost" ELSE Reply[u]
    <3>1. Promise!Asked(u) <=> phase[u] # "new"
      BY <1>0 DEF Promise!Asked, CallsOK
    <3>2. phase'[u] = IF phase[u] \in Settled \cup {"new"} THEN phase[u] ELSE "lost"
      BY <1>1 DEF Crash
    <3>3. Reply'[u] = IF phase'[u] \in Settled THEN phase'[u] ELSE "none"
      BY DEF Reply, settled
    <3>. QED BY <3>1, <3>2, <3>3, ReplyIs DEF settled, Settled
  <2>2. Reply' = [u \in Updates |->
                    IF Promise!Asked(u) /\ Reply[u] = "none" THEN "lost" ELSE Reply[u]]
    BY <2>1 DEF Reply
  <2>3. UNCHANGED <<calls, stored.log>>
    BY <1>1 DEF Crash
  <2>. QED BY <2>2, <2>3 DEF Promise!Next, Promise!Crash
<1>2. ASSUME NEW u \in Updates, Call(u) PROVE Promise!Ask(u)
  <2>1. ~Promise!Asked(u)
    BY <1>0, <1>2 DEF Call, Promise!Asked, CallsOK
  <2>2. Reply' = Reply
    <3>1. Reply' = [Reply EXCEPT ![u] = "none"]
      BY <1>2, ReplyMoves DEF Call, Phases, Settled, settled
    <3>2. Reply[u] = "none"
      BY <1>2, ReplyIs DEF Call, settled, Settled
    <3>. QED BY <3>1, <3>2 DEF Reply
  <2>. QED BY <1>2, <2>1, <2>2 DEF Call, Promise!Ask
<1>3. ASSUME NEW u \in Updates, Begin(u) \/ Read(u)
      PROVE  UNCHANGED <<calls, stored.log, Reply>>
  <2>1. PICK to \in {"reading", "read"} : phase' = [phase EXCEPT ![u] = to]
    BY <1>3 DEF Begin, Read
  <2>2. ~settled(u)
    BY <1>3 DEF Begin, Read, settled, Settled
  <2>3. Reply' = [Reply EXCEPT ![u] = "none"] /\ Reply[u] = "none"
    BY <2>1, <2>2, ReplyMoves, ReplyIs DEF Phases, Settled
  <2>4. Reply' = Reply
    BY <2>3 DEF Reply
  <2>. QED BY <1>3, <2>4 DEF Begin, Read
<1>4. ASSUME NEW u \in Updates, Change(u)
      PROVE  Promise!Refuse(u) \/ UNCHANGED <<calls, stored.log, Reply>>
  <2>1. seen[u] = stored /\ ~settled(u) /\ UNCHANGED <<calls, stored>>
    BY <1>4 DEF Change, Fresh, settled, Settled
  <2>2. CASE Refuses(u, stored.log)
    <3>1. Reply' = [Reply EXCEPT ![u] = "refused"]
      BY <1>4, <2>1, <2>2, ReplyMoves DEF Change, Phases, Settled
    <3>2. Promise!Turn(u)
      BY <1>4, HasTurn DEF Change
    <3>. QED BY <2>1, <2>2, <3>1, <3>2 DEF Promise!Refuse, Promise!Refuses, Refuses
  <2>3. CASE ~Refuses(u, stored.log)
    <3>1. Reply' = [Reply EXCEPT ![u] = "none"] /\ Reply[u] = "none"
      BY <1>4, <2>1, <2>3, ReplyMoves, ReplyIs DEF Change, Phases, Settled
    <3>2. Reply' = Reply
      BY <3>1 DEF Reply
    <3>. QED BY <2>1, <3>2
  <2>. QED BY <2>2, <2>3
<1>5. ASSUME NEW u \in Updates, Save(u) PROVE Promise!Apply(u)
  <2>1. seen[u] = stored /\ ~Refuses(u, stored.log) /\ ~settled(u)
    BY <1>5 DEF Save, Fresh, settled, Settled
  <2>2. /\ phase' = [phase EXCEPT ![u] = "saved"] /\ UNCHANGED calls
        /\ stored'.log = Append(stored.log, u)
    BY <1>5, <2>1 DEF Save
  <2>3. Reply' = [Reply EXCEPT ![u] = "saved"]
    BY <2>1, <2>2, ReplyMoves DEF Phases, Settled
  <2>4. Promise!Turn(u)
    BY <1>5, HasTurn DEF Save
  <2>. QED BY <2>1, <2>2, <2>3, <2>4 DEF Promise!Apply, Promise!Refuses, Refuses
<1>6. ASSUME NEW u \in Updates, RepositoryFails(u) PROVE Promise!Fail(u)
  <2>1. Reply' = [Reply EXCEPT ![u] = "failed"]
    BY <1>6, ReplyMoves DEF RepositoryFails, Phases, Settled, settled
  <2>2. Promise!Turn(u)
    BY <1>6, HasTurn DEF RepositoryFails
  <2>. QED BY <1>6, <2>1, <2>2 DEF RepositoryFails, Promise!Fail
<1>7. ASSUME UNCHANGED <<stored, phase, calls>>
      PROVE  UNCHANGED <<calls, stored.log, Reply>>
  BY <1>7 DEF Reply, settled
<1>8. \A u \in Updates : Clean(u) => UNCHANGED <<stored, phase, calls>>
  BY DEF Clean
<1>9. UNCHANGED vars => UNCHANGED <<stored, phase, calls>>
  BY DEF vars, memory
<1>. QED BY <1>1, <1>2, <1>3, <1>4, <1>5, <1>6, <1>7, <1>8, <1>9
         DEF Next, Step, Promise!Next

\* Through the chain of promises, the map and compare-and-swap, updates take effect one
\* at a time, in the order of the calls, each on what its predecessor left.
THEOREM UpdateIsAtomic == Spec => Atomic
<1>1. ChainInv /\ ChainInv' /\ [Next]_vars => [Promise!Next]_<<calls, stored.log, Reply>>
  BY PromiseStep
<1>. QED BY <1>1, PromiseInit, ChainInvariant, PTL DEF Spec, Atomic, Promise!Spec
=============================================================================
