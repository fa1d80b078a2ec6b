---------------------------- MODULE ApprovalsProofs ----------------------------
(***************************************************************************)
(* The approval store implements the register of decisions, gates run their *)
(* child under an approval of their own work, and waiting steps are told   *)
(* what stands, for any number of requests, runs and workflows.            *)
(*                                                                         *)
(* Everything rests on one fact about the store: whatever a step does, it  *)
(* leaves a settled request settled as it was, and makes new requests only *)
(* at the end (StoreStep).  What a gate or a waiter read in an earlier step *)
(* is therefore still so when it acts on it.                               *)
(***************************************************************************)
EXTENDS Approvals, FiniteSetTheorems, SequenceTheorems, WellFoundedInduction, TLAPS

Boards == [work : Works, req : 0..MaxRequests, seen : Statuses, since : 0..MaxRequests, done : BOOLEAN]
Answers == {"idle", "waiting", "approved", "escalated", "refused", "lost"}
Steps == {"idle", "tick", "gated", "unasked", "child"}

\* TypeOK in three parts.
StoreTypes == /\ status \in [Ids -> Statuses] /\ owner \in Seq(Owners) /\ Len(owner) <= MaxRequests
              /\ ended \in Seq(Ids) /\ dropped \subseteq Ids /\ late \subseteq Ids
GateTypes == /\ pc \in [Runs -> Steps] /\ board \in [Runs -> Boards] /\ spent \in [Runs -> SUBSET Ids]
WaitTypes == /\ wait \in [Waiters -> Answers] /\ asked \in [Waiters -> 0..MaxRequests]

Settles(s) == s \notin Unresolved \cup {"none"}

\* The requests made have a status, and only what is settled is in line to be dropped.
StoreOK ==
  /\ \A i \in Ids : status[i] # "none" <=> i <= Len(owner)
  /\ \A k \in 1..Len(ended) : Settles(status[ended[k]])
  /\ \A i \in dropped : Settles(status[i])

\* A gate's request is of its own work, and not one its child has completed under;
\* what it has seen granted is granted.
GateOK(r) ==
  /\ board[r].req # 0 => /\ board[r].req <= Len(owner) /\ owner[board[r].req] = board[r].work
                         /\ board[r].req \notin spent[r]
  /\ \A i \in spent[r] : Grants(i, board[r].work)
  /\ pc[r] = "idle" => spent[r] = {}
  /\ pc[r] = "gated" => /\ board[r].req # 0
                        /\ board[r].seen \in {"approved", "skipped"} => Grants(board[r].req, board[r].work)
  /\ pc[r] = "child" => board[r].req # 0 /\ Grants(board[r].req, board[r].work)

\* What a search found not pending never is again.
SearchOK(r) ==
  /\ board[r].since <= Len(owner)
  /\ pc[r] = "unasked" =>
       \A i \in 1..board[r].since : owner[i] = board[r].work => status[i] # "pending"

\* A waiting step has asked for itself; what it was told stands.
WaitOK(w) ==
  /\ asked[w] # 0 => asked[w] <= Len(owner) /\ owner[asked[w]] = w
  /\ wait[w] = "idle" => asked[w] = 0
  /\ wait[w] \in {"waiting", "refused"} => asked[w] # 0
  /\ wait[w] = "approved" /\ asked[w] # 0 => Grants(asked[w], w)
  /\ wait[w] = "refused" => status[asked[w]] \in {"rejected", "expired"}

IInv == /\ StoreTypes /\ GateTypes /\ WaitTypes /\ StoreOK
        /\ \A r \in Runs : GateOK(r) /\ SearchOK(r)
        /\ \A w \in Waiters : WaitOK(w)

\* The newest of some requests is one of them.
LEMMA NewestIsOne ==
  ASSUME NEW n \in Nat, NEW S \in SUBSET (1..n), S # {}
  PROVE  Max(S) \in S
<1> DEFINE T == {n - x : x \in S}
<1> DEFINE R == {ss \in Nat \X Nat : ss[1] < ss[2]}
<1>1. IsWellFoundedOn(R, Nat)
  BY NatLessThanWellFounded DEF OpToRel
<1>2. T \subseteq Nat /\ T # {}
  <2>1. \A x \in S : x \in Nat /\ x <= n
    OBVIOUS
  <2>2. \A x \in S : n - x \in Nat
    BY <2>1
  <2> QED BY <2>2
<1>3. PICK m \in T : \A y \in T : <<y, m>> \notin R
  <2> HIDE DEF T, R
  <2> QED BY <1>1, <1>2, WFMin
<1>4. \A y \in T : m <= y
  <2> SUFFICES ASSUME NEW y \in T PROVE m <= y
    OBVIOUS
  <2>1. m \in Nat /\ y \in Nat /\ <<y, m>> \notin R
    BY <1>2, <1>3
  <2> QED BY <2>1
<1>5. PICK x \in S : m = n - x
  OBVIOUS
<1>6. ASSUME NEW y \in S PROVE x >= y
  <2>1. n - y \in T
    OBVIOUS
  <2> QED BY <1>4, <1>5, <2>1
<1> QED BY <1>6 DEF Max

-----------------------------------------------------------------------------
(* The store.                                                               *)

\* A transaction settles requests and makes them; it takes no answer back.
Advance(new) ==
  /\ new \in [Ids -> Statuses]
  /\ \A i \in Ids : Settles(status[i]) => new[i] = status[i]
  /\ \A i \in Ids : status[i] # "none" => new[i] # "none"

\* The orders in which requests can be saved.
LEMMA OrdersAreSequences ==
  ASSUME NEW S \in SUBSET Ids, NEW order \in SetToSeqs(S)
  PROVE  order \in Seq(Ids) /\ \A k \in 1..Len(order) : order[k] \in S
<1>1. IsFiniteSet(Ids)
  BY FS_Interval, RequestsAreBounded DEF Ids
<1>2. Cardinality(S) \in Nat
  BY <1>1, FS_Subset, FS_CardinalityType
<1>3. order \in [1..Cardinality(S) -> S]
  BY DEF SetToSeqs
<1>4. order \in Seq(S) /\ Len(order) = Cardinality(S)
  <2> HIDE DEF Ids
  <2> QED BY <1>2, <1>3
<1>5. order \in Seq(Ids)
  BY <1>2, <1>3
<1> QED
  BY <1>3, <1>4, <1>5

\* persistRecords keeps what is unresolved: only settled requests are in line to
\* be dropped, or are.
LEMMA Saved ==
  ASSUME StoreTypes, StoreOK, NEW new, Advance(new), Save(new)
  PROVE  /\ status' = new
         /\ ended' \in Seq(Ids) /\ dropped' \subseteq Ids
         /\ \A k \in 1..Len(ended') : Settles(new[ended'[k]])
         /\ \A i \in dropped' : Settles(new[i])
<1> DEFINE settled == {i \in Ids : new[i] \notin Unresolved \cup {"none"}} \ ToSet(ended)
<1>1. PICK order \in SetToSeqs(settled) :
        /\ status' = new /\ ended' = ended \o order
        /\ dropped' = {ended'[k] : k \in {k \in DOMAIN ended' : k + Retain <= Len(ended')}}
  BY DEF Save
<1>2. settled \in SUBSET Ids /\ \A i \in settled : Settles(new[i])
  BY DEF Settles
<1>3. order \in Seq(Ids) /\ \A k \in 1..Len(order) : order[k] \in settled
  <2> HIDE DEF settled
  <2> QED BY <1>1, <1>2, OrdersAreSequences
<1>4. ended \in Seq(Ids) /\ \A k \in 1..Len(ended) : ended[k] \in Ids /\ Settles(new[ended[k]])
  BY DEF StoreTypes, StoreOK, Advance
<1> HIDE DEF settled
<1>5. ended' \in Seq(Ids)
  BY <1>1, <1>3, <1>4
<1>6. ASSUME NEW k \in 1..Len(ended')
      PROVE  ended'[k] \in Ids /\ Settles(new[ended'[k]])
  <2>1. CASE k <= Len(ended)
    BY <1>1, <1>3, <1>4, <1>6, <2>1
  <2>2. CASE k > Len(ended)
    <3>1. k - Len(ended) \in 1..Len(order) /\ ended'[k] = order[k - Len(ended)]
      BY <1>1, <1>3, <1>4, <1>6, <2>2
    <3> QED BY <1>2, <1>3, <3>1
  <2> QED BY <1>4, <1>6, <2>1, <2>2
<1>7. \A i \in dropped' : \E k \in 1..Len(ended') : i = ended'[k]
  BY <1>1, <1>5
<1> QED
  BY <1>1, <1>5, <1>6, <1>7

\* What is stored has been made.
LEMMA StoredAreMade ==
  ASSUME StoreTypes
  PROVE  /\ Len(owner) \in Nat /\ 1..Len(owner) \subseteq Ids /\ Stored \subseteq 1..Len(owner)
         /\ \A i \in 1..Len(owner) : owner[i] \in Owners
  BY RequestsAreBounded DEF StoreTypes, Stored, Ids

\* Expiring requests, in any number, settles them.
LEMMA ExpiringAdvances ==
  ASSUME StoreTypes, NEW S
  PROVE  Advance(Expired(S)) /\ \A i \in Ids : Expired(S)[i] = "pending" => status[i] = "pending"
  BY DEF StoreTypes, Advance, Expired, Settles, Unresolved, Statuses

\* So does deciding one; an escalation leaves it to be decided.
LEMMA DecidingAdvances ==
  ASSUME StoreTypes, NEW i \in Ids, status[i] \in Unresolved,
         NEW verdict \in {"approved", "rejected", "escalated"}
  PROVE  Advance([status EXCEPT ![i] = verdict])
  BY DEF StoreTypes, Advance, Settles, Unresolved, Statuses

\* A new request takes the next place, which nobody has.
LEMMA CreatingAdvances ==
  ASSUME StoreTypes, StoreOK, NEW first \in {"pending", "skipped"}, Len(owner) < MaxRequests
  PROVE  /\ Len(owner) + 1 \in Ids /\ status[Len(owner) + 1] = "none"
         /\ Advance([status EXCEPT ![Len(owner) + 1] = first])
<1>1. Len(owner) + 1 \in Ids /\ status[Len(owner) + 1] = "none"
  BY StoredAreMade, RequestsAreBounded DEF StoreOK, Ids
<1> QED
  BY <1>1 DEF StoreTypes, Advance, Settles, Unresolved, Statuses

\* The five things a step does to the store: nothing, expire requests, make one,
\* decide one, or let a deadline pass.
StoreRests == UNCHANGED <<store, late>>
Expires == \E S \in SUBSET Ids : Save(Expired(S)) /\ UNCHANGED <<owner, late>>
Makes == \E o \in Owners : \E first \in {"pending", "skipped"} : Create(o, first) /\ UNCHANGED late
Decides ==
  \E i \in Ids : \E verdict \in {"approved", "rejected", "escalated"} :
    /\ i \in Stored /\ status[i] \in Unresolved /\ i \notin late
    /\ Save([status EXCEPT ![i] = verdict])
    /\ UNCHANGED <<owner, late>>
Passes ==
  \E i \in Ids : /\ status[i] \in Unresolved /\ i \notin late
                 /\ late' = late \cup {i} /\ UNCHANGED store
StoreMoves == StoreRests \/ Expires \/ Makes \/ Decides \/ Passes

\* The operators move the store.
LEMMA OperatorMoves == StoreTypes /\ Operator => StoreMoves /\ UNCHANGED <<gates, waiters>>
<1> SUFFICES ASSUME StoreTypes, Operator PROVE StoreMoves /\ UNCHANGED <<gates, waiters>>
  OBVIOUS
<1>1. ASSUME NEW i, NEW verdict \in {"approved", "rejected", "escalated"}, Decide(i, verdict)
      PROVE  Decides /\ UNCHANGED <<gates, waiters>>
  <2>1. i \in Ids
    BY <1>1, StoredAreMade DEF Decide
  <2> QED BY <1>1, <2>1 DEF Decide, Decides
<1>2. ASSUME Poll PROVE Expires /\ UNCHANGED <<gates, waiters>>
  BY <1>2, StoredAreMade DEF Poll, Expires
<1> QED
  BY <1>1, <1>2 DEF Operator, DecideTask, StoreMoves

\* Gates move it when they refresh, search and ask.
LEMMA GateMoves ==
  ASSUME StoreTypes, GateTypes, NEW r \in Runs, Begin(r) \/ Tick(r) \/ GateFails(r) \/ End(r)
  PROVE  StoreMoves
<1>1. ASSUME Refresh(r) PROVE Expires
  <2>1. {board[r].req} \in SUBSET Ids
    BY <1>1, StoredAreMade DEF Refresh
  <2> QED BY <1>1, <2>1 DEF Refresh, Expires
<1>2. ASSUME Search(r) PROVE Expires
  BY <1>2, StoredAreMade DEF Search, Expires
<1>3. ASSUME Ask(r) PROVE Makes
  <2>1. board[r].work \in Owners
    BY DEF GateTypes, Boards, Owners
  <2> QED BY <1>3, <2>1 DEF Ask, Makes
<1>4. ASSUME Begin(r) \/ RunFirst(r) \/ Conclude(r) \/ ChildReturns(r) \/ GateFails(r) \/ End(r)
      PROVE  StoreRests
  BY <1>4 DEF StoreRests, Begin, RunFirst, Conclude, ChildReturns, GateFails, End
<1> QED
  BY <1>1, <1>2, <1>3, <1>4 DEF Tick, StoreMoves

\* Waiting steps move it when they start and when they poll.
LEMMA WaiterMoves ==
  ASSUME StoreTypes, NEW w \in Waiters, StartWait(w) \/ PollWait(w) \/ GiveUp(w)
  PROVE  StoreMoves
<1>1. ASSUME StartWait(w) PROVE Makes \/ StoreRests
  BY <1>1 DEF StartWait, Makes, StoreRests, Owners
<1>2. ASSUME PollWait(w) PROVE Expires \/ StoreRests
  <2>1. asked[w] \in Stored => {asked[w]} \in SUBSET Ids
    BY StoredAreMade
  <2> QED BY <1>2, <2>1 DEF PollWait, Expires, StoreRests, store
<1>3. ASSUME GiveUp(w) PROVE StoreRests
  BY <1>3 DEF GiveUp, StoreRests
<1> QED
  BY <1>1, <1>2, <1>3 DEF StoreMoves

\* Every step does one of the five.
LEMMA NextMoves == StoreTypes /\ GateTypes /\ [Next]_vars => StoreMoves
<1> SUFFICES ASSUME StoreTypes, GateTypes, [Next]_vars PROVE StoreMoves
  OBVIOUS
<1>1. ASSUME UNCHANGED vars PROVE StoreRests
  BY <1>1 DEF vars, StoreRests
<1>2. ASSUME NEW i \in Ids, Pass(i) PROVE Passes
  BY <1>2 DEF Pass, Passes
<1> QED
  BY <1>1, <1>2, OperatorMoves, GateMoves, WaiterMoves DEF Next, StoreMoves

\* Requests are made at the end, keep their owners, and once settled keep their
\* status; nothing becomes pending but a new request.
Persists ==
  /\ Len(owner) <= Len(owner')
  /\ \A i \in 1..Len(owner) : owner'[i] = owner[i]
  /\ \A i \in Ids : Settles(status[i]) => status'[i] = status[i]
  /\ \A i \in 1..Len(owner) : status'[i] = "pending" => status[i] = "pending"

\* Every step keeps what was decided (transaction, persistRecords).
LEMMA StoreStep ==
  ASSUME StoreTypes, StoreOK, StoreMoves
  PROVE  StoreTypes' /\ StoreOK' /\ Persists
<1>1. ASSUME StoreRests PROVE StoreTypes' /\ StoreOK' /\ Persists
  BY <1>1, StoredAreMade DEF StoreRests, store, StoreTypes, StoreOK, Persists
<1>2. ASSUME NEW new, Advance(new), Save(new), UNCHANGED <<owner, late>>,
             \A i \in 1..Len(owner) : new[i] # "none" /\ (new[i] = "pending" => status[i] = "pending"),
             \A i \in Ids : status[i] = "none" => new[i] = "none"
      PROVE  StoreTypes' /\ StoreOK' /\ Persists
  <2>1. /\ status' = new /\ ended' \in Seq(Ids) /\ dropped' \subseteq Ids
        /\ \A k \in 1..Len(ended') : Settles(new[ended'[k]])
        /\ \A i \in dropped' : Settles(new[i])
    BY <1>2, Saved
  <2>2. StoreTypes'
    BY <1>2, <2>1 DEF StoreTypes, Advance
  <2>3. \A i \in Ids : status'[i] # "none" <=> i <= Len(owner')
    BY <1>2, <2>1 DEF StoreOK, Advance
  <2>4. StoreOK'
    BY <2>1, <2>3 DEF StoreOK
  <2>5. Persists
    BY <1>2, <2>1, StoredAreMade DEF Persists, Advance
  <2> QED BY <2>2, <2>4, <2>5
<1>3. ASSUME Expires PROVE StoreTypes' /\ StoreOK' /\ Persists
  <2>1. PICK S \in SUBSET Ids : Save(Expired(S)) /\ UNCHANGED <<owner, late>>
    BY <1>3 DEF Expires
  <2>2. Advance(Expired(S)) /\ \A i \in Ids : Expired(S)[i] = "pending" => status[i] = "pending"
    BY ExpiringAdvances
  <2>3. \A i \in Ids : status[i] = "none" => Expired(S)[i] = "none"
    BY DEF Expired, Unresolved
  <2>4. \A i \in 1..Len(owner) : i \in Ids /\ status[i] # "none"
    BY StoredAreMade DEF StoreOK
  <2>5. \A i \in 1..Len(owner) : Expired(S)[i] # "none" /\ (Expired(S)[i] = "pending" => status[i] = "pending")
    BY <2>2, <2>4 DEF Advance
  <2> HIDE DEF Expired
  <2> QED BY <2>1, <2>2, <2>3, <2>5, <1>2
<1>4. ASSUME Decides PROVE StoreTypes' /\ StoreOK' /\ Persists
  <2>1. PICK i \in Ids, verdict \in {"approved", "rejected", "escalated"} :
          /\ i \in Stored /\ status[i] \in Unresolved
          /\ Save([status EXCEPT ![i] = verdict]) /\ UNCHANGED <<owner, late>>
    BY <1>4 DEF Decides
  <2> DEFINE new == [status EXCEPT ![i] = verdict]
  <2>2. Advance(new)
    BY <2>1, DecidingAdvances
  <2>3. \A j \in 1..Len(owner) : j \in Ids /\ status[j] # "none"
    BY StoredAreMade DEF StoreOK
  <2>4. \A j \in 1..Len(owner) : new[j] # "none" /\ (new[j] = "pending" => status[j] = "pending")
    BY <2>1, <2>3 DEF StoreTypes
  <2>5. \A j \in Ids : status[j] = "none" => new[j] = "none"
    BY <2>1 DEF StoreTypes, Unresolved
  <2>6. Save(new)
    BY <2>1
  <2> HIDE DEF new
  <2> QED BY <2>1, <2>2, <2>4, <2>5, <2>6, <1>2
<1>5. ASSUME Makes PROVE StoreTypes' /\ StoreOK' /\ Persists
  <2>1. PICK o \in Owners, first \in {"pending", "skipped"} : Create(o, first) /\ UNCHANGED late
    BY <1>5 DEF Makes
  <2> DEFINE new == [status EXCEPT ![Len(owner) + 1] = first]
  <2>2. Len(owner) < MaxRequests /\ owner' = Append(owner, o) /\ Save(new)
    BY <2>1 DEF Create
  <2>3. Len(owner) + 1 \in Ids /\ status[Len(owner) + 1] = "none" /\ Advance(new)
    BY <2>2, CreatingAdvances
  <2>4. /\ owner' \in Seq(Owners) /\ Len(owner') = Len(owner) + 1
        /\ \A i \in 1..Len(owner) : owner'[i] = owner[i]
    BY <2>2 DEF StoreTypes
  <2>5. \A i \in Ids : IF i = Len(owner) + 1 THEN new[i] = first ELSE new[i] = status[i]
    BY DEF StoreTypes
  <2> HIDE DEF new
  <2>6. /\ status' = new /\ ended' \in Seq(Ids) /\ dropped' \subseteq Ids
        /\ \A k \in 1..Len(ended') : Settles(new[ended'[k]])
        /\ \A i \in dropped' : Settles(new[i])
    BY <2>2, <2>3, Saved
  <2>7. StoreTypes'
    BY <2>1, <2>2, <2>3, <2>4, <2>6, StoredAreMade, RequestsAreBounded DEF StoreTypes, Advance
  <2>8. \A i \in Ids : status'[i] # "none" <=> i <= Len(owner')
    BY <2>3, <2>4, <2>5, <2>6, StoredAreMade DEF StoreOK, Ids
  <2>9. StoreOK'
    BY <2>6, <2>8 DEF StoreOK
  <2>10. Persists
    BY <2>3, <2>4, <2>5, <2>6, StoredAreMade DEF Persists, Advance
  <2> QED BY <2>7, <2>9, <2>10
<1>6. ASSUME Passes PROVE StoreTypes' /\ StoreOK' /\ Persists
  BY <1>6, StoredAreMade DEF Passes, store, StoreTypes, StoreOK, Persists
<1> QED
  BY <1>1, <1>3, <1>4, <1>5, <1>6 DEF StoreMoves

-----------------------------------------------------------------------------
(* The gates.                                                               *)

\* A grant stands: nothing takes back the approval of a piece of work.
LEMMA GrantsStand ==
  ASSUME StoreTypes, StoreOK, Persists
  PROVE  \A i \in Ids, o \in Owners : Grants(i, o) =>
           /\ i \in 1..Len(owner) /\ status'[i] = status[i]
           /\ status'[i] \in {"approved", "skipped"} /\ owner'[i] = o
  BY StoredAreMade DEF Grants, StoreOK, Persists, Settles, Unresolved, Ids

\* The step is of run r; the gates of the others stand where they stood.
OfRun(r) == \A x \in Runs \ {r} : pc'[x] = pc[x] /\ board'[x] = board[x] /\ spent'[x] = spent[x]

\* What the others do to the store leaves a gate's knowledge true.
LEMMA GateStands ==
  ASSUME StoreTypes, StoreOK, GateTypes, Persists, StoreTypes', StoreOK',
         NEW r \in Runs, GateOK(r), SearchOK(r),
         pc'[r] = pc[r], board'[r] = board[r], spent'[r] = spent[r]
  PROVE  GateOK(r)' /\ SearchOK(r)'
<1>1. board[r] \in Boards /\ spent[r] \subseteq Ids
  BY DEF GateTypes
<1>2. /\ board[r].work \in Works /\ board[r].since \in Nat
      /\ board[r].req # 0 => board[r].req \in Ids
  BY <1>1, RequestsAreBounded DEF Boards, Ids
<1>3. \A i \in Ids : Grants(i, board[r].work) =>
        status'[i] \in {"approved", "skipped"} /\ owner'[i] = board[r].work
  BY <1>2, GrantsStand DEF Owners
<1>4. board[r].req # 0 => board[r].req <= Len(owner') /\ owner'[board[r].req] = board[r].work
  BY <1>2, StoredAreMade DEF GateOK, Persists, StoreTypes, Ids
<1>5. GateOK(r)'
  BY <1>1, <1>2, <1>3, <1>4 DEF GateOK, Grants
<1>6. SearchOK(r)'
  BY <1>2, StoredAreMade DEF SearchOK, Persists, StoreTypes
<1> QED
  BY <1>5, <1>6

\* What a gate writes on its blackboard.
LEMMA BoardMoves ==
  ASSUME GateTypes, NEW r \in Runs
  PROVE  /\ \A q \in 0..MaxRequests, s \in Statuses : Know(r, q, s) =>
              /\ board' \in [Runs -> Boards] /\ \A x \in Runs \ {r} : board'[x] = board[x]
              /\ board'[r].req = q /\ board'[r].seen = s /\ board'[r].since = 0
              /\ board'[r].work = board[r].work
         /\ \A w \in Works : board' = [board EXCEPT ![r] = Fresh(w)] =>
              /\ board' \in [Runs -> Boards] /\ \A x \in Runs \ {r} : board'[x] = board[x]
              /\ board'[r].work = w /\ board'[r].req = 0 /\ board'[r].since = 0
         /\ \A n \in 0..MaxRequests : board' = [board EXCEPT ![r].since = n] =>
              /\ board' \in [Runs -> Boards] /\ \A x \in Runs \ {r} : board'[x] = board[x]
              /\ board'[r].work = board[r].work /\ board'[r].req = board[r].req
              /\ board'[r].since = n
         /\ board' = [board EXCEPT ![r].done = TRUE] =>
              /\ board' \in [Runs -> Boards] /\ \A x \in Runs \ {r} : board'[x] = board[x]
              /\ board'[r].work = board[r].work /\ board'[r].req = board[r].req
              /\ board'[r].seen = board[r].seen /\ board'[r].since = board[r].since
<1>1. board \in [Runs -> Boards] /\ "none" \in Statuses /\ 0 \in 0..MaxRequests
  BY RequestsAreBounded DEF GateTypes, Statuses
<1>2. \A w \in Works : Fresh(w) \in Boards
  BY <1>1 DEF Fresh, Boards
<1>3. /\ \A q \in 0..MaxRequests, s \in Statuses : Know(r, q, s) =>
           /\ board' \in [Runs -> Boards] /\ \A x \in Runs \ {r} : board'[x] = board[x]
           /\ board'[r].req = q /\ board'[r].seen = s /\ board'[r].since = 0
           /\ board'[r].work = board[r].work
  <2> SUFFICES ASSUME NEW q \in 0..MaxRequests, NEW s \in Statuses, Know(r, q, s)
               PROVE  /\ board' \in [Runs -> Boards] /\ \A x \in Runs \ {r} : board'[x] = board[x]
                      /\ board'[r].req = q /\ board'[r].seen = s /\ board'[r].since = 0
                      /\ board'[r].work = board[r].work
    OBVIOUS
  <2> DEFINE new == [board[r] EXCEPT !.req = q, !.seen = s, !.since = 0]
  <2>1. board' = [board EXCEPT ![r] = new]
    BY DEF Know
  <2>2. new \in Boards /\ new.req = q /\ new.seen = s /\ new.since = 0 /\ new.work = board[r].work
    BY <1>1 DEF Boards
  <2> HIDE DEF new
  <2> QED BY <1>1, <2>1, <2>2
<1>4. \A n \in 0..MaxRequests : [board[r] EXCEPT !.since = n] \in Boards
  BY <1>1 DEF Boards
<1>5. [board[r] EXCEPT !.done = TRUE] \in Boards
  BY <1>1 DEF Boards
<1>6. \A w \in Works : board' = [board EXCEPT ![r] = Fresh(w)] =>
           /\ board' \in [Runs -> Boards] /\ \A x \in Runs \ {r} : board'[x] = board[x]
           /\ board'[r].work = w /\ board'[r].req = 0 /\ board'[r].since = 0
  BY <1>1, <1>2 DEF Fresh
<1>7. \A n \in 0..MaxRequests : board' = [board EXCEPT ![r].since = n] =>
           /\ board' \in [Runs -> Boards] /\ \A x \in Runs \ {r} : board'[x] = board[x]
           /\ board'[r] = [board[r] EXCEPT !.since = n]
  BY <1>1, <1>4
<1>8. board' = [board EXCEPT ![r].done = TRUE] =>
           /\ board' \in [Runs -> Boards] /\ \A x \in Runs \ {r} : board'[x] = board[x]
           /\ board'[r] = [board[r] EXCEPT !.done = TRUE]
  BY <1>1, <1>5
<1>9. board[r] \in Boards
  BY <1>1
<1> QED
  BY <1>3, <1>6, <1>7, <1>8, <1>9 DEF Boards

\* Its place changes alone.
LEMMA PlaceMoves ==
  ASSUME GateTypes, NEW r \in Runs, NEW there \in Steps, Go(r, there)
  PROVE  pc' \in [Runs -> Steps] /\ pc'[r] = there /\ \A x \in Runs \ {r} : pc'[x] = pc[x]
  BY DEF GateTypes, Go

\* What a gate's step has to establish.
Kept(r) == GateTypes' /\ OfRun(r) /\ GateOK(r)' /\ SearchOK(r)'

\* A new run knows nothing and has completed nothing.
LEMMA BeginKept ==
  ASSUME GateTypes, NEW r \in Runs, GateOK(r), Begin(r), StoreTypes'
  PROVE  Kept(r)
<1>1. PICK w \in Works : board' = [board EXCEPT ![r] = Fresh(w)]
  BY DEF Begin
<1>2. /\ board' \in [Runs -> Boards] /\ \A x \in Runs \ {r} : board'[x] = board[x]
      /\ board'[r].work = w /\ board'[r].req = 0 /\ board'[r].since = 0
  BY <1>1, BoardMoves
<1>3. pc' \in [Runs -> Steps] /\ pc'[r] = "tick" /\ \A x \in Runs \ {r} : pc'[x] = pc[x]
  BY PlaceMoves DEF Begin, Steps
<1>4. spent' = spent /\ spent[r] = {}
  BY DEF Begin, GateOK
<1>5. Len(owner') \in Nat
  BY DEF StoreTypes
<1> QED
  BY <1>2, <1>3, <1>4, <1>5 DEF Kept, GateTypes, OfRun, GateOK, SearchOK

\* What it refreshes is the status the store gives its own request.
LEMMA RefreshKept ==
  ASSUME StoreTypes, StoreOK, GateTypes, NEW r \in Runs, GateOK(r), Refresh(r),
         StoreTypes', StoreOK', Persists
  PROVE  Kept(r)
<1> DEFINE q == board[r].req
<1>1. q \in Ids /\ q # 0 /\ q \in 1..Len(owner) /\ q \in 0..MaxRequests /\ q <= Len(owner')
  BY StoredAreMade DEF Refresh, Ids, Persists, StoreTypes
<1>2. status'[q] \in Statuses
  BY <1>1 DEF StoreTypes
<1>3. Know(r, q, status'[q])
  BY DEF Refresh
<1>4. /\ board' \in [Runs -> Boards] /\ \A x \in Runs \ {r} : board'[x] = board[x]
      /\ board'[r].req = q /\ board'[r].seen = status'[q] /\ board'[r].since = 0
      /\ board'[r].work = board[r].work
  BY <1>1, <1>2, <1>3, BoardMoves
<1>5. pc' \in [Runs -> Steps] /\ pc'[r] = "gated" /\ \A x \in Runs \ {r} : pc'[x] = pc[x]
  BY PlaceMoves DEF Refresh, Steps
<1>6. spent' = spent /\ spent[r] \subseteq Ids /\ board[r].work \in Works
  BY DEF Refresh, GateTypes, Boards
<1>7. owner'[q] = board[r].work /\ q \notin spent[r]
  BY <1>1 DEF GateOK, Persists
<1>8. \A i \in spent[r] : Grants(i, board[r].work)'
  BY <1>4, <1>6, GrantsStand DEF GateOK, Grants, Owners
<1>9. GateOK(r)'
  BY <1>1, <1>4, <1>5, <1>6, <1>7, <1>8 DEF GateOK, Grants
<1>10. SearchOK(r)'
  BY <1>4, <1>5 DEF SearchOK, StoreTypes
<1> QED
  BY <1>4, <1>5, <1>6, <1>9, <1>10 DEF Kept, GateTypes, OfRun

\* What a search finds pending is nobody's approval yet; what it does not find
\* pending never is.
LEMMA SearchKept ==
  ASSUME StoreTypes, StoreOK, GateTypes, NEW r \in Runs, GateOK(r), Search(r),
         StoreTypes', StoreOK', Persists
  PROVE  Kept(r)
<1> DEFINE open == {i \in Stored : status'[i] = "pending" /\ owner[i] = board[r].work}
<1>1. spent' = spent /\ owner' = owner
  BY DEF Search
<1>2. spent[r] \subseteq Ids /\ board[r].work \in Owners /\ board[r].req \in 0..MaxRequests
  BY DEF GateTypes, Boards, Owners
<1>3. \A i \in spent[r] : /\ status'[i] \in {"approved", "skipped"} /\ owner'[i] = board[r].work
                          /\ i \in 1..Len(owner)
  BY <1>2, GrantsStand DEF GateOK
<1>4. CASE open = {}
  <2>1. Go(r, "unasked") /\ board' = [board EXCEPT ![r].since = Len(owner)]
    BY <1>4 DEF Search
  <2>2. Len(owner) \in 0..MaxRequests
    BY DEF StoreTypes
  <2>3. /\ board' \in [Runs -> Boards] /\ \A x \in Runs \ {r} : board'[x] = board[x]
        /\ board'[r].work = board[r].work /\ board'[r].req = board[r].req
        /\ board'[r].since = Len(owner)
    BY <2>1, <2>2, BoardMoves
  <2>4. pc' \in [Runs -> Steps] /\ pc'[r] = "unasked" /\ \A x \in Runs \ {r} : pc'[x] = pc[x]
    BY <2>1, PlaceMoves DEF Steps
  <2>5. ASSUME NEW i \in 1..Len(owner), owner[i] = board[r].work
        PROVE  status'[i] # "pending"
    <3>1. CASE i \in Stored
      BY <1>4, <2>5, <3>1
    <3>2. CASE i \in dropped
      BY <3>2 DEF StoreTypes, StoreOK, Persists, Settles, Unresolved
    <3> QED BY <3>1, <3>2 DEF Stored
  <2>6. GateOK(r)'
    BY <1>1, <1>3, <2>3, <2>4 DEF GateOK, Grants
  <2>7. SearchOK(r)'
    BY <1>1, <2>3, <2>5, StoredAreMade DEF SearchOK
  <2> QED BY <1>1, <2>3, <2>4, <2>6, <2>7 DEF Kept, GateTypes, OfRun
<1>5. CASE open # {}
  <2> DEFINE m == Max(open)
  <2>1. Go(r, "gated") /\ Know(r, m, "pending")
    BY <1>5 DEF Search
  <2>2. open \in SUBSET (1..Len(owner)) /\ Len(owner) \in Nat
    BY StoredAreMade
  <2>3. m \in open
    <3> HIDE DEF open
    <3> QED BY <1>5, <2>2, NewestIsOne
  <2>4. /\ m \in 1..Len(owner) /\ m \in 0..MaxRequests /\ m # 0
        /\ status'[m] = "pending" /\ owner[m] = board[r].work
    BY <2>2, <2>3, StoredAreMade DEF Ids
  <2> HIDE DEF m, open
  <2>5. "pending" \in Statuses
    BY DEF Statuses
  <2>6. /\ board' \in [Runs -> Boards] /\ \A x \in Runs \ {r} : board'[x] = board[x]
        /\ board'[r].req = m /\ board'[r].seen = "pending" /\ board'[r].since = 0
        /\ board'[r].work = board[r].work
    BY <2>1, <2>4, <2>5, BoardMoves
  <2>7. pc' \in [Runs -> Steps] /\ pc'[r] = "gated" /\ \A x \in Runs \ {r} : pc'[x] = pc[x]
    BY <2>1, PlaceMoves DEF Steps
  <2>8. m \notin spent[r]
    BY <1>3, <2>4
  <2>9. GateOK(r)'
    BY <1>1, <1>3, <2>4, <2>6, <2>7, <2>8 DEF GateOK, Grants
  <2>10. SearchOK(r)'
    BY <2>6, <2>7 DEF SearchOK, StoreTypes
  <2> QED BY <1>1, <2>6, <2>7, <2>9, <2>10 DEF Kept, GateTypes, OfRun
<1> QED
  BY <1>4, <1>5

\* A gate that fails, or waits, forgets what it saw.
LEMMA ForgetKept ==
  ASSUME StoreTypes, GateTypes, NEW r \in Runs, GateOK(r), pc[r] # "idle",
         Go(r, "tick") /\ Unsee(r), UNCHANGED <<status, owner, spent>>
  PROVE  Kept(r)
<1>1. board[r].req \in 0..MaxRequests /\ "none" \in Statuses
  BY DEF GateTypes, Boards, Statuses
<1>2. /\ board' \in [Runs -> Boards] /\ \A x \in Runs \ {r} : board'[x] = board[x]
      /\ board'[r].req = board[r].req /\ board'[r].since = 0 /\ board'[r].work = board[r].work
  BY <1>1, BoardMoves DEF Unsee
<1>3. pc' \in [Runs -> Steps] /\ pc'[r] = "tick" /\ \A x \in Runs \ {r} : pc'[x] = pc[x]
  BY PlaceMoves DEF Steps
<1> QED
  BY <1>2, <1>3 DEF Kept, GateTypes, OfRun, GateOK, SearchOK, Grants, StoreTypes

\* The child of a reviewing gate completes, or its code is returned.
LEMMA RunFirstKept ==
  ASSUME StoreTypes, GateTypes, NEW r \in Runs, GateOK(r), SearchOK(r), RunFirst(r)
  PROVE  Kept(r)
<1>1. spent' = spent /\ owner' = owner /\ status' = status
  BY DEF RunFirst, store
<1>2. CASE board' = [board EXCEPT ![r].done = TRUE] /\ UNCHANGED pc
  <2>1. /\ board' \in [Runs -> Boards] /\ \A x \in Runs \ {r} : board'[x] = board[x]
        /\ board'[r].work = board[r].work /\ board'[r].req = board[r].req
        /\ board'[r].seen = board[r].seen /\ board'[r].since = board[r].since
    BY <1>2, BoardMoves
  <2> QED BY <1>1, <1>2, <2>1 DEF Kept, GateTypes, OfRun, GateOK, SearchOK, Grants
<1>3. CASE Go(r, "tick") /\ Unsee(r)
  BY <1>1, <1>3, ForgetKept DEF RunFirst
<1> QED
  BY <1>2, <1>3 DEF RunFirst

\* A request just made is of the gate's work, and nothing has completed under it.
LEMMA AskKept ==
  ASSUME StoreTypes, StoreOK, GateTypes, NEW r \in Runs, GateOK(r), Ask(r),
         StoreTypes', StoreOK', Persists
  PROVE  Kept(r)
<1>1. PICK first \in {"pending", "skipped"} :
        Create(board[r].work, first) /\ Know(r, Len(owner'), first)
  BY DEF Ask
<1> DEFINE n == Len(owner) + 1
<1>2. spent' = spent /\ Go(r, "gated") /\ Len(owner) < MaxRequests
      /\ owner' = Append(owner, board[r].work) /\ Save([status EXCEPT ![n] = first])
  BY <1>1 DEF Ask, Create
<1>3. n \in Ids /\ Advance([status EXCEPT ![n] = first])
  BY <1>2, CreatingAdvances
<1>4. status'[n] = first
  <2>1. status' = [status EXCEPT ![n] = first]
    BY <1>2, <1>3, Saved
  <2> QED BY <1>3, <2>1 DEF StoreTypes
<1>5. spent[r] \subseteq Ids /\ board[r].work \in Owners
  BY DEF GateTypes, Boards, Owners
<1>6. Len(owner') = n /\ owner'[n] = board[r].work /\ n # 0 /\ n \in 0..MaxRequests
  BY <1>2, <1>3, <1>5 DEF StoreTypes, Ids
<1>7. \A i \in spent[r] : /\ status'[i] \in {"approved", "skipped"} /\ owner'[i] = board[r].work
                          /\ i \in 1..Len(owner)
  BY <1>5, GrantsStand DEF GateOK
<1>8. n \notin spent[r]
  BY <1>7, StoredAreMade
<1> HIDE DEF n
<1>9. /\ board' \in [Runs -> Boards] /\ \A x \in Runs \ {r} : board'[x] = board[x]
      /\ board'[r].req = n /\ board'[r].seen = first /\ board'[r].since = 0
      /\ board'[r].work = board[r].work
  BY <1>1, <1>6, BoardMoves DEF Statuses
<1>10. pc' \in [Runs -> Steps] /\ pc'[r] = "gated" /\ \A x \in Runs \ {r} : pc'[x] = pc[x]
  BY <1>2, PlaceMoves DEF Steps
<1>11. GateOK(r)'
  BY <1>2, <1>4, <1>6, <1>7, <1>8, <1>9, <1>10, StoredAreMade DEF GateOK, Grants, Ids
<1>12. SearchOK(r)'
  BY <1>9, <1>10 DEF SearchOK, StoreTypes
<1> QED
  BY <1>2, <1>9, <1>10, <1>11, <1>12 DEF Kept, GateTypes, OfRun

\* A completion is counted under a request that is granted, and takes the request
\* off the blackboard (clearRequestState).
LEMMA CompleteKept ==
  ASSUME StoreTypes, GateTypes, NEW r \in Runs, GateOK(r), board[r].req # 0,
         Grants(board[r].req, board[r].work), Complete(r), UNCHANGED <<status, owner>>
  PROVE  Kept(r)
<1>1. board[r].work \in Works /\ board[r].req \in Ids
  BY DEF GateTypes, Boards, Ids
<1>2. /\ board' \in [Runs -> Boards] /\ \A x \in Runs \ {r} : board'[x] = board[x]
      /\ board'[r].work = board[r].work /\ board'[r].req = 0 /\ board'[r].since = 0
  BY <1>1, BoardMoves DEF Complete
<1>3. pc' \in [Runs -> Steps] /\ pc'[r] = "tick" /\ \A x \in Runs \ {r} : pc'[x] = pc[x]
  BY PlaceMoves DEF Complete, Steps
<1>4. spent' \in [Runs -> SUBSET Ids] /\ \A x \in Runs \ {r} : spent'[x] = spent[x]
  BY <1>1 DEF Complete, GateTypes
<1>5. spent'[r] = spent[r] \cup {board[r].req}
  BY DEF Complete, GateTypes
<1> QED
  BY <1>2, <1>3, <1>4, <1>5 DEF Kept, GateTypes, OfRun, GateOK, SearchOK, Grants, StoreTypes

\* A gate releases its child, or its child's result, on the status it has seen:
\* granted then is granted now.
LEMMA ConcludeKept ==
  ASSUME StoreTypes, GateTypes, NEW r \in Runs, GateOK(r), Conclude(r)
  PROVE  Kept(r)
<1>1. status' = status /\ owner' = owner /\ pc[r] = "gated" /\ board[r].req # 0
  BY DEF Conclude, store, GateOK
<1>2. CASE board[r].seen \notin {"approved", "skipped"}
  <2>1. Go(r, "tick") /\ Unsee(r) /\ UNCHANGED spent
    BY <1>2 DEF Conclude
  <2> QED BY <1>1, <2>1, ForgetKept
<1>3. CASE board[r].seen \in {"approved", "skipped"}
  <2>1. Grants(board[r].req, board[r].work)
    BY <1>1, <1>3 DEF GateOK
  <2>2. CASE Post(r)
    BY <1>1, <1>3, <2>1, <2>2, CompleteKept DEF Conclude
  <2>3. CASE ~ Post(r)
    <3>1. Go(r, "child") /\ Unsee(r) /\ UNCHANGED spent
      BY <1>3, <2>3 DEF Conclude
    <3>2. board[r].req \in 0..MaxRequests /\ "none" \in Statuses
      BY DEF GateTypes, Boards, Statuses
    <3>3. /\ board' \in [Runs -> Boards] /\ \A x \in Runs \ {r} : board'[x] = board[x]
          /\ board'[r].req = board[r].req /\ board'[r].since = 0 /\ board'[r].work = board[r].work
      BY <3>1, <3>2, BoardMoves DEF Unsee
    <3>4. pc' \in [Runs -> Steps] /\ pc'[r] = "child" /\ \A x \in Runs \ {r} : pc'[x] = pc[x]
      BY <3>1, PlaceMoves DEF Steps
    <3> QED
      BY <1>1, <2>1, <3>1, <3>3, <3>4
      DEF Kept, GateTypes, OfRun, GateOK, SearchOK, Grants, StoreTypes
  <2> QED BY <2>2, <2>3
<1> QED
  BY <1>2, <1>3

\* A child that is still running keeps its request, and its approval.
LEMMA ChildReturnsKept ==
  ASSUME StoreTypes, GateTypes, NEW r \in Runs, GateOK(r), SearchOK(r), ChildReturns(r)
  PROVE  Kept(r)
<1>1. /\ status' = status /\ owner' = owner /\ board[r].req # 0
      /\ Grants(board[r].req, board[r].work)
  BY DEF ChildReturns, store, GateOK
<1>2. CASE Complete(r)
  BY <1>1, <1>2, CompleteKept
<1>3. CASE Go(r, "tick") /\ UNCHANGED <<board, spent>>
  <2>1. pc' \in [Runs -> Steps] /\ pc'[r] = "tick" /\ \A x \in Runs \ {r} : pc'[x] = pc[x]
    BY <1>3, PlaceMoves DEF Steps
  <2> QED
    BY <1>1, <1>3, <2>1 DEF Kept, GateTypes, OfRun, GateOK, SearchOK, Grants
<1> QED
  BY <1>2, <1>3 DEF ChildReturns

\* A run that ends or crashes takes what it knew with it.
LEMMA EndKept ==
  ASSUME StoreTypes, GateTypes, NEW r \in Runs, End(r)
  PROVE  Kept(r)
<1>1. AnyWork \in Works
  BY WorksAreKnown DEF AnyWork
<1>2. /\ board' \in [Runs -> Boards] /\ \A x \in Runs \ {r} : board'[x] = board[x]
      /\ board'[r].req = 0 /\ board'[r].since = 0
  BY <1>1, BoardMoves DEF End
<1>3. pc' \in [Runs -> Steps] /\ pc'[r] = "idle" /\ \A x \in Runs \ {r} : pc'[x] = pc[x]
  BY PlaceMoves DEF End, Steps
<1>4. spent' \in [Runs -> SUBSET Ids] /\ spent'[r] = {} /\ \A x \in Runs \ {r} : spent'[x] = spent[x]
  BY DEF End, GateTypes
<1>5. Len(owner') \in Nat
  BY DEF End, store, StoreTypes
<1> QED
  BY <1>2, <1>3, <1>4, <1>5 DEF Kept, GateTypes, OfRun, GateOK, SearchOK

\* A gate's step keeps the knowledge of every gate.
LEMMA GateKept ==
  ASSUME StoreTypes, StoreOK, GateTypes, \A x \in Runs : GateOK(x) /\ SearchOK(x),
         NEW r \in Runs, Begin(r) \/ Tick(r) \/ GateFails(r) \/ End(r),
         StoreTypes', StoreOK', Persists
  PROVE  GateTypes' /\ \A x \in Runs : GateOK(x)' /\ SearchOK(x)'
<1>1. GateOK(r) /\ SearchOK(r)
  OBVIOUS
<1>2. Kept(r)
  <2>1. CASE Begin(r)
    BY <1>1, <2>1, BeginKept
  <2>2. CASE Refresh(r)
    BY <1>1, <2>2, RefreshKept
  <2>3. CASE Search(r)
    BY <1>1, <2>3, SearchKept
  <2>4. CASE RunFirst(r)
    BY <1>1, <2>4, RunFirstKept
  <2>5. CASE Ask(r)
    BY <1>1, <2>5, AskKept
  <2>6. CASE GateFails(r)
    BY <1>1, <2>6, ForgetKept DEF GateFails, store
  <2>7. CASE Conclude(r)
    BY <1>1, <2>7, ConcludeKept
  <2>8. CASE ChildReturns(r)
    BY <1>1, <2>8, ChildReturnsKept
  <2>9. CASE End(r)
    BY <2>9, EndKept
  <2> QED BY <2>1, <2>2, <2>3, <2>4, <2>5, <2>6, <2>7, <2>8, <2>9 DEF Tick
<1>3. ASSUME NEW x \in Runs \ {r} PROVE GateOK(x)' /\ SearchOK(x)'
  <2>1. x \in Runs /\ GateOK(x) /\ SearchOK(x)
    OBVIOUS
  <2>2. pc'[x] = pc[x] /\ board'[x] = board[x] /\ spent'[x] = spent[x]
    BY <1>2 DEF Kept, OfRun
  <2> QED BY <2>1, <2>2, GateStands
<1> QED
  BY <1>2, <1>3 DEF Kept

\* So does every other step: it leaves the gates where they stand.
LEMMA GatesRest ==
  ASSUME StoreTypes, StoreOK, GateTypes, \A x \in Runs : GateOK(x) /\ SearchOK(x),
         StoreTypes', StoreOK', Persists, UNCHANGED gates
  PROVE  GateTypes' /\ \A x \in Runs : GateOK(x)' /\ SearchOK(x)'
<1>1. UNCHANGED <<pc, board, spent>>
  BY DEF gates
<1>2. GateTypes'
  BY <1>1 DEF GateTypes
<1>3. ASSUME NEW x \in Runs PROVE GateOK(x)' /\ SearchOK(x)'
  <2>1. GateOK(x) /\ SearchOK(x) /\ pc'[x] = pc[x] /\ board'[x] = board[x] /\ spent'[x] = spent[x]
    BY <1>1
  <2> QED BY <2>1, GateStands
<1> QED
  BY <1>2, <1>3

-----------------------------------------------------------------------------
(* The waiting steps.                                                       *)

\* What a status tells whoever waits for it.
LEMMA AnswerMeans ==
  ASSUME NEW s \in Statuses \ {"none"}
  PROVE  /\ Answer[s] \in {"waiting", "approved", "escalated", "refused"}
         /\ Answer[s] = "approved" => s \in {"approved", "skipped"}
         /\ Answer[s] = "refused" => s \in {"rejected", "expired"}
  BY DEF Answer, Statuses

\* What a step has been told stands, whatever is done to the store.
LEMMA WaitStands ==
  ASSUME StoreTypes, StoreOK, WaitTypes, Persists, StoreTypes',
         NEW w \in Waiters, WaitOK(w), wait'[w] = wait[w], asked'[w] = asked[w]
  PROVE  WaitOK(w)'
<1>1. asked[w] # 0 => asked[w] \in 1..Len(owner) /\ asked[w] \in Ids
  BY StoredAreMade DEF WaitTypes, WaitOK, Ids
<1>2. asked[w] # 0 => asked[w] <= Len(owner') /\ owner'[asked[w]] = w
  BY <1>1, StoredAreMade DEF WaitOK, Persists, StoreTypes
<1>3. asked[w] # 0 /\ status[asked[w]] \in {"approved", "skipped", "rejected", "expired"} =>
        status'[asked[w]] = status[asked[w]]
  BY <1>1 DEF Persists, Settles, Unresolved
<1> QED
  BY <1>2, <1>3 DEF WaitOK, Grants

\* A step of waiter w, which leaves the others waiting.
OfWaiter(w) == \A x \in Waiters \ {w} : wait'[x] = wait[x] /\ asked'[x] = asked[x]

\* A step that starts asks for itself, or is approved by the policy.
LEMMA StartWaitKept ==
  ASSUME StoreTypes, WaitTypes, NEW w \in Waiters, WaitOK(w), StartWait(w), StoreTypes'
  PROVE  WaitTypes' /\ OfWaiter(w) /\ WaitOK(w)'
<1>1. wait[w] = "idle" /\ asked[w] = 0
  BY DEF StartWait, WaitOK
<1>2. CASE /\ Create(w, "pending")
           /\ wait' = [wait EXCEPT ![w] = "waiting"]
           /\ asked' = [asked EXCEPT ![w] = Len(owner')]
  <2>1. owner' = Append(owner, w) /\ w \in Owners
    BY <1>2 DEF Create, Owners
  <2>2. Len(owner') \in 0..MaxRequests /\ owner'[Len(owner')] = w
    BY <2>1 DEF StoreTypes
  <2>3. Len(owner') # 0
    BY <2>1 DEF StoreTypes
  <2> QED BY <1>2, <2>2, <2>3 DEF WaitTypes, Answers, OfWaiter, WaitOK
<1>3. CASE wait' = [wait EXCEPT ![w] = "approved"] /\ UNCHANGED asked
  BY <1>1, <1>3 DEF WaitTypes, Answers, OfWaiter, WaitOK
<1> QED
  BY <1>2, <1>3 DEF StartWait

\* A step that is answered is told what the store says of its request.
LEMMA PollWaitKept ==
  ASSUME StoreTypes, StoreOK, WaitTypes, NEW w \in Waiters, WaitOK(w), PollWait(w),
         StoreTypes', StoreOK', Persists
  PROVE  WaitTypes' /\ OfWaiter(w) /\ WaitOK(w)'
<1> DEFINE q == asked[w]
<1>1. wait[w] = "waiting" /\ q # 0 /\ q \in 1..Len(owner) /\ q \in Ids /\ owner[q] = w
  BY StoredAreMade DEF PollWait, WaitTypes, WaitOK, Ids
<1>2. asked' = asked /\ owner' = owner /\ q <= Len(owner') /\ owner'[q] = w
  BY <1>1, StoredAreMade DEF PollWait
<1>3. status'[q] \in Statuses \ {"none"}
  BY <1>1, <1>2 DEF StoreTypes, StoreOK
<1>4. CASE wait' = [wait EXCEPT ![w] = Answer[status'[q]]]
  <2>1. /\ Answer[status'[q]] \in {"waiting", "approved", "escalated", "refused"}
        /\ Answer[status'[q]] = "approved" => status'[q] \in {"approved", "skipped"}
        /\ Answer[status'[q]] = "refused" => status'[q] \in {"rejected", "expired"}
    BY <1>3, AnswerMeans
  <2> QED BY <1>1, <1>2, <1>4, <2>1 DEF WaitTypes, Answers, OfWaiter, WaitOK, Grants
<1>5. CASE wait' = [wait EXCEPT ![w] = "lost"]
  BY <1>1, <1>2, <1>5 DEF WaitTypes, Answers, OfWaiter, WaitOK
<1> QED
  BY <1>4, <1>5 DEF PollWait

\* A waiter's step keeps what all of them were told.
LEMMA WaitKept ==
  ASSUME StoreTypes, StoreOK, WaitTypes, \A x \in Waiters : WaitOK(x),
         NEW w \in Waiters, StartWait(w) \/ PollWait(w) \/ GiveUp(w),
         StoreTypes', StoreOK', Persists
  PROVE  WaitTypes' /\ \A x \in Waiters : WaitOK(x)'
<1>1. WaitOK(w)
  OBVIOUS
<1>2. WaitTypes' /\ OfWaiter(w) /\ WaitOK(w)'
  <2>1. CASE StartWait(w)
    BY <1>1, <2>1, StartWaitKept
  <2>2. CASE PollWait(w)
    BY <1>1, <2>2, PollWaitKept
  <2>3. CASE GiveUp(w)
    BY <1>1, <2>3 DEF GiveUp, store, WaitTypes, Answers, OfWaiter, WaitOK
  <2> QED BY <2>1, <2>2, <2>3
<1>3. ASSUME NEW x \in Waiters \ {w} PROVE WaitOK(x)'
  <2>1. x \in Waiters /\ WaitOK(x) /\ wait'[x] = wait[x] /\ asked'[x] = asked[x]
    BY <1>2 DEF OfWaiter
  <2> QED BY <2>1, WaitStands
<1> QED
  BY <1>2, <1>3

\* Other steps tell a waiter nothing.
LEMMA WaitersRest ==
  ASSUME StoreTypes, StoreOK, WaitTypes, \A x \in Waiters : WaitOK(x),
         StoreTypes', Persists, UNCHANGED waiters
  PROVE  WaitTypes' /\ \A x \in Waiters : WaitOK(x)'
<1>1. UNCHANGED <<wait, asked>>
  BY DEF waiters
<1>2. ASSUME NEW x \in Waiters PROVE WaitOK(x)'
  <2>1. WaitOK(x) /\ wait'[x] = wait[x] /\ asked'[x] = asked[x]
    BY <1>1
  <2> QED BY <2>1, WaitStands
<1> QED
  BY <1>1, <1>2 DEF WaitTypes

-----------------------------------------------------------------------------
(* The invariant.                                                           *)

\* Nothing is asked yet.
LEMMA InitInv == Init => IInv
<1> SUFFICES ASSUME Init PROVE IInv
  OBVIOUS
<1>1. "none" \in Statuses /\ "idle" \in Steps /\ "idle" \in Answers /\ 0 \in 0..MaxRequests
  BY RequestsAreBounded DEF Statuses, Steps, Answers
<1>2. Fresh(AnyWork) \in Boards
  BY <1>1, WorksAreKnown DEF AnyWork, Fresh, Boards
<1>3. StoreTypes
  BY <1>1, RequestsAreBounded DEF Init, StoreTypes
<1>4. StoreOK
  BY DEF Init, StoreOK, Ids
<1>5. GateTypes
  BY <1>1, <1>2 DEF Init, GateTypes
<1>6. \A r \in Runs : GateOK(r) /\ SearchOK(r)
  BY DEF Init, GateOK, SearchOK, Fresh
<1>7. WaitTypes /\ \A w \in Waiters : WaitOK(w)
  BY <1>1 DEF Init, WaitTypes, WaitOK
<1> QED
  BY <1>3, <1>4, <1>5, <1>6, <1>7 DEF IInv

\* Gates, waiters, operators and deadlines share the store and nothing else.
LEMMA NextInv == IInv /\ [Next]_vars => IInv'
<1> SUFFICES ASSUME IInv, [Next]_vars PROVE IInv'
  OBVIOUS
<1>1. /\ StoreTypes /\ StoreOK /\ GateTypes /\ WaitTypes
      /\ \A r \in Runs : GateOK(r) /\ SearchOK(r)
      /\ \A w \in Waiters : WaitOK(w)
  BY DEF IInv
<1>2. StoreTypes' /\ StoreOK' /\ Persists
  BY <1>1, NextMoves, StoreStep
<1>3. CASE UNCHANGED <<gates, waiters>>
  BY <1>1, <1>2, <1>3, GatesRest, WaitersRest DEF IInv
<1>4. ASSUME NEW r \in Runs, Begin(r) \/ Tick(r) \/ GateFails(r) \/ End(r) PROVE IInv'
  <2>1. UNCHANGED waiters
    BY <1>4 DEF Begin, Tick, Refresh, Search, RunFirst, Ask, Conclude, ChildReturns, GateFails, End
  <2> QED BY <1>1, <1>2, <1>4, <2>1, GateKept, WaitersRest DEF IInv
<1>5. ASSUME NEW w \in Waiters, StartWait(w) \/ PollWait(w) \/ GiveUp(w) PROVE IInv'
  <2>1. UNCHANGED gates
    BY <1>5 DEF StartWait, PollWait, GiveUp
  <2> QED BY <1>1, <1>2, <1>5, <2>1, WaitKept, GatesRest DEF IInv
<1>6. CASE Operator
  BY <1>1, <1>3, <1>6, OperatorMoves
<1>7. CASE \E i \in Ids : Pass(i)
  BY <1>3, <1>7 DEF Pass
<1>8. CASE UNCHANGED vars
  BY <1>3, <1>8 DEF vars
<1> QED
  BY <1>4, <1>5, <1>6, <1>7, <1>8 DEF Next

\* The invariant holds in every reachable state.
THEOREM Invariant == Spec => []IInv
  BY InitInv, NextInv, PTL DEF Spec

\* Every variable keeps its shape, for any number of requests.
THEOREM TypeCorrect == Spec => []TypeOK
<1>1. IInv => TypeOK
  BY DEF IInv, StoreTypes, GateTypes, WaitTypes, TypeOK, Boards, Answers, Steps
<1> QED
  BY <1>1, Invariant, PTL

\* No child runs, and no result is released, but under a standing approval of its
\* own work, and no approval serves two completions (humanApprovalGateCmd.Run).
THEOREM GatesAreAuthorised == Spec => []Authorised
<1>1. IInv => Authorised
  BY DEF IInv, GateOK, Authorised
<1> QED
  BY <1>1, Invariant, PTL

\* What a waiting step was told is what the store says for ever, and no request is
\* pruned before it is settled (WaitForRequest, persistRecords).
THEOREM WaitersWereToldTheTruth == Spec => []AnswersStand
<1>1. IInv => AnswersStand
  <2> SUFFICES ASSUME IInv PROVE AnswersStand
    OBVIOUS
  <2>1. TypeOK
    BY DEF IInv, StoreTypes, GateTypes, WaitTypes, TypeOK, Boards, Answers, Steps
  <2>2. \A i \in dropped : status[i] \notin Unresolved
    BY DEF IInv, StoreOK, Settles
  <2> QED BY <2>1, <2>2 DEF IInv, WaitOK, AnswersStand
<1> QED
  BY <1>1, Invariant, PTL

\* A gate about to ask has nothing pending that its search could have found.
THEOREM SearchesHold == Spec => []NoSecondRequest
<1>1. IInv => NoSecondRequest
  BY DEF IInv, SearchOK, NoSecondRequest
<1> QED
  BY <1>1, Invariant, PTL

-----------------------------------------------------------------------------
(* The register of decisions.                                               *)

\* Each of the five things a step does to the store is a step of the register, or
\* none: an escalation decides nothing.
LEMMA MovesRefine ==
  ASSUME StoreTypes, StoreOK, StoreMoves
  PROVE  [Register!Next]_(Register!vars)
<1> DEFINE Decision(f) == [i \in Ids |-> IF f[i] \in Unresolved THEN "open" ELSE f[i]]
<1>1. ASSUME StoreRests PROVE UNCHANGED Register!vars
  BY <1>1 DEF StoreRests, store, Register!vars
<1>2. ASSUME Expires PROVE Register!Expire
  <2>1. PICK S \in SUBSET Ids : Save(Expired(S)) /\ UNCHANGED <<owner, late>>
    BY <1>2 DEF Expires
  <2>2. status' = Expired(S)
    BY <2>1, ExpiringAdvances, Saved
  <2> DEFINE E == {i \in S \cap Stored \cap late : status[i] \in Unresolved}
  <2>3. E \in SUBSET {i \in late : Decision(status)[i] = "open"}
    OBVIOUS
  <2>4. Decision(status') = [i \in Ids |-> IF i \in E THEN "expired" ELSE Decision(status)[i]]
    BY <2>2 DEF Expired, Unresolved
  <2> QED BY <2>1, <2>3, <2>4 DEF Register!Expire
<1>3. ASSUME Makes PROVE \E i \in Ids : Register!Make(i)
  <2>1. PICK o \in Owners, first \in {"pending", "skipped"} : Create(o, first) /\ UNCHANGED late
    BY <1>3 DEF Makes
  <2> DEFINE n == Len(owner) + 1
             new == [status EXCEPT ![n] = first]
  <2>2. Len(owner) < MaxRequests /\ Save(new)
    BY <2>1 DEF Create
  <2>3. n \in Ids /\ status[n] = "none" /\ Advance(new)
    BY <2>2, CreatingAdvances
  <2> HIDE DEF n
  <2>4. status' = new
    BY <2>2, <2>3, Saved
  <2>5. Decision(status)[n] = "none"
    BY <2>3 DEF Unresolved
  <2>6. first = "pending" => Decision(status') = [Decision(status) EXCEPT ![n] = "open"]
    BY <2>3, <2>4 DEF StoreTypes, Unresolved
  <2>7. first = "skipped" => Decision(status') = [Decision(status) EXCEPT ![n] = "skipped"]
    BY <2>3, <2>4 DEF StoreTypes, Unresolved
  <2> QED BY <2>1, <2>3, <2>5, <2>6, <2>7 DEF Register!Make
<1>4. ASSUME Decides PROVE UNCHANGED Register!vars \/ \E i \in Ids : Register!Decide(i)
  <2>1. PICK i \in Ids, verdict \in {"approved", "rejected", "escalated"} :
          /\ status[i] \in Unresolved /\ i \notin late
          /\ Save([status EXCEPT ![i] = verdict]) /\ UNCHANGED <<owner, late>>
    BY <1>4 DEF Decides
  <2>2. status' = [status EXCEPT ![i] = verdict]
    BY <2>1, DecidingAdvances, Saved
  <2>3. verdict = "escalated" => Decision(status') = Decision(status)
    BY <2>1, <2>2 DEF StoreTypes, Unresolved
  <2>4. verdict # "escalated" => Decision(status') = [Decision(status) EXCEPT ![i] = verdict]
    BY <2>1, <2>2 DEF StoreTypes, Unresolved
  <2>5. Decision(status)[i] = "open"
    BY <2>1
  <2> QED BY <2>1, <2>3, <2>4, <2>5 DEF Register!vars, Register!Decide
<1>5. ASSUME Passes PROVE \E i \in Ids : Register!Pass(i)
  BY <1>5 DEF Passes, store, Register!Pass
<1> QED
  BY <1>1, <1>2, <1>3, <1>4, <1>5 DEF StoreMoves, Register!Next

\* The file, shared by every process, rewritten whole and pruned, is a register
\* where each request is decided once and before its deadline.
THEOREM StoreDecidesOnce == Spec => DecidedOnce
<1>1. Init => Register!Init
  BY DEF Init, Register!Init, Unresolved
<1>2. IInv /\ [Next]_vars => [Register!Next]_(Register!vars)
  BY NextMoves, MovesRefine DEF IInv
<1> QED
  BY <1>1, <1>2, Invariant, PTL DEF Spec, DecidedOnce, Register!Spec
=============================================================================
