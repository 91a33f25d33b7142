--------------------------- MODULE GatewayProofs ---------------------------
(***************************************************************************)
(* Proofs about the gateway, for any number of runs and worker replicas    *)
(* and any limits.                                                         *)
(***************************************************************************)
EXTENDS GatewayRefinement, FiniteSetTheorems, TLAPS

\* The rows a query with a limit returns are rows.
LEMMA LeastSubset == \A S, n : Least(S, n) \subseteq S
  BY DEF Least

\* Some rows of r, none of them locked, get a status that ends them.
Closes(r) ==
    /\ request' \in [Run -> [Kind -> Status]]
    /\ \A q \in Run \ {r} : request'[q] = request[q]
    /\ \A k \in Kind : request'[r][k] \in {request[r][k], "EXPIRED", "ACKED", "FAILED"}
    /\ Unlocked(r)

\* The updates of the event handler and of the timeout close rows.
LEMMA UpdateCloses ==
    ASSUME TypeOK, NEW r \in Run, NEW from, NEW to \in {"EXPIRED", "ACKED", "FAILED"},
           UpdateRequests(r, from, to)
    PROVE  Closes(r)
<1>1. DEFINE new == [k \in Kind |-> IF request[r][k] \in from THEN to ELSE request[r][k]]
<1>2. request' = [request EXCEPT ![r] = new] /\ Unlocked(r)
  BY DEF UpdateRequests
<1>3. request \in [Run -> [Kind -> Status]]
  BY DEF TypeOK
<1>4. new \in [Kind -> Status]
  BY <1>3 DEF Status
<1>5. \A k \in Kind : new[k] \in {request[r][k], "EXPIRED", "ACKED", "FAILED"}
  OBVIOUS
<1> HIDE DEF new
<1> QED  BY <1>2, <1>3, <1>4, <1>5 DEF Closes

\* So does the cancel, which closes the row it has just written with the others.
LEMMA CancelCloses ==
    ASSUME TypeOK, NEW r \in Run, EnumColumn, CancelRows(r)
    PROVE  Closes(r)
<1>1. DEFINE new == [k \in Kind |-> IF k = "cancel" \/ request[r][k] \in Outstanding
                                      THEN "FAILED" ELSE request[r][k]]
<1>2. request' = [request EXCEPT ![r] = new] /\ Unlocked(r)
  BY DEF CancelRows
<1>3. request \in [Run -> [Kind -> Status]]
  BY DEF TypeOK
<1>4. new \in [Kind -> Status]
  BY <1>3 DEF Status
<1>5. \A k \in Kind : new[k] \in {request[r][k], "EXPIRED", "ACKED", "FAILED"}
  OBVIOUS
<1> HIDE DEF new
<1> QED  BY <1>2, <1>3, <1>4, <1>5 DEF Closes

\* Every step of a caller, a poll or a remote worker keeps the types.
LEMMA NextTyped == TypeOK /\ [Next]_vars => TypeOK'
<1> SUFFICES ASSUME TypeOK, [Next]_vars
             PROVE  TypeOK'
  OBVIOUS
<1> USE ConstantsAssumption
    DEF TypeOK, Kind, Row, Status, pollVars, workerVars, readVars
<1>1. ASSUME NEW r \in Run, Caller(r)
      PROVE  TypeOK'
  <2>1. CASE Open(r)      BY <2>1 DEF Open
  <2>2. CASE Refuse(r)    BY <2>2 DEF Refuse
  <2>3. CASE Fetch(r)
    <3>1. Least({s \in event[r] : s >= next[r]}, EventLimit) \in SUBSET Nat
      BY LeastSubset
    <3> QED  BY <2>3, <3>1 DEF Fetch
  <2>4. CASE Forward(r)   BY <2>4, SMTT(20) DEF Forward
  <2>5. CASE Deadline(r)  BY <2>5 DEF Deadline
  <2>6. CASE Expire(r)    BY <2>6, UpdateCloses DEF Expire, Closes
  <2>7. CASE Cancel(r)
    <3>1. CASE EnumColumn   BY <2>7, <3>1, CancelCloses DEF Cancel, Closes
    <3>2. CASE ~EnumColumn  BY <2>7, <3>2 DEF Cancel, CancelRows
    <3> QED  BY <3>1, <3>2
  <2>8. CASE Drop(r)      BY <2>8 DEF Drop
  <2> QED  BY <1>1, <2>1, <2>2, <2>3, <2>4, <2>5, <2>6, <2>7, <2>8 DEF Caller
<1>2. ASSUME NEW r \in Run, Remote(r)
      PROVE  TypeOK'
  <2>1. ASSUME NEW s \in 0..Final[r], Emit(r, s)
        PROVE  TypeOK'
    <3> Final[r] \in Nat /\ s \in Nat
      OBVIOUS
    <3>1. CASE s = Final[r]  BY <2>1, <3>1, UpdateCloses DEF Emit, Closes
    <3>2. CASE s # Final[r]  BY <2>1, <3>2 DEF Emit
    <3> QED  BY <3>1, <3>2
  <2>2. CASE Answered(r)  BY <2>2, SMTT(20) DEF Answered
  <2>3. CASE LoseWork(r)  BY <2>3 DEF LoseWork
  <2> QED  BY <1>2, <2>1, <2>2, <2>3 DEF Remote
<1>3. ASSUME NEW w \in Worker, Poll(w)
      PROVE  TypeOK'
  <2>1. CASE Select(w)
    <3>1. \A B \in Batches(Pending \ UNION {locked[v] : v \in Worker}) : B \subseteq Row
      BY DEF Batches, Pending
    <3> QED  BY <2>1, <3>1 DEF Select
  <2>2. CASE Deliver(w)    BY <2>2 DEF Deliver
  <2>3. CASE PollFails(w)  BY <2>3 DEF PollFails
  <2>4. CASE LoseReply(w)  BY <2>4 DEF LoseReply
  <2>5. CASE Take(w)       BY <2>5 DEF Take
  <2> QED  BY <1>3, <2>1, <2>2, <2>3, <2>4, <2>5 DEF Poll
<1>4. CASE UNCHANGED vars
  BY <1>4 DEF vars
<1> QED  BY <1>1, <1>2, <1>3, <1>4 DEF Next

\* Type correctness of the queue.
THEOREM TypeCorrect == Spec => []TypeOK
<1>1. Init => TypeOK
  BY ConstantsAssumption DEF Init, TypeOK, Row, Kind, Status
<1> QED  BY <1>1, NextTyped, PTL DEF Spec
-----------------------------------------------------------------------------
(* Who holds a row.                                                        *)

HandOut ==
    LockedPending /\ RepliedClaimed /\ WorkClaimed /\ CancelUnseen /\ HeldApart /\ IdleUntouched

\* A step that ends rows of a run somebody asked for disturbs nobody who holds one.
LEMMA ClosesHandOut ==
    ASSUME TypeOK, HandOut, NEW r \in Run, Closes(r),
           stage[r] # "idle", stage'[r] # "idle",
           \A q \in Run \ {r} : stage'[q] = stage[q] /\ event'[q] = event[q],
           UNCHANGED <<locked, reply, work>>
    PROVE  HandOut'
<1> USE DEF TypeOK, HandOut, Kind, Row, Closes
<1>1. LockedPending'
  <2> SUFFICES ASSUME NEW w \in Worker, NEW q \in Run, NEW k \in Kind, <<q, k>> \in locked[w]
               PROVE  request'[q][k] = "PENDING"
    BY ZenonT(30) DEF LockedPending
  <2>1. <<q, k>> \in locked[w]
    OBVIOUS
  <2>2. q # r
    BY <2>1 DEF Unlocked
  <2>3. request'[q] = request[q]
    BY <2>2
  <2>4. request[q][k] = "PENDING"
    BY <2>1, ZenonT(30) DEF LockedPending
  <2> QED  BY <2>3, <2>4
<1>2. RepliedClaimed'
  BY ZenonT(30) DEF RepliedClaimed
<1>3. WorkClaimed'
  BY DEF WorkClaimed
<1>4. CancelUnseen'
  BY DEF CancelUnseen
<1>5. HeldApart'
  BY DEF HeldApart, Held
<1>6. IdleUntouched'
  <2> SUFFICES ASSUME NEW q \in Run, stage'[q] = "idle"
               PROVE  event'[q] = {} /\ \A k \in Kind : request'[q][k] = "none"
    BY DEF IdleUntouched
  <2>1. q # r
    OBVIOUS
  <2> QED  BY <2>1 DEF IdleUntouched
<1> QED  BY <1>1, <1>2, <1>3, <1>4, <1>5, <1>6

\* Every step keeps the hands apart: one hand per row, and claimed rows in it.
LEMMA HandOutKept == TypeOK /\ HandOut /\ [Next]_vars => HandOut'
<1> SUFFICES ASSUME TypeOK, HandOut, [Next]_vars
             PROVE  HandOut'
  OBVIOUS
<1> USE ConstantsAssumption
    DEF TypeOK, HandOut, LockedPending, RepliedClaimed, WorkClaimed, CancelUnseen, HeldApart,
        IdleUntouched, Held, Kind, Row, Status, Outstanding, pollVars, workerVars, readVars
<1>1. ASSUME NEW r \in Run, Caller(r)
      PROVE  HandOut'
  <2>1. CASE Open(r)      BY <2>1 DEF Open
  <2>2. CASE Refuse(r)    BY <2>2 DEF Refuse
  <2>3. CASE Fetch(r)     BY <2>3 DEF Fetch
  <2>4. CASE Forward(r)   BY <2>4 DEF Forward
  <2>5. CASE Deadline(r)  BY <2>5 DEF Deadline
  <2>6. CASE Expire(r)
    <3>1. Closes(r)
      BY <2>6, UpdateCloses DEF Expire
    <3>2. stage' = [stage EXCEPT ![r] = "expired"] /\ stage[r] = "late"
      BY <2>6 DEF Expire
    <3>3. UNCHANGED <<event, locked, reply, work>>
      BY <2>6 DEF Expire
    <3> HIDE DEF HandOut, LockedPending, RepliedClaimed, WorkClaimed, CancelUnseen, HeldApart,
                 IdleUntouched
    <3> QED  BY <3>1, <3>2, <3>3, ClosesHandOut
  <2>7. CASE Cancel(r)
    <3>1. CASE EnumColumn
      <4>1. Closes(r)
        BY <2>7, <3>1, CancelCloses DEF Cancel
      <4>2. stage' = [stage EXCEPT ![r] = "cancelled"] /\ stage[r] # "idle"
        BY <2>7 DEF Cancel
      <4>3. UNCHANGED <<event, locked, reply, work>>
        BY <2>7 DEF Cancel
      <4> HIDE DEF HandOut, LockedPending, RepliedClaimed, WorkClaimed, CancelUnseen, HeldApart,
                   IdleUntouched
      <4> QED  BY <4>1, <4>2, <4>3, ClosesHandOut
    <3>2. CASE ~EnumColumn  BY <2>7, <3>2 DEF Cancel, CancelRows
    <3> QED  BY <3>1, <3>2
  <2>8. CASE Drop(r)      BY <2>8 DEF Drop
  <2> QED  BY <1>1, <2>1, <2>2, <2>3, <2>4, <2>5, <2>6, <2>7, <2>8 DEF Caller
<1>2. ASSUME NEW r \in Run, Remote(r)
      PROVE  HandOut'
  <2>1. ASSUME NEW s \in 0..Final[r], Emit(r, s)
        PROVE  HandOut'
    <3>1. stage[r] # "idle"
      BY <2>1 DEF Emit
    <3>2. CASE s = Final[r]
      <4>1. Closes(r)
        BY <2>1, <3>2, UpdateCloses DEF Emit
      <4> QED  BY <2>1, <3>1, <4>1, ClosesHandOut DEF Emit
    <3>3. CASE s # Final[r]  BY <2>1, <3>1, <3>3, SMTT(20) DEF Emit
    <3> QED  BY <3>2, <3>3
  <2>2. CASE Answered(r)  BY <2>2 DEF Answered
  <2>3. CASE LoseWork(r)  BY <2>3 DEF LoseWork
  <2> QED  BY <1>2, <2>1, <2>2, <2>3 DEF Remote
<1>3. ASSUME NEW w \in Worker, Poll(w)
      PROVE  HandOut'
  <2>1. CASE Select(w)
    <3>1. \A B \in Batches(Pending \ UNION {locked[v] : v \in Worker}) :
             \A x \in B : x \in Pending /\ \A v \in Worker : x \notin locked[v]
      BY DEF Batches
    <3>2. PICK B \in SUBSET Row :
             /\ \A x \in B : x \in Pending /\ \A v \in Worker : x \notin locked[v]
             /\ locked' = [locked EXCEPT ![w] = B]
             /\ locked[w] = {} /\ reply[w] = {}
             /\ UNCHANGED <<request, event, reply, work, stage>>
      <4>1. PICK B \in Batches(Pending \ UNION {locked[v] : v \in Worker}) :
               locked' = [locked EXCEPT ![w] = B]
        BY <2>1 DEF Select
      <4>2. B \in SUBSET Row
        BY <3>1, <4>1 DEF Pending
      <4> QED  BY <2>1, <3>1, <4>1, <4>2 DEF Select
    <3>3. LockedPending' /\ RepliedClaimed'
      BY <3>2 DEF Pending
    <3>4. \A v \in Worker \ {w} : B \cap (locked[v] \cup reply[v]) = {}
      <4>1. ASSUME NEW v \in Worker \ {w}, NEW x \in B, x \in reply[v]
            PROVE  FALSE
        <5>1. PICK q \in Run, k \in Kind : x = <<q, k>>
          BY <3>2
        <5>2. request[q][k] = "PENDING"
          BY <3>2, <4>1, <5>1 DEF Pending
        <5> QED  BY <4>1, <5>1, <5>2
      <4> QED  BY <3>2, <4>1
    <3>5. HeldApart'
      BY <3>2, <3>4
    <3> QED  BY <3>2, <3>3, <3>5
  <2>2. CASE Deliver(w)
    <3>1. /\ reply' = [reply EXCEPT ![w] = locked[w]]
          /\ locked' = [locked EXCEPT ![w] = {}]
          /\ UNCHANGED <<event, work, stage>>
      BY <2>2 DEF Deliver
    <3>2. ASSUME NEW q \in Run, NEW k \in Kind
          PROVE  /\ <<q, k>> \in locked[w] => /\ request[q][k] = "PENDING"
                                            /\ request'[q][k] = "DELIVERED"
                 /\ <<q, k>> \notin locked[w] => request'[q][k] = request[q][k]
      <4>1. <<q, k>> \in locked[w] => request[q][k] = "PENDING"
        BY ZenonT(30)
      <4>2. request'[q][k] = IF <<q, k>> \in locked[w] THEN "DELIVERED" ELSE request[q][k]
        BY <2>2, Zenon DEF Deliver
      <4> QED  BY <4>1, <4>2
    <3>3. \A v \in Worker : locked'[v] = IF v = w THEN {} ELSE locked[v]
      BY <3>1
    <3>4. \A v \in Worker : reply'[v] = IF v = w THEN locked[w] ELSE reply[v]
      BY <3>1
    <3>5. \A v \in Worker \ {w} : locked[v] \cap locked[w] = {}
      BY Zenon
    <3> HIDE DEF HandOut, LockedPending, RepliedClaimed, WorkClaimed, CancelUnseen, HeldApart,
                 IdleUntouched, Row, Kind
    <3> LockedPending /\ RepliedClaimed /\ WorkClaimed /\ CancelUnseen /\ HeldApart /\ IdleUntouched
      BY DEF HandOut
    <3>6. LockedPending'
      <4> SUFFICES ASSUME NEW v \in Worker, NEW q \in Run, NEW k \in Kind, <<q, k>> \in locked'[v]
                   PROVE  request'[q][k] = "PENDING"
        BY DEF LockedPending
      <4>1. v # w /\ <<q, k>> \in locked[v]
        BY <3>3
      <4>2. <<q, k>> \notin locked[w]
        BY <3>5, <4>1
      <4>3. request'[q][k] = request[q][k]
        BY <3>2, <4>2
      <4> QED  BY <4>1, <4>3 DEF LockedPending
    <3>7. RepliedClaimed'
      <4> SUFFICES ASSUME NEW v \in Worker, NEW q \in Run, NEW k \in Kind, <<q, k>> \in reply'[v]
                   PROVE  request'[q][k] \notin {"none", "PENDING"} /\ work[q] = "none"
        BY <3>1 DEF RepliedClaimed
      <4>1. CASE <<q, k>> \in locked[w]
        <5>1. k = "run"
          BY <3>2, <4>1 DEF CancelUnseen, Kind
        <5> QED  BY <3>2, <4>1, <5>1 DEF WorkClaimed
      <4>2. CASE <<q, k>> \notin locked[w]
        <5>1. <<q, k>> \in reply[v]
          BY <3>4, <4>2
        <5>2. request'[q][k] = request[q][k]
          BY <3>2, <4>2
        <5> QED  BY <5>1, <5>2 DEF RepliedClaimed
      <4> QED  BY <4>1, <4>2
    <3>8. WorkClaimed'
      BY <3>1, <3>2 DEF WorkClaimed, Kind
    <3>9. CancelUnseen'
      <4>1. \A q \in Run : <<q, "cancel">> \notin locked[w]
        BY <3>2 DEF CancelUnseen, Kind
      <4>2. \A q \in Run : request'[q]["cancel"] = request[q]["cancel"]
        BY <3>2, <4>1 DEF Kind
      <4> QED  BY <3>4, <4>1, <4>2 DEF CancelUnseen
    <3>10. HeldApart'
      BY <3>3, <3>4 DEF HeldApart, Held
    <3>11. IdleUntouched'
      <4> SUFFICES ASSUME NEW q \in Run, stage[q] = "idle"
                   PROVE  event[q] = {} /\ \A k \in Kind : request'[q][k] = "none"
        BY <3>1 DEF IdleUntouched
      <4>1. \A k \in Kind : request[q][k] = "none"
        BY DEF IdleUntouched
      <4>2. \A k \in Kind : request'[q][k] = request[q][k]
        BY <3>2, <4>1
      <4> QED  BY <4>1, <4>2 DEF IdleUntouched
    <3> QED  BY <3>6, <3>7, <3>8, <3>9, <3>10, <3>11 DEF HandOut
  <2>3. CASE PollFails(w)  BY <2>3 DEF PollFails
  <2>4. CASE LoseReply(w)  BY <2>4 DEF LoseReply
  <2>5. CASE Take(w)
    <3>1. \A r \in Run : <<r, "cancel">> \notin reply[w]
      OBVIOUS
    <3>2. /\ work' = [r \in Run |-> IF <<r, "run">> \in reply[w] THEN "running" ELSE work[r]]
          /\ reply' = [reply EXCEPT ![w] = {}]
          /\ UNCHANGED <<request, event, locked, stage>>
      BY <2>5, <3>1 DEF Take
    <3>3. \A r \in Run : \A v \in Worker \ {w} :
             <<r, "run">> \in reply[w] => <<r, "run">> \notin reply[v]
      OBVIOUS
    <3>4. RepliedClaimed'
      BY <3>1, <3>2, <3>3, ZenonT(30)
    <3>5. WorkClaimed'
      BY <3>1, <3>2
    <3> QED  BY <3>2, <3>4, <3>5
  <2> QED  BY <1>3, <2>1, <2>2, <2>3, <2>4, <2>5 DEF Poll
<1>4. CASE UNCHANGED vars
  BY <1>4 DEF vars
<1> QED  BY <1>1, <1>2, <1>3, <1>4 DEF Next

-----------------------------------------------------------------------------
(* Closed for good.                                                        *)

\* Every step keeps what was read stored and the rows behind a finished run closed.
LEMMA ClosedKept ==
    TypeOK /\ Inductive /\ [Next]_vars => (ReadStored /\ ReturnedMeansClosed)'
<1> SUFFICES ASSUME TypeOK, Inductive, [Next]_vars
             PROVE  (ReadStored /\ ReturnedMeansClosed)'
  OBVIOUS
<1>0. \A w \in Worker : \A r \in Run : \A k \in Kind :
         <<r, k>> \in locked[w] => request[r][k] \in Outstanding
  BY DEF Inductive, LockedPending, Outstanding
<1> USE ConstantsAssumption
    DEF TypeOK, Inductive, LockedPending, RepliedClaimed, WorkClaimed, CancelUnseen,
        IdleUntouched, ReadStored, ReturnedMeansClosed, Kind, Row, Status, Outstanding,
        pollVars, workerVars, readVars
<1>1. ASSUME NEW r \in Run, Caller(r)
      PROVE  (ReadStored /\ ReturnedMeansClosed)'
  <2>1. CASE Open(r)      BY <2>1 DEF Open
  <2>2. CASE Refuse(r)    BY <2>2 DEF Refuse
  <2>3. CASE Fetch(r)
    <3>1. Least({s \in event[r] : s >= next[r]}, EventLimit) \subseteq event[r]
      BY LeastSubset
    <3> QED  BY <2>3, <3>1 DEF Fetch
  <2>4. CASE Forward(r)   BY <2>4 DEF Forward
  <2>5. CASE Deadline(r)  BY <2>5 DEF Deadline
  <2>6. CASE Expire(r)    BY <2>6 DEF Expire, UpdateRequests
  <2>7. CASE Cancel(r)
    <3>1. CASE EnumColumn   BY <2>7, <3>1 DEF Cancel, CancelRows
    <3>2. CASE ~EnumColumn  BY <2>7, <3>2 DEF Cancel, CancelRows
    <3> QED  BY <3>1, <3>2
  <2>8. CASE Drop(r)      BY <2>8 DEF Drop
  <2> QED  BY <1>1, <2>1, <2>2, <2>3, <2>4, <2>5, <2>6, <2>7, <2>8 DEF Caller
<1>2. ASSUME NEW r \in Run, Remote(r)
      PROVE  (ReadStored /\ ReturnedMeansClosed)'
  <2>1. ASSUME NEW s \in 0..Final[r], Emit(r, s)
        PROVE  (ReadStored /\ ReturnedMeansClosed)'
    <3>1. CASE s = Final[r]  BY <2>1, <3>1 DEF Emit, UpdateRequests
    <3>2. CASE s # Final[r]  BY <2>1, <3>2 DEF Emit
    <3> QED  BY <3>1, <3>2
  <2>2. CASE Answered(r)  BY <2>2 DEF Answered
  <2>3. CASE LoseWork(r)  BY <2>3 DEF LoseWork
  <2> QED  BY <1>2, <2>1, <2>2, <2>3 DEF Remote
<1>3. ASSUME NEW w \in Worker, Poll(w)
      PROVE  (ReadStored /\ ReturnedMeansClosed)'
  <2>1. CASE Select(w)     BY <2>1 DEF Select
  <2>2. CASE Deliver(w)
    <3>1. UNCHANGED <<event, stage, batch>>
      BY <2>2 DEF Deliver
    <3>2. ASSUME NEW r \in Run, NEW k \in Kind, request[r][k] \notin Outstanding
          PROVE  request'[r][k] \notin Outstanding
      <4>1. <<r, k>> \notin locked[w]
        BY <1>0, <3>2
      <4>2. request'[r][k] = request[r][k]
        BY <2>2, <4>1 DEF Deliver
      <4> QED  BY <3>2, <4>2
    <3>3. ReadStored'
      BY <3>1
    <3>4. ReturnedMeansClosed'
      BY <3>1, <3>2
    <3> QED  BY <3>3, <3>4
  <2>3. CASE PollFails(w)  BY <2>3 DEF PollFails
  <2>4. CASE LoseReply(w)  BY <2>4 DEF LoseReply
  <2>5. CASE Take(w)       BY <2>5 DEF Take
  <2> QED  BY <1>3, <2>1, <2>2, <2>3, <2>4, <2>5 DEF Poll
<1>4. CASE UNCHANGED vars
  BY <1>4 DEF vars
<1> QED  BY <1>1, <1>2, <1>3, <1>4 DEF Next

\* Types and hands hold in every reachable state.
LEMMA InductiveHolds == Spec => [](TypeOK /\ Inductive)
<1>1. Init => TypeOK /\ Inductive
  BY ConstantsAssumption
     DEF Init, TypeOK, Row, Kind, Status, Inductive, LockedPending, RepliedClaimed,
         WorkClaimed, CancelUnseen, HeldApart, Held, IdleUntouched, ReadStored,
         ReturnedMeansClosed, Outstanding
<1>2. TypeOK /\ Inductive /\ [Next]_vars => (TypeOK /\ Inductive)'
  BY NextTyped, HandOutKept, ClosedKept DEF HandOut, Inductive
<1> QED  BY <1>1, <1>2, PTL DEF Spec

\* Two replicas never hold one row, and a run that was handed out is not handed out
\* again, under any interleaving of polls, lost responses, retries and timeouts.
THEOREM NeverHandedTwiceHolds == Spec => []NeverHandedTwice
<1>1. Inductive => NeverHandedTwice
  BY DEF Inductive, LockedPending, RepliedClaimed, WorkClaimed, HeldApart, Held,
         NeverHandedTwice, Kind
<1> QED  BY <1>1, InductiveHolds, PTL

\* Behind a run that is answered or has timed out no request row stays open.
THEOREM ReturnedMeansClosedHolds == Spec => []ReturnedMeansClosed
<1>1. Inductive => ReturnedMeansClosed
  BY DEF Inductive
<1> QED  BY <1>1, InductiveHolds, PTL
-----------------------------------------------------------------------------
(* The refinement, with a worker that awaits each response.                *)

InOrder == EventsInOrder /\ BatchInOrder

\* A limited read leaves out the greatest rows only.
LEMMA LeastDownward ==
    ASSUME NEW S \in SUBSET Nat, NEW n \in Nat,
           NEW s \in Least(S, n), NEW x \in S, x < s
    PROVE  x \in Least(S, n)
<1> DEFINE below(y) == {z \in S : z < y}
<1>1. s \in Nat /\ x \in Nat /\ Cardinality(below(s)) < n
  BY DEF Least
<1>2. IsFiniteSet(below(s))
  <2>1. IsFiniteSet(0..s)
    BY <1>1, FS_Interval
  <2>2. ASSUME NEW z \in S, z < s
        PROVE  z \in 0..s
    <3>1. z \in Nat
      OBVIOUS
    <3> QED  BY <1>1, <2>2, <3>1
  <2> QED  BY <2>1, <2>2, FS_Subset
<1>3. below(x) \subseteq below(s)
  <2>1. ASSUME NEW z \in S, z < x
        PROVE  z < s
    <3>1. z \in Nat
      OBVIOUS
    <3> QED  BY <1>1, <2>1, <3>1
  <2> QED  BY <2>1
<1>4. Cardinality(below(x)) <= Cardinality(below(s)) /\ IsFiniteSet(below(x))
  BY <1>2, <1>3, FS_Subset
<1>5. Cardinality(below(x)) \in Nat /\ Cardinality(below(s)) \in Nat
  BY <1>2, <1>4, FS_CardinalityType
<1>6. Cardinality(below(x)) < n
  BY <1>1, <1>4, <1>5
<1> QED  BY <1>6 DEF Least

\* What Forward yields is the event after the last one.
LEMMA YieldsNext ==
    ASSUME TypeOK, Inductive, InOrder, NEW r \in Run, NEW s \in batch[r],
           \A x \in batch[r] : s <= x
    PROVE  /\ s = Len(seen[r]) /\ s = next[r]
           /\ s \in event[r] /\ s \in Nat /\ s <= Final[r]
           /\ \A x \in batch[r] \ {s} : x >= s + 1
<1>1. /\ s \in Nat /\ next[r] \in Nat /\ acked[r] \in Nat /\ Final[r] \in Nat
      /\ batch[r] \subseteq Nat /\ event[r] \subseteq Nat
  BY ConstantsAssumption DEF TypeOK
<1>2. s \in event[r] /\ s >= next[r]
  BY DEF Inductive, ReadStored, InOrder, BatchInOrder
<1>3. s <= acked[r] /\ s <= Final[r]
  BY <1>1, <1>2 DEF InOrder, EventsInOrder
<1>4. CASE next[r] < s
  <2>1. next[r] \in event[r]
    BY <1>1, <1>3, <1>4 DEF InOrder, EventsInOrder
  <2>2. next[r] \in batch[r]
    BY <1>1, <1>4, <2>1 DEF InOrder, BatchInOrder
  <2> QED  BY <1>1, <1>4, <2>2
<1>5. CASE s = next[r]
  BY <1>1, <1>2, <1>3, <1>5 DEF InOrder, BatchInOrder
<1> QED  BY <1>1, <1>2, <1>4, <1>5

\* With one emit in flight, every step keeps events and batches without a gap.
LEMMA InOrderKept ==
    ASSUME Window = 1
    PROVE  TypeOK /\ Inductive /\ InOrder /\ [Next]_vars => InOrder'
<1> SUFFICES ASSUME TypeOK, Inductive, InOrder, [Next]_vars
             PROVE  InOrder'
  OBVIOUS
<1>0. \A r \in Run : /\ Final[r] \in Nat /\ acked[r] \in Nat /\ next[r] \in Nat
                     /\ event[r] \subseteq Nat /\ batch[r] \subseteq Nat /\ seen[r] \in Seq(Nat)
  BY ConstantsAssumption DEF TypeOK
<1>1. ASSUME UNCHANGED <<event, acked, next, batch, seen>>
      PROVE  InOrder'
  BY <1>1 DEF InOrder, EventsInOrder, BatchInOrder
<1>2. ASSUME NEW r \in Run, Caller(r)
      PROVE  InOrder'
  <2>1. CASE Open(r) \/ Refuse(r) \/ Deadline(r) \/ Expire(r) \/ Cancel(r)
    BY <1>1, <2>1 DEF Open, Refuse, Deadline, Expire, Cancel, workerVars, readVars
  <2>2. CASE Fetch(r)
    <3> DEFINE rows == {s \in event[r] : s >= next[r]}
    <3>1. /\ batch' = [batch EXCEPT ![r] = Least(rows, EventLimit)]
          /\ UNCHANGED <<event, acked, next, seen>>
      BY <2>2 DEF Fetch, workerVars
    <3>2. rows \in SUBSET Nat /\ EventLimit \in Nat /\ Least(rows, EventLimit) \subseteq rows
      BY <1>0, LeastSubset, ConstantsAssumption
    <3>3. \A s \in Least(rows, EventLimit) : \A x \in rows :
             x < s => x \in Least(rows, EventLimit)
      BY <3>2, LeastDownward
    <3>4. batch'[r] = Least(rows, EventLimit) /\ \A q \in Run \ {r} : batch'[q] = batch[q]
      BY <3>1 DEF TypeOK
    <3>5. EventsInOrder'
      BY <3>1 DEF InOrder, EventsInOrder
    <3>6. BatchInOrder'
      <4> SUFFICES ASSUME NEW q \in Run
                   PROVE  /\ next[q] = Len(seen[q])
                          /\ \A s \in batch'[q] : s >= next[q]
                          /\ \A s \in batch'[q] : \A x \in event[q] :
                                x >= next[q] /\ x < s => x \in batch'[q]
        BY <3>1 DEF BatchInOrder
      <4>1. CASE q = r
        BY <3>2, <3>3, <3>4, <4>1 DEF InOrder, BatchInOrder
      <4>2. CASE q # r
        BY <3>4, <4>2 DEF InOrder, BatchInOrder
      <4> QED  BY <4>1, <4>2
    <3> QED  BY <3>5, <3>6 DEF InOrder
  <2>3. CASE Forward(r)
    <3>1. PICK s \in batch[r] :
             /\ \A x \in batch[r] : s <= x
             /\ batch' = [batch EXCEPT ![r] = batch[r] \ {s}]
             /\ next' = [next EXCEPT ![r] = s + 1]
             /\ seen' = [seen EXCEPT ![r] = Append(seen[r], s)]
             /\ UNCHANGED <<event, acked>>
      BY <2>3 DEF Forward, workerVars
    <3>2. /\ s = Len(seen[r]) /\ s = next[r] /\ s \in Nat
          /\ \A x \in batch[r] \ {s} : x >= s + 1
      BY <3>1, YieldsNext
    <3>3. EventsInOrder'
      BY <3>1 DEF InOrder, EventsInOrder
    <3>4. BatchInOrder'
      <4> SUFFICES ASSUME NEW q \in Run
                   PROVE  /\ next'[q] = Len(seen'[q])
                          /\ \A y \in batch'[q] : y >= next'[q]
                          /\ \A y \in batch'[q] : \A x \in event[q] :
                                x >= next'[q] /\ x < y => x \in batch'[q]
        BY <3>1 DEF BatchInOrder
      <4>1. CASE q = r
        <5>1. /\ batch'[r] = batch[r] \ {s} /\ next'[r] = s + 1
              /\ seen'[r] = Append(seen[r], s)
          BY <3>1 DEF TypeOK
        <5>2. Len(seen'[r]) = s + 1
          <6>1. seen[r] \in Seq(Nat) /\ s \in Nat
            BY <1>0, <3>2
          <6>2. Len(Append(seen[r], s)) = Len(seen[r]) + 1
            BY <6>1
          <6> QED  BY <3>2, <5>1, <6>2
        <5>3. ASSUME NEW y \in batch[r] \ {s}, NEW x \in event[r], x >= s + 1, x < y
              PROVE  x \in batch[r] \ {s}
          BY <1>0, <3>2, <5>3 DEF InOrder, BatchInOrder
        <5> QED  BY <3>2, <4>1, <5>1, <5>2, <5>3
      <4>2. CASE q # r
        <5>1. batch'[q] = batch[q] /\ next'[q] = next[q] /\ seen'[q] = seen[q]
          BY <3>1, <4>2 DEF TypeOK
        <5> QED  BY <5>1 DEF InOrder, BatchInOrder
      <4> QED  BY <4>1, <4>2
    <3> QED  BY <3>3, <3>4 DEF InOrder
  <2>4. CASE Drop(r)
    <3>1. batch' = [batch EXCEPT ![r] = {}] /\ UNCHANGED <<event, acked, next, seen>>
      BY <2>4 DEF Drop, workerVars
    <3>2. \A q \in Run : batch'[q] \in {batch[q], {}}
      BY <3>1 DEF TypeOK
    <3> QED  BY <3>1, <3>2 DEF InOrder, EventsInOrder, BatchInOrder
  <2> QED  BY <1>2, <2>1, <2>2, <2>3, <2>4 DEF Caller
<1>3. ASSUME NEW r \in Run, Remote(r)
      PROVE  InOrder'
  <2>1. ASSUME NEW s \in 0..Final[r], Emit(r, s)
        PROVE  InOrder'
    <3>1. /\ s = acked[r]
          /\ event' = [event EXCEPT ![r] = event[r] \cup {s}]
          /\ UNCHANGED <<acked, next, batch, seen>>
      BY <1>0, <2>1 DEF Emit, workerVars, readVars
    <3>2. event'[r] = event[r] \cup {s} /\ \A q \in Run \ {r} : event'[q] = event[q]
      BY <3>1 DEF TypeOK
    <3>3. EventsInOrder'
      <4> SUFFICES ASSUME NEW q \in Run
                   PROVE  /\ 0..Final[q] \cap {x \in Nat : x < acked[q]} \subseteq event'[q]
                          /\ event'[q] \subseteq 0..acked[q]
                          /\ event'[q] \subseteq 0..Final[q]
        BY <3>1 DEF EventsInOrder
      <4>1. CASE q = r
        <5>1. s \in 0..acked[r] /\ s \in 0..Final[r]
          BY <1>0, <3>1
        <5> QED  BY <3>2, <4>1, <5>1 DEF InOrder, EventsInOrder
      <4>2. CASE q # r
        BY <3>2, <4>2 DEF InOrder, EventsInOrder
      <4> QED  BY <4>1, <4>2
    <3>4. BatchInOrder'
      <4> SUFFICES ASSUME NEW q \in Run, NEW y \in batch[q], NEW x \in event'[q],
                          x >= next[q], x < y
                   PROVE  x \in batch[q]
        BY <3>1 DEF BatchInOrder, InOrder
      <4>1. CASE x \in event[q]
        BY <4>1 DEF InOrder, BatchInOrder
      <4>2. CASE q = r /\ x = s
        <5>1. y \in event[r]
          BY <4>2 DEF Inductive, ReadStored
        <5>2. y <= acked[r]
          BY <1>0, <5>1 DEF InOrder, EventsInOrder
        <5> QED  BY <1>0, <3>1, <4>2, <5>2
      <4> QED  BY <3>2, <4>1, <4>2
    <3> QED  BY <3>3, <3>4 DEF InOrder
  <2>2. CASE Answered(r)
    <3>1. /\ acked[r] \in event[r] /\ acked' = [acked EXCEPT ![r] = acked[r] + 1]
          /\ UNCHANGED <<event, next, batch, seen>>
      BY <2>2 DEF Answered, readVars
    <3>2. acked'[r] = acked[r] + 1 /\ \A q \in Run \ {r} : acked'[q] = acked[q]
      BY <3>1 DEF TypeOK
    <3>3. EventsInOrder'
      <4> SUFFICES ASSUME NEW q \in Run
                   PROVE  /\ 0..Final[q] \cap {x \in Nat : x < acked'[q]} \subseteq event[q]
                          /\ event[q] \subseteq 0..acked'[q]
                          /\ event[q] \subseteq 0..Final[q]
        BY <3>1 DEF EventsInOrder
      <4>1. CASE q = r
        <5>1. \A x \in Nat : x < acked[r] + 1 => x < acked[r] \/ x = acked[r]
          BY <1>0
        <5>2. 0..acked[r] \subseteq 0..(acked[r] + 1)
          BY <1>0
        <5> QED  BY <3>1, <3>2, <4>1, <5>1, <5>2 DEF InOrder, EventsInOrder
      <4>2. CASE q # r
        BY <3>2, <4>2 DEF InOrder, EventsInOrder
      <4> QED  BY <4>1, <4>2
    <3>4. BatchInOrder'
      BY <3>1 DEF InOrder, BatchInOrder
    <3> QED  BY <3>3, <3>4 DEF InOrder
  <2>3. CASE LoseWork(r)
    BY <1>1, <2>3 DEF LoseWork, readVars
  <2> QED  BY <1>3, <2>1, <2>2, <2>3 DEF Remote
<1>4. ASSUME NEW w \in Worker, Poll(w)
      PROVE  InOrder'
  BY <1>1, <1>4
     DEF Poll, Select, Deliver, PollFails, LoseReply, Take, workerVars, readVars
<1>5. CASE UNCHANGED vars
  BY <1>1, <1>5 DEF vars
<1> QED  BY <1>2, <1>3, <1>4, <1>5 DEF Next
\* A step that leaves what the caller and the worker have seen alone.
LEMMA StutterStep ==
    ASSUME UNCHANGED <<event, seen, phaseBar>>
    PROVE  UNCHANGED Stream!streamVars
BY DEF Stream!streamVars

\* The caller's run is over without an answer.
LEMMA CloseStep ==
    ASSUME TypeOK, NEW r \in Run, stage[r] \in {"idle", "polling", "late"},
           NEW t \in {"expired", "refused", "cancelled", "dropped"},
           stage' = [stage EXCEPT ![r] = t], UNCHANGED <<event, seen>>
    PROVE  Stream!Close(r)
<1>1. stage' \in [Run -> {"idle", "polling", "late", "answered", "expired", "refused",
                         "cancelled", "dropped"}]
  BY DEF TypeOK
<1>2. stage'[r] = t /\ \A q \in Run \ {r} : stage'[q] = stage[q]
  BY DEF TypeOK
<1>3. phaseBar[r] = "open"
  BY DEF phaseBar
<1>4. phaseBar' = [phaseBar EXCEPT ![r] = "gone"]
  BY <1>2 DEF phaseBar
<1> QED  BY <1>3, <1>4 DEF Stream!Close

\* Every step of the gateway is a step of the event stream or a stutter.
LEMMA StepMaps ==
    ASSUME Window = 1
    PROVE  TypeOK /\ Inductive /\ InOrder /\ [Next]_vars
               => [Stream!StreamNext]_(Stream!streamVars)
<1> SUFFICES ASSUME TypeOK, Inductive, InOrder, [Next]_vars
             PROVE  Stream!StreamNext \/ UNCHANGED Stream!streamVars
  OBVIOUS
<1>0. \A r \in Run : Final[r] \in Nat /\ acked[r] \in Nat
  BY ConstantsAssumption DEF TypeOK
<1>1. ASSUME NEW r \in Run, Caller(r)
      PROVE  Stream!StreamNext \/ UNCHANGED Stream!streamVars
  <2>1. CASE Open(r)
    <3>1. stage[r] = "idle" /\ stage' = [stage EXCEPT ![r] = "polling"]
      BY <2>1 DEF Open
    <3>2. phaseBar' = phaseBar
      <4>1. \A q \in Run : \/ stage'[q] = stage[q]
                           \/ stage[q] = "idle" /\ stage'[q] = "polling"
        BY <3>1 DEF TypeOK
      <4> QED  BY <4>1 DEF phaseBar
    <3> QED  BY <2>1, <3>2, StutterStep DEF Open, readVars
  <2>2. CASE Refuse(r)
    BY <2>2, CloseStep DEF Refuse, readVars, Stream!StreamNext
  <2>3. CASE Fetch(r)
    BY <2>3, StutterStep DEF Fetch, phaseBar
  <2>4. CASE Forward(r)
    <3>1. PICK s \in batch[r] :
             /\ \A x \in batch[r] : s <= x
             /\ stage[r] = "polling"
             /\ seen' = [seen EXCEPT ![r] = Append(seen[r], s)]
             /\ stage' = [stage EXCEPT ![r] = IF s = Final[r] THEN "answered" ELSE stage[r]]
             /\ UNCHANGED event
      BY <2>4 DEF Forward
    <3>2. s = Len(seen[r]) /\ s \in event[r]
      BY <3>1, YieldsNext
    <3>3. stage'[r] = (IF s = Final[r] THEN "answered" ELSE "polling")
          /\ \A q \in Run \ {r} : stage'[q] = stage[q]
      BY <3>1 DEF TypeOK
    <3>4. phaseBar[r] = "open"
      BY <3>1 DEF phaseBar
    <3>5. phaseBar' = [phaseBar EXCEPT ![r] = IF s = Final[r] THEN "answered" ELSE "open"]
      <4>1. CASE s = Final[r]  BY <3>3, <4>1 DEF phaseBar
      <4>2. CASE s # Final[r]  BY <3>1, <3>3, <4>2 DEF phaseBar
      <4> QED  BY <4>1, <4>2
    <3> QED  BY <3>1, <3>2, <3>4, <3>5 DEF Stream!Read, Stream!StreamNext
  <2>5. CASE Deadline(r)
    <3>1. stage[r] = "polling" /\ stage' = [stage EXCEPT ![r] = "late"]
      BY <2>5 DEF Deadline
    <3>2. phaseBar' = phaseBar
      <4>1. \A q \in Run : \/ stage'[q] = stage[q]
                           \/ stage[q] = "polling" /\ stage'[q] = "late"
        BY <3>1 DEF TypeOK
      <4> QED  BY <4>1 DEF phaseBar
    <3> QED  BY <2>5, <3>2, StutterStep DEF Deadline, readVars
  <2>6. CASE Expire(r)
    BY <2>6, CloseStep DEF Expire, readVars, Stream!StreamNext
  <2>7. CASE Cancel(r)
    BY <2>7, CloseStep DEF Cancel, readVars, Stream!StreamNext
  <2>8. CASE Drop(r)
    BY <2>8, CloseStep DEF Drop, Stream!StreamNext
  <2> QED  BY <1>1, <2>1, <2>2, <2>3, <2>4, <2>5, <2>6, <2>7, <2>8 DEF Caller
<1>2. ASSUME NEW r \in Run, Remote(r)
      PROVE  Stream!StreamNext \/ UNCHANGED Stream!streamVars
  <2>1. ASSUME NEW s \in 0..Final[r], Emit(r, s)
        PROVE  Stream!StreamNext
    <3>1. s = acked[r] /\ event' = [event EXCEPT ![r] = event[r] \cup {s}]
      BY <1>0, <2>1 DEF Emit
    <3>2. \A x \in 0..Final[r] : x < s => x \in event[r]
      BY <3>1 DEF InOrder, EventsInOrder
    <3>3. UNCHANGED <<seen, phaseBar>>
      BY <2>1 DEF Emit, readVars, phaseBar
    <3> QED  BY <3>1, <3>2, <3>3 DEF Stream!Write, Stream!StreamNext
  <2>2. CASE Answered(r)
    BY <2>2, StutterStep DEF Answered, readVars, phaseBar
  <2>3. CASE LoseWork(r)
    BY <2>3, StutterStep DEF LoseWork, readVars, phaseBar
  <2> QED  BY <1>2, <2>1, <2>2, <2>3 DEF Remote
<1>3. ASSUME NEW w \in Worker, Poll(w)
      PROVE  UNCHANGED Stream!streamVars
  BY <1>3, StutterStep
     DEF Poll, Select, Deliver, PollFails, LoseReply, Take, readVars, phaseBar
<1>4. CASE UNCHANGED vars
  BY <1>4, StutterStep DEF vars, phaseBar
<1> QED  BY <1>1, <1>2, <1>3, <1>4 DEF Next

\* The gateway implements the event stream: with a worker that awaits the response of
\* each emit, the caller gets its events once, in order and without a gap, through any
\* interleaving of polls, retries, lost responses, timeouts and deaths.
THEOREM GatewayImplementsStream == ASSUME Window = 1 PROVE Spec => ImplementsStream
<1>1. Init => InOrder
  BY DEF Init, InOrder, EventsInOrder, BatchInOrder
<1>2. Init => Stream!StreamInit
  BY DEF Init, Stream!StreamInit, phaseBar
<1> QED
  BY <1>1, <1>2, InductiveHolds, InOrderKept, StepMaps, PTL
     DEF Spec, ImplementsStream, Stream!StreamSpec
-----------------------------------------------------------------------------
(* What the caller gets with any number of emits in flight.                *)

\* The events a caller has been given rise, are stored and come before what it reads
\* next; the terminal one is given exactly to the caller that is answered.
Rising ==
    \A r \in Run :
        /\ \A i, j \in 1..Len(seen[r]) : i < j => seen[r][i] < seen[r][j]
        /\ \A i \in 1..Len(seen[r]) :
              seen[r][i] \in event[r] /\ seen[r][i] <= Final[r] /\ seen[r][i] < next[r]
        /\ stage[r] = "answered" <=> \E i \in 1..Len(seen[r]) : seen[r][i] = Final[r]
        /\ \A s \in batch[r] : s >= next[r]
        /\ event[r] \subseteq 0..Final[r]

\* One event yielded keeps the order.
LEMMA ForwardKeepsRising ==
  ASSUME TypeOK, ReadStored, Rising, NEW r \in Run, Forward(r)
  PROVE  Rising'
<1>1. PICK s \in batch[r] :
         /\ \A x \in batch[r] : s <= x
         /\ batch' = [batch EXCEPT ![r] = batch[r] \ {s}]
         /\ next' = [next EXCEPT ![r] = s + 1]
         /\ seen' = [seen EXCEPT ![r] = Append(seen[r], s)]
         /\ stage' = [stage EXCEPT ![r] = IF s = Final[r] THEN "answered" ELSE stage[r]]
         /\ stage[r] = "polling"
         /\ UNCHANGED event
  BY DEF Forward
<1> DEFINE old == seen[r]
           new == seen'[r]
<1>2. /\ s \in Nat /\ next[r] \in Nat /\ Final[r] \in Nat /\ old \in Seq(Nat)
      /\ batch[r] \subseteq Nat /\ event[r] \subseteq Nat
  BY ConstantsAssumption DEF TypeOK
<1>3. s \in event[r] /\ s >= next[r] /\ s <= Final[r]
  BY <1>2 DEF ReadStored, Rising
<1>4. /\ Len(new) = Len(old) + 1 /\ new[Len(old) + 1] = s
      /\ \A i \in 1..Len(old) : new[i] = old[i]
  BY <1>1, <1>2 DEF TypeOK
<1>5. \A i \in 1..Len(old) : old[i] \in Nat /\ old[i] < s /\ old[i] # Final[r]
  <2> SUFFICES ASSUME NEW i \in 1..Len(old) PROVE old[i] \in Nat /\ old[i] < s /\ old[i] # Final[r]
    OBVIOUS
  <2>1. old[i] \in Nat
    BY <1>2
  <2>2. old[i] < next[r] /\ old[i] # Final[r]
    BY <1>1 DEF Rising
  <2> QED
    BY <1>2, <1>3, <2>1, <2>2
<1>6. Len(old) \in Nat
  BY <1>2
<1>7. \A i, j \in 1..Len(new) : i < j => new[i] < new[j]
  <2> SUFFICES ASSUME NEW i \in 1..Len(new), NEW j \in 1..Len(new), i < j PROVE new[i] < new[j]
    OBVIOUS
  <2>1. CASE j = Len(old) + 1
    BY <1>4, <1>5, <1>6, <2>1
  <2>2. CASE j # Len(old) + 1
    BY <1>4, <1>6, <2>2 DEF Rising
  <2> QED
    BY <2>1, <2>2
<1>8. \A i \in 1..Len(new) : new[i] \in event[r] /\ new[i] <= Final[r] /\ new[i] < s + 1
  <2> SUFFICES ASSUME NEW i \in 1..Len(new)
               PROVE  new[i] \in event[r] /\ new[i] <= Final[r] /\ new[i] < s + 1
    OBVIOUS
  <2>1. CASE i = Len(old) + 1
    BY <1>2, <1>3, <1>4, <2>1
  <2>2. CASE i # Len(old) + 1
    <3>1. i \in 1..Len(old)
      BY <1>4, <1>6, <2>2
    <3>2. old[i] \in event[r] /\ old[i] <= Final[r] /\ old[i] < next[r]
      BY <3>1 DEF Rising
    <3> QED
      BY <1>2, <1>4, <1>5, <3>1, <3>2
  <2> QED
    BY <2>1, <2>2
<1>9. stage'[r] = "answered" <=> \E i \in 1..Len(new) : new[i] = Final[r]
  <2>1. stage'[r] = "answered" <=> s = Final[r]
    BY <1>1 DEF TypeOK
  <2>2. (\E i \in 1..Len(new) : new[i] = Final[r]) <=> s = Final[r]
    BY <1>4, <1>5, <1>6
  <2> QED
    BY <2>1, <2>2
<1>10. next'[r] = s + 1 /\ \A x \in batch'[r] : x >= s + 1
  BY <1>1, <1>2 DEF TypeOK
<1>11. \A q \in Run \ {r} : /\ seen'[q] = seen[q] /\ stage'[q] = stage[q]
                            /\ next'[q] = next[q] /\ batch'[q] = batch[q]
  BY <1>1 DEF TypeOK
<1> HIDE DEF new, old
<1>12. ASSUME NEW q \in Run
       PROVE  /\ \A i, j \in 1..Len(seen'[q]) : i < j => seen'[q][i] < seen'[q][j]
              /\ \A i \in 1..Len(seen'[q]) :
                    seen'[q][i] \in event'[q] /\ seen'[q][i] <= Final[q] /\ seen'[q][i] < next'[q]
              /\ stage'[q] = "answered" <=> \E i \in 1..Len(seen'[q]) : seen'[q][i] = Final[q]
              /\ \A x \in batch'[q] : x >= next'[q]
              /\ event'[q] \subseteq 0..Final[q]
  <2>1. CASE q = r
    BY <1>1, <1>7, <1>8, <1>9, <1>10, <2>1 DEF new, Rising
  <2>2. CASE q # r
    BY <1>1, <1>11, <2>2 DEF Rising
  <2> QED
    BY <2>1, <2>2
<1> QED
  BY <1>12 DEF Rising

\* A step that yields nothing keeps it, if it adds no early row to a batch and no row
\* beyond the last, and neither answers a caller nor forgets an answer.
LEMMA QuietKeepsRising ==
  ASSUME TypeOK, Rising, UNCHANGED <<seen, next>>,
         \A r \in Run : /\ event[r] \subseteq event'[r] /\ event'[r] \subseteq 0..Final[r]
                        /\ stage'[r] = "answered" <=> stage[r] = "answered"
                        /\ \A s \in batch'[r] : s >= next[r]
  PROVE  Rising'
  BY DEF Rising

\* No step yields an event out of order, or answers without the terminal event.
LEMMA RisingKept == TypeOK /\ ReadStored /\ Rising /\ [Next]_vars => Rising'
<1> SUFFICES ASSUME TypeOK, ReadStored, Rising, [Next]_vars PROVE Rising'
  OBVIOUS
<1>0. \A r \in Run : event[r] \subseteq 0..Final[r] /\ \A s \in batch[r] : s >= next[r]
  BY DEF Rising
<1>1. ASSUME NEW r \in Run, Caller(r) PROVE Rising'
  <2>1. CASE Forward(r)
    BY <2>1, ForwardKeepsRising
  <2>2. CASE Fetch(r)
    <3>1. \A q \in Run : batch'[q] = batch[q] \/ batch'[q] \subseteq {s \in event[q] : s >= next[q]}
      <4>1. \A q \in Run \ {r} : batch'[q] = batch[q]
        BY <2>2 DEF Fetch, TypeOK
      <4>2. batch'[r] \subseteq {s \in event[r] : s >= next[r]}
        BY <2>2, LeastSubset DEF Fetch, TypeOK
      <4> QED
        BY <4>1, <4>2
    <3>2. UNCHANGED <<event, stage, seen, next>>
      BY <2>2 DEF Fetch
    <3> QED
      BY <1>0, <3>1, <3>2, QuietKeepsRising
  <2>3. CASE Open(r) \/ Refuse(r) \/ Deadline(r) \/ Expire(r) \/ Cancel(r)
    <3>1. UNCHANGED <<event, batch, seen, next>>
      BY <2>3 DEF Open, Refuse, Deadline, Expire, Cancel, readVars
    <3>2. /\ stage[r] \in {"idle", "polling", "late"} /\ stage'[r] # "answered"
          /\ \A q \in Run \ {r} : stage'[q] = stage[q]
      BY <2>3 DEF Open, Refuse, Deadline, Expire, Cancel, TypeOK
    <3> QED
      BY <1>0, <3>1, <3>2, QuietKeepsRising
  <2>4. CASE Drop(r)
    <3>1. /\ UNCHANGED <<event, seen, next>>
          /\ \A q \in Run : batch'[q] \subseteq batch[q]
      BY <2>4 DEF Drop, TypeOK
    <3>2. /\ stage[r] \in {"polling", "late"} /\ stage'[r] # "answered"
          /\ \A q \in Run \ {r} : stage'[q] = stage[q]
      BY <2>4 DEF Drop, TypeOK
    <3> QED
      BY <1>0, <3>1, <3>2, QuietKeepsRising
  <2> QED
    BY <1>1, <2>1, <2>2, <2>3, <2>4 DEF Caller
<1>2. ASSUME NEW r \in Run, NEW s \in 0..Final[r], Emit(r, s) PROVE Rising'
  <2>1. /\ UNCHANGED <<batch, stage, seen, next>>
        /\ \A q \in Run : event'[q] = event[q] \/ (q = r /\ event'[q] = event[q] \cup {s})
    BY <1>2 DEF Emit, readVars, TypeOK
  <2> QED
    BY <1>0, <2>1, QuietKeepsRising
<1>3. ASSUME UNCHANGED <<event, batch, stage, seen, next>> PROVE Rising'
  BY <1>0, <1>3, QuietKeepsRising
<1>4. ASSUME NEW w \in Worker, Poll(w) PROVE UNCHANGED <<event, batch, stage, seen, next>>
  BY <1>4 DEF Poll, Select, Deliver, PollFails, LoseReply, Take, readVars
<1>5. ASSUME NEW r \in Run, Answered(r) \/ LoseWork(r)
      PROVE  UNCHANGED <<event, batch, stage, seen, next>>
  BY <1>5 DEF Answered, LoseWork, readVars
<1> QED
  BY <1>1, <1>2, <1>3, <1>4, <1>5 DEF Next, Remote, vars

\* However many emits a worker keeps in flight, and whatever is retried, lost or late, no
\* caller is given an event twice or after a later one, nor one that is not stored, and the
\* answer is its last.  (What a window of two does lose is an event stored too late.)
THEOREM YieldsRiseHolds ==
  Spec => [](\A r \in Run :
                /\ \A i, j \in 1..Len(seen[r]) : i < j => seen[r][i] < seen[r][j]
                /\ \A i \in 1..Len(seen[r]) : seen[r][i] \in event[r] /\ seen[r][i] <= Final[r]
                /\ stage[r] = "answered" <=> \E i \in 1..Len(seen[r]) : seen[r][i] = Final[r])
<1>1. Init => Rising
  BY DEF Init, Rising
<1>2. Inductive => ReadStored
  BY DEF Inductive
<1>3. Rising =>
        \A r \in Run :
           /\ \A i, j \in 1..Len(seen[r]) : i < j => seen[r][i] < seen[r][j]
           /\ \A i \in 1..Len(seen[r]) : seen[r][i] \in event[r] /\ seen[r][i] <= Final[r]
           /\ stage[r] = "answered" <=> \E i \in 1..Len(seen[r]) : seen[r][i] = Final[r]
  BY DEF Rising
<1> QED
  BY <1>1, <1>2, <1>3, InductiveHolds, RisingKept, PTL DEF Spec

\* With a worker that awaits each response, the n-th event yielded is the n-th of the run.
Numbered == \A r \in Run : \A i \in 1..Len(seen[r]) : seen[r][i] = i - 1

\* With one emit in flight, the next event yielded is the next event of the run.
LEMMA NumberedKept ==
  ASSUME TypeOK, Inductive, InOrder, Numbered, [Next]_vars
  PROVE  Numbered'
<1>1. ASSUME NEW r \in Run, Forward(r) PROVE Numbered'
  <2>1. PICK s \in batch[r] : /\ \A x \in batch[r] : s <= x
                              /\ seen' = [seen EXCEPT ![r] = Append(seen[r], s)]
    BY <1>1 DEF Forward
  <2>2. s = Len(seen[r]) /\ s \in Nat
    BY <2>1, YieldsNext
  <2>3. seen[r] \in Seq(Nat) /\ \A q \in Run \ {r} : seen'[q] = seen[q]
    BY <2>1 DEF TypeOK
  <2>4. /\ Len(seen'[r]) = Len(seen[r]) + 1 /\ seen'[r][Len(seen[r]) + 1] = s
        /\ \A i \in 1..Len(seen[r]) : seen'[r][i] = seen[r][i]
    BY <2>1, <2>2, <2>3 DEF TypeOK
  <2>5. \A i \in 1..Len(seen'[r]) : seen'[r][i] = i - 1
    <3> SUFFICES ASSUME NEW i \in 1..Len(seen'[r]) PROVE seen'[r][i] = i - 1
      OBVIOUS
    <3>1. CASE i = Len(seen[r]) + 1
      BY <2>2, <2>4, <3>1
    <3>2. CASE i # Len(seen[r]) + 1
      BY <2>2, <2>4, <3>2 DEF Numbered
    <3> QED
      BY <3>1, <3>2
  <2> QED
    BY <2>3, <2>5 DEF Numbered
<1>2. ASSUME UNCHANGED seen PROVE Numbered'
  BY <1>2 DEF Numbered
<1>3. ASSUME NEW r \in Run,
             Open(r) \/ Refuse(r) \/ Fetch(r) \/ Deadline(r) \/ Expire(r) \/ Cancel(r) \/ Drop(r)
               \/ Remote(r)
      PROVE  UNCHANGED seen
  BY <1>3 DEF Open, Refuse, Fetch, Deadline, Expire, Cancel, Drop, Remote, Emit, Answered, LoseWork,
              readVars
<1>4. ASSUME NEW w \in Worker, Poll(w) PROVE UNCHANGED seen
  BY <1>4 DEF Poll, Select, Deliver, PollFails, LoseReply, Take, readVars
<1> QED
  BY <1>1, <1>2, <1>3, <1>4 DEF Next, Caller, vars

\* A list with more than m + 1 members has a member at m + 2.
LEMMA OneBeyond ==
  ASSUME NEW m \in Nat, NEW n \in Nat, n > m + 1
  PROVE  m + 2 \in 1..n
  OBVIOUS

\* A caller that is answered has been given every event of its run, from the first to the
\* terminal one, each once and in its place.
THEOREM AnsweredMeansComplete ==
  ASSUME Window = 1
  PROVE  Spec => [](\A r \in Run :
                       stage[r] = "answered" => seen[r] = [i \in 1..Final[r] + 1 |-> i - 1])
<1>1. Init => InOrder /\ Rising /\ Numbered
  BY DEF Init, InOrder, EventsInOrder, BatchInOrder, Rising, Numbered
<1>2. Inductive => ReadStored
  BY DEF Inductive
<1>3. TypeOK /\ Inductive /\ InOrder /\ Rising /\ Numbered /\ [Next]_vars
        => InOrder' /\ Rising' /\ Numbered'
  BY <1>2, InOrderKept, RisingKept, NumberedKept
<1>4. TypeOK /\ Rising /\ Numbered =>
        \A r \in Run : stage[r] = "answered" => seen[r] = [i \in 1..Final[r] + 1 |-> i - 1]
  <2> SUFFICES ASSUME TypeOK, Rising, Numbered, NEW r \in Run, stage[r] = "answered"
               PROVE  seen[r] = [i \in 1..Final[r] + 1 |-> i - 1]
    OBVIOUS
  <2>1. seen[r] \in Seq(Nat) /\ Len(seen[r]) \in Nat /\ Final[r] \in Nat
    BY ConstantsAssumption DEF TypeOK
  <2>2. PICK i \in 1..Len(seen[r]) : seen[r][i] = Final[r]
    BY DEF Rising
  <2>3. i = Final[r] + 1
    BY <2>1, <2>2 DEF Numbered
  <2>4. Len(seen[r]) <= Final[r] + 1
    <3> SUFFICES ASSUME Len(seen[r]) > Final[r] + 1 PROVE FALSE
      BY <2>1
    <3>1. Final[r] + 2 \in 1..Len(seen[r])
      BY <2>1, OneBeyond
    <3>2. seen[r][Final[r] + 2] = Final[r] + 1 /\ seen[r][Final[r] + 2] <= Final[r]
      BY <2>1, <3>1 DEF Numbered, Rising
    <3> QED
      BY <2>1, <3>2
  <2>5. Len(seen[r]) = Final[r] + 1
    BY <2>1, <2>2, <2>3, <2>4
  <2>6. seen[r] = [k \in 1..Len(seen[r]) |-> seen[r][k]]
    BY <2>1
  <2> QED
    BY <2>5, <2>6 DEF Numbered
<1> QED
  BY <1>1, <1>3, <1>4, InductiveHolds, PTL DEF Spec
-----------------------------------------------------------------------------
(* What a remote worker is told.                                           *)

\* A run is started at most once: one that a worker has aborted, lost or is at work on is
\* not started again, by no lost response, retried poll or second replica.
THEOREM StartsOnce ==
  Spec => [][\A r \in Run : work[r] # "none" =>
                work'[r] # "none" /\ (work'[r] = "running" => work[r] = "running")]_vars
<1>1. ASSUME TypeOK, Inductive, [Next]_vars, NEW r \in Run, work[r] # "none"
      PROVE  work'[r] # "none" /\ (work'[r] = "running" => work[r] = "running")
  <2>1. ASSUME NEW w \in Worker, Take(w)
        PROVE  work'[r] # "none" /\ (work'[r] = "running" => work[r] = "running")
    <3>1. <<r, "run">> \notin reply[w]
      BY <1>1 DEF Inductive, RepliedClaimed, Kind
    <3> QED
      BY <1>1, <2>1, <3>1 DEF Take
  <2>2. ASSUME NEW q \in Run, LoseWork(q)
        PROVE  work'[r] # "none" /\ (work'[r] = "running" => work[r] = "running")
    BY <1>1, <2>2 DEF LoseWork, TypeOK
  <2>3. ASSUME UNCHANGED work
        PROVE  work'[r] # "none" /\ (work'[r] = "running" => work[r] = "running")
    BY <1>1, <2>3
  <2>4. ASSUME NEW w \in Worker, Select(w) \/ Deliver(w) \/ PollFails(w) \/ LoseReply(w)
        PROVE  UNCHANGED work
    BY <2>4 DEF Select, Deliver, PollFails, LoseReply, workerVars
  <2>5. ASSUME NEW q \in Run, Caller(q) PROVE UNCHANGED work
    BY <2>5 DEF Caller, Open, Refuse, Fetch, Forward, Deadline, Expire, Cancel, Drop, workerVars
  <2>6. ASSUME NEW q \in Run, Answered(q) \/ \E s \in 0..Final[q] : Emit(q, s) PROVE UNCHANGED work
    BY <2>6 DEF Answered, Emit, workerVars
  <2> QED
    BY <1>1, <2>1, <2>2, <2>3, <2>4, <2>5, <2>6 DEF Next, Remote, Poll, vars
<1>2. TypeOK /\ Inductive /\ [Next]_vars =>
        \A r \in Run : work[r] # "none" =>
           work'[r] # "none" /\ (work'[r] = "running" => work[r] = "running")
  BY <1>1
<1> QED
  BY <1>2, InductiveHolds, PTL DEF Spec

\* No poll ever hands out a cancel row and no worker aborts a run for one, whether the
\* direction of a loaded row is an enum or a string: the row is either never written or
\* closed in the transaction that wrote it.
THEOREM CancelNeverDelivered ==
  Spec => [](/\ \A w \in Worker : \A r \in Run : <<r, "cancel">> \notin locked[w] \cup reply[w]
             /\ \A r \in Run : work[r] # "aborted")
<1>1. Inductive => \A w \in Worker : \A r \in Run : <<r, "cancel">> \notin locked[w] \cup reply[w]
  BY DEF Inductive, LockedPending, CancelUnseen, Kind
<1> DEFINE None == \A r \in Run : work[r] # "aborted"
<1>2. Init => None
  BY DEF Init
<1>3. TypeOK /\ Inductive /\ None /\ [Next]_vars => None'
  <2> SUFFICES ASSUME TypeOK, Inductive, None, [Next]_vars PROVE None'
    OBVIOUS
  <2>1. ASSUME NEW w \in Worker, Take(w) PROVE None'
    BY <2>1 DEF Take, Inductive, CancelUnseen
  <2>2. ASSUME NEW q \in Run, LoseWork(q) PROVE None'
    BY <2>2 DEF LoseWork, TypeOK
  <2>3. ASSUME UNCHANGED work PROVE None'
    BY <2>3
  <2>4. ASSUME NEW w \in Worker, Select(w) \/ Deliver(w) \/ PollFails(w) \/ LoseReply(w)
        PROVE  UNCHANGED work
    BY <2>4 DEF Select, Deliver, PollFails, LoseReply, workerVars
  <2>5. ASSUME NEW q \in Run, Caller(q) PROVE UNCHANGED work
    BY <2>5 DEF Caller, Open, Refuse, Fetch, Forward, Deadline, Expire, Cancel, Drop, workerVars
  <2>6. ASSUME NEW q \in Run, Answered(q) \/ \E s \in 0..Final[q] : Emit(q, s) PROVE UNCHANGED work
    BY <2>6 DEF Answered, Emit, workerVars
  <2> QED
    BY <2>1, <2>2, <2>3, <2>4, <2>5, <2>6 DEF Next, Remote, Poll, vars
<1> QED
  BY <1>1, <1>2, <1>3, InductiveHolds, PTL DEF Spec
=============================================================================
